----------------------------- MODULE RetryQueue -----------------------------
(***************************************************************************)
(* What a session's queue promises, without saying how: a submitted row is *)
(* claimed some number of times, each claim may consume it, it is          *)
(* completed only once consumed, and it is given up on only after "Tries"  *)
(* claims. Nothing leaves a verdict.                                       *)
(***************************************************************************)
EXTENDS Naturals

CONSTANTS Rows, Tries

VARIABLES
  verdict,    \* absent, pending, completed, failed
  claims,     \* how often a row was claimed, counted up to Tries
  consumed    \* rows whose effect has taken place at least once

vars == <<verdict, claims, consumed>>

Init ==
  /\ verdict = [r \in Rows |-> "absent"]
  /\ claims = [r \in Rows |-> 0]
  /\ consumed = {}

Open == {r \in Rows : verdict[r] = "pending"}

Submit(r) ==
  /\ verdict[r] = "absent"
  /\ verdict' = [verdict EXCEPT ![r] = "pending"]
  /\ UNCHANGED <<claims, consumed>>

Claim(S) ==
  /\ S \subseteq Open
  /\ claims' = [r \in Rows |-> IF r \in S /\ claims[r] < Tries THEN claims[r] + 1 ELSE claims[r]]
  /\ UNCHANGED <<verdict, consumed>>

Consume(S) ==
  /\ S \subseteq {r \in Open : claims[r] > 0}
  /\ consumed' = consumed \union S
  /\ UNCHANGED <<verdict, claims>>

Complete(S) ==
  /\ S \subseteq Open \intersect consumed
  /\ verdict' = [r \in Rows |-> IF r \in S THEN "completed" ELSE verdict[r]]
  /\ UNCHANGED <<claims, consumed>>

GiveUp(S) ==
  /\ S \subseteq {r \in Open : claims[r] = Tries}
  /\ verdict' = [r \in Rows |-> IF r \in S THEN "failed" ELSE verdict[r]]
  /\ UNCHANGED <<claims, consumed>>

Next ==
  \/ \E r \in Rows : Submit(r)
  \/ \E S \in SUBSET Rows : Claim(S) \/ Consume(S) \/ Complete(S) \/ GiveUp(S)

Spec == Init /\ [][Next]_vars
=============================================================================

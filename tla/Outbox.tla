------------------------------- MODULE Outbox -------------------------------
(***************************************************************************)
(* What outbound delivery promises, without loops, guards or counters: a   *)
(* row is attempted only when its turn has come, takes effect once for     *)
(* every attempt that was cut short and once more, is given up on only     *)
(* after "Attempts" failures of its own, and keeps its verdict. A crash    *)
(* cuts short one attempt of each session at most.                         *)
(***************************************************************************)
EXTENDS Naturals

CONSTANTS Rows, Home, Attempts

VARIABLES
  clock,      \* the current second
  stamp,      \* the second a row was written in, 0 before
  verdict,    \* none, delivered, failed
  landed,     \* how often a row took effect
  faults      \* how many attempts of a row were cut short

vars == <<clock, stamp, verdict, landed, faults>>

Init ==
  /\ clock = 1
  /\ stamp = [m \in Rows |-> 0]
  /\ verdict = [m \in Rows |-> "none"]
  /\ landed = [m \in Rows |-> 0]
  /\ faults = [m \in Rows |-> 0]

(* Every earlier row of the same session was settled or at least tried.    *)
Turn ==
  {m \in Rows :
     /\ stamp[m] > 0 /\ verdict[m] = "none"
     /\ \A n \in Rows :
          (Home[n] = Home[m] /\ stamp[n] > 0 /\ stamp[n] < stamp[m])
            => verdict[n] # "none" \/ faults[n] > 0}

Write(m) ==
  /\ stamp[m] = 0
  /\ stamp' = [stamp EXCEPT ![m] = clock]
  /\ UNCHANGED <<clock, verdict, landed, faults>>

Tick ==
  /\ clock' = clock + 1
  /\ UNCHANGED <<stamp, verdict, landed, faults>>

Land(m) ==
  /\ m \in Turn /\ landed[m] <= faults[m]
  /\ landed' = [landed EXCEPT ![m] = @ + 1]
  /\ UNCHANGED <<clock, stamp, verdict, faults>>

Settle(m) ==
  /\ m \in Turn
  /\ verdict' = [verdict EXCEPT ![m] = "delivered"]
  /\ UNCHANGED <<clock, stamp, landed, faults>>

Fault(m) ==
  /\ m \in Turn
  /\ faults' = [faults EXCEPT ![m] = @ + 1]
  /\ \/ UNCHANGED verdict
     \/ /\ faults'[m] >= Attempts
        /\ verdict' = [verdict EXCEPT ![m] = "failed"]
  /\ UNCHANGED <<clock, stamp, landed>>

Crash(S) ==
  /\ S \subseteq Turn
  /\ \A m, n \in S : Home[m] = Home[n] => m = n
  /\ faults' = [m \in Rows |-> IF m \in S THEN faults[m] + 1 ELSE faults[m]]
  /\ UNCHANGED <<clock, stamp, verdict, landed>>

Next ==
  \/ \E m \in Rows : Write(m) \/ Land(m) \/ Settle(m) \/ Fault(m)
  \/ Tick
  \/ \E S \in SUBSET Rows : Crash(S)

Spec == Init /\ [][Next]_vars
=============================================================================

--------------------------- MODULE SessionTables ---------------------------
(***************************************************************************)
(* The tables one session's host and agent container share.                *)
(*                                                                         *)
(*   inbound.db   messages_in     written by the host only                 *)
(*   outbound.db  processing_ack  written by the container; the host only  *)
(*                                deletes orphan claims from it            *)
(*                                                                         *)
(* Times are abstracted to the comparisons the code makes with them: a row *)
(* is deferred while its process_after lies in the future, a claim's age   *)
(* is the number of tolerances it has outlived, and a claim is silent      *)
(* while the heartbeat file is no newer than the claim.                    *)
(***************************************************************************)
EXTENDS Naturals, FiniteSets

CONSTANTS
  Msgs,        \* ids of messages_in rows
  Kinds,       \* the kinds of row that arrive in this instance
  MaxTries,    \* MAX_TRIES of host-sweep.ts
  PromptCap    \* maxMessagesPerPrompt of container.json

(* chat     an ordinary row the router wakes the agent for (trigger = 1)   *)
(* context  a row stored for context only (trigger = 0)                    *)
(* task     a scheduled row: no wake on insert, may carry a pre-task script*)
(* clear    a chat row that is the /clear command                          *)
(* command  a chat row that is another slash command                       *)
(* restart  a row for the first poll of a fresh container (on_wake = 1)    *)
AllKinds == {"chat", "context", "task", "clear", "command", "restart"}

ASSUME TablesAssumption ==
  /\ IsFiniteSet(Msgs)
  /\ Kinds \subseteq AllKinds
  /\ MaxTries \in Nat
  /\ PromptCap \in Nat \ {0}

VARIABLES
  kind, status, seq, tries,   \* columns of messages_in
  deferred,                   \* rows whose process_after is in the future
  ack,                        \* processing_ack: "none" when there is no row
  age,                        \* 0 fresh, 1 over CLAIM_STUCK_MS, 2 over a declared Bash timeout too
  silent,                     \* claims made at or after the last heartbeat
  attempts                    \* history: how often a row was claimed, capped at MaxTries + 1

inboundVars  == <<kind, status, seq, tries, deferred>>
ackVars      == <<ack, age, silent, attempts>>
tableVars    == <<inboundVars, ackVars>>

TablesTypeOK ==
  /\ kind \in [Msgs -> AllKinds]
  /\ status \in [Msgs -> {"absent", "pending", "completed", "failed"}]
  /\ seq \in [Msgs -> Nat]
  /\ tries \in [Msgs -> 0..MaxTries]
  /\ deferred \subseteq Msgs
  /\ ack \in [Msgs -> {"none", "processing", "completed"}]
  /\ age \in [Msgs -> 0..2]
  /\ silent \subseteq Msgs
  /\ attempts \in [Msgs -> 0..(MaxTries + 1)]

TablesInit ==
  /\ kind = [m \in Msgs |-> "chat"]
  /\ status = [m \in Msgs |-> "absent"]
  /\ seq = [m \in Msgs |-> 0]
  /\ tries = [m \in Msgs |-> 0]
  /\ deferred = {}
  /\ ack = [m \in Msgs |-> "none"]
  /\ age = [m \in Msgs |-> 0]
  /\ silent = {}
  /\ attempts = [m \in Msgs |-> 0]

-----------------------------------------------------------------------------
(* Queries.                                                                *)

Due      == {m \in Msgs : status[m] = "pending" /\ m \notin deferred}
Wakeable == {m \in Due : kind[m] # "context"}
Claimed  == {m \in Msgs : ack[m] = "processing"}

(* The newest PromptCap rows of S, as ORDER BY seq DESC LIMIT does.        *)
Newest(S) == {m \in S : Cardinality({n \in S : seq[n] > seq[m]}) < PromptCap}

(* A deliberate fault: acked rows are not filtered out of the window.      *)
FetchUnfiltered(first) == Newest({n \in Due : kind[n] = "restart" => first})

(* getPendingMessages(first): the window is cut before acked rows are      *)
(* filtered out of it.                                                     *)
Fetch(first) ==
  {m \in Newest({n \in Due : kind[n] = "restart" => first}) : ack[m] = "none"}

-----------------------------------------------------------------------------
(* Updates of messages_in.                                                 *)

(* insertMessage: the next even seq, status pending.                       *)
InsertRow(m, k, later) ==
  /\ status[m] = "absent"
  /\ status' = [status EXCEPT ![m] = "pending"]
  /\ kind' = [kind EXCEPT ![m] = k]
  /\ seq' = [seq EXCEPT ![m] = 2 * Cardinality({n \in Msgs : status[n] # "absent"}) + 2]
  /\ deferred' = IF later THEN deferred \union {m} ELSE deferred
  /\ UNCHANGED <<tries, ackVars>>

(* syncProcessingAcks: acked rows become completed, whatever they were.    *)
SyncedStatus ==
  [m \in Msgs |-> IF ack[m] = "completed" THEN "completed" ELSE status[m]]

-----------------------------------------------------------------------------
(* Updates of processing_ack.                                              *)

Least(i, j) == IF i < j THEN i ELSE j

MarkProcessing(S) ==
  /\ ack' = [m \in Msgs |-> IF m \in S THEN "processing" ELSE ack[m]]
  /\ age' = [m \in Msgs |-> IF m \in S THEN 0 ELSE age[m]]
  /\ silent' = silent \union S
  /\ attempts' = [m \in Msgs |-> IF m \in S THEN Least(attempts[m] + 1, MaxTries + 1)
                                            ELSE attempts[m]]

MarkCompleted(S) ==
  /\ ack' = [m \in Msgs |-> IF m \in S THEN "completed" ELSE ack[m]]
  /\ age' = [m \in Msgs |-> IF m \in S THEN 0 ELSE age[m]]
  /\ UNCHANGED attempts

(* A deliberate fault: completed acks are deleted with the claims.         *)
DropEveryAck ==
  /\ ack' = [m \in Msgs |-> "none"]
  /\ age' = [m \in Msgs |-> 0]
  /\ silent' = {}
  /\ UNCHANGED attempts

(* DELETE FROM processing_ack WHERE status = 'processing'.                 *)
DropClaims ==
  /\ ack' = [m \in Msgs |-> IF ack[m] = "processing" THEN "none" ELSE ack[m]]
  /\ age' = [m \in Msgs |-> 0]
  /\ silent' = {}
  /\ UNCHANGED attempts

-----------------------------------------------------------------------------
(* The passing of time.                                                    *)

ClaimAges(m) ==
  /\ ack[m] = "processing" /\ age[m] < 2
  /\ age' = [age EXCEPT ![m] = @ + 1]
  /\ UNCHANGED <<inboundVars, ack, silent, attempts>>

BackoffElapses(m) ==
  /\ m \in deferred
  /\ deferred' = deferred \ {m}
  /\ UNCHANGED <<kind, status, seq, tries, ackVars>>
=============================================================================

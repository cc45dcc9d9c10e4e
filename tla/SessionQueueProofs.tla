------------------------- MODULE SessionQueueProofs -------------------------
(***************************************************************************)
(* Proofs about SessionQueue, for every set of rows and every value of     *)
(* MaxTries and PromptCap.                                                 *)
(***************************************************************************)
EXTENDS SessionQueue, FiniteSetTheorems, TLAPS

USE TablesAssumption

-----------------------------------------------------------------------------
(* Lemmas about the updates of the tables: each keeps the types of the     *)
(* columns it writes.                                                      *)

(* The seq that insertMessage allocates is a number.                       *)
LEMMA InsertTypes ==
  ASSUME TablesTypeOK, NEW m \in Msgs, NEW k \in AllKinds, NEW later \in BOOLEAN,
         InsertRow(m, k, later)
  PROVE  TablesTypeOK'
<1>1. Cardinality({n \in Msgs : status[n] # "absent"}) \in Nat
  BY FS_Subset, FS_CardinalityType, {n \in Msgs : status[n] # "absent"} \subseteq Msgs
<1>2. 2 * Cardinality({n \in Msgs : status[n] # "absent"}) + 2 \in Nat
  BY <1>1
<1>3. seq' \in [Msgs -> Nat]
  BY <1>2 DEF TablesTypeOK, InsertRow
<1>. QED  BY <1>3 DEF TablesTypeOK, InsertRow, ackVars

(* markProcessing, markCompleted and the deletion of claims write only     *)
(* columns of processing_ack.                                              *)
AckTypeOK ==
  /\ ack \in [Msgs -> {"none", "processing", "completed"}]
  /\ age \in [Msgs -> 0..2]
  /\ silent \subseteq Msgs
  /\ attempts \in [Msgs -> 0..(MaxTries + 1)]

LEMMA MarkProcessingTypes ==
  ASSUME AckTypeOK, NEW S \in SUBSET Msgs, MarkProcessing(S)
  PROVE  AckTypeOK'
<1>1. \A m \in Msgs : Least(attempts[m] + 1, MaxTries + 1) \in 0..(MaxTries + 1)
  BY DEF AckTypeOK, Least
<1>2. attempts' \in [Msgs -> 0..(MaxTries + 1)]
  BY <1>1 DEF AckTypeOK, MarkProcessing
<1>. QED  BY <1>2 DEF AckTypeOK, MarkProcessing

LEMMA MarkCompletedTypes ==
  ASSUME AckTypeOK, NEW S \in SUBSET Msgs, MarkCompleted(S), NEW T, Touch \/ Untouched(T)
  PROVE  AckTypeOK'
BY DEF AckTypeOK, MarkCompleted, Touch, Untouched

(* Either way the heartbeat has one of its values.                         *)
LEMMA HeartbeatTypes ==
  ASSUME RunnerTypeOK, NEW T, Touch \/ Untouched(T)
  PROVE  hb' \in {"absent", "fresh", "stale"}
BY DEF RunnerTypeOK, Touch, Untouched

LEMMA DropClaimsTypes ==
  ASSUME AckTypeOK, DropClaims
  PROVE  AckTypeOK'
BY DEF AckTypeOK, DropClaims

(* A reset never counts a row beyond MaxTries: it gives the row up instead.*)
LEMMA ResetStuckTypes ==
  ASSUME TablesTypeOK, ResetStuck
  PROVE  TablesTypeOK'
<1>1. AckTypeOK'
  BY DropClaimsTypes DEF TablesTypeOK, AckTypeOK, ResetStuck
<1>2. tries' \in [Msgs -> 0..MaxTries]
  <2>1. \A m \in Retriable \ Exhausted : tries[m] + 1 \in 0..MaxTries
    BY DEF Retriable, Exhausted, Claimed, TablesTypeOK
  <2>. QED  BY <2>1 DEF ResetStuck, TablesTypeOK
<1>3. status' \in [Msgs -> {"absent", "pending", "completed", "failed"}]
  BY DEF ResetStuck, TablesTypeOK
<1>4. deferred' \subseteq Msgs
  BY DEF ResetStuck, TablesTypeOK, Retriable, Claimed
<1>. QED  BY <1>1, <1>2, <1>3, <1>4 DEF TablesTypeOK, AckTypeOK, ResetStuck

(* A poll reads rows that are due and that no ack covers.                  *)
LEMMA FetchRows ==
  ASSUME NEW f
  PROVE  Fetch(f) \subseteq {m \in Msgs : status[m] = "pending" /\ m \notin deferred /\ ack[m] = "none"}
BY DEF Fetch, Newest, Due

-----------------------------------------------------------------------------
(* Type correctness.                                                       *)

LEMMA TypeInit == Init => TypeOK
<1>1. ASSUME TablesInit
      PROVE  TablesTypeOK
  BY <1>1 DEF TablesInit, TablesTypeOK, AllKinds
<1>2. ASSUME RunnerInit
      PROVE  RunnerTypeOK
  BY <1>2 DEF RunnerInit, RunnerTypeOK
<1>3. ASSUME HostInit
      PROVE  HostTypeOK
  BY <1>3 DEF HostInit, HostTypeOK
<1>. QED  BY <1>1, <1>2, <1>3 DEF Init, TypeOK

(* The container's steps keep the types.                                   *)
LEMMA AgentTypes ==
  ASSUME TypeOK, AgentStep
  PROVE  TypeOK'
<1>. USE DEF TypeOK, HostTypeOK, RunnerTypeOK, hostVars
<1>a. AckTypeOK
  BY DEF TablesTypeOK, AckTypeOK
<1>b. ASSUME AckTypeOK', UNCHANGED inboundVars
      PROVE  TablesTypeOK'
  BY <1>b DEF AckTypeOK, TablesTypeOK, inboundVars
<1>1. CASE Boot /\ UNCHANGED hostVars
  <2>1. AckTypeOK'
    BY <1>1, <1>a, DropClaimsTypes DEF Boot
  <2>. QED  BY <1>1, <1>b, <2>1 DEF Boot
<1>2. CASE Poll /\ UNCHANGED hostVars
  <2>1. Fetch(first) \subseteq Msgs
    BY FetchRows
  <2>2. AckTypeOK'
    <3>1. CASE MarkProcessing(Fetch(first))
      BY <3>1, <2>1, <1>a, MarkProcessingTypes
    <3>2. CASE UNCHANGED ackVars
      BY <3>2, <1>a DEF AckTypeOK, ackVars
    <3>. QED  BY <1>2, <3>1, <3>2 DEF Poll
  <2>. QED  BY <1>2, <1>b, <2>1, <2>2 DEF Poll
<1>3. CASE RunClears /\ UNCHANGED hostVars
  <2>1. AckTypeOK'
    BY <1>3, <1>a, MarkCompletedTypes, Clears(batch) \subseteq Msgs DEF RunClears, Clears
  <2>. QED  BY <1>3, <1>b, <2>1 DEF RunClears, Clears, Untouched
<1>4. CASE StartTurn /\ UNCHANGED hostVars
  <2>1. PICK gated \in SUBSET Tasks(batch) :
          MarkCompleted(gated) /\ batch' = batch \ gated /\ (Touch \/ Untouched({}))
    BY <1>4 DEF StartTurn
  <2>2. AckTypeOK'
    BY <2>1, <1>a, MarkCompletedTypes, gated \in SUBSET Msgs DEF Tasks
  <2>3. hb' \in {"absent", "fresh", "stale"}
    BY <2>1, HeartbeatTypes
  <2>. QED  BY <1>4, <1>b, <2>1, <2>2, <2>3 DEF StartTurn
<1>5. CASE (Event \/ ScriptTouch) /\ UNCHANGED hostVars
  BY <1>5 DEF Event, ScriptTouch, Touch, runnerVars, inboundVars, TablesTypeOK
<1>6. CASE Result /\ UNCHANGED hostVars
  <2>1. AckTypeOK'
    BY <1>6, <1>a, MarkCompletedTypes DEF Result
  <2>2. owed' \in Nat /\ nudged' \in BOOLEAN
    <3>1. CASE owed' \in 0..(owed - 1) /\ UNCHANGED nudged
      <4>1. owed' \in Nat
        BY <3>1
      <4>2. nudged' \in BOOLEAN
        BY <3>1, Zenon
      <4>. QED  BY <4>1, <4>2
    <3>2. CASE nudged' = TRUE /\ UNCHANGED owed
      BY <3>2, Zenon
    <3>. QED  BY <1>6, <3>1, <3>2 DEF Result
  <2>. QED  BY <1>6, <1>b, <2>1, <2>2 DEF Result, Touch
<1>7. CASE EndTurn /\ UNCHANGED hostVars
  <2>1. AckTypeOK'
    BY <1>7, <1>a, MarkCompletedTypes DEF EndTurn
  <2>. QED  BY <1>7, <1>b, <2>1 DEF EndTurn, Untouched
<1>8. CASE FollowClaim /\ UNCHANGED hostVars
  <2>1. Fetch(FALSE) \subseteq Msgs
    BY FetchRows
  <2>2. AckTypeOK'
    <3>1. CASE MarkProcessing(Fetch(FALSE))
      BY <3>1, <2>1, <1>a, MarkProcessingTypes
    <3>2. CASE UNCHANGED ackVars
      BY <3>2, <1>a DEF AckTypeOK, ackVars
    <3>. QED  BY <1>8, <3>1, <3>2 DEF FollowClaim
  <2>. QED  BY <1>8, <1>b, <2>1, <2>2 DEF FollowClaim
<1>9. CASE FollowPush /\ UNCHANGED hostVars
  <2>0. Touch \/ Untouched(follow)
    BY <1>9 DEF FollowPush
  <2>1. AckTypeOK' /\ hb' \in {"absent", "fresh", "stale"}
    BY <1>9, <1>a, <2>0, MarkCompletedTypes, HeartbeatTypes DEF FollowPush
  <2>2. owed' \in Nat /\ nudged' \in BOOLEAN
    <3>1. CASE UNCHANGED <<owed, nudged>>
      BY <3>1, Zenon
    <3>2. CASE owed' = owed + 1 /\ nudged' = FALSE
      <4>1. owed' \in Nat
        BY <3>2
      <4>2. nudged' \in BOOLEAN
        BY <3>2, Zenon
      <4>. QED  BY <4>1, <4>2
    <3>. QED  BY <1>9, <3>1, <3>2 DEF FollowPush
  <2>. QED  BY <1>9, <1>b, <2>1, <2>2 DEF FollowPush
<1>10. CASE StrayReturns /\ UNCHANGED hostVars
  <2>1. PICK gated \in SUBSET Tasks(stray) :
          /\ MarkCompleted(gated)
          /\ handled' = handled \union gated
          /\ Touch \/ Untouched({})
    BY <1>10 DEF StrayReturns
  <2>2. gated \in SUBSET Msgs
    BY DEF Tasks
  <2>3. AckTypeOK' /\ hb' \in {"absent", "fresh", "stale"}
    BY <2>1, <2>2, <1>a, MarkCompletedTypes, HeartbeatTypes
  <2>. QED  BY <1>10, <1>b, <2>1, <2>2, <2>3 DEF StrayReturns
<1>11. CASE BashStarts /\ UNCHANGED hostVars
  BY <1>11 DEF BashStarts, tableVars, inboundVars, ackVars, runnerVars, TablesTypeOK
<1>12. CASE BashEnds /\ UNCHANGED hostVars
  BY <1>12 DEF BashEnds, tableVars, inboundVars, ackVars, runnerVars, TablesTypeOK
<1>13. CASE Die /\ UNCHANGED hostVars
  BY <1>13 DEF Die, Vanish, tableVars, inboundVars, ackVars, TablesTypeOK
<1>. QED
  BY <1>1, <1>2, <1>3, <1>4, <1>5, <1>6, <1>7, <1>8, <1>9, <1>10, <1>11, <1>12, <1>13
     DEF AgentStep

(* The passing of time keeps the types.                                    *)
LEMMA TimeTypes ==
  ASSUME TypeOK, TimeStep
  PROVE  TypeOK'
<1>1. CASE HeartbeatExpires /\ UNCHANGED hostVars
  BY <1>1 DEF HeartbeatExpires, hostVars, tableVars, inboundVars, ackVars, runnerVars,
              TypeOK, TablesTypeOK, RunnerTypeOK, HostTypeOK
<1>2. ASSUME NEW m \in Msgs, ClaimAges(m), UNCHANGED <<agentVars, hostVars>>
      PROVE  TypeOK'
  BY <1>2 DEF ClaimAges, agentVars, hostVars, inboundVars, runnerVars,
              TypeOK, TablesTypeOK, RunnerTypeOK, HostTypeOK
<1>3. ASSUME NEW m \in Msgs, BackoffElapses(m), UNCHANGED <<agentVars, hostVars>>
      PROVE  TypeOK'
  BY <1>3 DEF BackoffElapses, agentVars, hostVars, ackVars, runnerVars,
              TypeOK, TablesTypeOK, RunnerTypeOK, HostTypeOK
<1>. QED  BY <1>1, <1>2, <1>3 DEF TimeStep

LEMMA TablesSame ==
  ASSUME TablesTypeOK, UNCHANGED tableVars
  PROVE  TablesTypeOK'
BY DEF TablesTypeOK, tableVars, inboundVars, ackVars

(* The host's steps keep the types.                                        *)
LEMMA HostTypes ==
  ASSUME TypeOK, HostStep
  PROVE  TypeOK'
<1>. USE DEF TypeOK, HostTypeOK, RunnerTypeOK
<1>1. ASSUME NEW m \in Msgs, Arrive(m)
      PROVE  TypeOK'
  <2>1. PICK k \in Kinds \ {"restart"} :
          /\ InsertRow(m, k, FALSE) \/ InsertRow(m, k, TRUE)
          /\ slot' = IF k \in {"context", "task"} THEN slot ELSE Wake(slot)
    BY <1>1 DEF Arrive
  <2>2. TablesTypeOK'
    BY <2>1, InsertTypes
  <2>. QED  BY <1>1, <2>1, <2>2 DEF Arrive, Wake, agentVars, runnerVars
<1>2. ASSUME NEW m \in Msgs, Restart(m)
      PROVE  TypeOK'
  <2>1. TablesTypeOK'
    BY <1>2, InsertTypes DEF Restart, AllKinds
  <2>. QED  BY <1>2, <2>1 DEF Restart, agentVars, runnerVars
<1>3. CASE RestartStops
  BY <1>3 DEF RestartStops, Vanish, tableVars, inboundVars, ackVars, TablesTypeOK
<1>4. CASE SpawnOk
  BY <1>4 DEF SpawnOk, Settle, tableVars, inboundVars, ackVars, TablesTypeOK
<1>5. CASE SpawnFails
  <2>1. TablesTypeOK'
    BY <1>5, TablesSame DEF SpawnFails
  <2>2. RunnerTypeOK'
    BY <1>5 DEF SpawnFails, agentVars, runnerVars
  <2>. QED  BY <1>5, <2>1, <2>2 DEF SpawnFails, Settle
<1>6. CASE Close
  BY <1>6, TablesSame DEF Close, agentVars, runnerVars
<1>7. CASE SweepSync
  <2>1. UNCHANGED <<kind, seq, tries, deferred, ackVars, agentVars, onExit>> /\ status' = SyncedStatus
    BY <1>7 DEF SweepSync
  <2>2. status' \in [Msgs -> {"absent", "pending", "completed", "failed"}]
    BY <2>1 DEF SyncedStatus, TablesTypeOK
  <2>3. TablesTypeOK'
    BY <2>1, <2>2 DEF ackVars, TablesTypeOK
  <2>4. RunnerTypeOK'
    BY <2>1 DEF agentVars, runnerVars
  <2>5. /\ host' \in {"free", "decide", "kill", "stop", "down"}
        /\ slot' \in {"absent", "spawning", "present"} /\ sweeping' \in BOOLEAN
    BY <1>7 DEF SweepSync, Wake
  <2>. QED  BY <2>1, <2>3, <2>4, <2>5
<1>8. CASE SweepDecide
  <2>1. TablesTypeOK'
    BY <1>8, ResetStuckTypes DEF SweepDecide, tableVars, inboundVars, ackVars, TablesTypeOK
  <2>. QED  BY <1>8, <2>1 DEF SweepDecide, agentVars, runnerVars
<1>9. CASE SweepKill
  <2>1. TablesTypeOK'
    BY <1>9, ResetStuckTypes DEF SweepKill
  <2>. QED  BY <1>9, <2>1 DEF SweepKill, Vanish
<1>10. CASE HostCrash
  BY <1>10, TablesSame DEF HostCrash, agentVars, runnerVars
<1>11. CASE HostStart
  BY <1>11 DEF HostStart, Vanish, tableVars, inboundVars, ackVars, TablesTypeOK
<1>. QED
  BY <1>1, <1>2, <1>3, <1>4, <1>5, <1>6, <1>7, <1>8, <1>9, <1>10, <1>11 DEF HostStep

LEMMA TypeStep ==
  ASSUME TypeOK, [Next]_vars
  PROVE  TypeOK'
<1>1. CASE UNCHANGED vars
  BY <1>1 DEF vars, tableVars, inboundVars, ackVars, agentVars, runnerVars, hostVars,
              TypeOK, TablesTypeOK, RunnerTypeOK, HostTypeOK
<1>. QED  BY <1>1, AgentTypes, TimeTypes, HostTypes DEF Next

(* Every reachable state is well typed.                                    *)
THEOREM TypeCorrect == Spec => []TypeOK
BY TypeInit, TypeStep, PTL DEF Spec

-----------------------------------------------------------------------------
(* The updates of the tables keep each row's columns, claim and history    *)
(* together.                                                               *)

Rows == \A m \in Msgs : RowInv(m)

LEMMA ClaimRows ==
  ASSUME TypeOK, Rows, NEW f, MarkProcessing(Fetch(f)),
         UNCHANGED inboundVars, handled' = handled
  PROVE  Rows'
<1>. SUFFICES ASSUME NEW m \in Msgs PROVE RowInv(m)'
  BY DEF Rows
<1>1. CASE m \in Fetch(f)
  <2>1. status[m] = "pending" /\ m \notin deferred /\ ack[m] = "none"
    BY <1>1, FetchRows
  <2>2. ack'[m] = "processing" /\ attempts'[m] = Least(attempts[m] + 1, MaxTries + 1)
    BY <1>1 DEF MarkProcessing
  <2>3. attempts'[m] \in Nat /\ attempts'[m] >= tries[m] + 1
    BY <2>2 DEF Rows, RowInv, TypeOK, TablesTypeOK, Least
  <2>. QED  BY <2>1, <2>2, <2>3 DEF RowInv, inboundVars, TypeOK, TablesTypeOK
<1>2. CASE m \notin Fetch(f)
  BY <1>2 DEF Rows, RowInv, MarkProcessing, inboundVars, TypeOK, TablesTypeOK
<1>. QED  BY <1>1, <1>2

LEMMA CompleteRows ==
  ASSUME TypeOK, Rows, NEW S \in SUBSET Msgs, MarkCompleted(S),
         \A m \in S : ack[m] # "none",
         S \subseteq handled', handled \subseteq handled', UNCHANGED inboundVars
  PROVE  Rows'
BY DEF Rows, RowInv, MarkCompleted, inboundVars, TypeOK, TablesTypeOK

LEMMA DropRows ==
  ASSUME TypeOK, Rows, DropClaims, UNCHANGED inboundVars, handled' = handled
  PROVE  Rows'
BY DEF Rows, RowInv, DropClaims, inboundVars, TypeOK, TablesTypeOK

(* A row's tries grow only with the claim that goes, so they never overtake *)
(* the number of times it was claimed.                                     *)
LEMMA ResetRows ==
  ASSUME TypeOK, Rows, ResetStuck, handled' = handled
  PROVE  Rows'
<1>. SUFFICES ASSUME NEW m \in Msgs PROVE RowInv(m)'
  BY DEF Rows
<1>0. RowInv(m) /\ attempts' = attempts
  BY DEF Rows, ResetStuck, DropClaims
<1>1. ack'[m] = IF ack[m] = "processing" THEN "none" ELSE ack[m]
  BY DEF ResetStuck, DropClaims
<1>2. CASE m \in Exhausted
  <2>1. ack[m] = "processing" /\ status'[m] = "failed" /\ tries'[m] = tries[m]
    BY <1>2 DEF Exhausted, Retriable, Claimed, ResetStuck
  <2>2. attempts[m] = MaxTries + 1
    BY <1>0, <1>2, <2>1 DEF RowInv, Exhausted, TypeOK, TablesTypeOK
  <2>. QED  BY <1>0, <1>1, <2>1, <2>2 DEF RowInv, TypeOK, TablesTypeOK
<1>3. CASE m \in Retriable \ Exhausted
  <2>1. ack[m] = "processing" /\ status[m] = "pending" /\ status'[m] = status[m]
          /\ tries'[m] = tries[m] + 1
    BY <1>3 DEF Retriable, Claimed, ResetStuck
  <2>. QED  BY <1>0, <1>1, <2>1 DEF RowInv, TypeOK, TablesTypeOK
<1>4. CASE m \notin Retriable
  <2>1. status'[m] = status[m] /\ tries'[m] = tries[m] /\ (m \in deferred' <=> m \in deferred)
    BY <1>4 DEF Exhausted, ResetStuck
  <2>2. ack[m] = "processing" => status[m] = "absent" \/ status[m] = "pending"
    BY <1>0 DEF RowInv, TypeOK, TablesTypeOK
  <2>. QED  BY <1>0, <1>1, <2>1, <2>2 DEF RowInv, TypeOK, TablesTypeOK
<1>. QED  BY <1>2, <1>3, <1>4 DEF Exhausted

(* A new row has neither a claim nor a past.                               *)
LEMMA InsertRows ==
  ASSUME TypeOK, Rows, NEW m \in Msgs, NEW k, NEW later, InsertRow(m, k, later),
         handled' = handled
  PROVE  Rows'
BY DEF Rows, RowInv, InsertRow, ackVars, TypeOK, TablesTypeOK

LEMMA SameRows ==
  ASSUME Rows, UNCHANGED <<tableVars, handled>>
  PROVE  Rows'
BY DEF Rows, RowInv, tableVars, inboundVars, ackVars

-----------------------------------------------------------------------------
(* The inductive invariant.                                                *)

LEMMA InvInit == Init => IInv
<1>. SUFFICES ASSUME Init PROVE IInv
  OBVIOUS
<1>1. TypeOK
  BY TypeInit
<1>2. \A m \in Msgs : RowInv(m)
  BY DEF Init, TablesInit, RowInv
<1>3. HeldInv /\ ProcessInv
  BY DEF Init, RunnerInit, HeldInv, ProcessInv
<1>. QED  BY <1>1, <1>2, <1>3 DEF IInv

LEMMA AgentInv ==
  ASSUME IInv, AgentStep
  PROVE  Rows' /\ HeldInv' /\ ProcessInv'
<1>. USE DEF HeldInv, ProcessInv, hostVars
<1>0. TypeOK /\ Rows /\ HeldInv /\ ProcessInv /\ RunnerTypeOK /\ TablesTypeOK
  BY DEF IInv, Rows, TypeOK
<1>1. CASE Boot /\ UNCHANGED hostVars
  BY <1>0, <1>1, DropRows DEF Boot
<1>2. CASE Poll /\ UNCHANGED hostVars
  <2>1. CASE MarkProcessing(Fetch(first)) /\ batch' = Fetch(first) /\ phase' = "claimed"
    <3>1. Rows'
      BY <1>0, <1>2, <2>1, ClaimRows DEF Poll
    <3>2. \A m \in batch' : ack[m] = "none" /\ ack'[m] = "processing" /\ m \in Msgs
      BY <2>1, FetchRows DEF MarkProcessing
    <3>3. \A m \in stray : ack'[m] = "processing"
      BY <1>0, <2>1 DEF MarkProcessing, RunnerTypeOK
    <3>. QED  BY <1>0, <1>2, <2>1, <3>1, <3>2, <3>3 DEF Poll
  <2>2. CASE UNCHANGED <<phase, batch, ackVars>>
    BY <1>0, <1>2, <2>2, SameRows DEF Poll, tableVars, ackVars
  <2>. QED  BY <1>2, <2>1, <2>2 DEF Poll
<1>3. CASE RunClears /\ UNCHANGED hostVars
  <2>1. Rows'
    BY <1>0, <1>3, CompleteRows DEF RunClears, Clears, RunnerTypeOK
  <2>2. \A m \in batch' \union stray : ack'[m] = "processing"
    BY <1>0, <1>3 DEF RunClears, Clears, MarkCompleted, RunnerTypeOK
  <2>. QED  BY <1>0, <1>3, <2>1, <2>2 DEF RunClears
<1>4. CASE StartTurn /\ UNCHANGED hostVars
  <2>1. PICK gated \in SUBSET Tasks(batch) : MarkCompleted(gated) /\ batch' = batch \ gated
    BY <1>4 DEF StartTurn
  <2>2. gated \subseteq batch
    BY DEF Tasks
  <2>3. Rows'
    BY <1>0, <1>4, <2>1, <2>2, CompleteRows DEF StartTurn, RunnerTypeOK
  <2>4. \A m \in batch' \union stray : ack'[m] = "processing"
    BY <1>0, <1>4, <2>1, <2>2 DEF StartTurn, MarkCompleted, RunnerTypeOK
  <2>. QED  BY <1>0, <1>4, <2>1, <2>3, <2>4 DEF StartTurn
<1>5. CASE (Event \/ ScriptTouch) /\ UNCHANGED hostVars
  BY <1>0, <1>5 DEF Event, ScriptTouch, Rows, RowInv, inboundVars, runnerVars
<1>6. CASE Result /\ UNCHANGED hostVars
  <2>1. Rows'
    BY <1>0, <1>6, CompleteRows DEF Result, RunnerTypeOK
  <2>2. \A m \in batch : ack'[m] # "none"
    BY <1>0, <1>6 DEF Result, MarkCompleted, RunnerTypeOK
  <2>3. \A m \in follow \union stray : ack'[m] = "processing"
    BY <1>0, <1>6 DEF Result, MarkCompleted, RunnerTypeOK
  <2>. QED  BY <1>0, <1>6, <2>1, <2>2, <2>3 DEF Result
<1>7. CASE EndTurn /\ UNCHANGED hostVars
  <2>1. Rows'
    BY <1>0, <1>7, CompleteRows DEF EndTurn, RunnerTypeOK
  <2>2. \A m \in follow \union stray : ack'[m] = "processing"
    BY <1>0, <1>7 DEF EndTurn, MarkCompleted, RunnerTypeOK
  <2>. QED  BY <1>0, <1>7, <2>1, <2>2 DEF EndTurn
<1>8. CASE FollowClaim /\ UNCHANGED hostVars
  <2>1. CASE MarkProcessing(Fetch(FALSE)) /\ follow' = Fetch(FALSE)
    <3>1. Rows'
      BY <1>0, <1>8, <2>1, ClaimRows DEF FollowClaim
    <3>2. \A m \in follow' : ack[m] = "none" /\ ack'[m] = "processing" /\ m \in Msgs
      BY <2>1, FetchRows DEF MarkProcessing
    <3>3. \A m \in stray : ack'[m] = "processing"
      BY <1>0, <2>1 DEF MarkProcessing, RunnerTypeOK
    <3>4. \A m \in batch : ack'[m] # "none"
      BY <1>0, <2>1 DEF MarkProcessing, RunnerTypeOK
    <3>. QED  BY <1>0, <1>8, <2>1, <3>1, <3>2, <3>3, <3>4 DEF FollowClaim
  <2>2. CASE UNCHANGED <<follow, ackVars>>
    BY <1>0, <1>8, <2>2, SameRows DEF FollowClaim, tableVars, ackVars
  <2>. QED  BY <1>8, <2>1, <2>2 DEF FollowClaim
<1>9. CASE FollowPush /\ UNCHANGED hostVars
  <2>1. Rows'
    BY <1>0, <1>9, CompleteRows DEF FollowPush, RunnerTypeOK
  <2>2. \A m \in stray : ack'[m] = "processing"
    BY <1>0, <1>9 DEF FollowPush, MarkCompleted, RunnerTypeOK
  <2>3. \A m \in batch : ack'[m] # "none"
    BY <1>0, <1>9 DEF FollowPush, MarkCompleted, RunnerTypeOK
  <2>. QED  BY <1>0, <1>9, <2>1, <2>2, <2>3 DEF FollowPush
<1>10. CASE StrayReturns /\ UNCHANGED hostVars
  <2>1. PICK gated \in SUBSET Tasks(stray) : MarkCompleted(gated) /\ handled' = handled \union gated
    BY <1>10 DEF StrayReturns
  <2>2. gated \subseteq stray
    BY DEF Tasks
  <2>3. Rows'
    BY <1>0, <1>10, <2>1, <2>2, CompleteRows DEF StrayReturns, RunnerTypeOK
  <2>4. \A m \in batch \union follow : ack'[m] = ack[m]
    BY <1>0, <2>1, <2>2 DEF MarkCompleted, RunnerTypeOK
  <2>. QED  BY <1>0, <1>10, <2>1, <2>3, <2>4 DEF StrayReturns
<1>11. CASE (BashStarts \/ BashEnds) /\ UNCHANGED hostVars
  <2>1. UNCHANGED <<tableVars, runnerVars, handled>>
    BY <1>11 DEF BashStarts, BashEnds
  <2>. QED  BY <1>0, <1>11, <2>1, SameRows DEF tableVars, ackVars, runnerVars
<1>12. CASE Die /\ UNCHANGED hostVars
  BY <1>0, <1>12, SameRows DEF Die, Vanish
<1>. QED
  BY <1>1, <1>2, <1>3, <1>4, <1>5, <1>6, <1>7, <1>8, <1>9, <1>10, <1>11, <1>12 DEF AgentStep

LEMMA TimeInv ==
  ASSUME IInv, TimeStep
  PROVE  Rows' /\ HeldInv' /\ ProcessInv'
<1>0. TypeOK /\ Rows /\ HeldInv /\ ProcessInv
  BY DEF IInv, Rows
<1>1. UNCHANGED <<status, tries, ack, attempts, runnerVars, handled, host, slot>>
        /\ deferred' \subseteq deferred
  BY DEF TimeStep, HeartbeatExpires, ClaimAges, BackoffElapses, tableVars, inboundVars,
         ackVars, agentVars, hostVars
<1>2. Rows'
  BY <1>0, <1>1 DEF Rows, RowInv
<1>3. HeldInv' /\ ProcessInv'
  BY <1>0, <1>1 DEF HeldInv, ProcessInv, runnerVars
<1>. QED  BY <1>2, <1>3

(* The process leaves nothing behind that only its memory covered.         *)
LEMMA VanishInv ==
  ASSUME HeldInv, ProcessInv, Vanish
  PROVE  HeldInv' /\ ProcessInv'
BY DEF HeldInv, ProcessInv, Vanish

LEMMA HostInv ==
  ASSUME IInv, HostStep
  PROVE  Rows' /\ HeldInv' /\ ProcessInv'
<1>0. TypeOK /\ Rows /\ HeldInv /\ ProcessInv /\ RunnerTypeOK /\ TablesTypeOK
  BY DEF IInv, Rows, TypeOK
<1>a. ASSUME UNCHANGED <<ackVars, runnerVars, handled>>,
             slot' = slot \/ slot' = "present" \/ phase = "none" \/ host' = "down",
             host' = host \/ host # "down" \/ phase = "none"
      PROVE  HeldInv' /\ ProcessInv'
  BY <1>0, <1>a DEF HeldInv, ProcessInv, ackVars, runnerVars
<1>1. ASSUME NEW m \in Msgs, Arrive(m)
      PROVE  Rows' /\ HeldInv' /\ ProcessInv'
  <2>1. PICK k \in Kinds \ {"restart"} :
          /\ InsertRow(m, k, FALSE) \/ InsertRow(m, k, TRUE)
          /\ slot' = IF k \in {"context", "task"} THEN slot ELSE Wake(slot)
    BY <1>1 DEF Arrive
  <2>2. Rows'
    BY <1>0, <1>1, <2>1, InsertRows DEF Arrive, agentVars
  <2>3. slot' = slot \/ phase = "none"
    BY <1>0, <1>1, <2>1 DEF Wake, ProcessInv, Arrive
  <2>. QED  BY <1>1, <1>a, <2>1, <2>2, <2>3 DEF Arrive, InsertRow, agentVars
<1>2. ASSUME NEW m \in Msgs, Restart(m)
      PROVE  Rows' /\ HeldInv' /\ ProcessInv'
  BY <1>0, <1>2, <1>a, InsertRows DEF Restart, InsertRow, agentVars
<1>3. CASE RestartStops \/ HostStart
  BY <1>0, <1>3, VanishInv, SameRows DEF RestartStops, HostStart
<1>4. CASE SpawnOk
  <2>1. Rows'
    BY <1>0, <1>4, SameRows DEF SpawnOk
  <2>2. phase = "none"
    BY <1>0, <1>4 DEF SpawnOk, ProcessInv
  <2>. QED  BY <1>0, <1>4, <2>1, <2>2 DEF SpawnOk, HeldInv, ProcessInv
<1>5. CASE SpawnFails
  <2>1. Rows'
    BY <1>0, <1>5, SameRows DEF SpawnFails, agentVars
  <2>2. phase = "none"
    BY <1>0, <1>5 DEF SpawnFails, ProcessInv
  <2>. QED  BY <1>5, <1>a, <2>1, <2>2 DEF SpawnFails, tableVars, agentVars
<1>6. CASE Close
  BY <1>0, <1>6, <1>a, SameRows DEF Close, tableVars, agentVars
<1>7. CASE SweepSync
  <2>1. Rows'
    BY <1>0, <1>7 DEF SweepSync, SyncedStatus, Rows, RowInv, ackVars, agentVars, TablesTypeOK
  <2>2. slot' = slot \/ phase = "none"
    BY <1>0, <1>7 DEF SweepSync, ProcessInv, Wake
  <2>. QED  BY <1>7, <1>a, <2>1, <2>2 DEF SweepSync, agentVars
<1>8. CASE SweepDecide
  <2>1. CASE slot = "present"
    BY <1>0, <1>8, <2>1, <1>a, SameRows DEF SweepDecide, tableVars, agentVars
  <2>2. CASE slot # "present"
    <3>1. Rows'
      BY <1>0, <1>8, <2>2, ResetRows DEF SweepDecide, agentVars
    <3>2. phase = "none"
      BY <1>0, <1>8, <2>2 DEF SweepDecide, ProcessInv
    <3>. QED  BY <1>0, <1>8, <3>1, <3>2 DEF SweepDecide, HeldInv, ProcessInv, agentVars, runnerVars
  <2>. QED  BY <2>1, <2>2
<1>9. CASE SweepKill
  BY <1>0, <1>9, VanishInv, ResetRows DEF SweepKill
<1>10. CASE HostCrash
  BY <1>0, <1>10, <1>a, SameRows DEF HostCrash, tableVars, agentVars
<1>. QED
  BY <1>1, <1>2, <1>3, <1>4, <1>5, <1>6, <1>7, <1>8, <1>9, <1>10 DEF HostStep

LEMMA InvStep ==
  ASSUME IInv, [Next]_vars
  PROVE  IInv'
<1>1. TypeOK'
  BY TypeStep DEF IInv
<1>2. CASE UNCHANGED vars
  BY <1>1, <1>2 DEF vars, tableVars, inboundVars, ackVars, agentVars, runnerVars, hostVars,
     IInv, RowInv, HeldInv, ProcessInv
<1>3. CASE Next
  BY <1>1, <1>3, AgentInv, TimeInv, HostInv DEF Next, IInv, Rows
<1>. QED  BY <1>2, <1>3

LEMMA Invariance == Spec => []IInv
BY InvInit, InvStep, PTL DEF Spec

-----------------------------------------------------------------------------
(* The safety properties.                                                  *)

(* No row is completed that nobody consumed.                               *)
THEOREM RowsAreConsumed == Spec => []NoSilentDrop
<1>1. IInv => NoSilentDrop
  BY DEF IInv, RowInv, NoSilentDrop
<1>. QED  BY <1>1, Invariance, PTL

(* A row is given up on only after MaxTries + 1 claims.                    *)
THEOREM RowsGetTheirTries == Spec => []NoEarlyGiveUp
<1>1. IInv => NoEarlyGiveUp
  BY DEF IInv, RowInv, NoEarlyGiveUp
<1>. QED  BY <1>1, Invariance, PTL

(* What the process holds is claimed, held once and not given up on.       *)
THEOREM HeldRowsAreCovered == Spec => []InFlightCovered
<1>1. IInv => InFlightCovered
  BY DEF IInv, RowInv, HeldInv, InFlightCovered, TypeOK, RunnerTypeOK
<1>. QED  BY <1>1, Invariance, PTL

(* No row leaves completed or failed.                                      *)
THEOREM VerdictsAreFinal == Spec => VerdictIsFinal
<1>1. ASSUME IInv, [Next]_vars, NEW m \in Msgs, status[m] \in {"completed", "failed"}
      PROVE  status'[m] = status[m]
  <2>1. ack[m] = "completed" => status[m] = "completed"
    BY <1>1 DEF IInv, RowInv
  <2>2. ASSUME ResetStuck
        PROVE  status'[m] = status[m]
    BY <1>1, <2>2 DEF ResetStuck, Exhausted, Retriable
  <2>3. ASSUME NEW n \in Msgs, NEW k, NEW later, InsertRow(n, k, later)
        PROVE  status'[m] = status[m]
    BY <1>1, <2>3 DEF InsertRow, IInv, TypeOK, TablesTypeOK
  <2>4. CASE AgentStep \/ TimeStep
    BY <2>4 DEF AgentStep, TimeStep, Boot, Poll, RunClears, ScriptTouch, StartTurn, Event, Result, EndTurn,
       FollowClaim, FollowPush, StrayReturns, BashStarts, BashEnds, Die, HeartbeatExpires,
       ClaimAges, BackoffElapses, tableVars, inboundVars
  <2>5. CASE HostStep
    <3>1. ASSUME NEW n \in Msgs, Arrive(n) \/ Restart(n)
          PROVE  status'[m] = status[m]
      BY <3>1, <2>3 DEF Arrive, Restart
    <3>2. CASE SweepSync
      BY <3>2, <2>1 DEF SweepSync, SyncedStatus
    <3>3. CASE SweepDecide \/ SweepKill
      BY <3>3, <2>2 DEF SweepDecide, SweepKill, tableVars, inboundVars
    <3>4. CASE RestartStops \/ SpawnOk \/ SpawnFails \/ Close \/ HostCrash \/ HostStart
      BY <3>4 DEF RestartStops, SpawnOk, SpawnFails, Close, HostCrash, HostStart, tableVars,
         inboundVars
    <3>. QED  BY <2>5, <3>1, <3>2, <3>3, <3>4 DEF HostStep
  <2>6. CASE UNCHANGED vars
    BY <2>6 DEF vars, tableVars, inboundVars
  <2>. QED  BY <1>1, <2>4, <2>5, <2>6 DEF Next
<1>2. IInv /\ [Next]_vars
        => [\A m \in Msgs : status[m] \in {"completed", "failed"} => status'[m] = status[m]]_vars
  BY <1>1
<1>. QED  BY <1>2, Invariance, PTL DEF Spec, VerdictIsFinal

(* The sweep writes outbound.db only when the container's process is gone. *)
THEOREM OneWriterAtATime == Spec => SingleWriter
<1>1. ASSUME IInv, [Next]_vars, host \in {"decide", "kill"}, host' = "free", ack' # ack
      PROVE  phase' = "none"
  <2>1. CASE SweepDecide
    <3>1. slot # "present"
      BY <1>1, <2>1 DEF SweepDecide, tableVars, ackVars
    <3>. QED  BY <1>1, <2>1, <3>1 DEF SweepDecide, IInv, ProcessInv, agentVars, runnerVars
  <2>2. CASE SweepKill
    BY <2>2 DEF SweepKill, Vanish
  <2>3. CASE AgentStep \/ TimeStep
    <3>1. host' = host
      BY <2>3 DEF AgentStep, TimeStep, hostVars
    <3>. QED  BY <1>1, <3>1
  <2>4. CASE \E m \in Msgs : Arrive(m) \/ Restart(m)
    BY <1>1, <2>4 DEF Arrive, Restart
  <2>5. CASE RestartStops \/ SpawnOk \/ SpawnFails \/ Close \/ SweepSync
    BY <1>1, <2>5 DEF RestartStops, SpawnOk, SpawnFails, Close, SweepSync
  <2>6. CASE HostCrash \/ HostStart
    BY <1>1, <2>6 DEF HostCrash, HostStart
  <2>7. CASE UNCHANGED vars
    BY <1>1, <2>7 DEF vars, tableVars, ackVars
  <2>. QED  BY <1>1, <2>1, <2>2, <2>3, <2>4, <2>5, <2>6, <2>7 DEF Next, HostStep
<1>2. IInv /\ [Next]_vars
        => [(host \in {"decide", "kill"} /\ host' = "free" /\ ack' # ack) => phase' = "none"]_vars
  BY <1>1
<1>. QED  BY <1>2, Invariance, PTL DEF Spec, SingleWriter

(* A row the container has acked as completed is never claimed again, and  *)
(* its ack is never deleted.                                               *)
THEOREM AcksAreFinal == Spec => AckIsFinal
<1>1. ASSUME IInv, [Next]_vars, NEW m \in Msgs, ack[m] = "completed"
      PROVE  ack'[m] = "completed"
  <2>0. TablesTypeOK
    BY <1>1 DEF IInv, TypeOK
  <2>1. ASSUME NEW f, MarkProcessing(Fetch(f))
        PROVE  ack'[m] = "completed"
    BY <1>1, <2>1, FetchRows DEF MarkProcessing
  <2>2. ASSUME NEW S, MarkCompleted(S)
        PROVE  ack'[m] = "completed"
    BY <1>1, <2>2 DEF MarkCompleted
  <2>3. ASSUME DropClaims
        PROVE  ack'[m] = "completed"
    BY <1>1, <2>3 DEF DropClaims
  <2>4. CASE AgentStep
    <3>1. CASE Boot
      BY <3>1, <2>3 DEF Boot
    <3>2. CASE Poll \/ FollowClaim
      BY <1>1, <3>2, <2>1 DEF Poll, FollowClaim, ackVars
    <3>3. CASE RunClears \/ StartTurn \/ EndTurn \/ FollowPush \/ StrayReturns
      BY <3>3, <2>2 DEF RunClears, StartTurn, EndTurn, FollowPush, StrayReturns
    <3>4. CASE Result
      BY <3>4, <2>2 DEF Result
    <3>5. CASE Event \/ ScriptTouch \/ BashStarts \/ BashEnds \/ Die
      BY <1>1, <3>5 DEF Event, ScriptTouch, BashStarts, BashEnds, Die, tableVars, ackVars
    <3>. QED  BY <2>4, <3>1, <3>2, <3>3, <3>4, <3>5 DEF AgentStep
  <2>5. CASE TimeStep
    BY <1>1, <2>5 DEF TimeStep, HeartbeatExpires, ClaimAges, BackoffElapses, tableVars, ackVars
  <2>6. CASE HostStep
    <3>1. ASSUME NEW n \in Msgs, Arrive(n) \/ Restart(n)
          PROVE  ack'[m] = "completed"
      BY <1>1, <3>1 DEF Arrive, Restart, InsertRow, ackVars
    <3>2. CASE SweepDecide \/ SweepKill
      BY <1>1, <3>2, <2>3 DEF SweepDecide, SweepKill, ResetStuck, tableVars, ackVars
    <3>3. CASE RestartStops \/ SpawnOk \/ SpawnFails \/ Close \/ SweepSync \/ HostCrash \/ HostStart
      BY <1>1, <3>3 DEF RestartStops, SpawnOk, SpawnFails, Close, SweepSync, HostCrash, HostStart,
         tableVars, ackVars
    <3>. QED  BY <2>6, <3>1, <3>2, <3>3 DEF HostStep
  <2>7. CASE UNCHANGED vars
    BY <1>1, <2>7 DEF vars, tableVars, ackVars
  <2>. QED  BY <1>1, <2>4, <2>5, <2>6, <2>7 DEF Next
<1>2. IInv /\ [Next]_vars => [\A m \in Msgs : ack[m] = "completed" => ack'[m] = "completed"]_vars
  BY <1>1
<1>. QED  BY <1>2, Invariance, PTL DEF Spec, AckIsFinal

-----------------------------------------------------------------------------
(* Refinement: every step of the session is a step of RetryQueue under the *)
(* mapping of SessionQueue, or a stutter.                                  *)

LEMMA ClaimRefines ==
  ASSUME IInv, NEW f, MarkProcessing(Fetch(f)), UNCHANGED <<status, handled>>
  PROVE  Queue!Claim(Fetch(f))
<1>1. Fetch(f) \subseteq Queue!Open
  BY FetchRows DEF Queue!Open
<1>2. attempts' = [m \in Msgs |-> IF m \in Fetch(f) /\ attempts[m] < MaxTries + 1
                                   THEN attempts[m] + 1 ELSE attempts[m]]
  <2>1. \A m \in Msgs : attempts[m] \in 0..(MaxTries + 1)
    BY DEF IInv, TypeOK, TablesTypeOK
  <2>2. \A m \in Msgs : Least(attempts[m] + 1, MaxTries + 1)
           = IF attempts[m] < MaxTries + 1 THEN attempts[m] + 1 ELSE attempts[m]
    BY <2>1 DEF Least
  <2>. QED  BY <2>2 DEF MarkProcessing
<1>. QED  BY <1>1, <1>2 DEF Queue!Claim

(* Only rows under a claim are consumed, and those are still open.         *)
LEMMA ConsumeRefines ==
  ASSUME IInv, NEW S \in SUBSET Msgs, \A m \in S : ack[m] = "processing",
         handled' = handled \union S, UNCHANGED <<status, attempts>>
  PROVE  Queue!Consume(S)
<1>1. ASSUME NEW m \in S
      PROVE  status[m] = "pending" /\ attempts[m] > 0
  <2>1. RowInv(m) /\ status[m] \in {"absent", "pending", "completed", "failed"}
          /\ tries[m] \in Nat /\ attempts[m] \in Nat
    BY DEF IInv, TypeOK, TablesTypeOK
  <2>. QED  BY <2>1 DEF RowInv
<1>. QED  BY <1>1 DEF Queue!Consume, Queue!Open

LEMMA ResetRefines ==
  ASSUME IInv, ResetStuck, handled' = handled
  PROVE  Queue!GiveUp(Exhausted)
<1>1. ASSUME NEW m \in Exhausted
      PROVE  m \in Msgs /\ status[m] = "pending" /\ attempts[m] = MaxTries + 1
  <2>1. m \in Msgs /\ ack[m] = "processing" /\ status[m] = "pending" /\ tries[m] >= MaxTries
    BY DEF Exhausted, Retriable, Claimed
  <2>2. RowInv(m) /\ tries[m] \in 0..MaxTries /\ attempts[m] \in 0..(MaxTries + 1)
    BY <2>1 DEF IInv, TypeOK, TablesTypeOK
  <2>. QED  BY <2>1, <2>2 DEF RowInv
<1>2. attempts' = attempts
  BY DEF ResetStuck, DropClaims
<1>. QED  BY <1>1, <1>2 DEF Queue!GiveUp, Queue!Open, ResetStuck

LEMMA SyncRefines ==
  ASSUME IInv, SweepSync
  PROVE  Queue!Complete({m \in Msgs : ack[m] = "completed" /\ status[m] = "pending"})
<1>1. ASSUME NEW m \in Msgs, ack[m] = "completed"
      PROVE  m \in handled /\ status[m] \in {"pending", "completed"}
  BY <1>1 DEF IInv, RowInv, TypeOK, TablesTypeOK
<1>2. status' = [m \in Msgs |-> IF m \in {n \in Msgs : ack[n] = "completed" /\ status[n] = "pending"}
                                THEN "completed" ELSE status[m]]
  BY <1>1 DEF SweepSync, SyncedStatus
<1>3. UNCHANGED <<attempts, handled>>
  BY DEF SweepSync, ackVars, agentVars
<1>. QED  BY <1>1, <1>2, <1>3 DEF Queue!Complete, Queue!Open

LEMMA StepRefines ==
  ASSUME IInv, [Next]_vars
  PROVE  [Queue!Next]_(Queue!vars)
<1>0. HeldInv /\ ProcessInv /\ RunnerTypeOK
  BY DEF IInv, TypeOK
<1>a. ASSUME UNCHANGED <<status, attempts, handled>>
      PROVE  UNCHANGED Queue!vars
  BY <1>a DEF Queue!vars
<1>b. ASSUME NEW S \in SUBSET Msgs, Queue!Claim(S) \/ Queue!Consume(S) \/ Queue!Complete(S) \/ Queue!GiveUp(S)
      PROVE  Queue!Next
  BY <1>b DEF Queue!Next
<1>1. CASE Poll \/ FollowClaim
  <2>1. ASSUME NEW f, MarkProcessing(Fetch(f))
        PROVE  Queue!Next
    BY <1>1, <1>b, <2>1, ClaimRefines, FetchRows DEF Poll, FollowClaim, inboundVars
  <2>2. CASE UNCHANGED ackVars
    BY <1>1, <1>a, <2>2 DEF Poll, FollowClaim, inboundVars, ackVars
  <2>. QED  BY <1>1, <2>1, <2>2 DEF Poll, FollowClaim
<1>2. CASE RunClears
  <2>1. Clears(batch) \in SUBSET Msgs /\ \A m \in Clears(batch) : ack[m] = "processing"
    BY <1>0, <1>2 DEF RunClears, Clears, HeldInv, RunnerTypeOK
  <2>. QED  BY <1>2, <1>b, <2>1, ConsumeRefines DEF RunClears, MarkCompleted, inboundVars
<1>3. CASE StartTurn
  <2>1. batch \in SUBSET Msgs /\ \A m \in batch : ack[m] = "processing"
    BY <1>0, <1>3 DEF StartTurn, HeldInv, RunnerTypeOK
  <2>2. UNCHANGED <<status, attempts>> /\ handled' = handled \union batch
    BY <1>3 DEF StartTurn, MarkCompleted, inboundVars
  <2>. QED  BY <1>b, <2>1, <2>2, ConsumeRefines
<1>4. CASE FollowPush
  <2>1. follow \in SUBSET Msgs /\ \A m \in follow : ack[m] = "processing"
    BY <1>0 DEF HeldInv, RunnerTypeOK
  <2>. QED  BY <1>4, <1>b, <2>1, ConsumeRefines DEF FollowPush, MarkCompleted, inboundVars
<1>5. CASE StrayReturns
  <2>1. PICK gated \in SUBSET Tasks(stray) : MarkCompleted(gated) /\ handled' = handled \union gated
    BY <1>5 DEF StrayReturns
  <2>2. gated \in SUBSET Msgs /\ \A m \in gated : ack[m] = "processing"
    BY <1>0 DEF HeldInv, RunnerTypeOK, Tasks
  <2>. QED  BY <1>5, <1>b, <2>1, <2>2, ConsumeRefines DEF StrayReturns, MarkCompleted, inboundVars
<1>6. CASE Boot \/ Event \/ ScriptTouch \/ Result \/ EndTurn \/ BashStarts \/ BashEnds \/ Die
  BY <1>6, <1>a DEF Boot, Event, ScriptTouch, Result, EndTurn, BashStarts, BashEnds, Die, DropClaims,
     MarkCompleted, tableVars, inboundVars, ackVars
<1>7. CASE TimeStep
  BY <1>7, <1>a DEF TimeStep, HeartbeatExpires, ClaimAges, BackoffElapses, tableVars, inboundVars,
     ackVars, agentVars
<1>8. ASSUME NEW m \in Msgs, Arrive(m) \/ Restart(m)
      PROVE  Queue!Next
  <2>1. Queue!Submit(m)
    BY <1>8 DEF Arrive, Restart, InsertRow, Queue!Submit, ackVars, agentVars
  <2>. QED  BY <2>1 DEF Queue!Next
<1>9. CASE SweepSync
  BY <1>9, <1>b, SyncRefines
<1>10. CASE SweepDecide \/ SweepKill
  <2>1. CASE ResetStuck
    <3>1. Exhausted \in SUBSET Msgs
      BY DEF Exhausted, Retriable, Claimed
    <3>. QED  BY <1>10, <1>b, <2>1, <3>1, ResetRefines DEF SweepDecide, SweepKill, agentVars
  <2>2. CASE UNCHANGED tableVars /\ SweepDecide
    BY <2>2, <1>a DEF SweepDecide, tableVars, inboundVars, ackVars, agentVars
  <2>. QED  BY <1>10, <2>1, <2>2 DEF SweepDecide, SweepKill
<1>11. CASE RestartStops \/ SpawnOk \/ SpawnFails \/ Close \/ HostCrash \/ HostStart
  BY <1>11, <1>a DEF RestartStops, SpawnOk, SpawnFails, Close, HostCrash, HostStart, tableVars,
     inboundVars, ackVars, agentVars
<1>12. CASE UNCHANGED vars
  BY <1>12, <1>a DEF vars, tableVars, inboundVars, ackVars, agentVars
<1>. QED
  BY <1>1, <1>2, <1>3, <1>4, <1>5, <1>6, <1>7, <1>8, <1>9, <1>10, <1>11, <1>12
     DEF Next, AgentStep, HostStep

(* The session implements the abstract retry queue.                        *)
THEOREM SessionImplementsQueue == Spec => ImplementsQueue
<1>1. Init => Queue!Init
  BY DEF Init, TablesInit, RunnerInit, Queue!Init
<1>. QED  BY <1>1, StepRefines, Invariance, PTL DEF Spec, ImplementsQueue, Queue!Spec
=============================================================================

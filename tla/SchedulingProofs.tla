-------------------------- MODULE SchedulingProofs --------------------------
(***************************************************************************)
(* Proofs about Scheduling, for every number of rows, tries, commands and  *)
(* crashes.                                                                *)
(***************************************************************************)
EXTENDS Scheduling, TLAPS

USE SchedulingAssumption

-----------------------------------------------------------------------------
(* Type correctness.                                                       *)

LEMMA TypeInit == Init => TypeOK
<1>. SUFFICES ASSUME Init PROVE TypeOK
  OBVIOUS
<1>1. /\ status \in [Rows -> {"absent", "pending", "paused", "completed", "failed"}]
      /\ recurrence \in [Rows -> Recurrences]
      /\ tries \in [Rows -> 0..MaxTries]
      /\ ack \in [Rows -> {"none", "processing", "completed"}]
  BY DEF Init, Recurrences
<1>2. queue \in Seq(Commands) /\ issued \in 0..MaxCommands /\ crashes \in 0..MaxCrashes
  BY DEF Init
<1>3. due \subseteq Rows /\ recurring \subseteq Rows /\ half \in Rows \union {None}
  BY DEF Init
<1>. QED  BY <1>1, <1>2, <1>3 DEF Init, TypeOK

LEMMA InsertTypes ==
  ASSUME TypeOK, NEW r \in Rows, NEW rec \in Recurrences, NEW now \in BOOLEAN, Insert(r, rec, now)
  PROVE  /\ status' \in [Rows -> {"absent", "pending", "paused", "completed", "failed"}]
         /\ recurrence' \in [Rows -> Recurrences]
         /\ tries' \in [Rows -> 0..MaxTries]
         /\ due' \subseteq Rows
         /\ ack' \in [Rows -> {"none", "processing", "completed"}]
BY DEF TypeOK, Insert

LEMMA ApplyTypes ==
  ASSUME TypeOK, Apply
  PROVE  TypeOK'
<1>0. /\ Schedule \/ Cancel \/ Pause \/ Resume \/ Update(Head(queue))
      /\ applied' = TRUE /\ queue # <<>>
      /\ UNCHANGED <<queue, container, scheduled, issued, fanout, torn, crashes>>
  BY DEF Apply
<1>. USE <1>0 DEF TypeOK, fanout
<1>1. CASE Schedule
  <2>1. CASE UNCHANGED <<columns, ack>>
    BY <1>1, <2>1 DEF Schedule, columns
  <2>2. ASSUME NEW r \in Rows, NEW rec \in Recurrences, NEW now \in BOOLEAN, Insert(r, rec, now)
        PROVE  TypeOK'
    BY <1>1, <2>2, InsertTypes DEF Schedule
  <2>. QED  BY <1>1, <2>1, <2>2 DEF Schedule
<1>2. CASE Cancel
  BY <1>2 DEF Cancel, Recurrences
<1>3. CASE Pause
  BY <1>3 DEF Pause
<1>4. CASE Resume
  BY <1>4 DEF Resume
<1>5. CASE Update(Head(queue))
  BY <1>5 DEF Update, Live
<1>. QED  BY <1>0, <1>1, <1>2, <1>3, <1>4, <1>5

LEMMA JudgeTypes ==
  ASSUME TypeOK, Judge
  PROVE  TypeOK'
<1>. USE DEF TypeOK, Judge, columns, history
<1>1. CASE Reset
  BY <1>1 DEF Reset, GiveUp, Dropped
<1>. QED  BY <1>1

LEMMA FanTypes ==
  ASSUME TypeOK, NEW r \in Rows, InsertNext(r) \/ SkipBad(r) \/ Clear(r)
  PROVE  TypeOK'
<1>. USE DEF TypeOK, Advance, columns, agent, history
<1>1. CASE InsertNext(r)
  <2>1. PICK n \in Rows : Insert(n, recurrence[r], FALSE)
    BY <1>1 DEF InsertNext
  <2>. QED  BY <1>1, <2>1, InsertTypes DEF InsertNext
<1>2. CASE SkipBad(r)
  BY <1>2 DEF SkipBad
<1>3. CASE Clear(r)
  BY <1>3 DEF Clear, Recurrences
<1>. QED  BY <1>1, <1>2, <1>3

LEMMA CommandTypes ==
  ASSUME TypeOK, Mark \/ \E c \in Commands : Issue(c)
  PROVE  TypeOK'
<1>1. /\ queue' \in Seq(Commands) /\ (applied' => queue' # <<>>)
      /\ applied' \in BOOLEAN /\ scheduled' \in BOOLEAN /\ issued' \in 0..MaxCommands
  <2>1. ASSUME NEW c \in Commands, Issue(c)
        PROVE  /\ queue' \in Seq(Commands) /\ queue' # <<>>
               /\ issued' \in 0..MaxCommands /\ applied' = applied /\ scheduled'
    <3>1. queue \in Seq(Commands) /\ issued \in 0..MaxCommands /\ issued < MaxCommands
      BY <2>1 DEF TypeOK, Issue
    <3>2. queue' = Append(queue, c) /\ issued' = issued + 1 /\ applied' = applied /\ scheduled'
      BY <2>1 DEF Issue
    <3>3. queue' \in Seq(Commands) /\ queue' # <<>>
      BY <3>1, <3>2
    <3>. QED  BY <3>1, <3>2, <3>3
  <2>2. CASE Mark
    <3>1. queue \in Seq(Commands) /\ queue # <<>> /\ queue' = Tail(queue)
      BY <2>2 DEF TypeOK, Mark
    <3>2. queue' \in Seq(Commands)
      BY <3>1
    <3>3. applied' = FALSE /\ scheduled' = scheduled /\ issued' = issued
      BY <2>2 DEF Mark
    <3>. QED  BY <3>2, <3>3 DEF TypeOK
  <2>. QED  BY <2>1, <2>2 DEF TypeOK, Issue
<1>. QED  BY <1>1 DEF TypeOK, Mark, Issue, columns, fanout, history

LEMMA CrashTypes ==
  ASSUME TypeOK, HostCrash
  PROVE  TypeOK'
<1>1. torn' = (torn \/ half # None)
  BY DEF HostCrash
<1>2. torn' \in BOOLEAN
  BY <1>1
<1>3. crashes' \in 0..MaxCrashes
  BY DEF TypeOK, HostCrash
<1>. QED  BY <1>2, <1>3 DEF TypeOK, HostCrash, columns

LEMMA TypeStep == TypeOK /\ [Next]_vars => TypeOK'
<1>. SUFFICES ASSUME TypeOK, [Next]_vars
              PROVE  TypeOK'
  OBVIOUS
<1>. USE DEF TypeOK, columns, agent, fanout, history
<1>1. CASE UNCHANGED vars
  BY <1>1 DEF vars
<1>2. ASSUME NEW r \in Rows, Claim(r) \/ Finish(r) \/ ComesDue(r)
      PROVE  TypeOK'
  BY <1>2 DEF Claim, Finish, ComesDue
<1>3. CASE Die \/ Boot
  BY <1>3 DEF Die, Boot, Dropped
<1>4. CASE Sync
  BY <1>4 DEF Sync
<1>5. CASE Snapshot
  BY <1>5 DEF Snapshot
<1>. QED  BY <1>1, <1>2, <1>3, <1>4, <1>5, CommandTypes, CrashTypes, ApplyTypes, JudgeTypes, FanTypes DEF Next, Sweep

(* The variables keep their types.                                         *)
THEOREM TypeCorrect == Spec => []TypeOK
BY TypeInit, TypeStep, PTL DEF Spec

-----------------------------------------------------------------------------
(* The inductive invariant. The rows of the fan-out still carry the        *)
(* recurrence they were read with; while one of them has its successor but *)
(* is not cleared, the successor is there; and what was never inserted or  *)
(* was given up on has no ack that could complete it.                      *)
FanInv ==
  /\ \A r \in recurring : status[r] = "completed" /\ recurrence[r] # "none"
  /\ half # None =>
       /\ half \in recurring /\ sweep = "fan"
       /\ \E n \in Rows : n # half /\ n \in Series

AckInv == \A r \in Rows : status[r] \in {"absent", "failed"} => ack[r] = "none"

StopInv == stopped => \E r \in Rows : status[r] # "absent"

IInv == TypeOK /\ FanInv /\ AckInv /\ StopInv /\ OneOccurrence /\ CancelStops

LEMMA IInvInit == Init => IInv
BY TypeInit DEF Init, IInv, FanInv, AckInv, StopInv, OneOccurrence, CancelStops, Heads, Live, Series

(* Steps that touch neither the rows nor the sweep.                        *)
LEMMA QuietStep ==
  ASSUME IInv, TypeOK', AckInv',
         UNCHANGED <<status, recurrence, sweep, recurring, half, torn, stopped>>
  PROVE  IInv'
BY DEF IInv, FanInv, StopInv, OneOccurrence, CancelStops, Heads, Live, Series

LEMMA AgentStep ==
  ASSUME IInv, TypeOK',
         \/ \E c \in Commands : Issue(c)
         \/ \E r \in Rows : Claim(r) \/ Finish(r) \/ ComesDue(r)
         \/ Die \/ Boot \/ Mark \/ UNCHANGED vars
  PROVE  IInv'
<1>1. UNCHANGED <<status, recurrence, sweep, recurring, half, torn, stopped>>
  BY DEF Issue, Claim, Finish, ComesDue, Die, Boot, Mark, vars, columns, agent, fanout, history
<1>2. AckInv'
  BY DEF IInv, AckInv, TypeOK, Issue, Claim, Finish, ComesDue, Die, Boot, Mark, Dropped,
         vars, columns, agent, fanout, history
<1>. QED  BY <1>1, <1>2, QuietStep

(* Steps that only take rows away from the heads of the series, and only   *)
(* while no row waits to be cleared.                                       *)
LEMMA ShrinkStep ==
  ASSUME IInv, TypeOK', AckInv', half = None, half' = None, Heads' \subseteq Heads,
         torn' = torn, stopped' = stopped,
         \A r \in recurring' : status'[r] = "completed" /\ recurrence'[r] # "none",
         \A r \in Rows : status[r] # "absent" => status'[r] # "absent"
  PROVE  IInv'
BY DEF IInv, FanInv, StopInv, OneOccurrence, CancelStops, TypeOK

(* A new row where the series had no head, or only r.                      *)
LEMMA InsertStep ==
  ASSUME IInv, NEW n \in Rows, NEW rec \in Recurrences, NEW now \in BOOLEAN, Insert(n, rec, now)
  PROVE  /\ AckInv' /\ n \notin Heads /\ Heads' = Heads \union {n}
         /\ n \notin recurring /\ Series \subseteq Series'
         /\ rec # "none" => n \in Series'
         /\ \A r \in Rows : r # n => status'[r] = status[r] /\ recurrence'[r] = recurrence[r]
         /\ status'[n] = "pending"
BY DEF IInv, FanInv, AckInv, TypeOK, Insert, Unused, Heads, Live, Series

LEMMA ScheduleStep ==
  ASSUME IInv, TypeOK', Apply, Schedule
  PROVE  IInv'
<1>. USE DEF Apply, Schedule, columns, fanout
<1>1. CASE UNCHANGED <<columns, ack>>
  BY <1>1, QuietStep DEF IInv, AckInv
<1>2. ASSUME \A r \in Rows : status[r] = "absent",
             NEW n \in Rows, NEW rec \in Recurrences, NEW now \in BOOLEAN, Insert(n, rec, now)
      PROVE  IInv'
  <2>1. Heads = {} /\ recurring = {} /\ ~ stopped
    BY <1>2 DEF IInv, FanInv, StopInv, TypeOK, Heads, Live, Series
  <2>2. AckInv' /\ Heads' = {n}
    BY <1>2, <2>1, InsertStep
  <2>3. FanInv'
    BY <2>1 DEF FanInv
  <2>. QED  BY <2>1, <2>2, <2>3 DEF IInv, StopInv, OneOccurrence, CancelStops
<1>. QED  BY <1>1, <1>2

LEMMA CancelStep ==
  ASSUME IInv, TypeOK', Apply, Cancel
  PROVE  IInv'
<1>. USE DEF Apply, Cancel, fanout
<1>1. half = None /\ half' = None /\ recurring' = recurring /\ torn' = torn
  OBVIOUS
<1>2. \A r \in Rows : IF r \in Live THEN status'[r] = "completed" /\ recurrence'[r] = "none"
                                    ELSE status'[r] = status[r] /\ recurrence'[r] = recurrence[r]
  BY DEF IInv, TypeOK
<1>3. Heads' = Heads \ Live
  BY <1>2 DEF Heads, Live, Series
<1>4. AckInv'
  BY <1>2 DEF IInv, AckInv
<1>5. FanInv'
  <2>1. \A r \in recurring : r \notin Live /\ r \in Rows
    BY DEF IInv, FanInv, TypeOK, Live
  <2>. QED  BY <1>1, <1>2, <2>1 DEF IInv, FanInv
<1>6. OneOccurrence'
  BY <1>1, <1>3 DEF IInv, OneOccurrence
<1>7. CASE Live # {} /\ ~ torn
  <2>1. PICK r \in Rows : r \in Live /\ r \in Heads
    BY <1>7 DEF Live, Heads
  <2>2. \A s \in Heads : s = r
    <3>1. half # r /\ \A s \in Heads : s # half
      BY <1>1 DEF Heads, Live, Series
    <3>. QED  BY <1>1, <1>7, <2>1, <3>1 DEF IInv, OneOccurrence
  <2>3. Heads' = {}
    BY <1>3, <2>1, <2>2
  <2>4. StopInv'
    BY <1>2, <2>1 DEF StopInv, Live
  <2>. QED  BY <1>4, <1>5, <1>6, <2>3, <2>4 DEF IInv, CancelStops
<1>8. CASE ~ (Live # {} /\ ~ torn)
  <2>1. stopped' = stopped
    BY <1>8 DEF IInv, TypeOK
  <2>2. StopInv'
    BY <1>2, <2>1 DEF IInv, StopInv
  <2>. QED  BY <1>3, <1>4, <1>5, <1>6, <2>1, <2>2 DEF IInv, CancelStops
<1>. QED  BY <1>7, <1>8

LEMMA PauseStep ==
  ASSUME IInv, TypeOK', Apply, Pause \/ Resume \/ Update(Head(queue))
  PROVE  IInv'
<1>. USE DEF Apply, Pause, Resume, Update, fanout
<1>1. half = None /\ half' = None /\ UNCHANGED <<recurring, torn, stopped, ack>>
  OBVIOUS
<1>2. \A r \in Rows : IF r \in Live THEN r \in Live'
                                    ELSE status'[r] = status[r] /\ recurrence'[r] = recurrence[r]
  BY DEF IInv, TypeOK, Live
<1>3. Heads' \subseteq Heads
  BY <1>2 DEF Heads, Live, Series
<1>4. AckInv'
  BY <1>1, <1>2 DEF IInv, AckInv, Live
<1>5. \A r \in recurring : r \notin Live /\ r \in Rows
  BY DEF IInv, FanInv, TypeOK, Live
<1>6. \A r \in recurring' : status'[r] = "completed" /\ recurrence'[r] # "none"
  BY <1>1, <1>2, <1>5 DEF IInv, FanInv
<1>7. \A r \in Rows : status[r] # "absent" => status'[r] # "absent"
  BY <1>2 DEF Live
<1>. QED  BY <1>1, <1>3, <1>4, <1>6, <1>7, ShrinkStep

LEMMA SyncStep ==
  ASSUME IInv, TypeOK', Sync
  PROVE  IInv'
<1>1. half = None /\ half' = None /\ UNCHANGED <<recurring, torn, stopped, ack, recurrence>>
  BY DEF IInv, FanInv, Sync, agent, history
<1>2. \A r \in Rows : status'[r] = IF ack[r] = "completed" THEN "completed" ELSE status[r]
  BY DEF IInv, TypeOK, Sync
<1>3. Heads' \subseteq Heads
  BY <1>1, <1>2 DEF IInv, AckInv, TypeOK, Heads, Live, Series
<1>4. AckInv'
  BY <1>1, <1>2 DEF IInv, AckInv
<1>5. \A r \in recurring' : status'[r] = "completed" /\ recurrence'[r] # "none"
  BY <1>1, <1>2 DEF IInv, FanInv, TypeOK
<1>6. \A r \in Rows : status[r] # "absent" => status'[r] # "absent"
  BY <1>2
<1>. QED  BY <1>1, <1>3, <1>4, <1>5, <1>6, ShrinkStep

LEMMA JudgeStep ==
  ASSUME IInv, TypeOK', Judge
  PROVE  IInv'
<1>1. half = None /\ half' = None /\ UNCHANGED <<recurring, torn, stopped, recurrence>>
  BY DEF IInv, FanInv, Judge, Reset, columns, history
<1>2. \A r \in Rows : \/ status'[r] = status[r] /\ ack'[r] \in {ack[r], "none"}
                      \/ status[r] = "pending" /\ status'[r] = "failed" /\ ack'[r] = "none"
  BY DEF IInv, TypeOK, Judge, Reset, Dropped, columns
<1>3. Heads' \subseteq Heads
  BY <1>1, <1>2 DEF Heads, Live, Series
<1>4. AckInv'
  BY <1>2 DEF IInv, AckInv
<1>5. \A r \in recurring' : status'[r] = "completed" /\ recurrence'[r] # "none"
  BY <1>1, <1>2 DEF IInv, FanInv, TypeOK
<1>6. \A r \in Rows : status[r] # "absent" => status'[r] # "absent"
  BY <1>2
<1>. QED  BY <1>1, <1>3, <1>4, <1>5, <1>6, ShrinkStep

LEMMA SnapshotStep ==
  ASSUME IInv, TypeOK', Snapshot
  PROVE  IInv'
<1>1. half = None /\ half' = None /\ UNCHANGED <<torn, stopped, ack, status, recurrence>>
  BY DEF IInv, FanInv, Snapshot, agent, columns, history
<1>2. Heads' \subseteq Heads /\ AckInv'
  BY <1>1 DEF IInv, AckInv, Heads, Live, Series
<1>3. \A r \in recurring' : status'[r] = "completed" /\ recurrence'[r] # "none"
  BY <1>1 DEF Snapshot
<1>. QED  BY <1>1, <1>2, <1>3, ShrinkStep

LEMMA SkipBadStep ==
  ASSUME IInv, TypeOK', NEW r \in Rows, SkipBad(r)
  PROVE  IInv'
<1>1. half = None /\ half' = None /\ UNCHANGED <<torn, stopped, ack, status, recurrence>>
  BY DEF SkipBad, agent, columns, history
<1>2. Heads' \subseteq Heads /\ AckInv'
  BY <1>1 DEF IInv, AckInv, Heads, Live, Series
<1>3. recurring' \subseteq recurring
  BY DEF SkipBad, Advance
<1>. QED  BY <1>1, <1>2, <1>3, ShrinkStep DEF IInv, FanInv

LEMMA InsertNextStep ==
  ASSUME IInv, TypeOK', NEW r \in Rows, InsertNext(r)
  PROVE  IInv'
<1>1. /\ sweep' = "fan" /\ half = None /\ half' = r /\ r \in recurring
      /\ UNCHANGED <<recurring, torn, stopped>>
      /\ recurrence[r] \in Recurrences /\ recurrence[r] # "none"
  BY DEF InsertNext, history, Recurrences
<1>2. PICK n \in Rows : Insert(n, recurrence[r], FALSE)
  BY DEF InsertNext
<1>3. r \in Heads
  BY <1>1 DEF IInv, FanInv, Heads, Series
<1>4. /\ AckInv' /\ n \notin Heads /\ Heads' = Heads \union {n} /\ n \notin recurring /\ n \in Series'
      /\ \A s \in Rows : s # n => status'[s] = status[s] /\ recurrence'[s] = recurrence[s]
      /\ status'[n] = "pending"
  BY <1>1, <1>2, InsertStep
<1>5. OneOccurrence'
  <2>1. CASE ~ torn
    <3>1. \A s \in Heads : s # half
      BY <1>1 DEF Heads, Live, Series
    <3>2. \A s \in Heads : s = r
      BY <1>3, <2>1, <3>1 DEF IInv, OneOccurrence
    <3>. QED  BY <1>1, <1>4, <3>2 DEF OneOccurrence
  <2>. QED  BY <1>1, <2>1 DEF OneOccurrence
<1>6. FanInv'
  <2>1. \A s \in recurring' : status'[s] = "completed" /\ recurrence'[s] # "none"
    BY <1>1, <1>4 DEF IInv, FanInv, TypeOK
  <2>. QED  BY <1>1, <1>3, <1>4, <2>1 DEF FanInv
<1>7. ~ stopped
  BY <1>3 DEF IInv, CancelStops
<1>. QED  BY <1>1, <1>4, <1>5, <1>6, <1>7 DEF IInv, StopInv, CancelStops

LEMMA ClearStep ==
  ASSUME IInv, TypeOK', NEW r \in Rows, Clear(r)
  PROVE  IInv'
<1>1. /\ half = r /\ half' = None /\ r # None /\ r \in recurring
      /\ recurring' = recurring \ {r}
      /\ UNCHANGED <<torn, stopped, ack, status>>
      /\ recurrence'[r] = "none" /\ status[r] = "completed"
      /\ \A s \in Rows : s # r => recurrence'[s] = recurrence[s]
  BY DEF Clear, Advance, agent, history, IInv, FanInv, TypeOK
<1>2. Heads' = Heads \ {r}
  BY <1>1 DEF Heads, Live, Series
<1>3. AckInv' /\ StopInv'
  BY <1>1 DEF IInv, AckInv, StopInv
<1>4. FanInv'
  BY <1>1 DEF IInv, FanInv, TypeOK
<1>5. OneOccurrence' /\ CancelStops'
  BY <1>1, <1>2 DEF IInv, OneOccurrence, CancelStops
<1>. QED  BY <1>3, <1>4, <1>5 DEF IInv

LEMMA HostCrashStep ==
  ASSUME IInv, TypeOK', HostCrash
  PROVE  IInv'
<1>1. /\ half' = None /\ recurring' = {} /\ UNCHANGED <<stopped, ack, status, recurrence>>
      /\ ~ torn' => half = None /\ ~ torn
  BY DEF HostCrash, columns, IInv, TypeOK
<1>2. Heads' = Heads
  BY <1>1 DEF Heads, Live, Series
<1>. QED  BY <1>1, <1>2 DEF IInv, FanInv, AckInv, StopInv, OneOccurrence, CancelStops

LEMMA IInvStep == IInv /\ [Next]_vars => IInv'
<1>. SUFFICES ASSUME IInv, [Next]_vars
              PROVE  IInv'
  OBVIOUS
<1>1. TypeOK'
  BY TypeStep DEF IInv
<1>2. CASE Apply
  <2>1. Schedule \/ Cancel \/ Pause \/ Resume \/ Update(Head(queue))
    BY <1>2 DEF Apply
  <2>. QED  BY <1>1, <1>2, <2>1, ScheduleStep, CancelStep, PauseStep
<1>. QED  BY <1>1, <1>2, AgentStep, SyncStep, JudgeStep, SnapshotStep, SkipBadStep, InsertNextStep,
             ClearStep, HostCrashStep DEF Next, Sweep

LEMMA Invariance == Spec => []IInv
BY IInvInit, IInvStep, PTL DEF Spec

(* Outside the two statements of the fan-out, and unless a crash fell      *)
(* between them, a series has at most one occurrence.                      *)
THEOREM SeriesIsSingle == Spec => []OneOccurrence
<1>1. IInv => OneOccurrence
  BY DEF IInv
<1>. QED  BY <1>1, Invariance, PTL

(* A cancel that matched a row is final.                                   *)
THEOREM CancelIsFinal == Spec => []CancelStops
<1>1. IInv => CancelStops
  BY DEF IInv
<1>. QED  BY <1>1, Invariance, PTL

-----------------------------------------------------------------------------
(* A recurring series is lost neither by a crash, nor by the fan-out, nor  *)
(* by a command that is not meant to end it.                               *)
THEOREM SeriesIsKept == Spec => SeriesSurvives
<1>1. ASSUME IInv, [Next]_vars, Series # {}, Series' = {}
      PROVE  \/ applied' /\ ~ applied /\ Head(queue) \in {"cancel_task", "none"}
             \/ \E r \in Rows : status[r] # "failed" /\ status'[r] = "failed"
  <2>0. TypeOK /\ FanInv /\ AckInv
    BY <1>1 DEF IInv
  <2>1. CASE UNCHANGED <<status, recurrence>>
    BY <1>1, <2>1 DEF Series
  <2>2. CASE Apply
    <3>1. applied' /\ ~ applied /\ half = None
      BY <2>2 DEF Apply
    <3>2. SUFFICES ASSUME Head(queue) \notin {"cancel_task", "none"}
                   PROVE  FALSE
      BY <3>1
    <3>3. Schedule \/ Pause \/ Resume \/ Update(Head(queue))
      BY <2>2, <3>2 DEF Apply
    <3>4. Series \subseteq Series'
      <4>1. CASE Schedule
        BY <1>1, <4>1, InsertStep DEF Schedule, columns, Series
      <4>2. CASE Pause \/ Resume
        BY <2>0, <4>2 DEF Pause, Resume, Series, TypeOK
      <4>3. CASE Update(Head(queue))
        BY <2>0, <3>2, <4>3 DEF Update, Series, Live, TypeOK, Recurrences
      <4>. QED  BY <3>3, <4>1, <4>2, <4>3
    <3>. QED  BY <1>1, <3>4
  <2>3. CASE Sync
    <3>1. \A r \in Rows : status[r] # "failed" => status'[r] \in {status[r], "completed"}
      BY <2>0, <2>3 DEF Sync, TypeOK
    <3>2. Series \subseteq Series'
      BY <2>3, <3>1 DEF Sync, Series
    <3>. QED  BY <1>1, <3>2
  <2>4. CASE Judge
    <3>1. UNCHANGED recurrence
      BY <2>4 DEF Judge, Reset, columns
    <3>2. \A r \in Rows : status'[r] \in {status[r], "failed"}
      BY <2>0, <2>4 DEF Judge, Reset, columns, TypeOK
    <3>. QED  BY <1>1, <3>1, <3>2 DEF Series
  <2>5. ASSUME NEW r \in Rows, InsertNext(r)
        PROVE  FALSE
    <3>1. PICK n \in Rows : Insert(n, recurrence[r], FALSE)
      BY <2>5 DEF InsertNext
    <3>2. Series \subseteq Series'
      BY <1>1, <2>5, <3>1, InsertStep DEF InsertNext, Recurrences
    <3>. QED  BY <1>1, <3>2
  <2>6. ASSUME NEW r \in Rows, Clear(r)
        PROVE  FALSE
    <3>1. PICK n \in Rows : n # r /\ n \in Series
      BY <2>0, <2>6 DEF FanInv, Clear
    <3>2. n \in Series'
      BY <2>0, <2>6, <3>1 DEF Clear, Series, TypeOK
    <3>. QED  BY <1>1, <3>2
  <2>7. Apply \/ Sync \/ Judge \/ (\E r \in Rows : InsertNext(r) \/ Clear(r)) \/ UNCHANGED <<status, recurrence>>
    BY <1>1 DEF Next, Sweep, Issue, Claim, Finish, ComesDue, Die, Boot, Mark, Snapshot, SkipBad,
                HostCrash, vars, columns
  <2>. QED  BY <2>1, <2>2, <2>3, <2>4, <2>5, <2>6, <2>7
<1>2. IInv /\ [Next]_vars =>
        [(Series # {} /\ Series' = {}) =>
           \/ applied' /\ ~ applied /\ Head(queue) \in {"cancel_task", "none"}
           \/ \E r \in Rows : status[r] # "failed" /\ status'[r] = "failed"]_vars
  BY <1>1
<1>. QED  BY <1>2, Invariance, PTL DEF Spec, SeriesSurvives
=============================================================================

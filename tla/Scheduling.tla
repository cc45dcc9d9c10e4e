----------------------------- MODULE Scheduling -----------------------------
(***************************************************************************)
(* One series of a scheduled task: its occurrences are messages_in rows    *)
(* with one series_id. The agent changes the series by system rows that    *)
(* the host applies when it delivers them; the agent also runs the         *)
(* occurrences, and the host's sweep inserts the next one after a          *)
(* recurring row is completed.                                             *)
(*                                                                         *)
(* The sweep is  idle -> woken -> judged -> fan -> idle : acks are synced, *)
(* then a wake may be awaited, then dead or stuck claims are reset, then a *)
(* module is imported, and each row of the fan-out awaits once more. At    *)
(* every await a command can be applied.                                   *)
(*                                                                         *)
(* A settled row without recurrence is matched by no query any more, so    *)
(* its id is used again for a new occurrence.                              *)
(***************************************************************************)
EXTENDS Naturals, Sequences

CONSTANTS
  Rows,          \* ids of the series' rows
  MaxTries,      \* MAX_TRIES of host-sweep.ts
  MaxCommands,   \* bound on the commands the agent issues
  MaxQueue,      \* bound on those that wait for the host
  MaxCrashes,    \* bound on host crashes
  None           \* no row

ASSUME SchedulingAssumption ==
  /\ None \notin Rows
  /\ MaxTries \in Nat /\ MaxCommands \in Nat /\ MaxQueue \in Nat /\ MaxCrashes \in Nat

(* schedule_task comes with its recurrence: none, a cron expression, or a  *)
(* text that is not one (nothing checks it before the fan-out parses it).  *)
Recurrences == {"none", "cron", "bad"}

(* An update_task is named for what it changes: the recurrence, to one of  *)
(* these, or the time of the next run.                                     *)
Commands == {"schedule_task", "cancel_task", "pause_task", "resume_task", "postpone"}
              \union Recurrences

VARIABLES
  status, recurrence, tries,   \* columns of messages_in
  due,                         \* rows whose process_after has passed
  ack,                         \* processing_ack of a row
  container,                   \* up or down
  queue,                       \* system rows the host has not marked delivered
  applied,                     \* the first of them has been applied
  scheduled,                   \* the agent has called schedule_task
  issued, crashes,             \* counters for the bounds
  sweep,                       \* where the sweep of this session stands
  recurring,                   \* rows left of the fan-out's snapshot
  half,                        \* the row whose next occurrence is inserted but which is not cleared yet
  torn,                        \* history: a crash hit between the two
  stopped,                     \* history: a cancel matched a live row of an untorn series
  held                         \* history: a pause matched a live row and no resume has come since

columns  == <<status, recurrence, tries, due>>
agent    == <<ack, container, queue, applied, scheduled, issued>>
fanout   == <<sweep, recurring, half>>
history  == <<torn, stopped, held>>
vars     == <<columns, agent, fanout, history, crashes>>

Init ==
  /\ status = [r \in Rows |-> "absent"]
  /\ recurrence = [r \in Rows |-> "none"]
  /\ tries = [r \in Rows |-> 0]
  /\ due = {}
  /\ ack = [r \in Rows |-> "none"]
  /\ container = "up"
  /\ queue = <<>> /\ applied = FALSE
  /\ scheduled = FALSE
  /\ issued = 0 /\ crashes = 0
  /\ sweep = "idle" /\ recurring = {} /\ half = None
  /\ torn = FALSE /\ stopped = FALSE /\ held = FALSE

Live   == {r \in Rows : status[r] \in {"pending", "paused"}}

(* Rows the series hangs on: it goes on as long as there is one.           *)
Series == {r \in Rows : recurrence[r] # "none" /\ status[r] \in {"pending", "paused", "completed"}}

Heads  == Live \union Series

Unused(r) ==
  \/ status[r] = "absent"
  \/ status[r] \in {"completed", "failed"} /\ recurrence[r] = "none" /\ ack[r] # "processing"

(* A new pending row; id and ack entry are new too.                        *)
Insert(r, rec, now) ==
  /\ Unused(r)
  /\ status' = [status EXCEPT ![r] = "pending"]
  /\ recurrence' = [recurrence EXCEPT ![r] = rec]
  /\ tries' = [tries EXCEPT ![r] = 0]
  /\ due' = IF now THEN due \union {r} ELSE due \ {r}
  /\ ack' = [ack EXCEPT ![r] = "none"]

-----------------------------------------------------------------------------
(* The agent.                                                              *)

(* A scheduling tool writes a system row. The agent learns the series' id  *)
(* from schedule_task, and every other command names it.                   *)
Issue(c) ==
  /\ container = "up" /\ issued < MaxCommands /\ Len(queue) < MaxQueue
  /\ scheduled <=> c # "schedule_task"
  /\ queue' = Append(queue, c)
  /\ scheduled' = TRUE
  /\ issued' = issued + 1
  /\ UNCHANGED <<columns, ack, container, applied, fanout, history, crashes>>

Claim(r) ==
  /\ container = "up"
  /\ status[r] = "pending" /\ r \in due /\ ack[r] = "none"
  /\ ack' = [ack EXCEPT ![r] = "processing"]
  /\ UNCHANGED <<columns, container, queue, applied, scheduled, issued, fanout, history, crashes>>

Finish(r) ==
  /\ container = "up" /\ ack[r] = "processing"
  /\ ack' = [ack EXCEPT ![r] = "completed"]
  /\ UNCHANGED <<columns, container, queue, applied, scheduled, issued, fanout, history, crashes>>

Die ==
  /\ container = "up"
  /\ container' = "down"
  /\ UNCHANGED <<columns, ack, queue, applied, scheduled, issued, fanout, history, crashes>>

Dropped == [r \in Rows |-> IF ack[r] = "processing" THEN "none" ELSE ack[r]]

(* A fresh container clears what its predecessor had claimed.              *)
Boot ==
  /\ container = "down"
  /\ container' = "up"
  /\ ack' = Dropped
  /\ UNCHANGED <<columns, queue, applied, scheduled, issued, fanout, history, crashes>>

ComesDue(r) ==
  /\ r \in Live \ due
  /\ due' = due \union {r}
  /\ UNCHANGED <<status, recurrence, tries, agent, fanout, history, crashes>>

-----------------------------------------------------------------------------
(* The host applies commands, one system row after the other.              *)

(* insertTask. Delivered again after a crash, the insert fails on the      *)
(* primary key.                                                            *)
Schedule ==
  /\ IF \A r \in Rows : status[r] = "absent"
       THEN \E r \in Rows : \E rec \in Recurrences : \E now \in BOOLEAN : Insert(r, rec, now)
       ELSE UNCHANGED <<columns, ack>>
  /\ UNCHANGED <<stopped, held>>

(* A deliberate fault: the row is completed with its recurrence intact.    *)
CancelKeepsRecurrence ==
  /\ status' = [r \in Rows |-> IF r \in Live THEN "completed" ELSE status[r]]
  /\ stopped' = (stopped \/ (Live # {} /\ ~ torn))
  /\ UNCHANGED <<recurrence, tries, due, ack, held>>

Cancel ==
  /\ status' = [r \in Rows |-> IF r \in Live THEN "completed" ELSE status[r]]
  /\ recurrence' = [r \in Rows |-> IF r \in Live THEN "none" ELSE recurrence[r]]
  /\ stopped' = (stopped \/ (Live # {} /\ ~ torn))
  /\ UNCHANGED <<tries, due, ack, held>>

Pause ==
  /\ status' = [r \in Rows |-> IF status[r] = "pending" THEN "paused" ELSE status[r]]
  /\ held' = (held \/ Live # {})
  /\ UNCHANGED <<recurrence, tries, due, ack, stopped>>

Resume ==
  /\ status' = [r \in Rows |-> IF status[r] = "paused" THEN "pending" ELSE status[r]]
  /\ held' = FALSE
  /\ UNCHANGED <<recurrence, tries, due, ack, stopped>>

(* update_task with a new recurrence, or with a new time.                  *)
Update(c) ==
  /\ recurrence' = [r \in Rows |-> IF r \in Live /\ c \in Recurrences THEN c ELSE recurrence[r]]
  /\ due' = IF c = "postpone" THEN due \ Live ELSE due
  /\ UNCHANGED <<status, tries, ack, stopped, held>>

Apply ==
  /\ half = None /\ queue # <<>> /\ ~ applied
  /\ applied' = TRUE
  /\ LET c == Head(queue) IN
       CASE c = "schedule_task" -> Schedule
         [] c = "cancel_task"   -> Cancel
         [] c = "pause_task"    -> Pause
         [] c = "resume_task"   -> Resume
         [] OTHER               -> Update(c)
  /\ UNCHANGED <<queue, container, scheduled, issued, fanout, torn, crashes>>

(* The handler's promise resolves and the row is marked delivered.         *)
Mark ==
  /\ half = None /\ applied
  /\ applied' = FALSE
  /\ queue' = Tail(queue)
  /\ UNCHANGED <<columns, ack, container, scheduled, issued, fanout, history, crashes>>

-----------------------------------------------------------------------------
(* The sweep.                                                              *)

(* A deliberate fault: only pending rows are synced.                       *)
SyncPending ==
  /\ sweep = "idle"
  /\ sweep' = "woken"
  /\ status' = [r \in Rows |-> IF ack[r] = "completed" /\ status[r] = "pending"
                                 THEN "completed" ELSE status[r]]
  /\ UNCHANGED <<recurrence, tries, due, agent, recurring, half, history, crashes>>

Sync ==
  /\ sweep = "idle"
  /\ sweep' = "woken"
  /\ status' = [r \in Rows |-> IF ack[r] = "completed" THEN "completed" ELSE status[r]]
  /\ UNCHANGED <<recurrence, tries, due, agent, recurring, half, history, crashes>>

GiveUp(r) == tries[r] >= MaxTries

(* No container, or one that is killed as stuck: its claims are dropped,   *)
(* and claimed rows that are still pending and due are retried later or,   *)
(* out of tries, given up on.                                              *)
Reset ==
  LET retried == {r \in due : ack[r] = "processing" /\ status[r] = "pending"} IN
  /\ container' = "down"
  /\ status' = [r \in Rows |-> IF r \in retried /\ GiveUp(r) THEN "failed" ELSE status[r]]
  /\ tries' = [r \in Rows |-> IF r \in retried /\ ~ GiveUp(r) THEN tries[r] + 1 ELSE tries[r]]
  /\ due' = due \ {r \in retried : ~ GiveUp(r)}
  /\ ack' = Dropped
  /\ UNCHANGED recurrence

(* The judgement of a running or a missing container, with the rules of    *)
(* HostSweep left open.                                                    *)
Judge ==
  /\ sweep = "woken"
  /\ sweep' = "judged"
  /\ Reset \/ UNCHANGED <<columns, ack, container>>
  /\ UNCHANGED <<queue, applied, scheduled, issued, recurring, half, history, crashes>>

(* getCompletedRecurring.                                                  *)
Snapshot ==
  /\ sweep = "judged"
  /\ recurring' = {r \in Rows : status[r] = "completed" /\ recurrence[r] # "none"}
  /\ sweep' = IF recurring' = {} THEN "idle" ELSE "fan"
  /\ UNCHANGED <<columns, agent, half, history, crashes>>

Advance(r) ==
  /\ recurring' = recurring \ {r}
  /\ sweep' = IF recurring' = {} THEN "idle" ELSE "fan"

(* insertRecurrence with the recurrence the snapshot read.                 *)
InsertNext(r) ==
  /\ sweep = "fan" /\ half = None /\ r \in recurring
  /\ recurrence[r] = "cron"
  /\ \E n \in Rows : Insert(n, recurrence[r], FALSE)
  /\ half' = r
  /\ UNCHANGED <<container, queue, applied, scheduled, issued, sweep, recurring, history, crashes>>

(* A deliberate fault: the recurrence is cleared on this path as well.     *)
DropBad(r) ==
  /\ sweep = "fan" /\ half = None /\ r \in recurring
  /\ recurrence[r] = "bad"
  /\ recurrence' = [recurrence EXCEPT ![r] = "none"]
  /\ Advance(r)
  /\ UNCHANGED <<status, tries, due, agent, half, history, crashes>>

(* The expression does not parse: the row is left as it is.                *)
SkipBad(r) ==
  /\ sweep = "fan" /\ half = None /\ r \in recurring
  /\ recurrence[r] = "bad"
  /\ Advance(r)
  /\ UNCHANGED <<columns, agent, half, history, crashes>>

(* A deliberate fault: the recurrence is left on the old row.              *)
ClearNothing(r) ==
  /\ half = r /\ r # None
  /\ half' = None
  /\ Advance(r)
  /\ UNCHANGED <<columns, agent, history, crashes>>

(* clearRecurrence, right after the insert.                                *)
Clear(r) ==
  /\ half = r
  /\ recurrence' = [recurrence EXCEPT ![r] = "none"]
  /\ half' = None
  /\ Advance(r)
  /\ UNCHANGED <<status, tries, due, agent, history, crashes>>

(* The host dies and starts again; the container is stopped as an orphan,  *)
(* and a command that was applied but not marked is delivered again.       *)
HostCrash ==
  /\ crashes < MaxCrashes
  /\ crashes' = crashes + 1
  /\ sweep' = "idle" /\ recurring' = {} /\ half' = None
  /\ torn' = (torn \/ half # None)
  /\ container' = "down"
  /\ applied' = FALSE
  /\ UNCHANGED <<columns, ack, queue, scheduled, issued, stopped, held>>

-----------------------------------------------------------------------------
Sweep == Sync \/ Judge \/ Snapshot \/ \E r \in Rows : InsertNext(r) \/ SkipBad(r) \/ Clear(r)

Next ==
  \/ \E c \in Commands : Issue(c)
  \/ \E r \in Rows : Claim(r) \/ Finish(r) \/ ComesDue(r)
  \/ Die \/ Boot
  \/ Apply \/ Mark
  \/ Sweep
  \/ HostCrash

Spec == Init /\ [][Next]_vars

(* The sweep's timer fires and its awaits return; only an insert keeps it  *)
(* from its next step.                                                     *)
FairSpec == Spec /\ WF_vars(Sweep)

-----------------------------------------------------------------------------
TypeOK ==
  /\ status \in [Rows -> {"absent", "pending", "paused", "completed", "failed"}]
  /\ recurrence \in [Rows -> Recurrences]
  /\ tries \in [Rows -> 0..MaxTries]
  /\ due \subseteq Rows
  /\ ack \in [Rows -> {"none", "processing", "completed"}]
  /\ container \in {"up", "down"}
  /\ queue \in Seq(Commands) /\ (applied => queue # <<>>)
  /\ applied \in BOOLEAN /\ scheduled \in BOOLEAN
  /\ issued \in 0..MaxCommands
  /\ crashes \in 0..MaxCrashes
  /\ sweep \in {"idle", "woken", "judged", "fan"}
  /\ recurring \subseteq Rows
  /\ half \in Rows \union {None}
  /\ torn \in BOOLEAN /\ stopped \in BOOLEAN /\ held \in BOOLEAN

(* A series has one occurrence at a time, whatever commands come while the *)
(* sweep clones a completed row; only a crash between the insert of the    *)
(* next occurrence and the clearing of the old one can double it.          *)
OneOccurrence ==
  ~ torn => \A r, s \in Heads : r # s => half \in {r, s}

(* A cancel that matched a live row is final: no occurrence of the series  *)
(* is ever pending again, not even one the sweep was about to insert.      *)
CancelStops == stopped => Heads = {}

(* A recurring series ends only by a command that ends it or by an         *)
(* occurrence the host gives up on: no crash between the sweep's           *)
(* statements and no command in between loses it.                          *)
SeriesSurvives ==
  [][(Series # {} /\ Series' = {}) =>
       \/ applied' /\ ~ applied /\ Head(queue) \in {"cancel_task", "none"}
       \/ \E r \in Rows : status[r] # "failed" /\ status'[r] = "failed"]_vars

(* A recurring occurrence that the agent has finished is followed by the   *)
(* next one (its recurrence is handed on), even if the series was paused   *)
(* or changed while it ran.                                                *)
OccurrenceFollows ==
  \A r \in Rows :
    (ack[r] = "completed" /\ status[r] # "failed" /\ recurrence[r] = "cron")
      ~> recurrence[r] # "cron"

(* mcp-tools/scheduling.ts, pause_task: a paused task does not run until   *)
(* it is resumed.                                                          *)
PauseHolds ==
  [][\A r \in Rows : held /\ ack[r] = "none" => ack'[r] # "processing"]_vars
=============================================================================

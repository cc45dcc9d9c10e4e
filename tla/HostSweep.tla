----------------------------- MODULE HostSweep -----------------------------
(***************************************************************************)
(* The host's side of one session: the calls that write rows and wake the  *)
(* container, the container runner's view of it, and the sweep.            *)
(*                                                                         *)
(* The host is one event loop. "host" is "free" between callbacks, and     *)
(* names the synchronous section it is in where the container's process    *)
(* can take a step in the middle of it; no other host action runs then.    *)
(* The one await of a sweep the model keeps is the wake ("waking").        *)
(***************************************************************************)
EXTENDS AgentRunner

VARIABLES
  host,      \* free, decide, kill, stop, or down while the host process is gone
  slot,      \* container-runner's maps: absent, spawning (wakePromises), present (activeContainers)
  sweeping,  \* the sweep awaits a wake of this session
  onExit     \* killContainer was given an onExit callback that wakes again

hostVars == <<host, slot, sweeping, onExit>>
vars     == <<tableVars, agentVars, hostVars>>

HostTypeOK ==
  /\ host \in {"free", "decide", "kill", "stop", "down"}
  /\ slot \in {"absent", "spawning", "present"}
  /\ sweeping \in BOOLEAN
  /\ onExit \in BOOLEAN

HostInit ==
  /\ host = "free"
  /\ slot = "absent"
  /\ sweeping = FALSE
  /\ onExit = FALSE

(* wakeContainer: running or already spawning is a no-op.                  *)
Wake(s) == IF s = "absent" THEN "spawning" ELSE s

-----------------------------------------------------------------------------
(* Rows arrive.                                                            *)

(* The router writes a row; unless it is context only it wakes the         *)
(* container. A scheduled task is written without a wake, due now or later.*)
Arrive(m) ==
  /\ host = "free"
  /\ \E k \in Kinds \ {"restart"} :
       /\ \/ InsertRow(m, k, FALSE)
          \/ k = "task" /\ InsertRow(m, k, TRUE)
       /\ slot' = IF k \in {"context", "task"} THEN slot ELSE Wake(slot)
  /\ UNCHANGED <<agentVars, host, sweeping, onExit>>

(* restartAgentGroupContainers writes an on_wake row for a session with a  *)
(* container, then stops the container.                                    *)
Restart(m) ==
  /\ host = "free" /\ slot = "present"
  /\ "restart" \in Kinds
  /\ InsertRow(m, "restart", FALSE)
  /\ host' = "stop"
  /\ onExit' = TRUE
  /\ UNCHANGED <<agentVars, slot, sweeping>>

RestartStops ==
  /\ host = "stop"
  /\ Vanish
  /\ host' = "free"
  /\ UNCHANGED <<tableVars, hb, tool, handled, slot, sweeping, onExit>>

-----------------------------------------------------------------------------
(* The container runner.                                                   *)

(* The wake promise settles; a sweep that awaits it goes on in the same    *)
(* turn of the event loop.                                                 *)
Settle ==
  /\ host' = IF sweeping THEN "decide" ELSE "free"
  /\ sweeping' = FALSE

(* The heartbeat file is removed before the process is started.            *)
SpawnOk ==
  /\ host = "free" /\ slot = "spawning"
  /\ slot' = "present"
  /\ phase' = "boot"
  /\ hb' = "absent"
  /\ Settle
  /\ UNCHANGED <<tableVars, first, batch, follow, stray, ended, owed, nudged, tool, handled, onExit>>

SpawnFails ==
  /\ host = "free" /\ slot = "spawning"
  /\ slot' = "absent"
  /\ Settle
  /\ UNCHANGED <<tableVars, agentVars, onExit>>

(* The 'close' event of a process that has exited.                         *)
Close ==
  /\ host = "free" /\ slot = "present" /\ phase = "none"
  /\ slot' = IF onExit THEN "spawning" ELSE "absent"
  /\ onExit' = FALSE
  /\ UNCHANGED <<tableVars, agentVars, host, sweeping>>

-----------------------------------------------------------------------------
(* The sweep.                                                              *)

Retriable == {m \in Claimed : status[m] = "pending" /\ m \notin deferred}

(* A deliberate fault: the last try is not counted.                        *)
ExhaustedLate == {m \in Retriable : tries[m] > MaxTries}

(* Rows out of tries.                                                      *)
Exhausted == {m \in Retriable : tries[m] >= MaxTries}

(* A deliberate fault: the orphan claims outlive the reset.                *)
ResetKeepsClaims ==
  /\ status' = [m \in Msgs |-> IF m \in Exhausted THEN "failed" ELSE status[m]]
  /\ tries' = [m \in Msgs |-> IF m \in Retriable \ Exhausted THEN tries[m] + 1 ELSE tries[m]]
  /\ deferred' = deferred \union (Retriable \ Exhausted)
  /\ UNCHANGED <<kind, seq, ackVars>>

(* resetStuckProcessingRows: retry with backoff or give up, then delete    *)
(* the orphan claims.                                                      *)
ResetStuck ==
  /\ status' = [m \in Msgs |-> IF m \in Exhausted THEN "failed" ELSE status[m]]
  /\ tries' = [m \in Msgs |-> IF m \in Retriable \ Exhausted THEN tries[m] + 1 ELSE tries[m]]
  /\ deferred' = deferred \union (Retriable \ Exhausted)
  /\ DropClaims
  /\ UNCHANGED <<kind, seq>>

(* CLAIM_STUCK_MS, or the timeout Bash declared if that is longer.        *)
OverTolerance(m) == age[m] = 2 \/ (age[m] = 1 /\ tool = "none")

(* A deliberate fault: only the ceiling counts.                            *)
CeilingOnly == hb = "stale"

(* decideStuckAction # ok: the heartbeat is past the ceiling, or a claim   *)
(* is older than its tolerance and no heartbeat came after it. A missing   *)
(* heartbeat file counts as one from before every claim.                   *)
MustKill ==
  \/ hb = "stale"
  \/ \E m \in Claimed : OverTolerance(m) /\ (hb = "absent" \/ m \in silent)

(* Steps 1 and 2: sync the acks, then wake for due rows if nothing runs.   *)
SweepSync ==
  /\ host = "free" /\ ~ sweeping
  /\ status' = SyncedStatus
  /\ LET due == \E m \in Wakeable : status'[m] = "pending" IN
       IF due /\ slot # "present"
         THEN slot' = Wake(slot) /\ sweeping' = TRUE /\ UNCHANGED host
         ELSE host' = "decide" /\ UNCHANGED <<slot, sweeping>>
  /\ UNCHANGED <<kind, seq, tries, deferred, ackVars, agentVars, onExit>>

(* A deliberate fault: rows are reset while their container still runs.    *)
DecideAnyway ==
  /\ host = "decide"
  /\ host' = "free"
  /\ IF slot = "present" /\ ~ MustKill THEN UNCHANGED tableVars ELSE ResetStuck
  /\ UNCHANGED <<agentVars, slot, sweeping, onExit>>

(* Steps 3 and 4: the SLA of a container the runner believes running, or   *)
(* the cleanup after one that is not.                                      *)
SweepDecide ==
  /\ host = "decide"
  /\ IF slot = "present"
       THEN /\ host' = IF MustKill THEN "kill" ELSE "free"
            /\ UNCHANGED tableVars
       ELSE /\ host' = "free"
            /\ ResetStuck
  /\ UNCHANGED <<agentVars, slot, sweeping, onExit>>

(* The stop returned: the process is gone, its rows are retried.           *)
SweepKill ==
  /\ host = "kill"
  /\ Vanish
  /\ ResetStuck
  /\ host' = "free"
  /\ UNCHANGED <<hb, tool, handled, slot, sweeping, onExit>>

-----------------------------------------------------------------------------
(* The host process dies; its maps are lost, the container runs on until   *)
(* the next start stops it as an orphan.                                   *)

HostCrash ==
  /\ host # "down"
  /\ host' = "down"
  /\ slot' = "absent"
  /\ sweeping' = FALSE
  /\ onExit' = FALSE
  /\ UNCHANGED <<tableVars, agentVars>>

HostStart ==
  /\ host = "down"
  /\ host' = "free"
  /\ Vanish
  /\ UNCHANGED <<tableVars, hb, tool, handled, slot, sweeping, onExit>>
=============================================================================

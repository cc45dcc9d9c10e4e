---------------------------- MODULE AgentRunner ----------------------------
(***************************************************************************)
(* The process inside a session's container: the poll loop and the query   *)
(* it keeps open, with the concurrent follow-up poll.                      *)
(*                                                                         *)
(*   none -> boot -> poll -> claimed -> scripts -> turn -> poll -> ...     *)
(*                                                                         *)
(* A follow-up poll that is still waiting for its scripts when its query   *)
(* ends leaves its rows in "stray": that closure belongs to no turn.       *)
(***************************************************************************)
EXTENDS SessionTables

VARIABLES
  phase,     \* where the container's main loop stands; "none" without a process
  first,     \* isFirstPoll
  batch,     \* the rows of the open turn's initial prompt
  follow,    \* rows claimed by the open turn's follow-up poll, not yet pushed
  stray,     \* rows claimed by follow-up polls whose query has ended
  ended,     \* endedForCommand
  owed,      \* prompts pushed into the open query and not yet answered
  nudged,    \* unwrappedNudged
  hb,        \* the heartbeat file: absent, fresh, or stale (older than the ceiling)
  tool,      \* container_state: "bash" while Bash runs with a declared timeout
  handled    \* history: rows the agent, a gate script or /clear has consumed

runnerVars == <<phase, first, batch, follow, stray, ended, owed, nudged>>
agentVars  == <<runnerVars, hb, tool, handled>>

RunnerTypeOK ==
  /\ phase \in {"none", "boot", "poll", "claimed", "scripts", "turn"}
  /\ first \in BOOLEAN
  /\ batch \subseteq Msgs
  /\ follow \subseteq Msgs
  /\ stray \subseteq Msgs
  /\ ended \in BOOLEAN
  /\ owed \in Nat
  /\ nudged \in BOOLEAN
  /\ hb \in {"absent", "fresh", "stale"}
  /\ tool \in {"none", "bash"}
  /\ handled \subseteq Msgs

RunnerInit ==
  /\ phase = "none"
  /\ first = FALSE
  /\ batch = {} /\ follow = {} /\ stray = {}
  /\ ended = FALSE
  /\ owed = 0 /\ nudged = FALSE
  /\ hb = "absent"
  /\ tool = "none"
  /\ handled = {}

(* The process is gone, and its memory with it; what it wrote stays.       *)
Vanish ==
  /\ phase' = "none"
  /\ first' = FALSE
  /\ batch' = {} /\ follow' = {} /\ stray' = {}
  /\ ended' = FALSE
  /\ owed' = 0 /\ nudged' = FALSE

Tasks(S)    == {m \in S : kind[m] = "task"}
Clears(S)   == {m \in S : kind[m] = "clear"}
Commands(S) == {m \in S : kind[m] \in {"clear", "command"}}
Triggers(S) == {m \in S : kind[m] # "context"}

(* touchHeartbeat ends every claim's silence.                              *)
Touch == hb' = "fresh" /\ silent' = {}

(* The heartbeat stays as it is while the claims on S are given back.      *)
Untouched(S) == silent' = silent \ S /\ UNCHANGED hb

-----------------------------------------------------------------------------
(* The main loop.                                                          *)

(* Startup: the claims a crashed predecessor left are cleared.             *)
Boot ==
  /\ phase = "boot"
  /\ phase' = "poll"
  /\ first' = TRUE
  /\ DropClaims
  /\ UNCHANGED <<inboundVars, batch, follow, stray, ended, owed, nudged, hb, tool, handled>>

(* A deliberate fault: rows are taken without a claim.                     *)
PollUnclaimed ==
  /\ phase = "poll"
  /\ first' = FALSE
  /\ LET rows == Fetch(first) IN
       IF Triggers(rows) = {}
         THEN UNCHANGED <<phase, batch>>
         ELSE phase' = "claimed" /\ batch' = rows
  /\ UNCHANGED <<tableVars, follow, stray, ended, owed, nudged, hb, tool, handled>>

(* One iteration of the poll: with no wake-eligible row nothing is claimed *)
(* and only the first-poll flag is spent.                                  *)
Poll ==
  /\ phase = "poll"
  /\ first' = FALSE
  /\ LET rows == Fetch(first) IN
       IF Triggers(rows) = {}
         THEN UNCHANGED <<phase, batch, ackVars>>
         ELSE /\ phase' = "claimed"
              /\ batch' = rows
              /\ MarkProcessing(rows)
  /\ UNCHANGED <<inboundVars, follow, stray, ended, owed, nudged, hb, tool, handled>>

(* /clear rows are carried out and completed at once.                      *)
RunClears ==
  /\ phase = "claimed"
  /\ MarkCompleted(Clears(batch))
  /\ handled' = handled \union Clears(batch)
  /\ batch' = batch \ Clears(batch)
  /\ phase' = IF batch' = {} THEN "poll" ELSE "scripts"
  /\ Untouched(Clears(batch))
  /\ UNCHANGED <<inboundVars, first, follow, stray, ended, owed, nudged, tool>>

(* A pre-task script of some claimed task starts or ends: the scripts run  *)
(* one after the other and touch the heartbeat each time.                  *)
ScriptTouch ==
  /\ Tasks(follow \union stray) # {} \/ (phase = "scripts" /\ Tasks(batch) # {})
  /\ Touch
  /\ UNCHANGED <<inboundVars, ack, age, attempts, runnerVars, tool, handled>>

(* Some of the claimed tasks carry a script, and some of the scripts gate  *)
(* their rows; what is left becomes the prompt.                            *)
StartTurn ==
  /\ phase = "scripts"
  /\ \E scripted \in SUBSET Tasks(batch) : \E gated \in SUBSET scripted :
       /\ MarkCompleted(gated)
       /\ batch' = batch \ gated
       /\ IF scripted # {} THEN Touch ELSE Untouched({})
  /\ handled' = handled \union batch
  /\ IF batch' = {}
       THEN phase' = "poll" /\ UNCHANGED owed
       ELSE phase' = "turn" /\ owed' = 1
  /\ UNCHANGED <<inboundVars, first, follow, stray, ended, nudged, tool>>

(* A provider event touches the heartbeat.                                 *)
Event ==
  /\ phase = "turn" /\ owed > 0
  /\ Touch
  /\ UNCHANGED <<inboundVars, ack, age, attempts, runnerVars, tool, handled>>

(* A result completes the initial batch while the query stays open for     *)
(* follow-ups; unwrapped text is answered with one nudge per prompt.       *)
Result ==
  /\ phase = "turn" /\ owed > 0
  /\ Touch
  /\ MarkCompleted(batch)
  /\ \/ owed' \in 0..(owed - 1) /\ UNCHANGED nudged
     \/ ~ nudged /\ nudged' = TRUE /\ UNCHANGED owed
  /\ UNCHANGED <<inboundVars, phase, first, batch, follow, stray, ended, tool, handled>>

(* A deliberate fault: the end of a turn completes unpushed follow-ups too.*)
EndTurnDropsFollow ==
  /\ phase = "turn"
  /\ MarkCompleted(batch \union follow)
  /\ Untouched(batch \union follow)
  /\ phase' = "poll"
  /\ batch' = {} /\ follow' = {}
  /\ ended' = FALSE
  /\ owed' = 0 /\ nudged' = FALSE
  /\ UNCHANGED <<inboundVars, first, stray, tool, handled>>

(* The stream closes or throws: the batch is completed either way, and a   *)
(* follow-up poll in flight is cut off from its query.                     *)
EndTurn ==
  /\ phase = "turn"
  /\ MarkCompleted(batch)
  /\ Untouched(batch)
  /\ phase' = "poll"
  /\ batch' = {}
  /\ follow' = {}
  /\ stray' = stray \union follow
  /\ ended' = FALSE
  /\ owed' = 0 /\ nudged' = FALSE
  /\ UNCHANGED <<inboundVars, first, tool, handled>>

-----------------------------------------------------------------------------
(* The follow-up poll of an open query.                                    *)

(* A slash command ends the stream and stays pending for the main loop;    *)
(* anything else is claimed, whatever its trigger flag.                    *)
FollowClaim ==
  /\ phase = "turn" /\ follow = {} /\ ~ended
  /\ LET rows == Fetch(FALSE) IN
       /\ rows # {}
       /\ IF Commands(rows) # {}
            THEN /\ ended' = TRUE
                 /\ UNCHANGED <<follow, ackVars>>
            ELSE /\ follow' = rows
                 /\ MarkProcessing(rows)
                 /\ UNCHANGED ended
  /\ UNCHANGED <<inboundVars, phase, first, batch, stray, owed, nudged, hb, tool, handled>>

(* The scripts are done and the query still runs: the rows are pushed and  *)
(* completed in one go.                                                    *)
FollowPush ==
  /\ phase = "turn" /\ follow # {}
  /\ MarkCompleted(follow)
  /\ handled' = handled \union follow
  /\ follow' = {}
  /\ \E scripted \in SUBSET Tasks(follow) : \E gated \in SUBSET scripted :
       /\ IF scripted # {} THEN Touch ELSE Untouched(follow)
       /\ IF gated = follow
            THEN UNCHANGED <<owed, nudged>>
            ELSE owed' = owed + 1 /\ nudged' = FALSE
  /\ UNCHANGED <<inboundVars, phase, first, batch, stray, ended, tool>>

(* The scripts are done but the query is over: gated tasks are completed,  *)
(* the other rows stay claimed.                                            *)
StrayReturns ==
  /\ stray # {}
  /\ \E scripted \in SUBSET Tasks(stray) : \E gated \in SUBSET scripted :
       /\ MarkCompleted(gated)
       /\ handled' = handled \union gated
       /\ IF scripted # {} THEN Touch ELSE Untouched({})
  /\ stray' = {}
  /\ UNCHANGED <<inboundVars, phase, first, batch, follow, ended, owed, nudged, tool>>

-----------------------------------------------------------------------------
(* Tools, time and crashes.                                                *)

BashStarts ==
  /\ phase = "turn" /\ owed > 0 /\ tool = "none"
  /\ tool' = "bash"
  /\ UNCHANGED <<tableVars, runnerVars, hb, handled>>

BashEnds ==
  /\ phase = "turn" /\ tool = "bash"
  /\ tool' = "none"
  /\ UNCHANGED <<tableVars, runnerVars, hb, handled>>

HeartbeatExpires ==
  /\ hb = "fresh"
  /\ hb' = "stale"
  /\ UNCHANGED <<tableVars, runnerVars, tool, handled>>

Die ==
  /\ phase # "none"
  /\ Vanish
  /\ UNCHANGED <<tableVars, hb, tool, handled>>
=============================================================================

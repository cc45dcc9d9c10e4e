---------------------------- MODULE SessionQueue ----------------------------
(***************************************************************************)
(* One session end to end: the host's writers, container runner and sweep, *)
(* the agent's poll loop, and the two databases between them.              *)
(***************************************************************************)
EXTENDS HostSweep

Init == TablesInit /\ RunnerInit /\ HostInit

AgentStep ==
  \/ Boot         /\ UNCHANGED hostVars
  \/ Poll         /\ UNCHANGED hostVars
  \/ RunClears    /\ UNCHANGED hostVars
  \/ ScriptTouch  /\ UNCHANGED hostVars
  \/ StartTurn    /\ UNCHANGED hostVars
  \/ Event        /\ UNCHANGED hostVars
  \/ Result       /\ UNCHANGED hostVars
  \/ EndTurn      /\ UNCHANGED hostVars
  \/ FollowClaim  /\ UNCHANGED hostVars
  \/ FollowPush   /\ UNCHANGED hostVars
  \/ StrayReturns /\ UNCHANGED hostVars
  \/ BashStarts   /\ UNCHANGED hostVars
  \/ BashEnds     /\ UNCHANGED hostVars
  \/ Die          /\ UNCHANGED hostVars

TimeStep ==
  \/ HeartbeatExpires /\ UNCHANGED hostVars
  \/ \E m \in Msgs : ClaimAges(m) /\ UNCHANGED <<agentVars, hostVars>>
  \/ \E m \in Msgs : BackoffElapses(m) /\ UNCHANGED <<agentVars, hostVars>>

HostStep ==
  \/ \E m \in Msgs : Arrive(m) \/ Restart(m)
  \/ RestartStops
  \/ SpawnOk \/ SpawnFails \/ Close
  \/ SweepSync \/ SweepDecide \/ SweepKill
  \/ HostCrash \/ HostStart

Next == AgentStep \/ TimeStep \/ HostStep

Spec == Init /\ [][Next]_vars

(* The host's timers fire and its queued callbacks run: they wait only for *)
(* the event loop to be between two others (hence strong fairness). The    *)
(* poll loop keeps polling, scripts end (they have a timeout) and time     *)
(* passes. The provider owes nothing: no event, no result and no end of a  *)
(* turn is fair.                                                           *)
Fairness ==
  /\ SF_vars(SweepSync) /\ SF_vars(SpawnOk) /\ SF_vars(Close)
  /\ WF_vars(SweepDecide) /\ WF_vars(SweepKill) /\ WF_vars(RestartStops)
  /\ WF_vars(HostStart)
  /\ WF_vars(Boot /\ UNCHANGED hostVars)
  /\ WF_vars(Poll /\ UNCHANGED hostVars)
  /\ WF_vars(RunClears /\ UNCHANGED hostVars)
  /\ WF_vars(StartTurn /\ UNCHANGED hostVars)
  /\ WF_vars(FollowPush /\ UNCHANGED hostVars)
  /\ WF_vars(StrayReturns /\ UNCHANGED hostVars)
  /\ WF_vars(HeartbeatExpires /\ UNCHANGED hostVars)
  /\ \A m \in Msgs : WF_vars(ClaimAges(m) /\ UNCHANGED <<agentVars, hostVars>>)
  /\ \A m \in Msgs : WF_vars(BackoffElapses(m) /\ UNCHANGED <<agentVars, hostVars>>)

FairSpec == Spec /\ Fairness

-----------------------------------------------------------------------------
TypeOK == TablesTypeOK /\ RunnerTypeOK /\ HostTypeOK

(* A row is completed only once the agent was given it, its script gated   *)
(* it, or /clear was carried out: the container's acks and the host's sync *)
(* never complete a row nobody consumed.                                   *)
NoSilentDrop == \A m \in Msgs : status[m] = "completed" => m \in handled

(* The host gives a row up only after it was really claimed MaxTries + 1   *)
(* times: no reset counts the same claim twice.                            *)
NoEarlyGiveUp == \A m \in Msgs : status[m] = "failed" => attempts[m] = MaxTries + 1

(* What the container's process still holds in memory is covered by a      *)
(* claim or an ack, is not given up on by the host, and is held once.      *)
InFlightCovered ==
  /\ \A m \in batch \union follow \union stray : ack[m] # "none" /\ status[m] # "failed"
  /\ batch \intersect follow = {}
  /\ (batch \union follow) \intersect stray = {}

(* completed and failed are final: no late ack revives a row the host gave *)
(* up on, and no retry reopens one the agent is done with.                 *)
VerdictIsFinal ==
  [][\A m \in Msgs : status[m] \in {"completed", "failed"} => status'[m] = status[m]]_vars

(* An acked row is never claimed again.                                    *)
AckIsFinal == [][\A m \in Msgs : ack[m] = "completed" => ack'[m] = "completed"]_vars

(* The sweep writes outbound.db only when no container process is left,    *)
(* although it knows of the process only what the runner's map says.       *)
SingleWriter ==
  [][(host \in {"decide", "kill"} /\ host' = "free" /\ ack' # ack) => phase' = "none"]_vars

-----------------------------------------------------------------------------
(* The inductive invariant behind the safety properties.                   *)

(* A row's columns, its claim and its history belong together.             *)
RowInv(m) ==
  /\ status[m] = "absent" => ack[m] = "none"
  /\ status[m] = "completed" => ack[m] = "completed"
  /\ status[m] = "failed" => ack[m] = "none" /\ attempts[m] = MaxTries + 1
  /\ ack[m] = "processing" => m \notin deferred /\ attempts[m] >= tries[m] + 1
  /\ ack[m] = "completed" => m \in handled
  /\ tries[m] <= attempts[m]

(* What the process holds is claimed until it is consumed.                 *)
HeldInv ==
  /\ \A m \in batch : ack[m] # "none"
  /\ \A m \in follow \union stray : ack[m] = "processing"
  /\ phase \in {"claimed", "scripts"} => \A m \in batch : ack[m] = "processing"
  /\ phase = "turn" => batch \subseteq handled
  /\ batch \intersect follow = {}
  /\ (batch \union follow) \intersect stray = {}

(* Memory lives and dies with the process, and the runner's map knows of   *)
(* every process this host has started.                                    *)
ProcessInv ==
  /\ phase \in {"none", "boot", "poll"} => batch = {}
  /\ phase # "turn" => follow = {}
  /\ phase \in {"none", "boot"} => stray = {}
  /\ phase # "none" => slot = "present" \/ host = "down"

IInv ==
  /\ TypeOK
  /\ \A m \in Msgs : RowInv(m)
  /\ HeldInv
  /\ ProcessInv

-----------------------------------------------------------------------------
(* The session implements the abstract queue: a row is consumed only under *)
(* a claim, and completed or given up on only as RetryQueue allows.        *)
Queue == INSTANCE RetryQueue WITH
           Rows <- Msgs, Tries <- MaxTries + 1,
           verdict <- status, claims <- attempts, consumed <- handled
ImplementsQueue == Queue!Spec

(* Processes stop crashing, spawns stop failing, and an agent that is given *)
(* nothing new stops reporting progress: what the retries cannot survive.  *)
Calm ==
  <>[][~ (\/ (Die \/ Event) /\ UNCHANGED hostVars
          \/ SpawnFails \/ HostCrash)]_vars

Settled(m) == status[m] \in {"completed", "failed"}
Settles(K) ==
  Calm => \A m \in Msgs : (status[m] = "pending" /\ kind[m] \in K) ~> Settled(m)

(* A row that wakes the agent, and a task that is due or will be, is       *)
(* finished or given up on in the end, even if the agent hangs in every    *)
(* turn it is given: stuck turns are found by the sweep, killed, retried.  *)
EveryRowSettles == Settles({"chat", "task", "clear", "command"})

-----------------------------------------------------------------------------
(* Claims of the repository's comments and documents about this system.    *)

(* docs/architecture.md, Error Handling and Retries: whenever a container  *)
(* leaves a claimed pending row behind, the row's tries are increased (or  *)
(* the row fails) before the claim disappears.                             *)
CrashCountsAsTry ==
  [][\A m \in Msgs :
       (ack[m] = "processing" /\ ack'[m] = "none" /\ status[m] = "pending")
         => tries'[m] > tries[m] \/ status'[m] = "failed"]_vars

(* host-sweep.ts, step 2: a fresh container gets the chance to clear its   *)
(* predecessor's claims; the sweep does not stop one that has not started  *)
(* its poll loop yet.                                                      *)
FreshContainerSpared ==
  [][(host = "kill" /\ host' = "free") => phase # "boot"]_vars

(* poll-loop.ts, accumulate gate: context-only rows ride along with a wake-*)
(* eligible row, and are never what the agent is asked to respond to.      *)
AccumulateContract ==
  [][(follow' # {} /\ follow' # follow) => Triggers(follow') # {}]_vars

(* docs/architecture.md, Message Batching: a container that wakes up reads  *)
(* all unhandled rows, so the row it was woken for is among them even when  *)
(* more context than fits one prompt was stored behind it.                 *)
TriggerNotStarved == Settles({"chat"})

(* docs/architecture.md, Error Handling and Retries: a stale row is retried *)
(* until it is completed or has failed. An on_wake row is no exception.    *)
RestartRowSettles == Settles({"restart"})
=============================================================================

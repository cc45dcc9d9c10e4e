---------------------------- MODULE Containers ----------------------------
(***************************************************************************)
(* The host process and the containers of one agent group: start-up with   *)
(* the circuit breaker and the reaping of orphans, wakes, kills, restarts  *)
(* that apply a configuration, shutdown, and crashes of the host that      *)
(* leave containers running.                                               *)
(*                                                                         *)
(* The container runner knows a container only by the docker process it    *)
(* started ("cli", the map activeContainers). A container whose docker     *)
(* process is gone lives on as a stray until a start of the host reaps it. *)
(* "spawning" is the map wakePromises: between the first and the second    *)
(* half of a spawn lies the await of the credential gateway.               *)
(***************************************************************************)
EXTENDS Integers, Sequences, FiniteSets

CONSTANTS
  Sessions,    \* the sessions of the agent group
  Backoff,     \* BACKOFF_SCHEDULE_S
  MaxConfigs,  \* bound on changes of the group's configuration
  MaxStarts,   \* bound on starts of the host
  MaxStrays    \* bound on the stray containers of a session

ASSUME BackoffAssumption == Backoff \in Seq(Nat) /\ Len(Backoff) > 0
ASSUME BoundsAssumption == MaxConfigs \in Nat /\ MaxStarts \in Nat /\ MaxStrays \in Nat

VARIABLES
  host,      \* how far main() is: down, backoff, starting, adapters, up
  ending,    \* shutdown() runs beside it
  file,      \* attempt in circuit-breaker.json, 0 when there is no file
  recent,    \* the start that wrote the file is less than RESET_WINDOW_MS ago
  delay,     \* the wait of the last start
  starts,
  config,    \* version of the group's container_configs row
  json,      \* version in container.json, which all containers of the group mount
  spawning,  \* per session, the versions its spawns in flight have read
  cli,       \* per session, the docker process in activeContainers
  onExit,    \* sessions whose docker process has a close callback that wakes
  stray,     \* per session, containers without a docker process
  \* history
  crashes,   \* ends of the process in a row that were not clean shutdowns
  applied,   \* version the last restart of the group was to apply
  passed,    \* sessions that were in the middle of a spawn at that restart
  faulty     \* sessions for which a stop of a container failed

breaker == <<file, recent, delay, starts, crashes>>
fleet   == <<spawning, cli, onExit, stray>>
past    == <<applied, passed, faulty>>
vars    == <<host, ending, breaker, config, json, fleet, past>>

None == [phase |-> "none", image |-> 0, json |-> 0]

Init ==
  /\ host = "down" /\ ending = FALSE
  /\ file = 0 /\ recent = FALSE /\ delay = 0 /\ starts = 0 /\ crashes = 0
  /\ config = 0 /\ json = 0
  /\ spawning = [s \in Sessions |-> <<>>]
  /\ cli = [s \in Sessions |-> None]
  /\ onExit = {}
  /\ stray = [s \in Sessions |-> 0]
  /\ applied = 0 /\ passed = {} /\ faulty = {}

(* Callers of the wake: adapters deliver messages from the moment they are *)
(* set up and until they are torn down.                                    *)
Serving == host \in {"adapters", "up"}

-----------------------------------------------------------------------------
(* The circuit breaker.                                                    *)

Lesser(a, b) == IF a < b THEN a ELSE b

(* The schedule's last entry stands for every later attempt.               *)
DelayOf(attempt) == Backoff[Lesser(attempt, Len(Backoff))]

(* A file within the window is an earlier start that was not shut down     *)
(* cleanly.                                                                *)
CountStart == file' = IF file > 0 /\ recent THEN file + 1 ELSE 1

(* enforceStartupBackoff writes the file before it waits.                  *)
Start ==
  /\ host = "down" /\ starts < MaxStarts
  /\ CountStart
  /\ delay' = DelayOf(file')
  /\ recent' = TRUE
  /\ crashes' = IF recent THEN crashes ELSE 0
  /\ starts' = starts + 1
  /\ host' = "backoff"
  /\ UNCHANGED <<ending, config, json, fleet, past>>

HourPasses ==
  /\ recent /\ host \in {"down", "up"}
  /\ recent' = FALSE
  /\ UNCHANGED <<host, ending, file, delay, starts, crashes, config, json, fleet, past>>

-----------------------------------------------------------------------------
(* Start-up.                                                               *)

(* The wait is over, the database is open and migrated, and the container  *)
(* runtime answers.                                                        *)
OpenDatabase ==
  /\ host = "backoff"
  /\ host' = "starting"
  /\ UNCHANGED <<ending, breaker, config, json, fleet, past>>

(* cleanupOrphans stops what carries this install's label. Neither a       *)
(* failed listing nor a failed stop ends the start.                        *)
CleanupOrphans ==
  /\ host = "starting"
  /\ \E left \in SUBSET {s \in Sessions : stray[s] > 0} :
       /\ stray' = [s \in Sessions |-> IF s \in left THEN stray[s] ELSE 0]
       /\ faulty' = left
  /\ host' = "adapters"
  /\ UNCHANGED <<ending, breaker, config, json, spawning, cli, onExit, applied, passed>>

(* The adapters are set up, and delivery polls, sweep and command server   *)
(* run.                                                                    *)
Running ==
  /\ host = "adapters"
  /\ host' = "up"
  /\ UNCHANGED <<ending, breaker, config, json, fleet, past>>

-----------------------------------------------------------------------------
(* Wakes.                                                                  *)

(* container.json is written over in place, for every container that       *)
(* mounts it.                                                              *)
WriteJson == json' = config

(* Mounts, instructions and image follow the row as it is at this moment.  *)
ReadConfig(s) == spawning' = [spawning EXCEPT ![s] = Append(@, config)]

(* spawnContainer up to its await.                                         *)
Materialize(s) == WriteJson /\ ReadConfig(s)

(* A deliberate fault: a wake in flight is not joined.                     *)
RunningOnly(s) == cli[s].phase # "none"

(* wakeContainer: a running container is left alone, a wake in flight is   *)
(* joined.                                                                 *)
Awake(s) == cli[s].phase # "none" \/ spawning[s] # <<>>

Wake(s) ==
  /\ Serving /\ ~ Awake(s) /\ Len(spawning[s]) < 2
  /\ Materialize(s)
  /\ UNCHANGED <<host, ending, breaker, config, cli, onExit, stray, past>>

(* The gateway refuses, or anything before the spawn throws: the wake      *)
(* resolves to false and the message waits for the sweep.                  *)
SpawnFails(s) ==
  /\ spawning[s] # <<>>
  /\ spawning' = [spawning EXCEPT ![s] = Tail(@)]
  /\ UNCHANGED <<host, ending, breaker, config, json, cli, onExit, stray, past>>

(* The second half: the docker process starts with the image and mounts of *)
(* the version read before the await, and takes the session's entry. A     *)
(* process that had the entry would be forgotten.                          *)
Spawn(s) ==
  /\ spawning[s] # <<>>
  /\ spawning' = [spawning EXCEPT ![s] = Tail(@)]
  /\ cli' = [cli EXCEPT ![s] = [phase |-> "created", image |-> Head(spawning[s]), json |-> 0]]
  /\ stray' = [stray EXCEPT ![s] = @ + IF cli[s].phase \in {"created", "running"} THEN 1 ELSE 0]
  /\ onExit' = onExit \ {s}
  /\ UNCHANGED <<host, ending, breaker, config, json, past>>

(* The container is up and its runner loads container.json as it is now.   *)
LoadConfig(s) ==
  /\ cli[s].phase = "created"
  /\ cli' = [cli EXCEPT ![s].phase = "running", ![s].json = json]
  /\ UNCHANGED <<host, ending, breaker, config, json, spawning, onExit, stray, past>>

(* The container or its start ends by itself.                              *)
Exit(s) ==
  /\ cli[s].phase \in {"created", "running"}
  /\ cli' = [cli EXCEPT ![s].phase = "closing"]
  /\ UNCHANGED <<host, ending, breaker, config, json, spawning, onExit, stray, past>>

(* A deliberate fault: the callback runs before the entry is deleted, and  *)
(* its wake finds the container running.                                   *)
CallbackFirst(s) ==
  /\ cli' = [cli EXCEPT ![s] = None]
  /\ UNCHANGED <<json, spawning>>

(* The close event: the runner's own handler was attached first, so the    *)
(* entry is gone when the callback of a restart wakes the session.         *)
CloseHandlers(s) ==
  /\ cli' = [cli EXCEPT ![s] = None]
  /\ IF s \in onExit /\ spawning[s] = <<>> THEN Materialize(s) ELSE UNCHANGED <<json, spawning>>

Close(s) ==
  /\ host # "down" /\ cli[s].phase = "closing"
  /\ CloseHandlers(s)
  /\ onExit' = onExit \ {s}
  /\ UNCHANGED <<host, ending, breaker, config, stray, past>>

-----------------------------------------------------------------------------
(* Kills and restarts.                                                     *)

(* killContainer for a set of sessions. docker stop fails when the daemon  *)
(* does, or when the container does not exist yet; then only the docker    *)
(* process is killed, and the container may live on without it.            *)
Stop(targets) ==
  \E failed \in SUBSET targets : \E alive \in SUBSET failed :
    /\ \A s \in alive : stray[s] < MaxStrays
    /\ cli' = [s \in Sessions |-> IF s \in targets THEN [cli[s] EXCEPT !.phase = "closing"] ELSE cli[s]]
    /\ stray' = [s \in Sessions |-> stray[s] + IF s \in alive THEN 1 ELSE 0]
    /\ faulty' = faulty \union alive

(* The sweep stops a container that is over its ceiling or stuck.          *)
Kill(s) ==
  /\ host = "up" /\ cli[s].phase \in {"created", "running"}
  /\ Stop({s})
  /\ UNCHANGED <<host, ending, breaker, config, json, spawning, onExit, applied, passed>>

(* config update and the package and server commands change the row only.  *)
UpdateConfig ==
  /\ Serving /\ config < MaxConfigs
  /\ config' = config + 1
  /\ UNCHANGED <<host, ending, breaker, json, fleet, past>>

(* A deliberate fault: a container that is still starting is not counted   *)
(* as running.                                                             *)
Booted == {s \in Sessions : cli[s].phase = "running"}

(* The sessions restartAgentGroupContainers finds running.                 *)
Tracked == {s \in Sessions : cli[s].phase # "none"}

(* groups restart: with a message the sessions wake again on the close.    *)
RestartGroup ==
  /\ host = "up"
  /\ LET targets == Tracked IN
     /\ Stop({s \in targets : cli[s].phase # "closing"})
     /\ onExit' \in {onExit, onExit \union targets}
  /\ applied' = config
  /\ passed' = {s \in Sessions : spawning[s] # <<>>}
  /\ UNCHANGED <<host, ending, breaker, config, json, spawning>>

(* An approved self modification: the row, then a restart of the one       *)
(* session, which does nothing if it is not running; nor does an image     *)
(* that fails to build.                                                    *)
ApplySelfMod(s) ==
  /\ host = "up" /\ config < MaxConfigs
  /\ config' = config + 1
  /\ \/ /\ cli[s].phase \in {"created", "running"}
        /\ Stop({s})
        /\ onExit' = onExit \union {s}
     \/ UNCHANGED <<cli, stray, faulty, onExit>>
  /\ UNCHANGED <<host, ending, breaker, json, spawning, applied, passed>>

-----------------------------------------------------------------------------
(* The end of the host process.                                            *)

(* Promises and maps are gone; containers live on.                         *)
Gone ==
  /\ host' = "down" /\ ending' = FALSE
  /\ spawning' = [s \in Sessions |-> <<>>]
  /\ stray' = [s \in Sessions |-> stray[s] + IF cli[s].phase \in {"created", "running"} THEN 1 ELSE 0]
  /\ cli' = [s \in Sessions |-> None]
  /\ onExit' = {}
  /\ passed' = {}
  /\ UNCHANGED <<delay, starts, config, json, applied, faulty>>

(* A crash, also in the middle of a shutdown, or a start that throws: the  *)
(* runtime does not answer, a migration fails.                             *)
Crash ==
  /\ host # "down"
  /\ Gone
  /\ crashes' = crashes + 1
  /\ UNCHANGED <<file, recent>>

(* A signal, at any time: start-up and messages go on while the shutdown   *)
(* awaits callbacks, servers and adapters one by one.                      *)
Shutdown ==
  /\ host # "down" /\ ~ ending
  /\ ending' = TRUE
  /\ UNCHANGED <<host, breaker, config, json, fleet, past>>

(* A deliberate fault: the file is left when the process was ended while   *)
(* it still waited.                                                        *)
ResetUnlessWaiting == file' = IF delay > 0 THEN file ELSE 0

(* resetCircuitBreaker, in the finally block.                              *)
Reset == file' = 0

Finish ==
  /\ ending
  /\ Gone
  /\ Reset
  /\ crashes' = 0
  /\ UNCHANGED recent

-----------------------------------------------------------------------------
Next ==
  \/ Start \/ HourPasses \/ OpenDatabase \/ CleanupOrphans \/ Running
  \/ \E s \in Sessions : Wake(s) \/ SpawnFails(s) \/ Spawn(s) \/ LoadConfig(s) \/ Exit(s) \/ Close(s)
  \/ \E s \in Sessions : Kill(s) \/ ApplySelfMod(s)
  \/ UpdateConfig \/ RestartGroup
  \/ Crash \/ Shutdown \/ Finish

Spec == Init /\ [][Next]_vars

(* The docker process of a stopped container ends, and its close event is  *)
(* delivered.                                                              *)
FairSpec == Spec /\ \A s \in Sessions : WF_vars(Close(s))

-----------------------------------------------------------------------------
TypeOK ==
  /\ host \in {"down", "backoff", "starting", "adapters", "up"} /\ ending \in BOOLEAN
  /\ file \in 0..MaxStarts /\ crashes \in 0..MaxStarts /\ starts \in 0..MaxStarts
  /\ recent \in BOOLEAN /\ delay \in Nat
  /\ config \in 0..MaxConfigs /\ json \in 0..config /\ applied \in 0..config
  /\ spawning \in [Sessions -> Seq(0..config)]
  /\ cli \in [Sessions -> [phase : {"none", "created", "running", "closing"},
                           image : 0..config, json : 0..config]]
  /\ stray \in [Sessions -> Nat]
  /\ onExit \subseteq Sessions /\ passed \subseteq Sessions /\ faulty \subseteq Sessions

Alive(s) == stray[s] + IF cli[s].phase \in {"created", "running"} THEN 1 ELSE 0

(* While the host can wake containers, a session has one container at most *)
(* (two would share its databases): whatever wakes, kills, restarts and    *)
(* crashes came before, unless docker failed to stop one.                  *)
OneContainer ==
  Serving => \A s \in Sessions \ faulty : Alive(s) <= 1

(* A restart of the group reaches every container: one with an image, or a *)
(* container.json read, from before what the restart was to apply was in   *)
(* the middle of its spawn, where the runner's map does not show it.       *)
RestartApplies ==
  \A s \in Sessions :
    \/ cli[s].phase \in {"created", "running"} /\ cli[s].image < applied
    \/ cli[s].phase = "running" /\ cli[s].json < applied
    => s \in passed

(* The wait before a start is the schedule's entry for the number of       *)
(* unclean ends in a row, whatever part of start-up, operation or shutdown *)
(* they came in; only a clean shutdown or a quiet hour starts it over.     *)
BackoffCountsCrashes ==
  host # "down" => delay = DelayOf(crashes + 1)

(* A session that is restarted with a message is woken again, unless the   *)
(* host ends first.                                                        *)
RestartWakes ==
  \A s \in Sessions :
    [](s \in onExit => <>(spawning[s] # <<>> \/ host = "down"))
=============================================================================

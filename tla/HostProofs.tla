----------------------------- MODULE HostProofs -----------------------------
(***************************************************************************)
(* Proofs about the host as a service of the machine: what it runs          *)
(* (Containers), for every set of sessions, every schedule and any number   *)
(* of starts, configurations and stray containers; and how setup installs   *)
(* it (Setup), for every set of channels and any number of processes.       *)
(***************************************************************************)
EXTENDS Containers, Setup, SequenceTheorems, TLAPS

Phases == {"none", "created", "running", "closing"}
Hosts  == {"down", "backoff", "starting", "adapters", "up"}

-----------------------------------------------------------------------------
(* What the steps do to the state, as far as the invariants ask.           *)

Entry(top) == [phase : Phases, image : 0..top, json : 0..top]

(* The types, with the containers' apart from the counters'.               *)
FleetTypes ==
  /\ config \in Nat /\ json \in 0..config /\ applied \in 0..config
  /\ spawning \in [Sessions -> Seq(0..config)]
  /\ cli \in [Sessions -> Entry(config)]
  /\ stray \in [Sessions -> Nat]
  /\ onExit \subseteq Sessions /\ passed \subseteq Sessions /\ faulty \subseteq Sessions

(* A spawn in flight is the only one, and the session has no process: so no *)
(* spawn ever takes the entry of a process that lives. Before the adapters  *)
(* are up nothing runs; after, what runs beside the map had a failed stop.  *)
FleetInv ==
  /\ host \in Hosts
  /\ ~ Serving => \A s \in Sessions : spawning[s] = <<>> /\ cli[s].phase = "none"
  /\ Serving => \A s \in Sessions \ faulty : stray[s] = 0
  /\ \A s \in Sessions : spawning[s] # <<>> => Len(spawning[s]) = 1 /\ cli[s].phase = "none"

(* What a spawn has read, and what a container was started from, is in      *)
(* container.json or older; and what a spawn has read is no older than the  *)
(* last restart, unless that restart found it in flight.                    *)
VersionInv ==
  \A s \in Sessions :
    /\ \A k \in DOMAIN spawning[s] :
         spawning[s][k] <= json /\ (spawning[s][k] < applied => s \in passed)
    /\ cli[s].image <= json
    /\ cli[s].phase \in {"created", "running"} /\ cli[s].image < applied => s \in passed
    /\ cli[s].phase = "running" /\ cli[s].json < applied => s \in passed

LEMMA StopSteps ==
  ASSUME FleetTypes, NEW T \in SUBSET Sessions, Stop(T)
  PROVE  /\ \A s \in Sessions \ T : cli'[s] = cli[s]
         /\ \A s \in T : cli'[s].phase = "closing" /\ cli'[s].image = cli[s].image
         /\ cli' \in [Sessions -> Entry(config)]
         /\ stray' \in [Sessions -> Nat]
         /\ faulty \subseteq faulty' /\ faulty' \subseteq Sessions
         /\ \A s \in Sessions \ faulty' : stray'[s] = stray[s]
<1>1. PICK failed \in SUBSET T : \E alive \in SUBSET failed :
        /\ cli' = [s \in Sessions |-> IF s \in T THEN [cli[s] EXCEPT !.phase = "closing"] ELSE cli[s]]
        /\ stray' = [s \in Sessions |-> stray[s] + IF s \in alive THEN 1 ELSE 0]
        /\ faulty' = faulty \union alive
  BY DEF Stop
<1>2. PICK alive \in SUBSET failed :
        /\ cli' = [s \in Sessions |-> IF s \in T THEN [cli[s] EXCEPT !.phase = "closing"] ELSE cli[s]]
        /\ stray' = [s \in Sessions |-> stray[s] + IF s \in alive THEN 1 ELSE 0]
        /\ faulty' = faulty \union alive
  BY <1>1
<1>3. \A s \in Sessions : [cli[s] EXCEPT !.phase = "closing"] \in Entry(config)
  BY DEF FleetTypes, Entry, Phases
<1>4. \A s \in T : cli'[s].phase = "closing" /\ cli'[s].image = cli[s].image
  <2>1. SUFFICES ASSUME NEW s \in T PROVE cli'[s].phase = "closing" /\ cli'[s].image = cli[s].image
    OBVIOUS
  <2>2. cli'[s] = [cli[s] EXCEPT !.phase = "closing"] /\ cli[s] \in Entry(config)
    BY <1>2 DEF FleetTypes
  <2>. QED  BY <2>2 DEF Entry
<1>5. cli' \in [Sessions -> Entry(config)]
  BY <1>2, <1>3 DEF FleetTypes
<1>6. stray' \in [Sessions -> Nat] /\ \A s \in Sessions \ faulty' : stray'[s] = stray[s]
  BY <1>2 DEF FleetTypes
<1>7. faulty' \subseteq Sessions
  BY <1>2 DEF FleetTypes
<1>. QED  BY <1>2, <1>4, <1>5, <1>6, <1>7

LEMMA GoneSteps ==
  ASSUME FleetTypes, Gone
  PROVE  /\ host' = "down" /\ passed' = {} /\ onExit' = {}
         /\ \A s \in Sessions : spawning'[s] = <<>> /\ cli'[s] = None
         /\ spawning' \in [Sessions -> Seq(0..config)]
         /\ cli' \in [Sessions -> Entry(config)]
         /\ stray' \in [Sessions -> Nat]
         /\ UNCHANGED <<config, json, applied, faulty>>
<1>1. None \in Entry(config)
  BY DEF None, Entry, Phases, FleetTypes
<1>2. <<>> \in Seq(0..config)
  OBVIOUS
<1>3. stray' \in [Sessions -> Nat]
  BY DEF Gone, FleetTypes
<1>. QED  BY <1>1, <1>2, <1>3 DEF Gone

(* Materialize, for the session of a wake or of a close callback.           *)
LEMMA MaterializeSteps ==
  ASSUME FleetTypes, NEW s \in Sessions, spawning[s] = <<>>, Materialize(s)
  PROVE  /\ json' = config
         /\ spawning' \in [Sessions -> Seq(0..config)]
         /\ spawning'[s] = <<config>>
         /\ \A t \in Sessions \ {s} : spawning'[t] = spawning[t]
<1>1. /\ json' = config
      /\ spawning' = [spawning EXCEPT ![s] = Append(@, config)]
  BY DEF Materialize, WriteJson, ReadConfig
<1>2. Append(spawning[s], config) = <<config>> /\ <<config>> \in Seq(0..config)
  BY DEF FleetTypes
<1>. QED  BY <1>1, <1>2 DEF FleetTypes

LEMMA GrownTypes ==
  ASSUME FleetTypes
  PROVE  /\ \A q \in Seq(0..config) : q \in Seq(0..(config + 1))
         /\ \A r \in Entry(config) : r \in Entry(config + 1)
<1>1. 0..config \subseteq 0..(config + 1)
  BY DEF FleetTypes
<1>2. \A q \in Seq(0..config) : q \in Seq(0..(config + 1))
  BY <1>1, SeqMonotonic
<1>3. \A r \in Entry(config) : r \in Entry(config + 1)
  BY <1>1 DEF Entry
<1>. QED  BY <1>2, <1>3

LEMMA OneElement ==
  ASSUME NEW S, NEW q \in Seq(S), Len(q) = 1
  PROVE  Tail(q) = <<>> /\ Head(q) = q[1] /\ 1 \in DOMAIN q /\ q[1] \in S
<1>1. DOMAIN q = 1..1 /\ q[1] \in S
  BY LenProperties
<1>2. q # <<>>
  BY EmptySeq
<1>3. Head(q) = q[1]
  BY <1>2
<1>4. Tail(q) \in Seq(S) /\ Len(Tail(q)) = 0
  BY <1>2, HeadTailProperties
<1>5. Tail(q) = <<>>
  BY <1>4, EmptySeq
<1>. QED  BY <1>1, <1>3, <1>5

LEMMA LastSpawn ==
  ASSUME FleetTypes, FleetInv, NEW s \in Sessions, spawning[s] # <<>>
  PROVE  /\ Tail(spawning[s]) = <<>> /\ Head(spawning[s]) = spawning[s][1]
         /\ 1 \in DOMAIN spawning[s] /\ spawning[s][1] \in 0..config
         /\ cli[s].phase = "none"
<1>1. spawning[s] \in Seq(0..config) /\ Len(spawning[s]) = 1 /\ cli[s].phase = "none"
  BY DEF FleetTypes, FleetInv
<1>2. /\ Tail(spawning[s]) = <<>> /\ Head(spawning[s]) = spawning[s][1]
      /\ 1 \in DOMAIN spawning[s] /\ spawning[s][1] \in 0..config
  BY <1>1, OneElement
<1>. QED  BY <1>1, <1>2

\* The steps that touch no container and no configuration.
Still == Start \/ HourPasses \/ OpenDatabase \/ Running \/ Shutdown \/ UNCHANGED vars

LEMMA StillSteps == Still => UNCHANGED <<config, json, fleet, past>>
BY DEF Still, Start, HourPasses, OpenDatabase, Running, Shutdown, vars

LEMMA NextCases ==
  [Next]_vars <=>
    \/ Still \/ CleanupOrphans \/ UpdateConfig \/ RestartGroup \/ Crash \/ Finish
    \/ \E s \in Sessions : \/ Wake(s) \/ SpawnFails(s) \/ Spawn(s) \/ LoadConfig(s)
                           \/ Exit(s) \/ Close(s) \/ Kill(s) \/ ApplySelfMod(s)
BY DEF Next, Still

-----------------------------------------------------------------------------
(* Types.                                                                  *)

LEMMA FleetTypesInit == Init => FleetTypes
<1>1. <<>> \in Seq(0..0)
  OBVIOUS
<1>. QED  BY <1>1 DEF Init, FleetTypes, Entry, Phases, None

LEMMA FleetTypesStep == FleetTypes /\ FleetInv /\ [Next]_vars => FleetTypes'
<1>. SUFFICES ASSUME FleetTypes, FleetInv, [Next]_vars PROVE FleetTypes'
  OBVIOUS
<1>1. CASE Still
  BY <1>1, StillSteps DEF FleetTypes, fleet, past
<1>2. CASE CleanupOrphans
  BY <1>2 DEF CleanupOrphans, FleetTypes
<1>3. CASE UpdateConfig
  <2>1. config' = config + 1 /\ UNCHANGED <<json, fleet, past>>
    BY <1>3 DEF UpdateConfig
  <2>. QED  BY <2>1, GrownTypes DEF FleetTypes, fleet, past
<1>4. CASE RestartGroup
  <2>1. PICK T \in SUBSET Sessions : Stop(T)
    BY <1>4 DEF RestartGroup, Tracked
  <2>2. /\ UNCHANGED <<config, json, spawning>> /\ applied' = config
        /\ onExit' \subseteq Sessions /\ passed' \subseteq Sessions
    BY <1>4 DEF RestartGroup, Tracked, FleetTypes
  <2>. QED  BY <2>1, <2>2, StopSteps DEF FleetTypes
<1>5. CASE Crash \/ Finish
  BY <1>5, GoneSteps DEF Crash, Finish, FleetTypes
<1>6. ASSUME NEW s \in Sessions, Wake(s) \/ (Close(s) /\ s \in onExit /\ spawning[s] = <<>>)
      PROVE  FleetTypes'
  <2>1. spawning[s] = <<>> /\ Materialize(s)
    BY <1>6 DEF Wake, Awake, Close, CloseHandlers
  <2>2. UNCHANGED <<config, stray, past>> /\ onExit' \subseteq Sessions
        /\ (cli' = cli \/ cli' = [cli EXCEPT ![s] = None])
    BY <1>6 DEF Wake, Close, CloseHandlers, FleetTypes
  <2>3. None \in Entry(config)
    BY DEF None, Entry, Phases, FleetTypes
  <2>4. /\ json' = config /\ spawning' \in [Sessions -> Seq(0..config)]
    BY <2>1, MaterializeSteps
  <2>5. cli' \in [Sessions -> Entry(config)]
    BY <2>2, <2>3 DEF FleetTypes
  <2>. QED  BY <2>2, <2>4, <2>5 DEF FleetTypes, past
<1>7. ASSUME NEW s \in Sessions, SpawnFails(s) \/ Spawn(s)
      PROVE  FleetTypes'
  <2>1. spawning' = [spawning EXCEPT ![s] = <<>>]
        /\ Head(spawning[s]) \in 0..config
    BY <1>7, LastSpawn DEF SpawnFails, Spawn
  <2>2. <<>> \in Seq(0..config)
    OBVIOUS
  <2>3. [phase |-> "created", image |-> Head(spawning[s]), json |-> 0] \in Entry(config)
    BY <2>1 DEF Entry, Phases, FleetTypes
  <2>4. spawning' \in [Sessions -> Seq(0..config)]
    BY <2>1, <2>2 DEF FleetTypes
  <2>5. cli' \in [Sessions -> Entry(config)]
    BY <1>7, <2>3 DEF SpawnFails, Spawn, FleetTypes
  <2>6. stray' \in [Sessions -> Nat]
    BY <1>7 DEF SpawnFails, Spawn, FleetTypes
  <2>7. UNCHANGED <<config, json, past>> /\ onExit' \subseteq Sessions
    BY <1>7 DEF SpawnFails, Spawn, FleetTypes
  <2>. QED  BY <2>4, <2>5, <2>6, <2>7 DEF FleetTypes, past
<1>8. ASSUME NEW s \in Sessions, LoadConfig(s) \/ Exit(s)
      PROVE  FleetTypes'
  <2>1. cli[s] \in Entry(config) /\ json \in 0..config
    BY DEF FleetTypes
  <2>2. /\ [cli[s] EXCEPT !.phase = "running", !.json = json] \in Entry(config)
        /\ [cli[s] EXCEPT !.phase = "closing"] \in Entry(config)
    BY <2>1 DEF Entry, Phases
  <2>3. cli' \in [Sessions -> Entry(config)]
    <3>1. CASE LoadConfig(s)
      <4>1. cli' = [cli EXCEPT ![s] = [cli[s] EXCEPT !.phase = "running", !.json = json]]
        BY <3>1 DEF LoadConfig
      <4>. QED  BY <2>2, <4>1 DEF FleetTypes
    <3>2. CASE Exit(s)
      <4>1. cli' = [cli EXCEPT ![s] = [cli[s] EXCEPT !.phase = "closing"]]
        BY <3>2 DEF Exit
      <4>. QED  BY <2>2, <4>1 DEF FleetTypes
    <3>. QED  BY <1>8, <3>1, <3>2
  <2>4. UNCHANGED <<config, json, spawning, onExit, stray, past>>
    BY <1>8 DEF LoadConfig, Exit
  <2>. QED  BY <2>3, <2>4 DEF FleetTypes, past
<1>9. ASSUME NEW s \in Sessions, Close(s), ~ (s \in onExit /\ spawning[s] = <<>>)
      PROVE  FleetTypes'
  <2>1. None \in Entry(config)
    BY DEF None, Entry, Phases, FleetTypes
  <2>. QED  BY <1>9, <2>1 DEF Close, CloseHandlers, FleetTypes, past
<1>10. ASSUME NEW s \in Sessions, Kill(s)
       PROVE  FleetTypes'
  <2>1. Stop({s}) /\ UNCHANGED <<config, json, spawning, onExit, applied, passed>>
    BY <1>10 DEF Kill
  <2>. QED  BY <2>1, StopSteps DEF FleetTypes
<1>11. ASSUME NEW s \in Sessions, ApplySelfMod(s)
       PROVE  FleetTypes'
  <2>1. config' = config + 1 /\ UNCHANGED <<json, spawning, applied, passed>>
        /\ onExit' \subseteq Sessions /\ (Stop({s}) \/ UNCHANGED <<cli, stray, faulty>>)
    BY <1>11 DEF ApplySelfMod, FleetTypes
  <2>2. /\ cli' \in [Sessions -> Entry(config)] /\ stray' \in [Sessions -> Nat]
        /\ faulty' \subseteq Sessions
    BY <2>1, StopSteps DEF FleetTypes
  <2>. QED  BY <2>1, <2>2, GrownTypes DEF FleetTypes
<1>. QED  BY <1>1, <1>2, <1>3, <1>4, <1>5, <1>6, <1>7, <1>8, <1>9, <1>10, <1>11, NextCases

-----------------------------------------------------------------------------
(* One container per session.                                              *)

LEMMA FleetInit == Init => FleetInv
BY DEF Init, FleetInv, Serving, Hosts, None

LEMMA FleetStep == FleetTypes /\ FleetInv /\ [Next]_vars => FleetInv'
<1>. SUFFICES ASSUME FleetTypes, FleetInv, [Next]_vars PROVE FleetInv'
  OBVIOUS
<1>. USE DEF FleetInv, Serving, Hosts
<1>1. CASE Still
  <2>1. host' \in Hosts /\ (host' = host \/ (host = "adapters" /\ host' = "up")
                              \/ (host \notin {"adapters", "up"} /\ host' \notin {"adapters", "up"}))
    BY <1>1 DEF Still, Start, HourPasses, OpenDatabase, Running, Shutdown, vars
  <2>. QED  BY <1>1, <2>1, StillSteps DEF fleet, past
<1>2. CASE CleanupOrphans
  <2>1. /\ host = "starting" /\ host' = "adapters" /\ UNCHANGED <<cli, spawning>>
        /\ \A s \in Sessions \ faulty' : stray'[s] = 0
    BY <1>2 DEF CleanupOrphans
  <2>. QED  BY <2>1
<1>3. CASE UpdateConfig
  BY <1>3 DEF UpdateConfig, fleet, past
\* A stop adds a container beside the map only where it failed.
<1>4. ASSUME NEW T \in SUBSET Sessions, Stop(T), UNCHANGED <<host, spawning>>, host = "up",
             \A s \in T : cli[s].phase # "none"
      PROVE  FleetInv'
  <2>1. \A s \in Sessions : spawning[s] # <<>> => s \notin T
    BY <1>4
  <2>. QED  BY <1>4, <2>1, StopSteps
<1>5. CASE RestartGroup
  <2>1. Stop({s \in Tracked : cli[s].phase # "closing"}) /\ UNCHANGED <<host, spawning>> /\ host = "up"
    BY <1>5 DEF RestartGroup
  <2>. QED  BY <1>4, <2>1 DEF Tracked
<1>6. CASE Crash \/ Finish
  BY <1>6, GoneSteps DEF Crash, Finish, None
<1>7. ASSUME NEW s \in Sessions, Wake(s) \/ (Close(s) /\ s \in onExit /\ spawning[s] = <<>>)
      PROVE  FleetInv'
  <2>1. spawning[s] = <<>> /\ Materialize(s)
    BY <1>7 DEF Wake, Awake, Close, CloseHandlers
  <2>2. /\ spawning'[s] = <<config>> /\ Len(<<config>>) = 1
        /\ \A t \in Sessions \ {s} : spawning'[t] = spawning[t]
    BY <2>1, MaterializeSteps
  <2>3. /\ cli'[s].phase = "none"
        /\ \A t \in Sessions \ {s} : cli'[t] = cli[t]
        /\ UNCHANGED <<host, stray, faulty>>
    BY <1>7 DEF Wake, Awake, Close, CloseHandlers, None, FleetTypes, past
  <2>4. Serving
    BY <1>7 DEF Wake, Close
  <2>. QED  BY <2>2, <2>3, <2>4
<1>8. ASSUME NEW s \in Sessions, SpawnFails(s) \/ Spawn(s)
      PROVE  FleetInv'
  <2>1. spawning[s] # <<>> /\ Tail(spawning[s]) = <<>> /\ cli[s].phase = "none"
    BY <1>8, LastSpawn DEF SpawnFails, Spawn
  <2>2. /\ spawning' = [spawning EXCEPT ![s] = <<>>]
        /\ \A t \in Sessions \ {s} : cli'[t] = cli[t]
        /\ UNCHANGED <<host, faulty>>
    BY <1>8, <2>1 DEF SpawnFails, Spawn, FleetTypes, past
  <2>3. \A t \in Sessions : stray'[t] = stray[t]
    BY <1>8, <2>1 DEF SpawnFails, Spawn, FleetTypes
  <2>. QED  BY <2>1, <2>2, <2>3 DEF FleetTypes
<1>9. ASSUME NEW s \in Sessions, LoadConfig(s) \/ Exit(s)
      PROVE  FleetInv'
  <2>1. /\ UNCHANGED <<host, spawning, stray, faulty>> /\ cli[s].phase # "none"
        /\ \A t \in Sessions \ {s} : cli'[t] = cli[t]
    BY <1>9 DEF LoadConfig, Exit, FleetTypes, past
  <2>. QED  BY <2>1
<1>10. ASSUME NEW s \in Sessions, Close(s), ~ (s \in onExit /\ spawning[s] = <<>>)
       PROVE  FleetInv'
  <2>1. /\ UNCHANGED <<host, spawning, stray, faulty>>
        /\ cli'[s].phase = "none" /\ \A t \in Sessions \ {s} : cli'[t] = cli[t]
    BY <1>10 DEF Close, CloseHandlers, FleetTypes, None, past
  <2>. QED  BY <2>1
<1>11. ASSUME NEW s \in Sessions, Kill(s) \/ ApplySelfMod(s)
       PROVE  FleetInv'
  <2>1. host = "up" /\ UNCHANGED <<host, spawning>>
    BY <1>11 DEF Kill, ApplySelfMod
  <2>2. CASE Stop({s}) /\ cli[s].phase # "none"
    BY <1>4, <2>1, <2>2
  <2>3. CASE UNCHANGED <<cli, stray, faulty>>
    BY <2>1, <2>3
  <2>. QED  BY <1>11, <2>2, <2>3 DEF Kill, ApplySelfMod
<1>. QED  BY <1>1, <1>2, <1>3, <1>5, <1>6, <1>7, <1>8, <1>9, <1>10, <1>11, NextCases

LEMMA FleetAlways == Spec => [](FleetTypes /\ FleetInv)
BY FleetTypesInit, FleetInit, FleetTypesStep, FleetStep, PTL DEF Spec

\* Wherever wakes, kills, restarts and crashes fall, a session has one container
\* at most while the host serves, unless docker failed to stop one
\* (container-runner.ts, wakeContainer to killContainer).
THEOREM OneContainerPerSession == Spec => []OneContainer
<1>1. FleetTypes /\ FleetInv => OneContainer
  BY DEF FleetTypes, FleetInv, OneContainer, Alive
<1>. QED  BY <1>1, FleetAlways, PTL

-----------------------------------------------------------------------------
(* Restarts.                                                               *)

LEMMA VersionInit == Init => VersionInv
BY DEF Init, VersionInv, None

LEMMA VersionStep == FleetTypes /\ FleetInv /\ VersionInv /\ [Next]_vars => VersionInv'
<1>. SUFFICES ASSUME FleetTypes, FleetInv, VersionInv, [Next]_vars PROVE VersionInv'
  OBVIOUS
<1>1. /\ config \in Nat /\ json \in 0..config /\ applied \in 0..config
      /\ \A s \in Sessions : cli[s] \in Entry(config)
      /\ \A s \in Sessions : \A k \in DOMAIN spawning[s] : spawning[s][k] \in 0..config
  BY DEF FleetTypes
\* What holds of a session goes on to hold if nothing of it changes.
<1>2. ASSUME NEW s \in Sessions, spawning'[s] = spawning[s], cli'[s] = cli[s],
             json' \in Nat, json <= json', UNCHANGED <<applied, passed>>
      PROVE  /\ \A k \in DOMAIN spawning'[s] :
                  spawning'[s][k] <= json' /\ (spawning'[s][k] < applied' => s \in passed')
             /\ cli'[s].image <= json'
             /\ cli'[s].phase \in {"created", "running"} /\ cli'[s].image < applied' => s \in passed'
             /\ cli'[s].phase = "running" /\ cli'[s].json < applied' => s \in passed'
  BY <1>1, <1>2 DEF VersionInv, Entry
<1>3. CASE Still \/ CleanupOrphans \/ UpdateConfig
  <2>1. UNCHANGED <<spawning, cli, json, applied, passed>>
    BY <1>3, StillSteps DEF CleanupOrphans, UpdateConfig, fleet, past
  <2>. QED  BY <1>1, <1>2, <2>1 DEF VersionInv
<1>4. CASE RestartGroup
  <2>. DEFINE T == {s \in Tracked : cli[s].phase # "closing"}
  <2>1. /\ Stop(T) /\ T \in SUBSET Sessions /\ UNCHANGED <<spawning, json>>
        /\ passed' = {s \in Sessions : spawning[s] # <<>>}
    BY <1>4 DEF RestartGroup, Tracked
  <2>2. ASSUME NEW s \in Sessions
        PROVE  cli'[s].phase \notin {"created", "running"} /\ cli'[s].image = cli[s].image
    <3>1. cli[s].phase \in Phases
      BY <1>1 DEF Entry
    <3>. QED  BY <2>1, <3>1, StopSteps DEF Tracked, Phases
  <2>. QED  BY <2>1, <2>2 DEF VersionInv
<1>5. CASE Crash \/ Finish
  <2>1. /\ \A s \in Sessions : spawning'[s] = <<>> /\ cli'[s] = None
        /\ json' = json
    BY <1>5, GoneSteps DEF Crash, Finish
  <2>. QED  BY <1>1, <2>1 DEF VersionInv, None
<1>6. ASSUME NEW s \in Sessions, Wake(s) \/ (Close(s) /\ s \in onExit /\ spawning[s] = <<>>)
      PROVE  VersionInv'
  <2>1. spawning[s] = <<>> /\ Materialize(s)
    BY <1>6 DEF Wake, Awake, Close, CloseHandlers
  <2>2. /\ json' = config /\ spawning'[s] = <<config>>
        /\ \A t \in Sessions \ {s} : spawning'[t] = spawning[t]
    BY <2>1, MaterializeSteps
  <2>3. /\ cli'[s].phase = "none" /\ cli'[s].image \in {cli[s].image, 0}
        /\ \A t \in Sessions \ {s} : cli'[t] = cli[t]
        /\ UNCHANGED <<applied, passed>>
    BY <1>6 DEF Wake, Awake, Close, CloseHandlers, None, FleetTypes, past
  <2>4. \A k \in DOMAIN spawning'[s] : spawning'[s][k] = config
    BY <2>2
  <2>5. cli[s].image \in 0..config
    BY <1>1 DEF Entry
  <2>. QED  BY <1>1, <1>2, <2>2, <2>3, <2>4, <2>5 DEF VersionInv
<1>7. ASSUME NEW s \in Sessions, SpawnFails(s) \/ Spawn(s)
      PROVE  VersionInv'
  <2>1. /\ spawning[s] # <<>> /\ Tail(spawning[s]) = <<>> /\ Head(spawning[s]) = spawning[s][1]
        /\ 1 \in DOMAIN spawning[s]
    BY <1>7, LastSpawn DEF SpawnFails, Spawn
  <2>2. /\ spawning'[s] = <<>> /\ \A t \in Sessions \ {s} : spawning'[t] = spawning[t]
        /\ \A t \in Sessions \ {s} : cli'[t] = cli[t]
        /\ UNCHANGED <<json, applied, passed>>
    BY <1>7, <2>1 DEF SpawnFails, Spawn, FleetTypes, past
  <2>3. \/ cli'[s] = cli[s]
        \/ cli'[s] = [phase |-> "created", image |-> spawning[s][1], json |-> 0]
    BY <1>7, <2>1 DEF SpawnFails, Spawn, FleetTypes
  <2>4. /\ spawning[s][1] <= json
        /\ spawning[s][1] < applied => s \in passed
    BY <2>1 DEF VersionInv
  <2>5. /\ cli'[s].image <= json
        /\ cli'[s].phase \in {"created", "running"} /\ cli'[s].image < applied => s \in passed
        /\ cli'[s].phase = "running" /\ cli'[s].json < applied => s \in passed
    BY <2>3, <2>4 DEF VersionInv
  <2>. QED  BY <1>1, <1>2, <2>2, <2>5 DEF VersionInv
<1>8. ASSUME NEW s \in Sessions, LoadConfig(s)
      PROVE  VersionInv'
  <2>1. /\ UNCHANGED <<spawning, json, applied, passed>> /\ cli[s].phase = "created"
        /\ cli' = [cli EXCEPT ![s] = [cli[s] EXCEPT !.phase = "running", !.json = json]]
    BY <1>8 DEF LoadConfig, past
  <2>2. /\ cli'[s].image = cli[s].image /\ cli'[s].json = json
        /\ \A t \in Sessions \ {s} : cli'[t] = cli[t]
    BY <1>1, <2>1 DEF FleetTypes, Entry
  <2>3. cli[s].image \in 0..config
    BY <1>1 DEF Entry
  <2>4. cli[s].image <= json /\ (cli[s].image < applied => s \in passed)
    BY <2>1 DEF VersionInv
  <2>5. json < applied => s \in passed
    BY <1>1, <2>3, <2>4
  <2>. QED  BY <1>1, <1>2, <2>1, <2>2, <2>4, <2>5 DEF VersionInv
<1>9. ASSUME NEW s \in Sessions, Exit(s) \/ (Close(s) /\ ~ (s \in onExit /\ spawning[s] = <<>>))
      PROVE  VersionInv'
  <2>1. UNCHANGED <<spawning, json, applied, passed>>
    BY <1>9 DEF Exit, Close, CloseHandlers, past
  <2>2. \A t \in Sessions \ {s} : cli'[t] = cli[t]
    BY <1>9 DEF Exit, Close, CloseHandlers, FleetTypes
  <2>3. cli'[s].phase \in {"none", "closing"} /\ cli'[s].image \in {cli[s].image, 0}
    <3>1. CASE Exit(s)
      <4>1. cli'[s] = [cli[s] EXCEPT !.phase = "closing"]
        BY <3>1 DEF Exit, FleetTypes
      <4>. QED  BY <1>1, <4>1 DEF Entry
    <3>2. CASE Close(s)
      BY <3>2 DEF Close, CloseHandlers, FleetTypes, None
    <3>. QED  BY <1>9, <3>1, <3>2
  <2>. QED  BY <1>1, <1>2, <2>1, <2>2, <2>3 DEF VersionInv
<1>10. ASSUME NEW s \in Sessions, Kill(s) \/ ApplySelfMod(s)
       PROVE  VersionInv'
  <2>1. UNCHANGED <<spawning, json, applied, passed>>
    BY <1>10 DEF Kill, ApplySelfMod
  <2>2. CASE Stop({s})
    <3>1. /\ cli'[s].phase = "closing" /\ cli'[s].image = cli[s].image
          /\ \A t \in Sessions \ {s} : cli'[t] = cli[t]
      BY <2>2, StopSteps
    <3>. QED  BY <1>1, <1>2, <2>1, <3>1 DEF VersionInv
  <2>3. CASE cli' = cli
    BY <1>1, <1>2, <2>1, <2>3 DEF VersionInv
  <2>. QED  BY <1>10, <2>2, <2>3 DEF Kill, ApplySelfMod
<1>. QED  BY <1>3, <1>4, <1>5, <1>6, <1>7, <1>8, <1>9, <1>10, NextCases DEF Close

\* After a restart of the group no container goes on that was started from, or
\* has read, an older configuration, but those in the middle of their spawn
\* (container-restart.ts:23, container-runner.ts:92).
THEOREM RestartReachesAll == Spec => []RestartApplies
<1>1. Spec => [](FleetTypes /\ FleetInv /\ VersionInv)
  BY FleetTypesInit, FleetInit, VersionInit, FleetTypesStep, FleetStep, VersionStep, PTL DEF Spec
<1>2. VersionInv => RestartApplies
  BY DEF VersionInv, RestartApplies
<1>. QED  BY <1>1, <1>2, PTL

-----------------------------------------------------------------------------
(* The circuit breaker.                                                    *)

(* The file counts the start that is under way and the unclean ends before *)
(* it; a window that has passed resets both at the next start.             *)
BreakerInv ==
  /\ host \in Hosts
  /\ recent \in BOOLEAN /\ file \in Nat /\ crashes \in Nat /\ starts \in 0..MaxStarts
  /\ host = "down" => file = crashes /\ crashes <= starts
  /\ host # "down" => /\ file = crashes + 1 /\ crashes + 1 <= starts
                      /\ delay = DelayOf(file)

LEMMA BreakerInit == Init => BreakerInv
<1>1. MaxStarts \in Nat
  BY BoundsAssumption
<1>2. Init => host = "down" /\ file = 0 /\ crashes = 0 /\ starts = 0
  BY DEF Init
<1>3. Init => recent \in BOOLEAN
  BY DEF Init
<1>4. Init => file = crashes /\ crashes <= starts /\ starts \in 0..MaxStarts
  BY <1>1, <1>2
<1>. QED  BY <1>2, <1>3, <1>4 DEF BreakerInv, Hosts

LEMMA BreakerStep == BreakerInv /\ [Next]_vars => BreakerInv'
<1>. SUFFICES ASSUME BreakerInv, [Next]_vars PROVE BreakerInv'
  OBVIOUS
<1>0. MaxStarts \in Nat
  BY BoundsAssumption
<1>. USE DEF BreakerInv, Hosts
<1>1. CASE Start
  <2>1. /\ host = "down" /\ host' = "backoff" /\ starts < MaxStarts /\ starts' = starts + 1
        /\ file' = (IF file > 0 /\ recent THEN file + 1 ELSE 1)
        /\ delay' = DelayOf(file') /\ recent' = TRUE
        /\ crashes' = IF recent THEN crashes ELSE 0
    BY <1>1 DEF Start, CountStart
  <2>2. /\ file' = crashes' + 1 /\ crashes' \in Nat /\ crashes' <= starts
    BY <2>1
  <2>. QED  BY <1>0, <2>1, <2>2
<1>2. CASE Crash
  BY <1>0, <1>2 DEF Crash, Gone
<1>3. CASE Finish /\ host # "down"
  BY <1>0, <1>3 DEF Finish, Gone, Reset
<1>4. CASE Finish /\ host = "down"
  BY <1>0, <1>4 DEF Finish, Gone, Reset
<1>5. CASE /\ UNCHANGED <<file, delay, starts, crashes>> /\ recent' \in BOOLEAN
           /\ host' \in Hosts /\ (host = "down" <=> host' = "down")
  BY <1>5 DEF DelayOf
<1>6. CASE HourPasses \/ OpenDatabase \/ CleanupOrphans \/ Running \/ Shutdown \/ UNCHANGED vars
  BY <1>5, <1>6 DEF HourPasses, OpenDatabase, CleanupOrphans, Running, Shutdown, vars, breaker
<1>7. CASE UpdateConfig \/ RestartGroup
  BY <1>5, <1>7 DEF UpdateConfig, RestartGroup, breaker
<1>8. ASSUME NEW s \in Sessions, \/ Wake(s) \/ SpawnFails(s) \/ Spawn(s) \/ LoadConfig(s)
                                 \/ Exit(s) \/ Close(s) \/ Kill(s) \/ ApplySelfMod(s)
      PROVE  BreakerInv'
  BY <1>5, <1>8 DEF Wake, SpawnFails, Spawn, LoadConfig, Exit, Close, Kill, ApplySelfMod, breaker
<1>. QED  BY <1>1, <1>2, <1>3, <1>4, <1>6, <1>7, <1>8 DEF Next

\* Every start waits as long as the schedule has it for the unclean ends before
\* it, and only a clean end or a quiet hour starts over (circuit-breaker.ts).
THEOREM WaitCountsCrashes == Spec => []BackoffCountsCrashes
<1>1. Spec => []BreakerInv
  BY BreakerInit, BreakerStep, PTL DEF Spec
<1>2. BreakerInv => BackoffCountsCrashes
  BY DEF BreakerInv, BackoffCountsCrashes
<1>. QED  BY <1>1, <1>2, PTL

-----------------------------------------------------------------------------
(* The types of the rest.                                                  *)

RestTypes == ending \in BOOLEAN /\ delay \in Nat /\ config \in 0..MaxConfigs

LEMMA RestTypesStep == FleetTypes /\ BreakerInv /\ RestTypes /\ [Next]_vars => RestTypes'
<1>. SUFFICES ASSUME FleetTypes, BreakerInv, RestTypes, [Next]_vars PROVE RestTypes'
  OBVIOUS
<1>0. MaxConfigs \in Nat
  BY BoundsAssumption
<1>1. delay' \in Nat
  <2>1. CASE Start
    <3>1. delay' = Backoff[Lesser(file', Len(Backoff))] /\ file' \in Nat \ {0}
      BY <2>1 DEF Start, CountStart, DelayOf, BreakerInv
    <3>2. Lesser(file', Len(Backoff)) \in 1..Len(Backoff)
      BY <3>1, BackoffAssumption DEF Lesser
    <3>. QED  BY <3>1, <3>2, BackoffAssumption
  <2>2. \/ delay' = delay
        \/ Start
    <3>1. CASE Still
      BY <3>1 DEF Still, HourPasses, OpenDatabase, Running, Shutdown, vars, breaker
    <3>2. CASE CleanupOrphans \/ UpdateConfig \/ RestartGroup \/ Crash \/ Finish
      BY <3>2 DEF CleanupOrphans, UpdateConfig, RestartGroup, Crash, Finish, Gone, breaker
    <3>3. ASSUME NEW s \in Sessions, \/ Wake(s) \/ SpawnFails(s) \/ Spawn(s) \/ LoadConfig(s)
                                     \/ Exit(s) \/ Close(s) \/ Kill(s) \/ ApplySelfMod(s)
          PROVE  delay' = delay
      BY <3>3 DEF Wake, SpawnFails, Spawn, LoadConfig, Exit, Close, Kill, ApplySelfMod, breaker
    <3>. QED  BY <3>1, <3>2, <3>3, NextCases
  <2>. QED  BY <2>1, <2>2 DEF RestTypes
<1>2. ending' \in BOOLEAN
  <2>1. CASE Still
    BY <2>1 DEF Still, Start, HourPasses, OpenDatabase, Running, Shutdown, vars, RestTypes
  <2>2. CASE CleanupOrphans \/ UpdateConfig \/ RestartGroup \/ Crash \/ Finish
    BY <2>2 DEF CleanupOrphans, UpdateConfig, RestartGroup, Crash, Finish, Gone, RestTypes
  <2>3. ASSUME NEW s \in Sessions, \/ Wake(s) \/ SpawnFails(s) \/ Spawn(s) \/ LoadConfig(s)
                                   \/ Exit(s) \/ Close(s) \/ Kill(s) \/ ApplySelfMod(s)
        PROVE  ending' = ending
    BY <2>3 DEF Wake, SpawnFails, Spawn, LoadConfig, Exit, Close, Kill, ApplySelfMod
  <2>. QED  BY <2>1, <2>2, <2>3, NextCases DEF RestTypes
<1>3. config' = config \/ (config < MaxConfigs /\ config' = config + 1)
  <2>1. CASE Still
    BY <2>1, StillSteps
  <2>2. CASE CleanupOrphans \/ UpdateConfig \/ RestartGroup \/ Crash \/ Finish
    BY <2>2 DEF CleanupOrphans, UpdateConfig, RestartGroup, Crash, Finish, Gone
  <2>3. ASSUME NEW s \in Sessions, \/ Wake(s) \/ SpawnFails(s) \/ Spawn(s) \/ LoadConfig(s)
                                   \/ Exit(s) \/ Close(s) \/ Kill(s) \/ ApplySelfMod(s)
        PROVE  config' = config \/ (config < MaxConfigs /\ config' = config + 1)
    BY <2>3 DEF Wake, SpawnFails, Spawn, LoadConfig, Exit, Close, Kill, ApplySelfMod
  <2>. QED  BY <2>1, <2>2, <2>3, NextCases
<1>4. config' \in 0..MaxConfigs
  BY <1>0, <1>3 DEF RestTypes
<1>. QED  BY <1>1, <1>2, <1>4 DEF RestTypes

\* The whole state of the host and its containers stays within its types, the
\* attempt count, the starts and the versions within their bounds.
THEOREM TypeCorrect == Spec => []TypeOK
<1>1. Init => RestTypes
  <2>. SUFFICES ASSUME Init PROVE RestTypes
    OBVIOUS
  <2>1. ending = FALSE /\ delay = 0 /\ config = 0
    BY DEF Init
  <2>2. config \in 0..MaxConfigs
    BY <2>1, BoundsAssumption
  <2>. QED  BY <2>1, <2>2 DEF RestTypes
<1>2. Spec => []BreakerInv
  BY BreakerInit, BreakerStep, PTL DEF Spec
<1>3. Spec => []RestTypes
  BY <1>1, <1>2, FleetAlways, RestTypesStep, PTL DEF Spec
<1>4. FleetTypes /\ FleetInv /\ BreakerInv /\ RestTypes => TypeOK
  <2>. SUFFICES ASSUME FleetTypes, FleetInv, BreakerInv, RestTypes PROVE TypeOK
    OBVIOUS
  <2>1. file \in 0..MaxStarts /\ crashes \in 0..MaxStarts /\ starts \in 0..MaxStarts
    BY BoundsAssumption DEF BreakerInv
  <2>2. host \in {"down", "backoff", "starting", "adapters", "up"} /\ recent \in BOOLEAN
    BY DEF BreakerInv, Hosts
  <2>3. /\ json \in 0..config /\ applied \in 0..config
        /\ spawning \in [Sessions -> Seq(0..config)]
        /\ cli \in [Sessions -> [phase : {"none", "created", "running", "closing"},
                                 image : 0..config, json : 0..config]]
        /\ stray \in [Sessions -> Nat]
        /\ onExit \subseteq Sessions /\ passed \subseteq Sessions /\ faulty \subseteq Sessions
    BY DEF FleetTypes, Entry, Phases
  <2>. QED  BY <2>1, <2>2, <2>3 DEF RestTypes, TypeOK
<1>. QED  BY <1>2, <1>3, <1>4, FleetAlways, PTL

-----------------------------------------------------------------------------
(* Setup: what the scripts of the channel branches look like.              *)

\* What the service needs of a branch before it can serve the chat it wires.
Parts(ch) == {<<ch, "adapter">>, <<ch, "key">>} \cup (IF ch = "signal" THEN {<<ch, "account">>} ELSE {})

\* The channels setup has a branch for.
KnownChannels == {"telegram", "discord", "whatsapp", "signal", "slack", "imessage", "teams", "other"}

\* The names the steps of the branches have in the log.
Names == {"", "telegram-validate", "telegram-install", "pair-telegram",
          "discord-validate", "discord-app-info", "discord-install", "discord-open-dm",
          "whatsapp-install", "whatsapp-auth",
          "install-signal-cli", "signal-install", "signal-auth",
          "slack-validate", "slack-install", "slack-open-dm",
          "imessage", "imessage-install", "teams-manifest", "teams-install",
          "init-first-agent"}

\* What a branch can leave on the machine.
Items == KnownChannels \X {"adapter", "key", "account", "own number"}

\* The steps a script is made of.
Kind == [op : {"ask", "gate", "run", "own", "wire"}, name : Names,
         puts : SUBSET Items, restarts : BOOLEAN,
         onFail : {"stop", "go on", "throw"}, may : BOOLEAN]

\* A step that a branch for the channel may have.
Proper(ch, s) ==
  /\ \A i \in s.puts : i[1] = ch
  /\ ch \in AwaitedChannels =>
       /\ s.puts \subseteq Parts(ch) /\ s.onFail = "stop"
       /\ s.op \in {"ask", "gate", "wire"} \/ s.may => s.puts = {} /\ ~ s.restarts

\* How two steps of one script may follow each other.
Before(ch, x, y) ==
  /\ x.puts # {} \/ x.op = "wire" => y.op # "gate"
  /\ ch \in AwaitedChannels =>
       /\ x.restarts => y.puts = {}
       /\ x.op = "wire" => y.puts = {} /\ ~ y.restarts

\* A script, or what is left of one, in an order that keeps the promises.
Orderly(ch, q) ==
  /\ q \in Seq(Kind)
  /\ \A k \in DOMAIN q : Proper(ch, q[k])
  /\ \A i, j \in DOMAIN q : i < j => Before(ch, q[i], q[j])

\* What the steps leave, and whether one of them restarts the service.
PutsOf(q) == UNION {q[k].puts : k \in DOMAIN q}
Restarts(q) == \E k \in DOMAIN q : q[k].restarts

LEMMA InItems ==
  ASSUME NEW ch \in KnownChannels
  PROVE  /\ <<ch, "adapter">> \in Items /\ <<ch, "key">> \in Items
         /\ <<ch, "account">> \in Items /\ <<ch, "own number">> \in Items
BY DEF Items

\* The elements of a concatenation are those of its parts.
LEMMA ConcatSteps ==
  ASSUME NEW T, NEW a \in Seq(T), NEW b \in Seq(T)
  PROVE  /\ a \o b \in Seq(T)
         /\ Len(a) \in Nat
         /\ DOMAIN a \subseteq DOMAIN (a \o b)
         /\ \A k \in DOMAIN a : k \in 1..Len(a) /\ (a \o b)[k] = a[k]
         /\ \A k \in DOMAIN b : Len(a) + k \in DOMAIN (a \o b) /\ (a \o b)[Len(a) + k] = b[k]
         /\ \A k \in DOMAIN (a \o b) : k \in Nat /\ (k \in DOMAIN a \/ (k - Len(a) \in DOMAIN b))
<1>1. /\ a \o b \in Seq(T) /\ Len(a \o b) = Len(a) + Len(b) /\ Len(a) \in Nat /\ Len(b) \in Nat
      /\ DOMAIN a = 1..Len(a) /\ DOMAIN b = 1..Len(b) /\ DOMAIN (a \o b) = 1..(Len(a) + Len(b))
  OBVIOUS
<1>2. \A k \in 1..(Len(a) + Len(b)) : (a \o b)[k] = IF k <= Len(a) THEN a[k] ELSE b[k - Len(a)]
  OBVIOUS
<1>3. \A k \in 1..Len(a) : (a \o b)[k] = a[k]
  BY <1>1, <1>2
<1>4. \A k \in 1..Len(b) : Len(a) + k \in 1..(Len(a) + Len(b)) /\ (Len(a) + k) - Len(a) = k /\ ~ (Len(a) + k <= Len(a))
  BY <1>1
<1>5. \A k \in 1..Len(b) : (a \o b)[Len(a) + k] = b[k]
  BY <1>2, <1>4
<1>. QED  BY <1>1, <1>3, <1>4, <1>5

\* Two orderly parts make an orderly script when each pair across them is in
\* order.
LEMMA ConcatOrderly ==
  ASSUME NEW ch, NEW a, NEW b, Orderly(ch, a), Orderly(ch, b),
         \A i \in DOMAIN a, j \in DOMAIN b : Before(ch, a[i], b[j])
  PROVE  /\ Orderly(ch, a \o b)
         /\ PutsOf(a) \subseteq PutsOf(a \o b)
         /\ PutsOf(b) \subseteq PutsOf(a \o b)
         /\ Restarts(a) \/ Restarts(b) => Restarts(a \o b)
<1>. DEFINE c == a \o b
<1>1. /\ a \in Seq(Kind) /\ b \in Seq(Kind) /\ c \in Seq(Kind) /\ Len(a) \in Nat
      /\ DOMAIN a \subseteq DOMAIN c
      /\ \A k \in DOMAIN a : k \in 1..Len(a) /\ c[k] = a[k]
      /\ \A k \in DOMAIN b : Len(a) + k \in DOMAIN c /\ c[Len(a) + k] = b[k]
      /\ \A k \in DOMAIN c : k \in Nat /\ (k \in DOMAIN a \/ (k - Len(a) \in DOMAIN b))
  BY ConcatSteps DEF Orderly
<1>. HIDE DEF c
<1>2. \A k \in DOMAIN c : \/ k \in DOMAIN a /\ c[k] = a[k]
                          \/ k - Len(a) \in DOMAIN b /\ c[k] = b[k - Len(a)]
  <2>. SUFFICES ASSUME NEW k \in DOMAIN c, k - Len(a) \in DOMAIN b PROVE c[k] = b[k - Len(a)]
    BY <1>1
  <2>1. Len(a) + (k - Len(a)) = k
    BY <1>1
  <2>. QED  BY <1>1, <2>1
<1>3. \A k \in DOMAIN c : Proper(ch, c[k])
  BY <1>2 DEF Orderly
<1>4. ASSUME NEW i \in DOMAIN c, NEW j \in DOMAIN c, i < j
      PROVE  Before(ch, c[i], c[j])
  <2>1. CASE i \in DOMAIN a /\ j \in DOMAIN a
    BY <1>1, <1>4, <2>1 DEF Orderly
  <2>2. CASE i \in DOMAIN a /\ j - Len(a) \in DOMAIN b /\ c[j] = b[j - Len(a)]
    BY <1>1, <1>4, <2>2
  <2>3. CASE i \notin DOMAIN a /\ j \in DOMAIN a
    <3>1. i - Len(a) \in DOMAIN b /\ i \in Nat /\ j \in 1..Len(a) /\ DOMAIN b = 1..Len(b) /\ Len(b) \in Nat
      BY <1>1, <2>3
    <3>. QED  BY <1>1, <1>4, <3>1
  <2>4. CASE /\ i - Len(a) \in DOMAIN b /\ c[i] = b[i - Len(a)]
             /\ j - Len(a) \in DOMAIN b /\ c[j] = b[j - Len(a)]
    <3>1. i - Len(a) < j - Len(a)
      BY <1>1, <1>4
    <3>. QED  BY <2>4, <3>1 DEF Orderly
  <2>. QED  BY <1>2, <2>1, <2>2, <2>3, <2>4
<1>5. PutsOf(a) \subseteq PutsOf(c)
  BY <1>1 DEF PutsOf
<1>6. PutsOf(b) \subseteq PutsOf(c)
  <2>. SUFFICES ASSUME NEW k \in DOMAIN b, NEW x \in b[k].puts PROVE x \in PutsOf(c)
    BY DEF PutsOf
  <2>1. Len(a) + k \in DOMAIN c /\ c[Len(a) + k] = b[k]
    BY <1>1
  <2>. QED  BY <2>1 DEF PutsOf
<1>7. Restarts(a) => Restarts(c)
  BY <1>1 DEF Restarts
<1>8. Restarts(b) => Restarts(c)
  BY <1>1 DEF Restarts
<1>9. Orderly(ch, c)
  BY <1>1, <1>3, <1>4 DEF Orderly
<1>. QED  BY <1>5, <1>6, <1>7, <1>8, <1>9 DEF c

\* Steps that change nothing; those of them that offer no way back.
Quiet == {s \in Kind : s.op \in {"ask", "gate", "run"} /\ s.puts = {} /\ ~ s.restarts /\ s.onFail = "stop"}
Asks == {s \in Quiet : s.op # "gate"}

\* A step that may be left out is otherwise the same step.
LEMMA MaySame ==
  ASSUME NEW s \in Kind
  PROVE  \E t \in Kind : /\ t = [s EXCEPT !.may = TRUE]
                         /\ t.op = s.op /\ t.puts = s.puts /\ t.restarts = s.restarts /\ t.onFail = s.onFail
<1>1. [s EXCEPT !.may = TRUE] \in Kind
  BY DEF Kind
<1>2. PICK t \in Kind : t = [s EXCEPT !.may = TRUE]
  BY <1>1
<1>3. t.op = s.op /\ t.puts = s.puts
  BY <1>2 DEF Kind
<1>4. t.restarts = s.restarts /\ t.onFail = s.onFail
  BY <1>2 DEF Kind
<1>. QED  BY <1>2, <1>3, <1>4

LEMMA OneStep ==
  ASSUME NEW T, NEW s \in T
  PROVE  /\ <<s>> \in Seq(T) /\ DOMAIN <<s>> = {1} /\ <<s>>[1] = s
OBVIOUS

LEMMA PerhapsIn ==
  ASSUME NEW T, NEW q \in Seq(T), \A s \in T : [s EXCEPT !.may = TRUE] \in T
  PROVE  Perhaps(q) \in Seq(T)
<1>1. Len(q) \in Nat /\ DOMAIN q = 1..Len(q) /\ \A k \in 1..Len(q) : q[k] \in T
  OBVIOUS
<1>2. \A k \in 1..Len(q) : [q[k] EXCEPT !.may = TRUE] \in T
  BY <1>1
<1>3. Perhaps(q) = [k \in 1..Len(q) |-> [q[k] EXCEPT !.may = TRUE]]
  BY <1>1 DEF Perhaps
<1>4. Perhaps(q) \in [1..Len(q) -> T]
  BY <1>2, <1>3
<1>. QED  BY <1>1, <1>4

LEMMA PerhapsQuiet ==
  /\ \A q \in Seq(Quiet) : Perhaps(q) \in Seq(Quiet)
  /\ \A q \in Seq(Asks) : Perhaps(q) \in Seq(Asks)
<1>1. \A s \in Quiet : [s EXCEPT !.may = TRUE] \in Quiet /\ [s EXCEPT !.may = TRUE].op = s.op
  BY MaySame DEF Quiet
<1>2. \A s \in Asks : [s EXCEPT !.may = TRUE] \in Asks
  BY <1>1 DEF Asks
<1>. QED  BY <1>1, <1>2, PerhapsIn

\* Prompts and requests are quiet steps.
LEMMA PromptsQuiet ==
  /\ <<Prompt>> \in Seq(Asks) /\ <<Prompt, Prompt>> \in Seq(Asks)
  /\ <<BackPrompt>> \in Seq(Quiet) /\ <<BackPrompt, Prompt>> \in Seq(Quiet)
  /\ \A n \in Names : <<Request(n)>> \in Seq(Asks)
<1>0. {} \in SUBSET Items /\ "" \in Names
  BY DEF Names
<1>1. Prompt \in Asks
  <2>1. /\ Prompt \in Kind /\ Prompt.op = "ask" /\ Prompt.puts = {}
        /\ Prompt.restarts = FALSE /\ Prompt.onFail = "stop"
    BY <1>0 DEF Prompt, Step, Kind
  <2>. QED  BY <2>1 DEF Asks, Quiet
<1>2. BackPrompt \in Quiet
  <2>1. /\ BackPrompt \in Kind /\ BackPrompt.op = "gate" /\ BackPrompt.puts = {}
        /\ BackPrompt.restarts = FALSE /\ BackPrompt.onFail = "stop"
    BY <1>0 DEF BackPrompt, Step, Kind
  <2>. QED  BY <2>1 DEF Quiet
<1>3. \A n \in Names : Request(n) \in Asks
  <2>. SUFFICES ASSUME NEW n \in Names PROVE Request(n) \in Asks
    OBVIOUS
  <2>1. /\ Request(n) \in Kind /\ Request(n).op = "run" /\ Request(n).puts = {}
        /\ Request(n).restarts = FALSE /\ Request(n).onFail = "stop"
    BY <1>0 DEF Request, Step, Kind
  <2>. QED  BY <2>1 DEF Asks, Quiet
<1>. QED  BY <1>1, <1>2, <1>3 DEF Asks

LEMMA AskIsQuiet ==
  /\ \A q \in Seq(Asks) : q \in Seq(Quiet)
  /\ \A a, b \in Seq(Quiet) : a \o b \in Seq(Quiet)
  /\ \A a, b \in Seq(Asks) : a \o b \in Seq(Asks)
<1>1. Asks \subseteq Quiet
  BY DEF Asks
<1>. QED  BY <1>1

\* Quiet steps are in order whatever their order is.
LEMMA QuietOrderly ==
  ASSUME NEW ch, NEW q \in Seq(Quiet)
  PROVE  Orderly(ch, q) /\ ~ Restarts(q) /\ \A k \in DOMAIN q : q[k].op # "wire"
<1>1. q \in Seq(Kind) /\ \A k \in DOMAIN q : q[k] \in Quiet
  BY DEF Quiet
<1>2. \A k \in DOMAIN q : /\ q[k].puts = {} /\ ~ q[k].restarts /\ q[k].onFail = "stop"
                           /\ q[k].op \in {"ask", "gate", "run"}
  BY <1>1 DEF Quiet
<1>3. \A k \in DOMAIN q : Proper(ch, q[k])
  BY <1>2 DEF Proper
<1>4. \A i, j \in DOMAIN q : Before(ch, q[i], q[j])
  BY <1>2 DEF Before
<1>. QED  BY <1>1, <1>2, <1>3, <1>4 DEF Orderly, Restarts

\* A branch that wires, between its install and its wiring.
Installed(ch, q) ==
  /\ Orderly(ch, q) /\ Restarts(q) /\ Parts(ch) \subseteq PutsOf(q)
  /\ \A k \in DOMAIN q : q[k].op # "wire"

\* What may be chosen.
Whole(ch, q) ==
  /\ Orderly(ch, q)
  /\ ch \in AwaitedChannels => Restarts(q) /\ Parts(ch) \subseteq PutsOf(q)

\* A concatenation wires only where a part does.
LEMMA NoWire ==
  ASSUME NEW a \in Seq(Kind), NEW b \in Seq(Kind),
         \A k \in DOMAIN a : a[k].op # "wire", \A k \in DOMAIN b : b[k].op # "wire"
  PROVE  \A k \in DOMAIN (a \o b) : (a \o b)[k].op # "wire"
<1>. DEFINE c == a \o b
<1>1. /\ c \in Seq(Kind) /\ Len(a) \in Nat
      /\ \A k \in DOMAIN a : c[k] = a[k]
      /\ \A k \in DOMAIN b : c[Len(a) + k] = b[k]
      /\ \A k \in DOMAIN c : k \in Nat /\ (k \in DOMAIN a \/ (k - Len(a) \in DOMAIN b))
  BY ConcatSteps
<1>. HIDE DEF c
<1>. SUFFICES ASSUME NEW k \in DOMAIN c PROVE c[k].op # "wire"
  BY DEF c
<1>2. CASE k \in DOMAIN a
  BY <1>1, <1>2
<1>3. CASE k - Len(a) \in DOMAIN b
  <2>1. Len(a) + (k - Len(a)) = k
    BY <1>1
  <2>. QED  BY <1>1, <1>3, <2>1
<1>. QED  BY <1>1, <1>2, <1>3

\* Prompts and requests may follow the install.
LEMMA AsksAfter ==
  ASSUME NEW ch, NEW q, Installed(ch, q), NEW b \in Seq(Asks)
  PROVE  Installed(ch, q \o b)
<1>1. b \in Seq(Quiet) /\ \A k \in DOMAIN b : b[k] \in Asks
  BY AskIsQuiet
<1>2. Orderly(ch, b) /\ \A k \in DOMAIN b : b[k].op # "wire"
  BY <1>1, QuietOrderly
<1>3. \A k \in DOMAIN b : b[k].op # "gate" /\ b[k].puts = {} /\ ~ b[k].restarts
  BY <1>1 DEF Asks, Quiet
<1>4. \A i \in DOMAIN q, j \in DOMAIN b : Before(ch, q[i], b[j])
  BY <1>3 DEF Before
<1>5. Orderly(ch, q)
  BY DEF Installed
<1>6. Orderly(ch, q \o b) /\ PutsOf(q) \subseteq PutsOf(q \o b) /\ Restarts(q \o b)
  BY <1>2, <1>4, <1>5, ConcatOrderly DEF Installed
<1>7. \A k \in DOMAIN (q \o b) : (q \o b)[k].op # "wire"
  BY <1>2, <1>5, NoWire DEF Installed, Orderly
<1>. QED  BY <1>6, <1>7 DEF Installed

\* OneStep step more.
LEMMA OneOrderly ==
  ASSUME NEW ch, NEW s \in Kind, Proper(ch, s)
  PROVE  /\ Orderly(ch, <<s>>) /\ PutsOf(<<s>>) = s.puts /\ (Restarts(<<s>>) <=> s.restarts)
         /\ DOMAIN <<s>> = {1} /\ <<s>>[1] = s
<1>1. <<s>> \in Seq(Kind) /\ DOMAIN <<s>> = {1} /\ <<s>>[1] = s
  BY OneStep
<1>2. PutsOf(<<s>>) = s.puts
  BY <1>1 DEF PutsOf
<1>. QED  BY <1>1, <1>2 DEF Orderly, Restarts

\* The awaited branches whose install script leaves all and restarts.
Wiring == {"telegram", "discord", "slack", "imessage"}

\* The install of those, after quiet steps.
LEMMA InstallAfter ==
  ASSUME NEW ch \in Wiring, NEW q \in Seq(Quiet), NEW name \in Names
  PROVE  Installed(ch, q \o <<Child(name, {<<ch, "adapter">>, <<ch, "key">>}, TRUE, "stop")>>)
<1>. DEFINE s == Child(name, {<<ch, "adapter">>, <<ch, "key">>}, TRUE, "stop")
<1>0. {<<ch, "adapter">>, <<ch, "key">>} \in SUBSET Items /\ Parts(ch) = {<<ch, "adapter">>, <<ch, "key">>}
  <2>1. <<ch, "adapter">> \in Items /\ <<ch, "key">> \in Items
    BY InItems DEF KnownChannels, Wiring
  <2>2. ch # "signal"
    BY DEF Wiring
  <2>. QED  BY <2>1, <2>2 DEF Parts
<1>1. /\ s \in Kind /\ s.op = "run" /\ s.puts = {<<ch, "adapter">>, <<ch, "key">>} /\ s.restarts = TRUE
      /\ s.onFail = "stop" /\ s.may = FALSE
  BY <1>0 DEF Child, Step, Kind
<1>. HIDE DEF s
<1>2. Proper(ch, s)
  BY <1>0, <1>1 DEF Proper
<1>3. /\ Orderly(ch, <<s>>) /\ PutsOf(<<s>>) = Parts(ch) /\ Restarts(<<s>>)
      /\ DOMAIN <<s>> = {1} /\ <<s>>[1] = s
  BY <1>0, <1>1, <1>2, OneOrderly
<1>4. Orderly(ch, q) /\ \A k \in DOMAIN q : q[k].op # "wire"
  BY QuietOrderly
<1>5. \A k \in DOMAIN q : q[k] \in Quiet
  OBVIOUS
<1>6. \A i \in DOMAIN q, j \in DOMAIN <<s>> : Before(ch, q[i], <<s>>[j])
  BY <1>5 DEF Before, Quiet
<1>7. Orderly(ch, q \o <<s>>) /\ Parts(ch) \subseteq PutsOf(q \o <<s>>) /\ Restarts(q \o <<s>>)
  BY <1>3, <1>4, <1>6, ConcatOrderly
<1>8. \A k \in DOMAIN (q \o <<s>>) : (q \o <<s>>)[k].op # "wire"
  BY <1>1, <1>3, <1>4, NoWire DEF Orderly
<1>9. Installed(ch, q \o <<s>>)
  BY <1>7, <1>8 DEF Installed
<1>. QED  BY <1>9 DEF s

\* The wiring ends a branch.
LEMMA WireAfter ==
  ASSUME NEW ch \in AwaitedChannels, NEW q, Installed(ch, q)
  PROVE  Whole(ch, q \o InitFirstAgent(ch, "stop"))
<1>. DEFINE s == Step("wire", "init-first-agent", {}, FALSE, "stop")
<1>1. s \in Kind /\ s.op = "wire" /\ s.puts = {} /\ s.restarts = FALSE /\ s.onFail = "stop"
  BY DEF Step, Kind, Names
<1>. HIDE DEF s
<1>2. Proper(ch, s)
  BY <1>1 DEF Proper
<1>3. Orderly(ch, <<s>>) /\ DOMAIN <<s>> = {1} /\ <<s>>[1] = s
  BY <1>1, <1>2, OneOrderly
<1>4. \A i \in DOMAIN q, j \in DOMAIN <<s>> : Before(ch, q[i], <<s>>[j])
  BY <1>1, <1>3 DEF Before
<1>5. Whole(ch, q \o <<s>>)
  BY <1>3, <1>4, ConcatOrderly DEF Installed, Whole
<1>. QED  BY <1>5 DEF s, InitFirstAgent

\* The pieces the branches share.
LEMMA TailPieces ==
  /\ AskOperatorRole \in Seq(Asks) /\ ResolveAgentName \in Seq(Asks)
  /\ \A n \in Names : Perhaps(<<Request(n)>>) \in Seq(Asks)
  /\ Perhaps(<<Prompt>>) \in Seq(Asks) /\ Perhaps(<<BackPrompt>>) \in Seq(Quiet)
  /\ Perhaps(<<BackPrompt, Prompt>>) \in Seq(Quiet)
BY PromptsQuiet, PerhapsQuiet DEF AskOperatorRole, ResolveAgentName

LEMMA NamedRequests ==
  /\ <<Request("telegram-validate")>> \in Seq(Asks) /\ <<Request("pair-telegram")>> \in Seq(Asks)
  /\ <<Request("discord-validate")>> \in Seq(Asks) /\ <<Request("discord-app-info")>> \in Seq(Asks)
  /\ <<Request("discord-open-dm")>> \in Seq(Asks) /\ Perhaps(<<Request("install-signal-cli")>>) \in Seq(Asks)
  /\ <<Request("slack-validate")>> \in Seq(Asks) /\ <<Request("slack-open-dm")>> \in Seq(Asks)
  /\ Perhaps(<<Request("imessage")>>) \in Seq(Asks)
BY PromptsQuiet, TailPieces DEF Names

\* The branches, one by one.
LEMMA TelegramIsWhole == Whole("telegram", RunTelegramChannel)
<1>. DEFINE a == CollectTelegramToken \o ValidateTelegramToken \o Perhaps(<<Prompt>>)
            b == a \o AddTelegram
            c == b \o RunPairTelegram \o AskOperatorRole \o ResolveAgentName
<1>1. a \in Seq(Quiet)
  <2>1. CollectTelegramToken \in Seq(Quiet)
    BY TailPieces, AskIsQuiet DEF CollectTelegramToken
  <2>2. ValidateTelegramToken \in Seq(Quiet) /\ Perhaps(<<Prompt>>) \in Seq(Quiet)
    BY NamedRequests, TailPieces, AskIsQuiet DEF ValidateTelegramToken
  <2>. QED  BY <2>1, <2>2, AskIsQuiet
<1>. HIDE DEF a
<1>2. Installed("telegram", b)
  BY <1>1, InstallAfter DEF AddTelegram, Wiring, Names
<1>. HIDE DEF b
<1>3. RunPairTelegram \in Seq(Asks)
  BY NamedRequests DEF RunPairTelegram, PairTelegram
<1>4. Installed("telegram", c)
  BY <1>2, <1>3, TailPieces, AsksAfter
<1>. HIDE DEF c
<1>5. Whole("telegram", c \o InitFirstAgent("telegram", "stop"))
  BY <1>4, WireAfter DEF AwaitedChannels
<1>. QED  BY <1>5 DEF c, b, a, RunTelegramChannel

LEMMA DiscordIsWhole == Whole("discord", RunDiscordChannel)
<1>. DEFINE a == AskHasBotToken \o WalkThroughBotCreation \o CollectDiscordToken
                   \o ValidateDiscordToken \o FetchApplicationInfo \o ResolveOwnerUserId
                   \o AskHasDiscordServer \o WalkThroughServerCreation \o PromptInviteBot
            b == a \o AddDiscord
            c == b \o OpenDiscordDm \o AskOperatorRole \o ResolveAgentName
<1>1. a \in Seq(Quiet)
  <2>1. /\ AskHasBotToken \in Seq(Quiet) /\ WalkThroughBotCreation \in Seq(Quiet)
        /\ AskHasDiscordServer \in Seq(Quiet) /\ WalkThroughServerCreation \in Seq(Quiet)
        /\ PromptInviteBot \in Seq(Quiet)
    BY PromptsQuiet, TailPieces, AskIsQuiet
       DEF AskHasBotToken, WalkThroughBotCreation, AskHasDiscordServer, WalkThroughServerCreation,
           PromptInviteBot
  <2>2. CollectDiscordToken \in Seq(Quiet) /\ ResolveOwnerUserId \in Seq(Quiet)
    BY TailPieces, AskIsQuiet DEF CollectDiscordToken, ResolveOwnerUserId
  <2>3. ValidateDiscordToken \in Seq(Quiet) /\ FetchApplicationInfo \in Seq(Quiet)
    BY NamedRequests, AskIsQuiet DEF ValidateDiscordToken, FetchApplicationInfo
  <2>. QED  BY <2>1, <2>2, <2>3, AskIsQuiet
<1>. HIDE DEF a
<1>2. Installed("discord", b)
  BY <1>1, InstallAfter DEF AddDiscord, Wiring, Names
<1>. HIDE DEF b
<1>3. OpenDiscordDm \in Seq(Asks)
  BY NamedRequests DEF OpenDiscordDm
<1>4. Installed("discord", c)
  BY <1>2, <1>3, TailPieces, AsksAfter
<1>. HIDE DEF c
<1>5. Whole("discord", c \o InitFirstAgent("discord", "stop"))
  BY <1>4, WireAfter DEF AwaitedChannels
<1>. QED  BY <1>5 DEF c, b, a, RunDiscordChannel

LEMMA SlackIsWhole == Whole("slack", RunSlackChannel)
<1>. DEFINE a == WalkThroughAppCreation \o CollectBotToken \o CollectSigningSecret \o ValidateSlackToken
            b == a \o AddSlack
            c == b \o CollectSlackUserId \o OpenSlackDm \o AskOperatorRole \o ResolveAgentName
<1>1. a \in Seq(Quiet)
  <2>1. /\ WalkThroughAppCreation \in Seq(Quiet) /\ CollectBotToken \in Seq(Quiet)
        /\ CollectSigningSecret \in Seq(Quiet) /\ ValidateSlackToken \in Seq(Quiet)
    BY PromptsQuiet, NamedRequests, AskIsQuiet
       DEF WalkThroughAppCreation, CollectBotToken, CollectSigningSecret, ValidateSlackToken
  <2>. QED  BY <2>1, AskIsQuiet
<1>. HIDE DEF a
<1>2. Installed("slack", b)
  BY <1>1, InstallAfter DEF AddSlack, Wiring, Names
<1>. HIDE DEF b
<1>3. CollectSlackUserId \in Seq(Asks) /\ OpenSlackDm \in Seq(Asks)
  BY PromptsQuiet, NamedRequests DEF CollectSlackUserId, OpenSlackDm
<1>4. Installed("slack", c)
  BY <1>2, <1>3, TailPieces, AsksAfter
<1>. HIDE DEF c
<1>5. Whole("slack", c \o InitFirstAgent("slack", "stop"))
  BY <1>4, WireAfter DEF AwaitedChannels
<1>. QED  BY <1>5 DEF c, b, a, RunSlackChannel

LEMMA IMessageIsWhole ==
  ASSUME NEW credentials \in {WalkThroughFullDiskAccess, CollectRemoteCreds}
  PROVE  Whole("imessage", RunIMessageChannel(credentials))
<1>. DEFINE a == AskMode \o credentials \o AskOperatorHandle
            b == a \o AddIMessage
            c == b \o AskOperatorRole \o ResolveAgentName
<1>1. a \in Seq(Quiet)
  <2>1. AskMode \in Seq(Quiet) /\ AskOperatorHandle \in Seq(Quiet)
    BY PromptsQuiet, NamedRequests, AskIsQuiet DEF AskMode, AskOperatorHandle
  <2>2. credentials \in Seq(Quiet)
    BY PromptsQuiet, AskIsQuiet DEF WalkThroughFullDiskAccess, CollectRemoteCreds
  <2>. QED  BY <2>1, <2>2, AskIsQuiet
<1>. HIDE DEF a
<1>2. Installed("imessage", b)
  BY <1>1, InstallAfter DEF AddIMessage, Wiring, Names
<1>. HIDE DEF b
<1>3. Installed("imessage", c)
  BY <1>2, TailPieces, AsksAfter
<1>. HIDE DEF c
<1>4. Whole("imessage", c \o InitFirstAgent("imessage", "stop"))
  BY <1>3, WireAfter DEF AwaitedChannels
<1>. QED  BY <1>4 DEF c, b, a, RunIMessageChannel

\* signal-cli's account and the key are written before the one restart.
Filling(q, parts) ==
  /\ Orderly("signal", q) /\ ~ Restarts(q) /\ parts \subseteq PutsOf(q)
  /\ \A k \in DOMAIN q : q[k].op # "wire"

LEMMA NoRestarts ==
  ASSUME NEW a \in Seq(Kind), NEW b \in Seq(Kind), ~ Restarts(a), ~ Restarts(b)
  PROVE  ~ Restarts(a \o b)
<1>. DEFINE c == a \o b
<1>1. /\ c \in Seq(Kind) /\ Len(a) \in Nat
      /\ \A k \in DOMAIN a : c[k] = a[k]
      /\ \A k \in DOMAIN b : c[Len(a) + k] = b[k]
      /\ \A k \in DOMAIN c : k \in Nat /\ (k \in DOMAIN a \/ (k - Len(a) \in DOMAIN b))
  BY ConcatSteps
<1>. HIDE DEF c
<1>. SUFFICES ASSUME NEW k \in DOMAIN c, c[k].restarts PROVE FALSE
  BY DEF c, Restarts
<1>2. CASE k \in DOMAIN a
  BY <1>1, <1>2 DEF Restarts
<1>3. CASE k - Len(a) \in DOMAIN b
  <2>1. Len(a) + (k - Len(a)) = k
    BY <1>1
  <2>. QED  BY <1>1, <1>3, <2>1 DEF Restarts
<1>. QED  BY <1>1, <1>2, <1>3

\* One part more before the restart, and the restart.
LEMMA FillAfter ==
  ASSUME NEW q, NEW D, Filling(q, D), NEW s \in Kind, s.op \in {"run", "own"},
         s.puts \subseteq Parts("signal"), s.restarts = FALSE, s.onFail = "stop", s.may = FALSE
  PROVE  Filling(q \o <<s>>, D \cup s.puts)
<1>1. Proper("signal", s)
  BY DEF Proper, Parts
<1>2. /\ Orderly("signal", <<s>>) /\ PutsOf(<<s>>) = s.puts /\ ~ Restarts(<<s>>)
      /\ DOMAIN <<s>> = {1} /\ <<s>>[1] = s
  BY <1>1, OneOrderly
<1>3. \A i \in DOMAIN q, j \in DOMAIN <<s>> : Before("signal", q[i], <<s>>[j])
  BY <1>2 DEF Before, Filling, Restarts
<1>4. Orderly("signal", q)
  BY DEF Filling
<1>5. /\ Orderly("signal", q \o <<s>>) /\ PutsOf(q) \subseteq PutsOf(q \o <<s>>)
      /\ s.puts \subseteq PutsOf(q \o <<s>>)
  BY <1>2, <1>3, <1>4, ConcatOrderly
<1>6. ~ Restarts(q \o <<s>>) /\ \A k \in DOMAIN (q \o <<s>>) : (q \o <<s>>)[k].op # "wire"
  BY <1>2, NoRestarts, NoWire DEF Filling, Orderly
<1>. QED  BY <1>5, <1>6 DEF Filling

LEMMA RestartAfter ==
  ASSUME NEW q, Filling(q, Parts("signal"))
  PROVE  Installed("signal", q \o RestartForSignal)
<1>. DEFINE s == Own({}, TRUE)
<1>1. s \in Kind /\ s.op = "own" /\ s.puts = {} /\ s.restarts = TRUE /\ s.onFail = "stop" /\ s.may = FALSE
  BY DEF Own, Step, Kind, Names
<1>. HIDE DEF s
<1>2. Proper("signal", s)
  BY <1>1 DEF Proper
<1>3. /\ Orderly("signal", <<s>>) /\ Restarts(<<s>>) /\ DOMAIN <<s>> = {1} /\ <<s>>[1] = s
  BY <1>1, <1>2, OneOrderly
<1>4. \A i \in DOMAIN q, j \in DOMAIN <<s>> : Before("signal", q[i], <<s>>[j])
  BY <1>1, <1>3 DEF Before, Filling
<1>5. Orderly("signal", q \o <<s>>) /\ PutsOf(q) \subseteq PutsOf(q \o <<s>>) /\ Restarts(q \o <<s>>)
  BY <1>3, <1>4, ConcatOrderly DEF Filling
<1>6. \A k \in DOMAIN (q \o <<s>>) : (q \o <<s>>)[k].op # "wire"
  BY <1>1, <1>3, NoWire DEF Filling, Orderly
<1>7. Installed("signal", q \o <<s>>)
  BY <1>5, <1>6 DEF Filling, Installed
<1>. QED  BY <1>7 DEF s, RestartForSignal

LEMMA SignalIsWhole == Whole("signal", RunSignalChannel)
<1>. DEFINE a == <<BackPrompt>> \o EnsureSignalCli
            b == a \o AddSignal
            c == b \o RunSignalAuth
            d == c \o WriteSignalAccount
            e == d \o RestartForSignal
            f == e \o AskOperatorRole \o ResolveAgentName
            adapter == Child("signal-install", {<<"signal", "adapter">>}, FALSE, "stop")
            account == Child("signal-auth", {<<"signal", "account">>}, FALSE, "stop")
            key == Own({<<"signal", "key">>}, FALSE)
<1>0. Parts("signal") = {<<"signal", "adapter">>, <<"signal", "key">>, <<"signal", "account">>}
  BY DEF Parts
<1>1. a \in Seq(Quiet)
  BY PromptsQuiet, NamedRequests, AskIsQuiet DEF EnsureSignalCli
<1>. HIDE DEF a
<1>2. Filling(a, {})
  BY <1>1, QuietOrderly DEF Filling
<1>3. /\ {<<"signal", "adapter">>} \in SUBSET Items /\ {<<"signal", "account">>} \in SUBSET Items
      /\ {<<"signal", "key">>} \in SUBSET Items
  <2>1. "signal" \in KnownChannels
    BY DEF KnownChannels
  <2>. QED  BY <2>1, InItems
<1>4. /\ adapter \in Kind /\ adapter.op = "run" /\ adapter.puts = {<<"signal", "adapter">>}
      /\ adapter.restarts = FALSE /\ adapter.onFail = "stop" /\ adapter.may = FALSE
  BY <1>3 DEF Child, Step, Kind, Names
<1>5. /\ account \in Kind /\ account.op = "run" /\ account.puts = {<<"signal", "account">>}
      /\ account.restarts = FALSE /\ account.onFail = "stop" /\ account.may = FALSE
  BY <1>3 DEF Child, Step, Kind, Names
<1>6. /\ key \in Kind /\ key.op = "own" /\ key.puts = {<<"signal", "key">>}
      /\ key.restarts = FALSE /\ key.onFail = "stop" /\ key.may = FALSE
  BY <1>3 DEF Own, Step, Kind, Names
<1>7. AddSignal = <<adapter>> /\ RunSignalAuth = <<account>> /\ WriteSignalAccount = <<key>>
  BY DEF AddSignal, RunSignalAuth, SignalAuth, WriteSignalAccount
<1>. HIDE DEF adapter, account, key
<1>8. Filling(b, {} \cup adapter.puts)
  BY <1>0, <1>2, <1>4, <1>7, FillAfter
<1>. HIDE DEF b
<1>9. Filling(c, ({} \cup adapter.puts) \cup account.puts)
  BY <1>0, <1>5, <1>7, <1>8, FillAfter
<1>. HIDE DEF c
<1>10. Filling(d, (({} \cup adapter.puts) \cup account.puts) \cup key.puts)
  BY <1>0, <1>6, <1>7, <1>9, FillAfter
<1>. HIDE DEF d
<1>11. (({} \cup adapter.puts) \cup account.puts) \cup key.puts = Parts("signal")
  BY <1>0, <1>4, <1>5, <1>6
<1>12. Installed("signal", e)
  BY <1>10, <1>11, RestartAfter
<1>. HIDE DEF e
<1>13. Installed("signal", f)
  BY <1>12, TailPieces, AsksAfter
<1>. HIDE DEF f
<1>14. Whole("signal", f \o InitFirstAgent("signal", "stop"))
  BY <1>13, WireAfter DEF AwaitedChannels
<1>. QED  BY <1>14 DEF f, e, d, c, b, a, RunSignalChannel

\* The branches whose failures are not awaited: no way back behind the first
\* change.
Loose == {s \in Kind : s.puts = {} /\ s.op # "wire"}
Onward(ch) == {s \in Kind : s.op # "gate" /\ \A i \in s.puts : i[1] = ch}

LEMMA LooseOrderly ==
  ASSUME NEW ch, ch \notin AwaitedChannels, NEW a \in Seq(Loose)
  PROVE  Orderly(ch, a)
<1>1. a \in Seq(Kind) /\ \A k \in DOMAIN a : a[k] \in Loose
  BY DEF Loose
<1>2. \A k \in DOMAIN a : a[k].puts = {} /\ a[k].op # "wire"
  BY <1>1 DEF Loose
<1>3. \A k \in DOMAIN a : Proper(ch, a[k])
  BY <1>2 DEF Proper
<1>4. \A i, j \in DOMAIN a : Before(ch, a[i], a[j])
  BY <1>2 DEF Before
<1>. QED  BY <1>1, <1>3, <1>4 DEF Orderly

LEMMA OnwardAfter ==
  ASSUME NEW ch, ch \notin AwaitedChannels, NEW a, Orderly(ch, a), NEW b \in Seq(Onward(ch))
  PROVE  Orderly(ch, a \o b)
<1>1. b \in Seq(Kind) /\ \A k \in DOMAIN b : b[k] \in Onward(ch)
  BY DEF Onward
<1>2. \A k \in DOMAIN b : b[k].op # "gate" /\ \A i \in b[k].puts : i[1] = ch
  BY <1>1 DEF Onward
<1>3. \A k \in DOMAIN b : Proper(ch, b[k])
  BY <1>2 DEF Proper
<1>4. \A i, j \in DOMAIN b : Before(ch, b[i], b[j])
  BY <1>2 DEF Before
<1>5. Orderly(ch, b)
  BY <1>1, <1>3, <1>4 DEF Orderly
<1>6. \A i \in DOMAIN a, j \in DOMAIN b : Before(ch, a[i], b[j])
  BY <1>2 DEF Before
<1>. QED  BY <1>5, <1>6, ConcatOrderly

LEMMA AskIsOnward ==
  ASSUME NEW ch
  PROVE  /\ \A q \in Seq(Asks) : q \in Seq(Onward(ch))
         /\ \A q \in Seq(Quiet) : q \in Seq(Loose)
         /\ \A q, r \in Seq(Onward(ch)) : q \o r \in Seq(Onward(ch))
         /\ \A q, r \in Seq(Loose) : q \o r \in Seq(Loose)
<1>1. Asks \subseteq Onward(ch)
  BY DEF Asks, Quiet, Onward
<1>2. Quiet \subseteq Loose
  BY DEF Quiet, Loose
<1>. QED  BY <1>1, <1>2

LEMMA WhatsAppIsWhole == Whole("whatsapp", RunWhatsAppChannel)
<1>. DEFINE O == Onward("whatsapp")
            adapter == Child("whatsapp-install", {<<"whatsapp", "adapter">>}, FALSE, "go on")
            account == Child("whatsapp-auth", {<<"whatsapp", "account">>}, FALSE, "go on")
            restart == Own({}, TRUE)
            number == Own({<<"whatsapp", "own number">>}, FALSE)
            wire == Step("wire", "init-first-agent", {}, FALSE, "go on")
<1>1. /\ {<<"whatsapp", "adapter">>} \in SUBSET Items /\ {<<"whatsapp", "account">>} \in SUBSET Items
      /\ {<<"whatsapp", "own number">>} \in SUBSET Items /\ {} \in SUBSET Items
  <2>1. "whatsapp" \in KnownChannels
    BY DEF KnownChannels
  <2>. QED  BY <2>1, InItems
<1>2. /\ adapter \in Kind /\ adapter.op = "run" /\ adapter.puts = {<<"whatsapp", "adapter">>}
      /\ account \in Kind /\ account.op = "run" /\ account.puts = {<<"whatsapp", "account">>}
  BY <1>1 DEF Child, Step, Kind, Names
<1>3. /\ restart \in Kind /\ restart.op = "own" /\ restart.puts = {}
      /\ number \in Kind /\ number.op = "own" /\ number.puts = {<<"whatsapp", "own number">>}
  BY <1>1 DEF Own, Step, Kind, Names
<1>4. wire \in Kind /\ wire.op = "wire" /\ wire.puts = {}
  BY <1>1 DEF Step, Kind, Names
<1>5. /\ AddWhatsApp = <<adapter>> /\ RunWhatsAppAuth = <<account>> /\ RestartForWhatsApp = <<restart>>
      /\ InitFirstAgent("whatsapp", "go on") = <<wire>> /\ WriteAssistantHasOwnNumber = Perhaps(<<number>>)
  BY DEF AddWhatsApp, RunWhatsAppAuth, WhatsAppAuth, RestartForWhatsApp, InitFirstAgent,
         WriteAssistantHasOwnNumber
<1>. HIDE DEF adapter, account, restart, number, wire
<1>6. adapter \in O /\ account \in O /\ restart \in O /\ number \in O /\ wire \in O
  <2>1. /\ \A i \in {<<"whatsapp", "adapter">>} : i[1] = "whatsapp"
        /\ \A i \in {<<"whatsapp", "account">>} : i[1] = "whatsapp"
        /\ \A i \in {<<"whatsapp", "own number">>} : i[1] = "whatsapp"
    OBVIOUS
  <2>2. adapter \in O /\ account \in O
    BY <1>2, <2>1 DEF Onward
  <2>3. restart \in O /\ number \in O
    BY <1>3, <2>1 DEF Onward
  <2>4. wire \in O
    BY <1>4 DEF Onward
  <2>. QED  BY <2>2, <2>3, <2>4
<1>7. \A s \in O : [s EXCEPT !.may = TRUE] \in O
  <2>. SUFFICES ASSUME NEW s \in O PROVE [s EXCEPT !.may = TRUE] \in O
    OBVIOUS
  <2>1. s \in Kind /\ s.op # "gate" /\ \A i \in s.puts : i[1] = "whatsapp"
    BY DEF Onward
  <2>2. PICK t \in Kind : t = [s EXCEPT !.may = TRUE] /\ t.op = s.op /\ t.puts = s.puts
    BY <2>1, MaySame
  <2>3. t \in O
    BY <2>1, <2>2 DEF Onward
  <2>. QED  BY <2>2, <2>3
<1>8. /\ AddWhatsApp \in Seq(O) /\ RunWhatsAppAuth \in Seq(O) /\ RestartForWhatsApp \in Seq(O)
      /\ InitFirstAgent("whatsapp", "go on") \in Seq(O) /\ WriteAssistantHasOwnNumber \in Seq(O)
  BY <1>5, <1>6, <1>7, OneStep, PerhapsIn
<1>9. AskChatPhone \in Seq(O) /\ AskOperatorRole \in Seq(O) /\ ResolveAgentName \in Seq(O)
  BY PromptsQuiet, TailPieces, AskIsOnward DEF AskChatPhone
<1>10. AskAuthMethod \o AskPhoneNumber \in Seq(Loose)
  BY PromptsQuiet, TailPieces, AskIsQuiet, AskIsOnward DEF AskAuthMethod, AskPhoneNumber
<1>11. Orderly("whatsapp", AskAuthMethod \o AskPhoneNumber) /\ "whatsapp" \notin AwaitedChannels
  BY <1>10, LooseOrderly DEF AwaitedChannels
<1>. HIDE DEF O
<1>12. \A a : \A b \in Seq(O) : Orderly("whatsapp", a) => Orderly("whatsapp", a \o b)
  BY <1>11, OnwardAfter DEF O
<1>13. Orderly("whatsapp", RunWhatsAppChannel)
  BY <1>8, <1>9, <1>11, <1>12 DEF RunWhatsAppChannel
<1>. QED  BY <1>11, <1>13 DEF Whole

LEMMA TeamsIsWhole ==
  ASSUME NEW keys, NEW reuse
  PROVE  Whole("teams", RunTeamsChannel(keys, reuse))
<1>. DEFINE a == IF keys THEN <<BackPrompt>> ELSE <<>>
            b == ConfirmPrereqs \o StepPublicUrl \o StepAppRegistration
                   \o StepClientSecret \o StepAzureBot \o StepEnableTeamsChannel
                   \o StepGenerateManifest \o StepSideload
            c == IF reuse THEN <<>> ELSE b
<1>0. <<>> \in Seq(Loose)
  OBVIOUS
<1>1. a \in Seq(Loose)
  <2>1. <<BackPrompt>> \in Seq(Loose)
    BY PromptsQuiet, AskIsOnward
  <2>. QED  BY <1>0, <2>1
<1>2. BuildTeamsAppPackage \in Loose
  <2>1. BuildTeamsAppPackage \in Kind /\ BuildTeamsAppPackage.op = "run" /\ BuildTeamsAppPackage.puts = {}
    BY DEF BuildTeamsAppPackage, Child, Step, Kind, Names
  <2>. QED  BY <2>1 DEF Loose
<1>3. /\ StepGate \in Seq(Loose) /\ <<Prompt>> \in Seq(Loose) /\ <<Prompt, Prompt>> \in Seq(Loose)
      /\ Perhaps(<<Prompt>>) \in Seq(Loose)
  BY PromptsQuiet, TailPieces, AskIsQuiet, AskIsOnward DEF StepGate
<1>4. StepAppRegistration \in Seq(Loose)
  BY <1>3, AskIsOnward DEF StepAppRegistration, AskAppType, AskUuid
<1>5. /\ ConfirmPrereqs \in Seq(Loose) /\ StepPublicUrl \in Seq(Loose) /\ StepClientSecret \in Seq(Loose)
      /\ StepAzureBot \in Seq(Loose) /\ StepEnableTeamsChannel \in Seq(Loose) /\ StepSideload \in Seq(Loose)
      /\ StepGenerateManifest \in Seq(Loose)
  BY <1>2, <1>3, AskIsOnward
     DEF ConfirmPrereqs, StepPublicUrl, StepClientSecret, StepAzureBot, StepEnableTeamsChannel,
         StepSideload, StepGenerateManifest
<1>6. b \in Seq(Loose)
  BY <1>4, <1>5, AskIsOnward
<1>. HIDE DEF b
<1>7. c \in Seq(Loose)
  BY <1>0, <1>6
<1>8. AddTeams \in Onward("teams")
  <2>1. {<<"teams", "adapter">>, <<"teams", "key">>} \in SUBSET Items
    BY InItems DEF KnownChannels
  <2>2. /\ AddTeams \in Kind /\ AddTeams.op = "run"
        /\ AddTeams.puts = {<<"teams", "adapter">>, <<"teams", "key">>}
    BY <2>1 DEF AddTeams, Child, Step, Kind, Names
  <2>. QED  BY <2>2 DEF Onward
<1>9. InstallAdapter \in Seq(Onward("teams")) /\ FinishWithHandoff \in Seq(Onward("teams"))
  BY <1>8, OneStep, PromptsQuiet, AskIsOnward DEF InstallAdapter, FinishWithHandoff
<1>. HIDE DEF a, c
<1>10. a \o c \in Seq(Loose) /\ "teams" \notin AwaitedChannels
  BY <1>1, <1>7, AskIsOnward DEF AwaitedChannels
<1>11. Orderly("teams", a \o c)
  BY <1>10, LooseOrderly
<1>12. Orderly("teams", ((a \o c) \o InstallAdapter) \o FinishWithHandoff)
  BY <1>9, <1>10, <1>11, OnwardAfter
<1>13. RunTeamsChannel(keys, reuse) = ((a \o c) \o InstallAdapter) \o FinishWithHandoff
  BY DEF RunTeamsChannel, a, b, c
<1>. QED  BY <1>10, <1>12, <1>13 DEF Whole

LEMMA OtherIsWhole == Whole("other", AskOtherChannelName)
<1>1. Orderly("other", AskOtherChannelName)
  BY PromptsQuiet, QuietOrderly DEF AskOtherChannelName
<1>. QED  BY <1>1 DEF Whole, AwaitedChannels

\* Whatever branch the operator picks, in whatever state the machine is.
LEMMA ScriptsAreWhole ==
  ASSUME NEW ch \in KnownChannels, NEW on, NEW q \in Scripts(ch, on)
  PROVE  Whole(ch, q)
<1>1. CASE ch = "telegram"
  BY <1>1, TelegramIsWhole DEF Scripts
<1>2. CASE ch = "discord"
  BY <1>2, DiscordIsWhole DEF Scripts
<1>3. CASE ch = "whatsapp"
  BY <1>3, WhatsAppIsWhole DEF Scripts
<1>4. CASE ch = "signal"
  BY <1>4, SignalIsWhole DEF Scripts
<1>5. CASE ch = "slack"
  BY <1>5, SlackIsWhole DEF Scripts
<1>6. CASE ch = "imessage"
  BY <1>6, IMessageIsWhole DEF Scripts
<1>7. CASE ch = "teams"
  BY <1>7, TeamsIsWhole DEF Scripts
<1>8. CASE ch = "other"
  BY <1>8, OtherIsWhole DEF Scripts
<1>. QED  BY <1>1, <1>2, <1>3, <1>4, <1>5, <1>6, <1>7, <1>8 DEF KnownChannels

\* What is left of a script keeps its order.
LEMMA TailOrderly ==
  ASSUME NEW ch, NEW q, Orderly(ch, q), q # <<>>
  PROVE  /\ Orderly(ch, Tail(q)) /\ Head(q) \in Kind /\ Proper(ch, Head(q))
         /\ PutsOf(q) = Head(q).puts \cup PutsOf(Tail(q))
         /\ Restarts(q) <=> Head(q).restarts \/ Restarts(Tail(q))
         /\ \A k \in DOMAIN Tail(q) : Before(ch, Head(q), Tail(q)[k])
         /\ \A k \in DOMAIN Tail(q) : \E j \in DOMAIN q : q[j] = Tail(q)[k]
<1>1. /\ q \in Seq(Kind) /\ Len(q) \in Nat \ {0} /\ DOMAIN q = 1..Len(q) /\ Head(q) = q[1] /\ q[1] \in Kind
      /\ Tail(q) \in Seq(Kind) /\ DOMAIN Tail(q) = 1..(Len(q) - 1)
      /\ \A k \in 1..(Len(q) - 1) : Tail(q)[k] = q[k + 1]
  BY DEF Orderly
<1>2. /\ 1 \in DOMAIN q
      /\ \A k \in DOMAIN Tail(q) : k + 1 \in DOMAIN q /\ Tail(q)[k] = q[k + 1] /\ 1 < k + 1
      /\ \A k \in DOMAIN q : k = 1 \/ (k - 1 \in DOMAIN Tail(q) /\ Tail(q)[k - 1] = q[k])
  <2>1. \A k \in 1..Len(q) : k = 1 \/ (k - 1 \in 1..(Len(q) - 1) /\ (k - 1) + 1 = k)
    BY <1>1
  <2>2. \A k \in 1..(Len(q) - 1) : k + 1 \in 1..Len(q) /\ 1 < k + 1
    BY <1>1
  <2>. QED  BY <1>1, <2>1, <2>2
<1>3. \A k \in DOMAIN Tail(q) : Proper(ch, Tail(q)[k])
  BY <1>2 DEF Orderly
<1>4. ASSUME NEW i \in DOMAIN Tail(q), NEW j \in DOMAIN Tail(q), i < j
      PROVE  Before(ch, Tail(q)[i], Tail(q)[j])
  <2>1. i + 1 < j + 1
    BY <1>1, <1>4
  <2>. QED  BY <1>2, <2>1 DEF Orderly
<1>5. \A k \in DOMAIN Tail(q) : Before(ch, Head(q), Tail(q)[k])
  BY <1>1, <1>2 DEF Orderly
<1>6. Proper(ch, Head(q))
  BY <1>1, <1>2 DEF Orderly
<1>7. PutsOf(q) = Head(q).puts \cup PutsOf(Tail(q))
  <2>1. ASSUME NEW k \in DOMAIN q, NEW x \in q[k].puts PROVE x \in Head(q).puts \cup PutsOf(Tail(q))
    <3>1. CASE k = 1
      BY <1>1, <2>1, <3>1
    <3>2. CASE k - 1 \in DOMAIN Tail(q) /\ Tail(q)[k - 1] = q[k]
      BY <2>1, <3>2 DEF PutsOf
    <3>. QED  BY <1>2, <3>1, <3>2
  <2>2. Head(q).puts \subseteq PutsOf(q)
    BY <1>1, <1>2 DEF PutsOf
  <2>3. PutsOf(Tail(q)) \subseteq PutsOf(q)
    BY <1>2 DEF PutsOf
  <2>. QED  BY <2>1, <2>2, <2>3 DEF PutsOf
<1>8. Restarts(q) <=> Head(q).restarts \/ Restarts(Tail(q))
  BY <1>1, <1>2 DEF Restarts
<1>9. \A k \in DOMAIN Tail(q) : \E j \in DOMAIN q : q[j] = Tail(q)[k]
  BY <1>2
<1>10. Orderly(ch, Tail(q))
  BY <1>1, <1>3, <1>4 DEF Orderly
<1>. QED  BY <1>1, <1>5, <1>6, <1>7, <1>8, <1>9, <1>10

-----------------------------------------------------------------------------
(* Setup: what is wired is served.                                         *)

\* The service runs under a manager that setup can ask for a restart.
ServiceUp == service = "running" /\ Managed

\* While a branch is followed: what is left of it is in order, it offers no way
\* back once something changed, and what its channel needs is there or still to
\* come, and served unless a restart is still to come.
BranchFollowed ==
  pc = "flow" =>
    /\ flow \in [ch : Channels, rest : Seq(Kind)]
    /\ Orderly(flow.ch, flow.rest)
    /\ touched => \A k \in DOMAIN flow.rest : flow.rest[k].op # "gate"
    /\ flow.ch \in AwaitedChannels =>
         /\ Parts(flow.ch) \subseteq items \cup PutsOf(flow.rest)
         /\ ~ Restarts(flow.rest) /\ ServiceUp => Parts(flow.ch) \subseteq serving

\* Between branches: the service started with what was there, and a wired channel
\* has all it needs.
Supplied ==
  /\ serving \subseteq items
  /\ \A i \in items : i[1] \in AwaitedChannels => i \in Parts(i[1])
  /\ \A ch \in wired \cap AwaitedChannels :
       /\ Parts(ch) \subseteq items
       /\ ServiceUp => Parts(ch) \subseteq serving

ServedInv == BranchFollowed /\ Supplied

\* The steps that neither follow a branch nor touch what a service is made of.
LEMMA AsideKeeps ==
  ASSUME ServedInv, UNCHANGED <<manager, service, items, serving, wired>>,
         pc' # "flow" \/ UNCHANGED <<pc, flow, touched>>
  PROVE  ServedInv'
<1>1. ServiceUp' <=> ServiceUp
  BY DEF ServiceUp, Managed
<1>2. Supplied'
  BY <1>1 DEF ServedInv, Supplied
<1>3. BranchFollowed'
  BY <1>1 DEF ServedInv, BranchFollowed
<1>. QED  BY <1>2, <1>3 DEF ServedInv

\* What is left of the branch after the step at hand.
LEMMA Proceeds ==
  ASSUME ServedInv, pc = "flow", flow.rest # <<>>, Proceed
  PROVE  /\ flow' \in [ch : Channels, rest : Seq(Kind)]
         /\ flow'.ch = flow.ch /\ flow'.rest = Tail(flow.rest)
         /\ Orderly(flow.ch, Tail(flow.rest))
<1>1. flow \in [ch : Channels, rest : Seq(Kind)] /\ Orderly(flow.ch, flow.rest)
  BY DEF ServedInv, BranchFollowed
<1>2. Orderly(flow.ch, Tail(flow.rest))
  BY <1>1, TailOrderly
<1>3. Tail(flow.rest) \in Seq(Kind)
  BY <1>2 DEF Orderly
<1>. QED  BY <1>1, <1>2, <1>3 DEF Proceed

\* The step at hand.
LEMMA AtHand ==
  ASSUME ServedInv, pc = "flow", flow.rest # <<>>
  PROVE  LET ch == flow.ch  s == Head(flow.rest)  q == Tail(flow.rest)
         IN  /\ s \in Kind /\ Proper(ch, s)
             /\ PutsOf(flow.rest) = s.puts \cup PutsOf(q)
             /\ Restarts(flow.rest) <=> s.restarts \/ Restarts(q)
             /\ s.puts # {} \/ s.op = "wire" \/ touched => \A k \in DOMAIN q : q[k].op # "gate"
             /\ touched => s.op # "gate"
             /\ ch \in AwaitedChannels /\ (s.restarts \/ s.op = "wire") => PutsOf(q) = {}
             /\ ch \in AwaitedChannels /\ s.op = "wire" => ~ Restarts(q)
<1>. DEFINE ch == flow.ch  s == Head(flow.rest)  q == Tail(flow.rest)
<1>1. Orderly(ch, flow.rest) /\ (touched => \A k \in DOMAIN flow.rest : flow.rest[k].op # "gate")
  BY DEF ServedInv, BranchFollowed
<1>2. /\ Orderly(ch, q) /\ s \in Kind /\ Proper(ch, s)
      /\ PutsOf(flow.rest) = s.puts \cup PutsOf(q)
      /\ Restarts(flow.rest) <=> s.restarts \/ Restarts(q)
      /\ \A k \in DOMAIN q : Before(ch, s, q[k])
      /\ \A k \in DOMAIN q : \E j \in DOMAIN flow.rest : flow.rest[j] = q[k]
  BY <1>1, TailOrderly
<1>3. touched => s.op # "gate"
  <2>1. 1 \in DOMAIN flow.rest /\ s = flow.rest[1]
    BY <1>1 DEF Orderly
  <2>. QED  BY <1>1, <2>1
<1>. HIDE DEF ch, s, q
<1>4. s.puts # {} \/ s.op = "wire" \/ touched => \A k \in DOMAIN q : q[k].op # "gate"
  BY <1>1, <1>2 DEF Before
<1>5. ch \in AwaitedChannels /\ (s.restarts \/ s.op = "wire") => PutsOf(q) = {}
  BY <1>2 DEF Before, PutsOf
<1>6. ch \in AwaitedChannels /\ s.op = "wire" => ~ Restarts(q)
  BY <1>2 DEF Before, Restarts
<1>. QED  BY <1>2, <1>3, <1>4, <1>5, <1>6 DEF ch, s, q

\* What keeps ServedInv, action by action.
LEMMA ServedInit == SetupInit => ServedInv
<1>. SUFFICES ASSUME SetupInit PROVE ServedInv
  OBVIOUS
<1>1. pc # "flow" /\ serving = {} /\ items = {} /\ wired = {}
  BY DEF SetupInit
<1>. QED  BY <1>1 DEF ServedInv, BranchFollowed, Supplied

LEMMA ServedByService == ServedInv /\ Service => ServedInv'
<1>. SUFFICES ASSUME ServedInv, Service PROVE ServedInv'
  OBVIOUS
<1>1. pc' = "cli-agent"
  BY DEF Service, At, After, Next1
<1>2. UNCHANGED <<manager, items, wired>>
  BY DEF Service
<1>3. SetupLaunchd \/ SetupSystemd \/ SetupNohupFallback
  BY DEF Service
<1>4. CASE SetupNohupFallback
  <2>1. UNCHANGED <<manager, service, items, serving, wired>>
    BY <1>2, <1>4 DEF SetupNohupFallback
  <2>. QED  BY <1>1, <2>1, AsideKeeps
<1>5. CASE SetupLaunchd \/ SetupSystemd
  <2>1. \/ service' = "running" /\ serving' = items
        \/ service' = "stopped" /\ serving' = serving
    BY <1>5 DEF SetupLaunchd, SetupSystemd, Comes
  <2>2. Supplied'
    BY <1>2, <2>1 DEF ServedInv, Supplied, ServiceUp
  <2>. QED  BY <1>1, <2>2 DEF ServedInv, BranchFollowed
<1>. QED  BY <1>3, <1>4, <1>5

LEMMA ServedByHand == ServedInv /\ StartByHand => ServedInv'
<1>. SUFFICES ASSUME ServedInv, StartByHand PROVE ServedInv'
  OBVIOUS
<1>1. /\ manager' = manager /\ manager = "script"
      /\ pc' = pc /\ flow' = flow /\ touched' = touched
      /\ items' = items /\ wired' = wired /\ serving' = items
  BY DEF StartByHand, process, chain, Comes
<1>2. ~ ServiceUp' /\ ~ ServiceUp
  BY <1>1 DEF ServiceUp, Managed
<1>3. Supplied'
  BY <1>1, <1>2 DEF ServedInv, Supplied
<1>4. BranchFollowed'
  BY <1>1, <1>2 DEF ServedInv, BranchFollowed
<1>. QED  BY <1>3, <1>4 DEF ServedInv

LEMMA ServedByChoice == ServedInv /\ ChooseChannel => ServedInv'
<1>. SUFFICES ASSUME ServedInv, ChooseChannel PROVE ServedInv'
  OBVIOUS
<1>1. UNCHANGED <<manager, service, items, serving, wired>> /\ touched' = FALSE
  BY DEF ChooseChannel, SameButFlow
<1>2. PICK ch \in Channels : \E script \in Scripts(ch, items) : flow' = [ch |-> ch, rest |-> script]
  BY DEF ChooseChannel
<1>8. PICK script \in Scripts(ch, items) : flow' = [ch |-> ch, rest |-> script]
  BY <1>2
<1>3. Whole(ch, script) /\ script \in Seq(Kind)
  BY <1>8, ScriptsAreWhole, SetupAssumption DEF KnownChannels, Whole, Orderly
<1>4. ServiceUp' <=> ServiceUp
  BY <1>1 DEF ServiceUp, Managed
<1>5. Supplied'
  BY <1>1, <1>4 DEF ServedInv, Supplied
<1>6. flow' \in [ch : Channels, rest : Seq(Kind)] /\ flow'.ch = ch /\ flow'.rest = script
  BY <1>8, <1>3
<1>7. BranchFollowed'
  BY <1>1, <1>3, <1>6 DEF BranchFollowed, Whole
<1>. QED  BY <1>5, <1>7 DEF ServedInv

LEMMA ServedByAnswer == ServedInv /\ Answer => ServedInv'
<1>. SUFFICES ASSUME ServedInv, Answer PROVE ServedInv'
  OBVIOUS
<1>1. /\ UNCHANGED <<manager, service, items, serving, wired>>
      /\ touched' = touched /\ pc' = pc /\ pc = "flow" /\ flow.rest # <<>> /\ Proceed
      /\ Head(flow.rest).op \in {"ask", "gate"} \/ Head(flow.rest).may
  BY DEF Answer, SameButProceed, SameButFlow
<1>2. ServiceUp' <=> ServiceUp
  BY <1>1 DEF ServiceUp, Managed
<1>3. Supplied'
  BY <1>1, <1>2 DEF ServedInv, Supplied
<1>4. flow.ch \in AwaitedChannels => Head(flow.rest).puts = {} /\ ~ Head(flow.rest).restarts
  BY <1>1, AtHand DEF Proper
<1>5. flow.ch \in AwaitedChannels =>
        /\ PutsOf(Tail(flow.rest)) = PutsOf(flow.rest)
        /\ Restarts(Tail(flow.rest)) <=> Restarts(flow.rest)
  BY <1>1, <1>4, AtHand
<1>6. touched => \A k \in DOMAIN Tail(flow.rest) : Tail(flow.rest)[k].op # "gate"
  BY <1>1, AtHand
<1>7. BranchFollowed'
  BY <1>1, <1>2, <1>5, <1>6, Proceeds DEF ServedInv, BranchFollowed
<1>. QED  BY <1>3, <1>7 DEF ServedInv

LEMMA ServedByStep == ServedInv /\ StepDone => ServedInv'
<1>. SUFFICES ASSUME ServedInv, StepDone PROVE ServedInv'
  OBVIOUS
<1>. DEFINE s == Head(flow.rest)  q == Tail(flow.rest)  ch == flow.ch
<1>1. /\ manager' = manager /\ wired' = wired
      /\ pc' = pc /\ pc = "flow" /\ flow.rest # <<>> /\ Proceed
      /\ items' = items \cup s.puts /\ touched' = (touched \/ s.puts # {})
      /\ IF s.restarts THEN Restarted(items') ELSE UNCHANGED <<service, serving>>
  BY DEF StepDone, Now, SameButProceed, SameButFlow
<1>2. \/ s.restarts /\ Managed /\ service' = "running" /\ serving' = items'
      \/ s.restarts /\ Managed /\ service' = "stopped" /\ serving' = serving
      \/ s.restarts /\ ~ Managed /\ serving' = serving
      \/ ~ s.restarts /\ service' = service /\ serving' = serving
  BY <1>1 DEF Restarted, Comes
<1>3. Managed' <=> Managed
  BY <1>1 DEF Managed
<1>4. /\ serving \subseteq items /\ \A i \in items : i[1] \in AwaitedChannels => i \in Parts(i[1])
      /\ \A c \in wired \cap AwaitedChannels : Parts(c) \subseteq items /\ (ServiceUp => Parts(c) \subseteq serving)
  BY DEF ServedInv, Supplied
<1>5. /\ s.restarts /\ ServiceUp' => serving' = items'
      /\ ~ s.restarts /\ ServiceUp' => ServiceUp /\ serving' = serving
      /\ serving' \subseteq items'
  BY <1>1, <1>2, <1>3, <1>4 DEF ServiceUp
<1>6. Proper(ch, s)
  BY <1>1, AtHand
<1>. HIDE DEF s, q, ch
<1>7. \A i \in s.puts : i[1] \in AwaitedChannels => i \in Parts(i[1])
  BY <1>6 DEF Proper
<1>8. Supplied'
  <2>1. \A i \in items' : i[1] \in AwaitedChannels => i \in Parts(i[1])
    BY <1>1, <1>4, <1>7
  <2>2. ASSUME NEW c \in wired \cap AwaitedChannels
        PROVE  Parts(c) \subseteq items' /\ (ServiceUp' => Parts(c) \subseteq serving')
    BY <1>1, <1>4, <1>5, <2>2
  <2>. QED  BY <1>1, <1>5, <2>1, <2>2 DEF Supplied
<1>9. touched' => \A k \in DOMAIN q : q[k].op # "gate"
  BY <1>1, AtHand DEF s, q, ch
<1>10. ASSUME ch \in AwaitedChannels
       PROVE  /\ Parts(ch) \subseteq items' \cup PutsOf(q)
              /\ ~ Restarts(q) /\ ServiceUp' => Parts(ch) \subseteq serving'
  <2>1. /\ Parts(ch) \subseteq items \cup PutsOf(flow.rest)
        /\ ~ Restarts(flow.rest) /\ ServiceUp => Parts(ch) \subseteq serving
    BY <1>1, <1>10 DEF ServedInv, BranchFollowed, ch
  <2>2. /\ PutsOf(flow.rest) = s.puts \cup PutsOf(q)
        /\ Restarts(flow.rest) <=> s.restarts \/ Restarts(q)
        /\ s.restarts => PutsOf(q) = {}
    BY <1>1, <1>10, AtHand DEF s, q, ch
  <2>3. Parts(ch) \subseteq items' \cup PutsOf(q)
    BY <1>1, <2>1, <2>2
  <2>4. CASE s.restarts
    BY <1>5, <2>2, <2>3, <2>4
  <2>5. CASE ~ s.restarts
    BY <1>5, <2>1, <2>2, <2>3, <2>5
  <2>. QED  BY <2>4, <2>5
<1>11. /\ flow' \in [ch : Channels, rest : Seq(Kind)]
       /\ flow'.ch = ch /\ flow'.rest = q /\ Orderly(ch, q)
  BY <1>1, Proceeds DEF ch, q
<1>12. BranchFollowed'
  BY <1>9, <1>10, <1>11 DEF BranchFollowed
<1>. QED  BY <1>8, <1>12 DEF ServedInv

\* A failure leaves an awaited branch where it is.
LEMMA FailureLeads ==
  ASSUME ServedInv, pc = "flow", flow.rest # <<>>, AfterFailure(Head(flow.rest))
  PROVE  pc' \in {"failed", "exit"} \/ (pc' = pc /\ Proceed /\ flow.ch \notin AwaitedChannels)
<1>1. Head(flow.rest) \in Kind /\ Proper(flow.ch, Head(flow.rest))
  BY AtHand
<1>2. Head(flow.rest).onFail \in {"stop", "go on", "throw"}
  BY <1>1 DEF Kind
<1>3. flow.ch \in AwaitedChannels => Head(flow.rest).onFail = "stop"
  BY <1>1 DEF Proper
<1>4. CASE Head(flow.rest).onFail = "stop"
  BY <1>4 DEF AfterFailure
<1>5. CASE Head(flow.rest).onFail = "go on"
  BY <1>3, <1>5 DEF AfterFailure
<1>6. CASE Head(flow.rest).onFail = "throw"
  BY <1>6 DEF AfterFailure
<1>. QED  BY <1>2, <1>4, <1>5, <1>6

LEMMA ServedByFailure == ServedInv /\ StepBroke => ServedInv'
<1>. SUFFICES ASSUME ServedInv, StepBroke PROVE ServedInv'
  OBVIOUS
<1>1. /\ UNCHANGED <<manager, service, items, serving, wired>>
      /\ touched' = touched /\ pc = "flow" /\ flow.rest # <<>>
      /\ AfterFailure(Head(flow.rest))
  BY DEF StepBroke, Now, SameButFlow
<1>2. CASE pc' \in {"failed", "exit"}
  BY <1>1, <1>2, AsideKeeps
<1>3. CASE pc' = pc /\ Proceed /\ flow.ch \notin AwaitedChannels
  <2>1. ServiceUp' <=> ServiceUp
    BY <1>1 DEF ServiceUp, Managed
  <2>2. Supplied'
    BY <1>1, <2>1 DEF ServedInv, Supplied
  <2>3. touched => \A k \in DOMAIN Tail(flow.rest) : Tail(flow.rest)[k].op # "gate"
    BY <1>1, AtHand
  <2>4. BranchFollowed'
    BY <1>1, <1>3, <2>3, Proceeds DEF BranchFollowed
  <2>. QED  BY <2>2, <2>4 DEF ServedInv
<1>. QED  BY <1>1, <1>2, <1>3, FailureLeads

LEMMA ServedByWire == ServedInv /\ Wire => ServedInv'
<1>. SUFFICES ASSUME ServedInv, Wire PROVE ServedInv'
  OBVIOUS
<1>. DEFINE s == Head(flow.rest)  q == Tail(flow.rest)  ch == flow.ch
<1>1. /\ UNCHANGED <<manager, service, items, serving>>
      /\ wired' \subseteq wired \cup {ch}
      /\ pc = "flow" /\ flow.rest # <<>> /\ s.op = "wire"
  BY DEF Wire, Now, WireIfMissing
<1>2. (Proceed /\ pc' = pc) \/ AfterFailure(s)
  BY DEF Wire
<1>3. ServiceUp' <=> ServiceUp
  BY <1>1 DEF ServiceUp, Managed
<1>4. ASSUME ch \in AwaitedChannels
      PROVE  Parts(ch) \subseteq items /\ (ServiceUp => Parts(ch) \subseteq serving)
  <2>1. /\ Parts(ch) \subseteq items \cup PutsOf(flow.rest)
        /\ ~ Restarts(flow.rest) /\ ServiceUp => Parts(ch) \subseteq serving
    BY <1>1, <1>4 DEF ServedInv, BranchFollowed
  <2>2. /\ PutsOf(flow.rest) = s.puts \cup PutsOf(q)
        /\ Restarts(flow.rest) <=> s.restarts \/ Restarts(q)
        /\ PutsOf(q) = {} /\ ~ Restarts(q) /\ Proper(ch, s)
    BY <1>1, <1>4, AtHand
  <2>3. s.puts = {} /\ ~ s.restarts
    BY <1>1, <1>4, <2>2 DEF Proper
  <2>. QED  BY <2>1, <2>2, <2>3
<1>5. \A k \in DOMAIN q : q[k].op # "gate"
  BY <1>1, AtHand
<1>. HIDE DEF s, q, ch
<1>6. Supplied'
  BY <1>1, <1>3, <1>4 DEF ServedInv, Supplied
<1>7. pc' \in {"failed", "exit"} \/ (pc' = pc /\ Proceed)
  BY <1>1, <1>2, FailureLeads DEF s
<1>8. CASE pc' \in {"failed", "exit"}
  BY <1>6, <1>8 DEF ServedInv, BranchFollowed
<1>9. CASE pc' = pc /\ Proceed
  <2>1. /\ flow' \in [ch : Channels, rest : Seq(Kind)]
        /\ flow'.ch = ch /\ flow'.rest = q /\ Orderly(ch, q)
    BY <1>1, <1>9, Proceeds DEF ch, q
  <2>2. ch \in AwaitedChannels => Parts(ch) \subseteq items \cup PutsOf(q)
    BY <1>4
  <2>3. BranchFollowed'
    BY <1>1, <1>3, <1>4, <1>5, <2>1, <2>2 DEF BranchFollowed
  <2>. QED  BY <1>6, <2>3 DEF ServedInv
<1>. QED  BY <1>7, <1>8, <1>9

\* The actions that neither follow a branch nor start the service.
Elsewhere ==
  \/ \E s \in Steps : PassOver(s) \/ StepFails(s)
  \/ Environment \/ Container \/ OneCli \/ Mounts \/ Reexec \/ StayInGroup
  \/ AuthPresent \/ SubscriptionAuth \/ PasteAuth \/ DeclineAuth
  \/ CliAgent \/ FirstChat \/ TerminalAgent
  \/ DetectZone \/ KeepZone \/ AnswerZone \/ ZoneFails
  \/ NoChannel \/ Back \/ FlowEnds
  \/ Verify \/ GiveUp \/ Retry \/ Cancel \/ UNCHANGED setupVars

LEMMA AfterSteps == \A s \in Steps \cup {"reexec"} : After(s) \in Stages \ {"flow", "exit"}
<1>. SUFFICES ASSUME NEW s \in Steps \cup {"reexec"} PROVE After(s) \in Stages \ {"flow", "exit"}
  OBVIOUS
<1>1. CASE s \in {"environment", "container", "reexec", "onecli", "auth", "mounts", "service"}
  BY <1>1 DEF After, Next1, Stages, Steps
<1>2. CASE s \in {"cli-agent", "timezone", "channel", "verify"}
  BY <1>2 DEF After, Stages, Steps
<1>. QED  BY <1>1, <1>2 DEF Steps

LEMMA ElsewhereKeeps ==
  ASSUME Elsewhere
  PROVE  /\ UNCHANGED <<manager, service, items, serving, wired>>
         /\ pc' # "flow" \/ UNCHANGED <<pc, flow, touched>>
<1>1. ASSUME NEW s \in Steps, PassOver(s) \/ StepFails(s)
      PROVE  UNCHANGED <<manager, service, items, serving, wired>> /\ pc' # "flow"
  BY <1>1, AfterSteps DEF PassOver, StepFails, Fail, machine, Steps
<1>2. ASSUME Environment \/ Container \/ OneCli \/ Mounts \/ AuthPresent \/ SubscriptionAuth
               \/ PasteAuth \/ DeclineAuth
      PROVE  UNCHANGED <<manager, service, items, serving, wired>> /\ pc' # "flow"
  BY <1>2, AfterSteps DEF Environment, Container, OneCli, Mounts, Builds, AuthPresent, SubscriptionAuth,
     PasteAuth, DeclineAuth, SameButAuth, machine, Steps
<1>3. ASSUME Reexec \/ StayInGroup \/ Retry
      PROVE  UNCHANGED <<manager, service, items, serving, wired>> /\ pc' # "flow"
  BY <1>3, AfterSteps DEF Reexec, StayInGroup, Retry, Rerun, machine
<1>4. ASSUME CliAgent \/ FirstChat \/ TerminalAgent
      PROVE  UNCHANGED <<manager, service, items, serving, wired>> /\ pc' # "flow"
  BY <1>4 DEF CliAgent, FirstChat, TerminalAgent, SameButGroups
<1>5. ASSUME DetectZone \/ KeepZone \/ AnswerZone \/ ZoneFails
      PROVE  UNCHANGED <<manager, service, items, serving, wired>> /\ pc' # "flow"
  BY <1>5 DEF DetectZone, KeepZone, AnswerZone, ZoneFails, SameButZone, Fail, machine
<1>6. ASSUME NoChannel \/ Back \/ FlowEnds
      PROVE  UNCHANGED <<manager, service, items, serving, wired>> /\ pc' # "flow"
  BY <1>6 DEF NoChannel, Back, FlowEnds, SameButFlow
<1>7. ASSUME Verify \/ GiveUp \/ Cancel
      PROVE  UNCHANGED <<manager, service, items, serving, wired>> /\ pc' # "flow"
  BY <1>7 DEF Verify, GiveUp, Cancel, machine
<1>8. ASSUME UNCHANGED setupVars
      PROVE  UNCHANGED <<manager, service, items, serving, wired>> /\ UNCHANGED <<pc, flow, touched>>
  BY <1>8 DEF setupVars, process, machine, chain
<1>. QED  BY <1>1, <1>2, <1>3, <1>4, <1>5, <1>6, <1>7, <1>8 DEF Elsewhere

LEMMA SetupCases ==
  [SetupNext]_setupVars => \/ Elsewhere \/ Service \/ StartByHand \/ ChooseChannel \/ Answer
                 \/ StepDone \/ StepBroke \/ Wire
BY DEF SetupNext, Elsewhere, Over

LEMMA ServedStep == ServedInv /\ [SetupNext]_setupVars => ServedInv'
<1>. SUFFICES ASSUME ServedInv, [SetupNext]_setupVars PROVE ServedInv'
  OBVIOUS
<1>1. CASE Elsewhere
  BY <1>1, ElsewhereKeeps, AsideKeeps
<1>. QED  BY <1>1, SetupCases, ServedByService, ServedByHand, ServedByChoice, ServedByAnswer,
             ServedByStep, ServedByFailure, ServedByWire

LEMMA ServedHolds ==
  SetupSpec => []ServedInv
<1>1. SetupInit => ServedInv
  BY ServedInit
<1>2. ServedInv /\ [SetupNext]_setupVars => ServedInv'
  BY ServedStep
<1>. QED  BY <1>1, <1>2, PTL DEF SetupSpec

\* For all channels and any number of processes: a running service serves the
\* chats setup wired (wiring is the last step of every awaited branch, after the
\* step that restarts the service, setup/channels/).
THEOREM SetupServesWhatItWired ==
  SetupSpec => []WiredIsServed
<1>1. ServedInv => WiredIsServed
  <2>. SUFFICES ASSUME ServedInv, ServiceUp, NEW ch \in wired \cap AwaitedChannels
                PROVE  /\ <<ch, "adapter">> \in serving
                       /\ \A i \in items : i[1] = ch => i \in serving
    BY DEF WiredIsServed, ServiceUp
  <2>1. Parts(ch) \subseteq serving /\ \A i \in items : i[1] = ch => i \in Parts(ch)
    BY DEF ServedInv, Supplied
  <2>2. <<ch, "adapter">> \in Parts(ch)
    BY DEF Parts
  <2>. QED  BY <2>1, <2>2
<1>. QED  BY <1>1, ServedHolds, PTL

LEMMA BackStep ==
  ServedInv /\ [SetupNext]_setupVars /\ pc = "flow" /\ pc' = "channel" => ~ touched
<1>. SUFFICES ASSUME ServedInv, [SetupNext]_setupVars, pc = "flow", pc' = "channel" PROVE ~ touched
  OBVIOUS
<1>1. Back \/ (Elsewhere /\ ~ Back) \/ Service \/ StartByHand \/ ChooseChannel \/ Answer
        \/ StepDone \/ StepBroke \/ Wire
  BY SetupCases
<1>2. CASE Back
  BY <1>2, AtHand DEF Back, Now
<1>3. CASE StepBroke \/ Wire
  <2>1. flow.rest # <<>> /\ (pc' = pc \/ AfterFailure(Head(flow.rest)))
    BY <1>3 DEF StepBroke, Wire, Now
  <2>. QED  BY <2>1, FailureLeads
<1>4. CASE Service \/ StartByHand \/ ChooseChannel \/ Answer \/ StepDone
  BY <1>4 DEF Service, At, StartByHand, process, ChooseChannel, Answer, StepDone, SameButProceed
<1>5. CASE Elsewhere /\ ~ Back
  <2>1. ~ (\E s \in Steps : PassOver(s) \/ StepFails(s))
    BY DEF PassOver, StepFails, At, Steps
  <2>2. ~ (Environment \/ Container \/ OneCli \/ Mounts \/ Reexec \/ StayInGroup
            \/ AuthPresent \/ SubscriptionAuth \/ PasteAuth \/ DeclineAuth)
    BY DEF Environment, Container, OneCli, Mounts, Builds, At, Reexec, StayInGroup, AuthPresent,
       SubscriptionAuth, PasteAuth, DeclineAuth
  <2>3. ~ (CliAgent \/ FirstChat \/ TerminalAgent \/ DetectZone \/ KeepZone \/ AnswerZone
            \/ ZoneFails \/ NoChannel \/ Verify)
    BY DEF CliAgent, FirstChat, TerminalAgent, DetectZone, KeepZone, AnswerZone, ZoneFails, NoChannel,
       Verify, At
  <2>4. ~ (FlowEnds \/ GiveUp \/ Retry \/ Cancel \/ UNCHANGED setupVars)
    BY DEF FlowEnds, GiveUp, Retry, Rerun, Cancel, setupVars, process
  <2>. QED  BY <1>5, <2>1, <2>2, <2>3, <2>4 DEF Elsewhere
<1>. QED  BY <1>1, <1>2, <1>3, <1>4, <1>5

\* The way back to the channel choice is only offered while the branch has left
\* nothing behind (lib/back-nav.ts).
THEOREM SetupBackIsClean ==
  SetupSpec => BackLeavesNothing
<1>1. ServedInv /\ [SetupNext]_setupVars => [pc = "flow" /\ pc' = "channel" => ~ touched]_setupVars
  BY BackStep
<1>. QED  BY <1>1, ServedHolds, PTL DEF SetupSpec, BackLeavesNothing

\* The steps whose work must be done once in a chain of processes.
-----------------------------------------------------------------------------
(* Setup: nothing is carried out twice.                                    *)

OnceSteps == {"environment", "container", "onecli", "mounts", "service", "cli-agent"}

\* The steps a process has behind it where it is.
Behind(p) ==
  CASE p = "environment" -> {}
    [] p = "container" -> {"environment"}
    [] p \in {"reexec", "onecli"} -> {"environment", "container"}
    [] p = "auth" -> {"environment", "container", "onecli"}
    [] p = "mounts" -> {"environment", "container", "onecli", "auth"}
    [] p = "service" -> {"environment", "container", "onecli", "auth", "mounts"}
    [] p = "cli-agent" -> {"environment", "container", "onecli", "auth", "mounts", "service"}
    [] OTHER -> Steps

\* Not carried out yet, or once and then on the list or in the log.
OnceDone(s) == finished[s] = 0 \/ (finished[s] = 1 /\ s \in skip \cup done)

\* A step that was carried out is passed over by this process or by the next one;
\* the sign-in is by what the vault holds. A process that is at a step has not
\* logged it: that is where the second count would come from.
RepeatInv ==
  /\ finished \in [Steps -> Nat]
  /\ done \subseteq Behind(pc)
  /\ \A s \in OnceSteps : OnceDone(s)
  /\ finished["auth"] = 0 \/ (finished["auth"] = 1 /\ ("auth" \in skip \cup done \/ auth = "stored"))

LEMMA BehindGrows ==
  /\ \A s \in Steps : Behind(s) \subseteq Behind(After(s)) /\ s \in Behind(After(s))
  /\ Behind("container") \subseteq Behind("onecli") /\ After("reexec") = "onecli"
  /\ Behind("reexec") = Behind("onecli")
  /\ \A s \in OnceSteps \cup {"auth"} : s \notin Behind(s)
  /\ \A p : Behind(p) \subseteq Steps
<1>1. After("reexec") = "onecli"
  BY DEF After, Next1
<1>2. /\ After("environment") = "container" /\ After("container") = "reexec" /\ After("onecli") = "auth"
      /\ After("auth") = "mounts" /\ After("mounts") = "service" /\ After("service") = "cli-agent"
  BY DEF After, Next1
<1>3. /\ After("cli-agent") = "timezone" /\ After("timezone") = "channel" /\ After("channel") = "verify"
      /\ After("verify") = "complete"
  BY DEF After
<1>4. \A p : Behind(p) \subseteq Steps
  BY DEF Behind, Steps
<1>5. ASSUME NEW s \in Steps
      PROVE  Behind(s) \subseteq Behind(After(s)) /\ s \in Behind(After(s))
  <2>1. CASE s \in {"environment", "container", "onecli"}
    BY <1>2, <2>1 DEF Behind
  <2>2. CASE s \in {"auth", "mounts", "service"}
    BY <1>2, <2>2 DEF Behind
  <2>3. CASE s \in {"cli-agent", "timezone", "channel", "verify"}
    <3>1. Behind(After(s)) = Steps
      BY <1>3, <2>3 DEF Behind
    <3>. QED  BY <1>4, <3>1
  <2>. QED  BY <2>1, <2>2, <2>3 DEF Steps
<1>6. \A s \in OnceSteps \cup {"auth"} : s \notin Behind(s)
  BY DEF Behind, OnceSteps
<1>7. /\ Behind("container") \subseteq Behind("onecli") /\ Behind("reexec") = Behind("onecli")
  BY DEF Behind
<1>. QED  BY <1>1, <1>4, <1>5, <1>6, <1>7

\* A step is carried out, logged, and left behind.
LEMMA CarriedOutOnce ==
  ASSUME RepeatInv, NEW s \in OnceSteps, At(s), pc' = After(s), Log(s), CarriedOut(s),
         skip' = skip, auth' = auth
  PROVE  RepeatInv'
<1>1. s \in Steps /\ s # "auth"
  BY DEF OnceSteps, Steps
<1>2. s \notin skip \cup done
  BY BehindGrows DEF At, RepeatInv
<1>3. finished[s] = 0
  BY <1>2 DEF RepeatInv, OnceDone
<1>4. done' = done \cup {s} /\ finished' = [finished EXCEPT ![s] = @ + 1]
  BY DEF Log, CarriedOut
<1>5. finished' \in [Steps -> Nat] /\ finished'[s] = 1 /\ \A r \in Steps \ {s} : finished'[r] = finished[r]
  BY <1>1, <1>3, <1>4 DEF RepeatInv
<1>6. done' \subseteq Behind(pc)'
  BY <1>1, <1>4, BehindGrows DEF RepeatInv, At
<1>7. ASSUME NEW r \in OnceSteps PROVE OnceDone(r)'
  <2>1. CASE r = s
    BY <1>4, <1>5, <2>1 DEF OnceDone
  <2>2. CASE r # s
    <3>1. finished'[r] = finished[r]
      BY <1>5, <2>2 DEF OnceSteps, Steps
    <3>. QED  BY <1>4, <3>1 DEF RepeatInv, OnceDone
  <2>. QED  BY <2>1, <2>2
<1>8. finished'["auth"] = finished["auth"]
  BY <1>1, <1>5 DEF Steps
<1>. QED  BY <1>4, <1>5, <1>6, <1>7, <1>8 DEF RepeatInv

\* Nothing is carried out that is counted here, and nothing forgotten.
LEMMA NothingForgotten ==
  ASSUME RepeatInv, finished' \in [Steps -> Nat], \A s \in OnceSteps \cup {"auth"} : finished'[s] = finished[s],
         skip \cup done \subseteq skip' \cup done',
         auth = "stored" => auth' = "stored", done' \subseteq Behind(pc')
  PROVE  RepeatInv'
<1>1. \A s \in OnceSteps : OnceDone(s)'
  BY DEF RepeatInv, OnceDone
<1>2. finished'["auth"] = finished["auth"]
  OBVIOUS
<1>. QED  BY <1>1, <1>2 DEF RepeatInv

\* The sign-in, in its three forms.
LEMMA SignedIn ==
  ASSUME RepeatInv, SubscriptionAuth \/ PasteAuth \/ DeclineAuth
  PROVE  RepeatInv'
<1>1. /\ At("auth") /\ auth # "stored" /\ pc' = After("auth") /\ CarriedOut("auth") /\ skip' = skip
      /\ \/ auth' = "stored" /\ done' = done
         \/ done' = done \cup {"auth"}
  BY DEF SubscriptionAuth, PasteAuth, DeclineAuth, SameButAuth, Log
<1>2. "auth" \notin skip \cup done
  BY <1>1, BehindGrows DEF At, RepeatInv
<1>3. finished["auth"] = 0 /\ "auth" \in Steps
  BY <1>1, <1>2 DEF RepeatInv, Steps
<1>4. finished' \in [Steps -> Nat] /\ finished'["auth"] = 1 /\ \A r \in Steps \ {"auth"} : finished'[r] = finished[r]
  BY <1>1, <1>3 DEF RepeatInv, CarriedOut
<1>5. done' \subseteq Behind(pc')
  BY <1>1, <1>3, BehindGrows DEF RepeatInv, At
<1>6. ASSUME NEW r \in OnceSteps PROVE OnceDone(r)'
  <2>1. finished'[r] = finished[r]
    BY <1>4 DEF OnceSteps, Steps
  <2>. QED  BY <1>1, <2>1 DEF RepeatInv, OnceDone
<1>. QED  BY <1>1, <1>4, <1>5, <1>6 DEF RepeatInv

\* A process of the chain starts another.
LEMMA ProcessReruns ==
  ASSUME RepeatInv, NEW underSg, Rerun(SkipList, underSg), UNCHANGED <<auth, finished>>
  PROVE  RepeatInv'
<1>1. skip' = skip \cup done /\ done' = {} /\ finished' = finished /\ auth' = auth
  BY DEF Rerun, SkipList
<1>. QED  BY <1>1, NothingForgotten DEF RepeatInv

LEMMA RepeatInit == SetupInit => RepeatInv
<1>. SUFFICES ASSUME SetupInit PROVE RepeatInv
  OBVIOUS
<1>1. finished = [s \in Steps |-> 0] /\ done = {}
  BY DEF SetupInit
<1>2. finished \in [Steps -> Nat] /\ \A s \in Steps : finished[s] = 0
  BY <1>1
<1>. QED  BY <1>1, <1>2 DEF RepeatInv, OnceDone, OnceSteps, Steps

\* The steps after the first agent, and the questions: nothing before them is
\* left to do.
LEMMA PastTheAgent ==
  ASSUME RepeatInv, skip' = skip, done \subseteq done', done' \subseteq Steps,
         finished' \in [Steps -> Nat], \A s \in OnceSteps \cup {"auth"} : finished'[s] = finished[s],
         auth' = auth, pc' \notin OnceSteps \cup {"auth", "reexec"}
  PROVE  RepeatInv'
<1>1. Behind(pc') = Steps
  BY DEF Behind, OnceSteps
<1>. QED  BY <1>1, NothingForgotten

LEMMA RepeatStep == ServedInv /\ RepeatInv /\ [SetupNext]_setupVars => RepeatInv'
<1>. SUFFICES ASSUME ServedInv, RepeatInv, [SetupNext]_setupVars PROVE RepeatInv'
  OBVIOUS
<1>0. done \subseteq Steps /\ finished \in [Steps -> Nat]
  BY BehindGrows DEF RepeatInv
<1>1. ASSUME NEW s \in Steps, PassOver(s) PROVE RepeatInv'
  <2>1. UNCHANGED <<skip, done, auth, finished>> /\ pc = s
    BY <1>1 DEF PassOver, machine, chain
  <2>2. done \subseteq Behind(pc')
    <3>1. CASE s = "container"
      BY <1>1, <3>1, BehindGrows DEF PassOver, RepeatInv
    <3>2. CASE s # "container"
      <4>1. pc' = After(s)
        BY <1>1, <3>2 DEF PassOver
      <4>. QED  BY <2>1, <4>1, BehindGrows DEF RepeatInv
    <3>. QED  BY <3>1, <3>2
  <2>. QED  BY <1>0, <2>1, <2>2, NothingForgotten
<1>2. ASSUME \/ \E s \in Steps : StepFails(s)
             \/ ZoneFails \/ KeepZone \/ FirstChat \/ TerminalAgent
      PROVE  RepeatInv'
  <2>1. UNCHANGED <<skip, done, auth, finished>> /\ pc' \notin OnceSteps \cup {"auth", "reexec"}
    BY <1>2 DEF StepFails, ZoneFails, KeepZone, FirstChat, TerminalAgent, Fail, SameButZone, SameButGroups,
       machine, chain, OnceSteps
  <2>. QED  BY <1>0, <2>1, PastTheAgent
<1>3. CASE Environment
  BY <1>3, CarriedOutOnce DEF Environment, machine, OnceSteps
<1>4. CASE Container \/ OneCli \/ Mounts
  <2>1. PICK s \in {"container", "onecli", "mounts"} : Builds(s)
    BY <1>4 DEF Container, OneCli, Mounts
  <2>2. s \in OnceSteps
    BY DEF OnceSteps
  <2>. QED  BY <2>1, <2>2, CarriedOutOnce DEF Builds
<1>5. CASE Service
  BY <1>5, CarriedOutOnce DEF Service, OnceSteps
<1>6. CASE SubscriptionAuth \/ PasteAuth \/ DeclineAuth
  BY <1>6, SignedIn
<1>7. CASE AuthPresent
  <2>1. /\ pc = "auth" /\ pc' = After("auth") /\ done' = done \cup {"auth"}
        /\ UNCHANGED <<skip, auth, finished>>
    BY <1>7 DEF AuthPresent, At, Log, SameButAuth
  <2>2. done' \subseteq Behind(pc')
    BY <2>1, BehindGrows DEF RepeatInv, Steps
  <2>. QED  BY <1>0, <2>1, <2>2, NothingForgotten
<1>8. CASE Reexec \/ Retry
  <2>1. PICK underSg : Rerun(SkipList, underSg)
    BY <1>8 DEF Reexec, Retry
  <2>2. UNCHANGED <<auth, finished>>
    BY <1>8 DEF Reexec, Retry, machine
  <2>. QED  BY <2>1, <2>2, ProcessReruns
<1>9. CASE StayInGroup
  <2>1. pc = "reexec" /\ pc' = "onecli" /\ UNCHANGED <<skip, done, auth, finished>>
    BY <1>9, BehindGrows DEF StayInGroup, machine, chain
  <2>. QED  BY <1>0, <2>1, NothingForgotten, BehindGrows DEF RepeatInv
<1>10. CASE CliAgent
  <2>1. skip' = skip /\ auth' = auth /\ pc' \in {"first-chat", "failed"} /\ At("cli-agent")
    BY <1>10 DEF CliAgent, SameButGroups
  <2>2. CASE Log("cli-agent") /\ CarriedOut("cli-agent")
    <3>1. "cli-agent" \in OnceSteps \cap Steps /\ "cli-agent" # "auth"
      BY DEF OnceSteps, Steps
    <3>2. "cli-agent" \notin skip \cup done
      BY <2>1, <3>1, BehindGrows DEF At, RepeatInv
    <3>3. finished["cli-agent"] = 0
      BY <3>1, <3>2 DEF RepeatInv, OnceDone
    <3>4. /\ finished' \in [Steps -> Nat] /\ finished'["cli-agent"] = 1
          /\ \A r \in Steps \ {"cli-agent"} : finished'[r] = finished[r]
          /\ done' = done \cup {"cli-agent"}
      BY <1>0, <2>2, <3>1, <3>3 DEF Log, CarriedOut
    <3>5. Behind(pc') = Steps
      BY <2>1 DEF Behind
    <3>6. ASSUME NEW r \in OnceSteps PROVE OnceDone(r)'
      <4>1. CASE r = "cli-agent"
        BY <3>4, <4>1 DEF OnceDone
      <4>2. CASE r # "cli-agent"
        <5>1. finished'[r] = finished[r]
          BY <3>4, <4>2 DEF OnceSteps, Steps
        <5>. QED  BY <2>1, <3>4, <5>1 DEF RepeatInv, OnceDone
      <4>. QED  BY <4>1, <4>2
    <3>7. finished'["auth"] = finished["auth"]
      BY <3>4 DEF Steps
    <3>. QED  BY <1>0, <2>1, <3>1, <3>4, <3>5, <3>6, <3>7 DEF RepeatInv
  <2>3. CASE UNCHANGED <<done, finished>>
    BY <1>0, <2>1, <2>3, PastTheAgent DEF OnceSteps
  <2>. QED  BY <1>10, <2>2, <2>3 DEF CliAgent
<1>11. CASE DetectZone \/ AnswerZone
  <2>1. /\ skip' = skip /\ auth' = auth /\ pc' \in {"where", "channel", "failed"}
        /\ \/ Log("timezone") /\ CarriedOut("timezone")
           \/ UNCHANGED <<done, finished>>
    BY <1>11 DEF DetectZone, AnswerZone, SameButZone
  <2>2. CASE Log("timezone") /\ CarriedOut("timezone")
    <3>1. "timezone" \in Steps
      BY DEF Steps
    <3>2. /\ finished' \in [Steps -> Nat] /\ \A r \in Steps \ {"timezone"} : finished'[r] = finished[r]
          /\ done' = done \cup {"timezone"}
      BY <1>0, <2>2, <3>1 DEF Log, CarriedOut
    <3>3. \A s \in OnceSteps \cup {"auth"} : finished'[s] = finished[s]
      BY <3>2 DEF OnceSteps, Steps
    <3>. QED  BY <1>0, <2>1, <3>1, <3>2, <3>3, PastTheAgent DEF OnceSteps
  <2>3. CASE UNCHANGED <<done, finished>>
    BY <1>0, <2>1, <2>3, PastTheAgent DEF OnceSteps
  <2>. QED  BY <2>1, <2>2, <2>3
<1>12. CASE ChooseChannel \/ NoChannel \/ Back \/ FlowEnds
  <2>1. UNCHANGED <<skip, done, auth, finished>> /\ pc' \in {"flow", "verify", "channel"}
    BY <1>12 DEF ChooseChannel, NoChannel, Back, FlowEnds, SameButFlow
  <2>. QED  BY <1>0, <2>1, PastTheAgent DEF OnceSteps
<1>13. CASE Answer \/ StepDone \/ StepBroke \/ Wire
  <2>1. UNCHANGED <<skip, done, auth, finished>> /\ pc = "flow"
    BY <1>13 DEF Answer, StepDone, StepBroke, Wire, Now, SameButProceed, SameButFlow
  <2>2. pc' = pc \/ AfterFailure(Head(flow.rest))
    BY <1>13 DEF Answer, StepDone, StepBroke, Wire, SameButProceed
  <2>3. pc' = pc \/ pc' \in {"failed", "exit"}
    BY <1>13, <2>1, <2>2, FailureLeads DEF Answer, StepDone, StepBroke, Wire, Now
  <2>4. done' \subseteq Behind(pc')
    BY <1>0, <2>1, <2>3 DEF RepeatInv, Behind
  <2>. QED  BY <1>0, <2>1, <2>4, NothingForgotten
<1>14. CASE Verify
  <2>1. /\ UNCHANGED <<skip, auth, finished>> /\ pc' \in {"complete", "incomplete"}
        /\ done' \in {done, done \cup {"verify"}}
    BY <1>14 DEF Verify, Log, machine, chain
  <2>2. "verify" \in Steps
    BY DEF Steps
  <2>. QED  BY <1>0, <2>1, <2>2, PastTheAgent DEF OnceSteps
<1>15. CASE GiveUp \/ Cancel
  <2>1. UNCHANGED <<skip, done, auth, finished>> /\ pc' = "exit"
    BY <1>15 DEF GiveUp, Cancel, machine, chain
  <2>. QED  BY <1>0, <2>1, PastTheAgent DEF OnceSteps
<1>16. CASE StartByHand \/ UNCHANGED setupVars
  <2>1. UNCHANGED <<pc, skip, done, auth, finished>>
    BY <1>16 DEF StartByHand, setupVars, process, machine, chain
  <2>. QED  BY <1>0, <2>1, NothingForgotten DEF RepeatInv
<1>. QED  BY <1>1, <1>2, <1>3, <1>4, <1>5, <1>6, <1>7, <1>8, <1>9, <1>10, <1>11, <1>12, <1>13, <1>14,
             <1>15, <1>16 DEF SetupNext, Over

LEMMA RepeatHolds ==
  SetupSpec => []RepeatInv
<1>1. SetupInit => RepeatInv
  BY RepeatInit
<1>2. ServedInv /\ RepeatInv /\ [SetupNext]_setupVars => RepeatInv'
  BY RepeatStep
<1>. QED  BY <1>1, <1>2, ServedHolds, PTL DEF SetupSpec

\* Whatever fails, is retried or re-entered under sg, a chain of processes carries
\* out each installing step at most once (runner.ts:383-391, auto.ts:1494-1500).
THEOREM SetupNothingTwice ==
  SetupSpec => []NoRepeat
<1>1. RepeatInv => NoRepeat
  <2>. SUFFICES ASSUME RepeatInv, NEW s \in OnceSteps \cup {"auth"} PROVE finished[s] <= 1
    BY DEF NoRepeat, OnceSteps
  <2>. QED  BY DEF RepeatInv, OnceDone
<1>. QED  BY <1>1, RepeatHolds, PTL

\* A step on the list only joins it with its effect.
-----------------------------------------------------------------------------
(* Setup: the list of steps to skip, and types.                            *)

LEMMA EffectiveSteps ==
  ASSUME SkippedIsDone, NEW s, skip' \cup done' \subseteq skip \cup done \cup {s}, built \subseteq built',
         s \in {"container", "onecli", "mounts", "service"} => s \in built',
         auth # "none" \/ s = "auth" => auth' # "none",
         tz # "none" \/ s = "timezone" => tz' # "none"
  PROVE  SkippedIsDone'
BY DEF SkippedIsDone

LEMMA SkippedStep == ServedInv /\ SkippedIsDone /\ [SetupNext]_setupVars => SkippedIsDone'
<1>. SUFFICES ASSUME ServedInv, SkippedIsDone, [SetupNext]_setupVars PROVE SkippedIsDone'
  OBVIOUS
<1>1. ASSUME UNCHANGED <<built, auth, tz>>, skip' \cup done' \subseteq skip \cup done
      PROVE  SkippedIsDone'
  BY <1>1 DEF SkippedIsDone
<1>2. ASSUME \/ \E s \in Steps : PassOver(s) \/ StepFails(s)
             \/ ZoneFails \/ Reexec \/ StayInGroup \/ GiveUp \/ Retry \/ Cancel
             \/ UNCHANGED setupVars \/ StartByHand
      PROVE  SkippedIsDone'
  <2>1. UNCHANGED <<built, auth, tz>> /\ skip' \cup done' \subseteq skip \cup done
    BY <1>2 DEF PassOver, StepFails, ZoneFails, Fail, Reexec, StayInGroup, GiveUp, Retry, Rerun, SkipList,
       Cancel, setupVars, StartByHand, process, machine, chain
  <2>. QED  BY <1>1, <2>1
<1>3. ASSUME \/ FirstChat \/ TerminalAgent \/ KeepZone \/ ChooseChannel \/ NoChannel \/ Answer \/ Back
             \/ StepDone \/ StepBroke \/ Wire \/ FlowEnds
      PROVE  SkippedIsDone'
  <2>1. UNCHANGED <<built, auth, tz>> /\ skip' \cup done' \subseteq skip \cup done
    BY <1>3 DEF FirstChat, TerminalAgent, SameButGroups, KeepZone, SameButZone, ChooseChannel, NoChannel,
       Answer, Back, StepDone, StepBroke, Wire, FlowEnds, SameButProceed, SameButFlow
  <2>. QED  BY <1>1, <2>1
<1>4. CASE Environment \/ CliAgent \/ Verify
  <2>1. /\ UNCHANGED <<skip, built, auth, tz>>
        /\ done' \subseteq done \cup {"environment", "cli-agent", "verify"}
    BY <1>4 DEF Environment, CliAgent, Verify, Log, SameButGroups, machine
  <2>. QED  BY <2>1 DEF SkippedIsDone
<1>5. CASE Container \/ OneCli \/ Mounts
  <2>1. PICK s \in {"container", "onecli", "mounts"} : Builds(s)
    BY <1>5 DEF Container, OneCli, Mounts
  <2>2. UNCHANGED <<skip, auth, tz>> /\ built' = built \cup {s} /\ done' = done \cup {s}
    BY <2>1 DEF Builds, Log
  <2>. QED  BY <2>2, EffectiveSteps
<1>6. CASE Service
  <2>1. /\ UNCHANGED <<skip, auth, tz>> /\ built' = built \cup {"service"}
        /\ done' = done \cup {"service"}
    BY <1>6 DEF Service, Log
  <2>. QED  BY <2>1, EffectiveSteps
<1>7. CASE AuthPresent \/ SubscriptionAuth \/ PasteAuth \/ DeclineAuth
  <2>1. /\ UNCHANGED <<skip, built, tz>> /\ auth' # "none"
        /\ done' \subseteq done \cup {"auth"}
    BY <1>7 DEF AuthPresent, SubscriptionAuth, PasteAuth, DeclineAuth, Log, SameButAuth
  <2>. QED  BY <2>1, EffectiveSteps
<1>8. CASE DetectZone \/ AnswerZone
  <2>1. /\ UNCHANGED <<skip, built, auth>>
        /\ \/ tz' # "none" /\ done' = done \cup {"timezone"}
           \/ tz' = tz /\ done' = done
    BY <1>8 DEF DetectZone, AnswerZone, StoreZone, Log, SameButZone
  <2>. QED  BY <2>1 DEF SkippedIsDone
<1>. QED  BY <1>2, <1>3, <1>4, <1>5, <1>6, <1>7, <1>8 DEF SetupNext, Over

\* What a process is told to skip, or has logged, has its effect on the machine
\* (logs.ts:35-38, :95-97).
THEOREM SetupSkipsOnlyDone ==
  SetupSpec => []SkippedIsDone
<1>1. SetupInit => SkippedIsDone
  BY DEF SetupInit, SkippedIsDone
<1>2. ServedInv /\ SkippedIsDone /\ [SetupNext]_setupVars => SkippedIsDone'
  BY SkippedStep
<1>. QED  BY <1>1, <1>2, ServedHolds, PTL DEF SetupSpec

\* The bound on the processes of a chain, the one under sg apart.
ChainBounded == runs = MaxRuns + 1 => sg

LEMMA TypedStep ==
  ServedInv /\ ServedInv' /\ RepeatInv' /\ SetupTypeOK /\ ChainBounded /\ [SetupNext]_setupVars
    => SetupTypeOK' /\ ChainBounded'
<1>. SUFFICES ASSUME ServedInv, ServedInv', RepeatInv', SetupTypeOK, ChainBounded, [SetupNext]_setupVars
              PROVE  SetupTypeOK' /\ ChainBounded'
  OBVIOUS
<1>0. serving' \subseteq items' /\ done' \subseteq Steps /\ MaxRuns \in Nat \ {0}
  BY BehindGrows, SetupAssumption DEF ServedInv, Supplied, RepeatInv
<1>1. pc' \in Stages
  <2>1. ASSUME NEW s \in Steps, PassOver(s) \/ StepFails(s) PROVE pc' \in Stages
    BY <2>1, AfterSteps DEF PassOver, StepFails, Fail, Stages, Steps
  <2>2. ASSUME \/ Environment \/ Container \/ OneCli \/ Mounts \/ StayInGroup \/ Service
               \/ AuthPresent \/ SubscriptionAuth \/ PasteAuth \/ DeclineAuth
        PROVE  pc' \in Stages
    BY <2>2, AfterSteps DEF Environment, Container, OneCli, Mounts, Builds, StayInGroup, Service,
       AuthPresent, SubscriptionAuth, PasteAuth, DeclineAuth, Steps
  <2>3. ASSUME \/ Reexec \/ CliAgent \/ FirstChat \/ TerminalAgent \/ DetectZone \/ KeepZone \/ AnswerZone
               \/ ZoneFails \/ ChooseChannel \/ NoChannel \/ Back \/ FlowEnds \/ Verify \/ GiveUp
               \/ Retry \/ Cancel
        PROVE  pc' \in Stages
    <3>1. pc' \in {"environment", "first-chat", "failed", "terminal", "timezone", "where", "channel", "flow",
                   "verify", "complete", "incomplete", "exit"}
      BY <2>3 DEF Reexec, Rerun, CliAgent, FirstChat, TerminalAgent, DetectZone, KeepZone, AnswerZone,
         ZoneFails, Fail, ChooseChannel, NoChannel, Back, FlowEnds, Verify, GiveUp, Retry, Cancel
    <3>. QED  BY <3>1 DEF Stages, Steps
  <2>4. ASSUME StartByHand \/ Answer \/ StepDone \/ StepBroke \/ Wire \/ UNCHANGED setupVars
        PROVE  pc' \in Stages
    <3>1. \/ pc' = pc
          \/ pc = "flow" /\ flow.rest # <<>> /\ AfterFailure(Head(flow.rest))
      BY <2>4 DEF StartByHand, process, Answer, StepDone, StepBroke, Wire, Now, SameButProceed, setupVars
    <3>2. pc' = pc \/ pc' \in {"failed", "exit"}
      BY <3>1, FailureLeads
    <3>. QED  BY <3>2 DEF SetupTypeOK, Stages
  <2>. QED  BY <2>1, <2>2, <2>3, <2>4 DEF SetupNext, Over
<1>2. skip' \subseteq Steps /\ sg' \in BOOLEAN /\ runs' \in 1..(MaxRuns + 1) /\ ChainBounded'
  <2>1. CASE UNCHANGED <<skip, sg, runs>>
    BY <2>1 DEF SetupTypeOK, ChainBounded
  <2>2. CASE Reexec
    <3>1. runs' = runs + 1 /\ skip' = skip \cup done /\ sg' = TRUE /\ ~ sg
      BY <2>2 DEF Reexec, Rerun, SkipList
    <3>. QED  BY <1>0, <3>1 DEF SetupTypeOK, ChainBounded
  <2>3. CASE Retry
    <3>1. runs' = runs + 1 /\ skip' = skip \cup done /\ sg' = sg /\ runs < MaxRuns
      BY <2>3 DEF Retry, Rerun, SkipList
    <3>. QED  BY <1>0, <3>1 DEF SetupTypeOK, ChainBounded
  <2>4. UNCHANGED <<skip, sg, runs>> \/ Reexec \/ Retry
    <3>1. ASSUME NEW s \in Steps, PassOver(s) \/ StepFails(s) PROVE UNCHANGED <<skip, sg, runs>>
      BY <3>1 DEF PassOver, StepFails, Fail, chain
    <3>2. ASSUME \/ Environment \/ Container \/ OneCli \/ Mounts \/ StayInGroup \/ Service \/ StartByHand
                 \/ AuthPresent \/ SubscriptionAuth \/ PasteAuth \/ DeclineAuth
          PROVE  UNCHANGED <<skip, sg, runs>>
      BY <3>2 DEF Environment, Container, OneCli, Mounts, Builds, StayInGroup, Service, StartByHand, AuthPresent,
         SubscriptionAuth, PasteAuth, DeclineAuth, SameButAuth, process, chain
    <3>3. ASSUME CliAgent \/ FirstChat \/ TerminalAgent \/ DetectZone \/ KeepZone \/ AnswerZone \/ ZoneFails
          PROVE  UNCHANGED <<skip, sg, runs>>
      BY <3>3 DEF CliAgent, FirstChat, TerminalAgent, DetectZone, KeepZone, AnswerZone, ZoneFails, Fail,
         SameButGroups, SameButZone, chain
    <3>4. ASSUME ChooseChannel \/ NoChannel \/ Answer \/ Back \/ StepDone \/ StepBroke \/ Wire \/ FlowEnds
          PROVE  UNCHANGED <<skip, sg, runs>>
      BY <3>4 DEF ChooseChannel, NoChannel, Answer, Back, StepDone, StepBroke, Wire, FlowEnds, SameButProceed,
         SameButFlow
    <3>5. ASSUME Verify \/ GiveUp \/ Cancel \/ UNCHANGED setupVars PROVE UNCHANGED <<skip, sg, runs>>
      BY <3>5 DEF Verify, GiveUp, Cancel, setupVars, process, chain
    <3>. QED  BY <3>1, <3>2, <3>3, <3>4, <3>5 DEF SetupNext, Over
  <2>. QED  BY <2>1, <2>2, <2>3, <2>4
<1>3. /\ docker' \in {"ok", "denied"} /\ built' \subseteq {"container", "onecli", "mounts", "service"}
      /\ auth' \in {"none", "stored", "declined"} /\ tz' \in {"none", "detected", "given"}
      /\ manager' \in {"launchd", "systemd", "script"} /\ service' \in {"stopped", "running"}
      /\ groups' \subseteq {"ping", "terminal", "dm"} /\ wired' \subseteq Channels
  <2>0. /\ docker \in {"ok", "denied"} /\ built \subseteq {"container", "onecli", "mounts", "service"}
        /\ auth \in {"none", "stored", "declined"} /\ tz \in {"none", "detected", "given"}
        /\ manager \in {"launchd", "systemd", "script"} /\ service \in {"stopped", "running"}
        /\ groups \subseteq {"ping", "terminal", "dm"} /\ wired \subseteq Channels
    BY DEF SetupTypeOK
  <2>1. CASE UNCHANGED <<docker, built, auth, tz, manager, service, groups, wired>>
    BY <2>0, <2>1
  <2>2. CASE Container \/ OneCli \/ Mounts
    <3>1. PICK s \in {"container", "onecli", "mounts"} : Builds(s)
      BY <2>2 DEF Container, OneCli, Mounts
    <3>. QED  BY <2>0, <3>1 DEF Builds
  <2>3. CASE Service
    BY <2>0, <2>3 DEF Service, SetupLaunchd, SetupSystemd, SetupNohupFallback, Comes
  <2>4. CASE StartByHand
    BY <2>0, <2>4 DEF StartByHand, Comes
  <2>5. CASE SubscriptionAuth \/ PasteAuth \/ DeclineAuth
    BY <2>0, <2>5 DEF SubscriptionAuth, PasteAuth, DeclineAuth, SameButAuth
  <2>6. CASE CliAgent \/ FirstChat \/ TerminalAgent
    BY <2>0, <2>6 DEF CliAgent, FirstChat, TerminalAgent, InitCliAgent, DeleteCliAgent, SameButGroups
  <2>7. CASE DetectZone \/ KeepZone \/ AnswerZone
    BY <2>0, <2>7 DEF DetectZone, KeepZone, AnswerZone, StoreZone, SameButZone
  <2>8. CASE StepDone
    BY <2>0, <2>8 DEF StepDone, Restarted, Comes, SameButProceed, SameButFlow
  <2>9. CASE Wire
    <3>1. flow.ch \in Channels
      BY <2>9 DEF Wire, Now, ServedInv, BranchFollowed
    <3>. QED  BY <2>0, <2>9, <3>1 DEF Wire, WireIfMissing
  <2>10. CASE Reexec
    BY <2>0, <2>10 DEF Reexec
  <2>11. ASSUME \/ \E s \in Steps : PassOver(s) \/ StepFails(s)
                \/ Environment \/ StayInGroup \/ AuthPresent \/ ZoneFails \/ Verify \/ GiveUp \/ Retry \/ Cancel
                \/ UNCHANGED setupVars
         PROVE  UNCHANGED <<docker, built, auth, tz, manager, service, groups, wired>>
    BY <2>11 DEF PassOver, StepFails, Environment, StayInGroup, AuthPresent, SameButAuth, ZoneFails, Verify,
       GiveUp, Retry, Cancel, setupVars, machine
  <2>12. ASSUME ChooseChannel \/ NoChannel \/ Answer \/ Back \/ StepBroke \/ FlowEnds
         PROVE  UNCHANGED <<docker, built, auth, tz, manager, service, groups, wired>>
    BY <2>12 DEF ChooseChannel, NoChannel, Answer, Back, StepBroke, FlowEnds, SameButProceed, SameButFlow
  <2>. QED  BY <2>1, <2>2, <2>3, <2>4, <2>5, <2>6, <2>7, <2>8, <2>9, <2>10, <2>11, <2>12 DEF SetupNext, Over
<1>. QED  BY <1>0, <1>1, <1>2, <1>3 DEF SetupTypeOK

\* The state of the driver, the machine and the chain stays within its types; a
\* chain has MaxRuns processes at most, the one under sg apart.
THEOREM SetupTypeCorrect ==
  SetupSpec => []SetupTypeOK
<1>1. SetupInit => SetupTypeOK /\ ChainBounded
  <2>. SUFFICES ASSUME SetupInit PROVE SetupTypeOK /\ ChainBounded
    OBVIOUS
  <2>1. runs = 1 /\ sg = FALSE /\ pc = "environment" /\ skip = {} /\ done = {}
    BY DEF SetupInit
  <2>2. runs \in 1..(MaxRuns + 1) /\ runs # MaxRuns + 1
    BY <2>1, SetupAssumption
  <2>3. pc \in Stages
    BY <2>1 DEF Stages, Steps
  <2>4. /\ docker \in {"ok", "denied"} /\ manager \in {"launchd", "systemd", "script"}
        /\ built = {} /\ auth = "none" /\ tz = "none" /\ service = "stopped"
        /\ items = {} /\ serving = {} /\ groups = {} /\ wired = {}
    BY DEF SetupInit
  <2>. QED  BY <2>1, <2>2, <2>3, <2>4 DEF SetupTypeOK, ChainBounded
<1>2. ServedInv /\ ServedInv' /\ RepeatInv' /\ SetupTypeOK /\ ChainBounded /\ [SetupNext]_setupVars => SetupTypeOK' /\ ChainBounded'
  BY TypedStep
<1>. QED  BY <1>1, <1>2, ServedHolds, RepeatHolds, PTL DEF SetupSpec
=============================================================================

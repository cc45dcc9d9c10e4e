----------------------------- MODULE AgentGroups -----------------------------
(***************************************************************************)
(* Agent groups: who may write to whom, and the commands that change it.   *)
(* The central database holds the groups, their sessions and destinations; *)
(* every session's inbound.db has a projection of the destinations, which  *)
(* is what its container looks names up in.  Messages between agents       *)
(* (agent-route.ts) go through the outbound delivery, and so do the ncl    *)
(* commands of an agent (cli/delivery-action.ts), which the dispatcher     *)
(* confines to a scope or holds back for an approval (cli/dispatch.ts).    *)
(*                                                                         *)
(* Destinations that are channels, and rows that are no agent's, are left  *)
(* out; a click on an approval card is one step here (see Approvals).      *)
(***************************************************************************)
EXTENDS Integers, Sequences, FiniteSets, FiniteSetsExt

CONSTANTS
  Groups,      \* agent group ids, the ones that are yet to be created included
  Names,       \* local names of destinations
  NoGroup,     \* no argument, no group
  Parent,      \* the name a child has for its creator
  Requests,    \* ncl calls made inside containers
  FirstGroups, \* the groups there are at first
  FirstHome,   \* <<group of session 1, ...>>: the sessions there are at first
  FirstDest,   \* the destinations there are at first
  MaxSessions, \* bound: sessions that are ever created
  Typed,       \* commands an operator may type on the host
  Called,      \* commands an agent may call
  MaxActs,     \* bound: messages, commands and calls altogether
  MaxCrashes,  \* bound: crashes of the host
  MaxTries     \* MAX_DELIVERY_ATTEMPTS

Sessions == 1..MaxSessions   \* numbered as they are created
Scopes == {"disabled", "group", "global"}
Commands == {"list", "roles", "add", "remove", "delete", "restart", "scope"}
Calls == [by : Sessions, cmd : Commands, key : {"id", "group"}, subject : Groups \cup {NoGroup},
          name : Names, target : Groups]
Dest == [owner : Groups, name : Names, target : Groups]
None == [to |-> NoGroup, re |-> 0]

ASSUME GroupsAssumption ==
  /\ NoGroup \notin Groups /\ Parent \in Names /\ FirstGroups \subseteq Groups
  /\ FirstHome \in Seq(FirstGroups)
  /\ FirstDest \subseteq [owner : FirstGroups, name : Names, target : FirstGroups]
  /\ MaxSessions \in Nat /\ Len(FirstHome) <= MaxSessions
  /\ Typed \subseteq Calls /\ Called \subseteq Calls
  /\ MaxActs \in Nat /\ MaxCrashes \in Nat /\ MaxTries \in Nat \ {0}

VARIABLES
  \* the central database
  groups,     \* agent_groups
  fresh,      \* ids that no group has had
  home,       \* agent_group_id of each session
  live,       \* sessions that have their row
  dest,       \* agent_destinations
  scope,      \* container_configs.cli_scope
  pending,    \* pending_approvals rows of cli_command: [req, nth, subject]
  \* the sessions
  map,        \* destinations table of each inbound.db: [name, target], kept here
              \* while there is a container to read it
  container,  \* none, waking (projected, not spawned yet), up
  inbox,      \* messages from agents: <<[from, source], ...>>
  out,        \* the message the container has written: [to, re]
  \* ncl calls
  arg,        \* what was called: [by, cmd, key, subject, name, target]
  state,      \* the outbound row: unused, due, dispatched, responded, settled
  tries,      \* failed deliveries of it
  response,   \* the cli_response row
  client,     \* the call itself: idle, waiting, read, timeout
  projecting, \* projections of a group that await the import
  \* counters and histories
  acts, crashes, asked, reached, scoped, faulted, lagging

central == <<groups, fresh, home, live, dest, scope>>
sessions == <<map, container, lagging>>
mail == <<inbox, out>>
calls == <<arg, state, tries, response, client, asked, scoped, faulted, crashes>>
vars == <<central, pending, sessions, mail, calls, projecting, acts, reached>>

Act == acts < MaxActs /\ acts' = acts + 1

\* writeDestinations: the rows of a group whose targets exist.
Resolved(g, rows, alive) ==
  {[name |-> d.name, target |-> d.target] : d \in {x \in rows : x.owner = g /\ x.target \in alive}}

OfGroup(g) == {s \in live : home[s] = g}
Running(g) == {s \in OfGroup(g) : container[s] # "none"}
HasDestination(g, h) == \E d \in dest : d.owner = g /\ d.target = h

-----------------------------------------------------------------------------
\* Containers

\* wakeContainer: the map is written before the first real await.
Wake(s) ==
  /\ s \in live /\ container[s] = "none" /\ home[s] \in groups
  /\ container' = [container EXCEPT ![s] = "waking"]
  /\ map' = [map EXCEPT ![s] = Resolved(home[s], dest, groups)]
  /\ lagging' = lagging \ {s}

\* ACTION WakeAlone. A due row, a channel message or an answer wakes a session.
WakeAlone(s) ==
  /\ Wake(s)
  /\ UNCHANGED <<central, pending, mail, calls, projecting, acts, reached>>

Stopped(gone) ==
  /\ container' = [s \in Sessions |-> IF s \in gone THEN "none" ELSE container[s]]
  /\ map' = [s \in Sessions |-> IF s \in gone THEN {} ELSE map[s]]
  /\ lagging' = lagging \ gone

\* ACTION Spawned. The container starts or not; its group may be gone by now.
Spawned(s, ok) ==
  /\ container[s] = "waking"
  /\ IF ok THEN container' = [container EXCEPT ![s] = "up"] /\ UNCHANGED <<map, lagging>>
     ELSE Stopped({s})
  /\ UNCHANGED <<central, pending, mail, calls, projecting, acts, reached>>

\* ACTION Exit. A container ends for reasons of its own.
Exit(s) ==
  /\ container[s] = "up"
  /\ Stopped({s})
  /\ UNCHANGED <<central, pending, mail, calls, projecting, acts, reached>>

-----------------------------------------------------------------------------
\* Messages between agents

\* ACTION Send. The agent names a destination of its map; the row carries the
\* first row of the batch as in_reply_to, which may be no agent's (0).
Send(s, entry, re) ==
  /\ container[s] = "up" /\ out[s] = None /\ Act
  /\ entry \in map[s]
  /\ out' = [out EXCEPT ![s] = [to |-> entry.target, re |-> re]]
  /\ UNCHANGED <<central, pending, sessions, inbox, calls, projecting, reached>>

\* getInboundSourceSessionId, getMostRecentPeerSourceSessionId; 0 is null.
DirectSource(s, re) == IF re = 0 THEN 0 ELSE inbox[s][re].source

PeerSource(s, g) ==
  LET rows == {i \in 1..Len(inbox[s]) : inbox[s][i].from = g}
  IN IF rows = {} THEN 0 ELSE inbox[s][Max(rows)].source

\* MUTANT of Candidate: any active session the row came from will do.
CandidateOfAnyGroup(s, msg) ==
  LET direct == DirectSource(s, msg.re)
      origin == IF direct # 0 THEN direct ELSE PeerSource(s, msg.to)
  IN IF origin \in live THEN {origin} ELSE {}

\* resolveTargetSession, layers one and two.
Candidate(s, msg) ==
  LET direct == DirectSource(s, msg.re)
      origin == IF direct # 0 THEN direct ELSE PeerSource(s, msg.to)
  IN IF origin \in live /\ home[origin] = msg.to THEN {origin} ELSE {}

\* Layer three: the newest session, or a new one.
Newest(g) == IF OfGroup(g) # {} THEN {Max(OfGroup(g))} ELSE {}
NextSession == {s \in Sessions : home[s] = NoGroup /\ \A r \in Sessions : r < s => home[r] # NoGroup}

Targets(s, msg) ==
  IF Candidate(s, msg) # {} THEN Candidate(s, msg)
  ELSE IF Newest(msg.to) # {} THEN Newest(msg.to)
  ELSE NextSession

Authorized(s, msg) ==
  /\ msg.to = home[s] \/ HasDestination(home[s], msg.to)
  /\ msg.to \in groups

\* ACTION Route. routeAgentMessage: the row lands, and its reader is woken.
Route(s) ==
  /\ s \in live /\ out[s] # None /\ Authorized(s, out[s])
  /\ \E t \in Targets(s, out[s]) :
       /\ inbox' = [inbox EXCEPT ![t] = Append(@, [from |-> home[s], source |-> s])]
       /\ IF t \in live
          THEN /\ (Wake(t) \/ (container[t] # "none" /\ UNCHANGED sessions))
               /\ UNCHANGED <<home, live>>
          ELSE /\ home' = [home EXCEPT ![t] = out[s].to]
               /\ live' = live \cup {t}
               /\ container' = [container EXCEPT ![t] = "waking"]
               /\ map' = [map EXCEPT ![t] = Resolved(out[s].to, dest, groups)]
               /\ UNCHANGED lagging
  /\ out' = [out EXCEPT ![s] = None]
  /\ UNCHANGED <<groups, fresh, dest, scope, pending, calls, projecting, acts, reached>>

\* ACTION Undeliverable. The route throws until the row has failed.
Undeliverable(s) ==
  /\ s \in live /\ out[s] # None /\ ~Authorized(s, out[s])
  /\ out' = [out EXCEPT ![s] = None]
  /\ UNCHANGED <<central, pending, sessions, inbox, calls, projecting, acts, reached>>

\* ACTION CreateAgent. handleCreateAgent: a name that is taken is refused; the
\* child calls its creator "parent".  Only the creator's own map is written.
CreateAgent(s, name) ==
  /\ s \in live /\ fresh # {} /\ Act
  /\ ~ \E d \in dest : d.owner = home[s] /\ d.name = name
  /\ LET g == CHOOSE x \in fresh : TRUE
         rows == dest \cup {[owner |-> home[s], name |-> name, target |-> g],
                            [owner |-> g, name |-> Parent, target |-> home[s]]}
     IN /\ groups' = groups \cup {g}
        /\ fresh' = fresh \ {g}
        /\ dest' = rows
        /\ map' = [map EXCEPT ![s] = Resolved(home[s], rows, groups \cup {g})]
  /\ container' = IF container[s] = "none" THEN [container EXCEPT ![s] = "waking"] ELSE container
  /\ lagging' = (lagging \cup Running(home[s])) \ {s}
  /\ UNCHANGED <<home, live, scope, pending, mail, calls, projecting, reached>>

-----------------------------------------------------------------------------
\* Commands

\* projectDestinationsToSessions after its await.
\* ACTION Project.
Project(g) ==
  /\ projecting[g] > 0
  /\ projecting' = [projecting EXCEPT ![g] = @ - 1]
  /\ map' = [s \in Sessions |-> IF s \in Running(g) THEN Resolved(g, dest, groups) ELSE map[s]]
  /\ lagging' = lagging \ OfGroup(g)
  /\ UNCHANGED <<central, pending, container, mail, calls, acts, reached>>

\* The rows that stay when a group is deleted with its sessions.
StaysPending(rows, cmd, h) ==
  IF cmd = "delete" /\ h \in groups THEN {p \in rows : home[arg[p.req].by] # h} ELSE rows

\* destinations add: the owner is a foreign key, the target is not.
AddDest(h, name, target) ==
  /\ h \in groups /\ ~ \E d \in dest : d.owner = h /\ d.name = name
  /\ dest' = dest \cup {[owner |-> h, name |-> name, target |-> target]}
  /\ projecting' = [projecting EXCEPT ![h] = @ + 1]
  /\ UNCHANGED <<groups, fresh, home, live, scope, sessions>>

\* MUTANT of RemoveDest: only the central row goes.
RemoveDestOnly(h, name) ==
  /\ \E d \in dest : d.owner = h /\ d.name = name
  /\ dest' = {d \in dest : ~(d.owner = h /\ d.name = name)}
  /\ UNCHANGED <<groups, fresh, home, live, scope, projecting, sessions>>

RemoveDest(h, name) ==
  /\ \E d \in dest : d.owner = h /\ d.name = name
  /\ dest' = {d \in dest : ~(d.owner = h /\ d.name = name)}
  /\ projecting' = [projecting EXCEPT ![h] = @ + 1]
  /\ UNCHANGED <<groups, fresh, home, live, scope, sessions>>

\* groups delete: one transaction; containers run on, no map is written.
DeleteGroup(h) ==
  /\ h \in groups
  /\ groups' = groups \ {h}
  /\ live' = live \ OfGroup(h)
  /\ dest' = {d \in dest : h \notin {d.owner, d.target}}
  /\ scope' = [scope EXCEPT ![h] = "group"]
  /\ lagging' = lagging \cup {s \in live : container[s] # "none" /\ \E d \in dest : d.owner = home[s] /\ d.target = h}
  /\ UNCHANGED <<fresh, home, map, container, projecting>>

\* groups restart as the host runs it: every running container of the group.
RestartGroup(h) ==
  /\ Stopped({s \in OfGroup(h) : container[s] = "up"})
  /\ UNCHANGED <<central, projecting>>

SetScope(h, value) ==
  /\ h \in groups
  /\ scope' = [scope EXCEPT ![h] = value]
  /\ UNCHANGED <<groups, fresh, home, live, dest, sessions, projecting>>

\* The handler: what changes for the group the command is about.
Handle(c, h) ==
  \/ c.cmd = "add" /\ AddDest(h, c.name, c.target)
  \/ c.cmd = "remove" /\ RemoveDest(h, c.name)
  \/ c.cmd = "delete" /\ DeleteGroup(h)
  \/ c.cmd = "restart" /\ RestartGroup(h)
  \/ c.cmd = "scope" /\ \E value \in Scopes : SetScope(h, value)

\* It throws, or there is nothing to change.
Fails(c, h) ==
  /\ \/ c.cmd \in {"list", "roles"}
     \/ h \notin groups
     \/ c.cmd = "add" /\ \E d \in dest : d.owner = h /\ d.name = c.name
     \/ c.cmd = "remove" /\ ~ \E d \in dest : d.owner = h /\ d.name = c.name
  /\ UNCHANGED <<central, sessions, projecting>>

\* Ids are random: nobody names a group before it is there.
Nameable(c) == fresh \cap {c.subject, c.target} = {}

\* ACTION HostCommand. Typed on the host: no scope, no approval.
HostCommand(c) ==
  /\ Nameable(c)
  /\ Act
  /\ Handle(c, c.subject)
  /\ pending' = StaysPending(pending, c.cmd, c.subject)
  /\ UNCHANGED <<mail, calls, reached>>

\* ACTION Call. ncl inside a container writes its request.
Call(q, c) ==
  /\ state[q] = "unused" /\ container[c.by] = "up" /\ Nameable(c) /\ Act
  /\ arg' = [arg EXCEPT ![q] = c]
  /\ state' = [state EXCEPT ![q] = "due"]
  /\ client' = [client EXCEPT ![q] = "waiting"]
  /\ UNCHANGED <<central, pending, sessions, mail, tries, response, asked, scoped, faulted, crashes,
                 projecting, reached>>

\* The argument the handler looks at, and who asks.
KeyOf(cmd) == IF cmd \in {"add", "remove"} THEN "group" ELSE "id"
Own(q) == home[arg[q].by]

\* MUTANT of Forbidden: only --id is compared with the caller's group.
ForbiddenById(q) ==
  \/ scope[Own(q)] = "disabled"
  \/ /\ scope[Own(q)] = "group"
     /\ \/ arg[q].cmd \in {"roles", "scope"}
        \/ arg[q].key = "id" /\ arg[q].subject \notin {Own(q), NoGroup}

\* dispatch: resources that are not listed, other groups, and cli_scope.
Forbidden(q) ==
  \/ scope[Own(q)] = "disabled"
  \/ /\ scope[Own(q)] = "group"
     /\ \/ arg[q].cmd \in {"roles", "scope"}
        \/ arg[q].subject \notin {Own(q), NoGroup}

\* The group the handler will see: filled in for a scoped caller.
Subject(q) ==
  IF arg[q].subject # NoGroup /\ arg[q].key = KeyOf(arg[q].cmd) THEN arg[q].subject
  ELSE IF scope[Own(q)] = "group" THEN Own(q)
  ELSE NoGroup

\* What a list returns: the rows of the caller's group, or all.
Listed(q) == IF scope[Own(q)] = "group" THEN groups \cap {Own(q)} ELSE groups

\* ACTION Dispatch. The delivery of a call up to its await: refused, answered,
\* or put before an admin.
Dispatch(q) ==
  /\ state[q] = "due" /\ arg[q].by \in live
  /\ scoped' = [scoped EXCEPT ![q] = @ \cup {scope[Own(q)]}]
  /\ state' = [state EXCEPT ![q] = "dispatched"]
  /\ IF Forbidden(q) THEN UNCHANGED <<reached, pending, asked>>
     ELSE IF arg[q].cmd = "list"
     THEN /\ reached' = [reached EXCEPT ![q] = @ \cup Listed(q)]
          /\ UNCHANGED <<pending, asked>>
     ELSE /\ asked' = [asked EXCEPT ![q] = @ + 1]
          /\ \/ pending' = pending \cup {[req |-> q, nth |-> asked[q], subject |-> Subject(q)]}
             \/ UNCHANGED pending   \* no approver can be reached
          /\ UNCHANGED reached
  /\ UNCHANGED <<central, sessions, mail, arg, tries, response, client, faulted, crashes, projecting, acts>>

\* ACTION Respond. The response row goes in once; its key makes a second insert
\* throw, and the delivery is tried again until it has failed.
Respond(q) ==
  /\ state[q] = "dispatched"
  /\ IF response[q] = "none"
     THEN /\ response' = [response EXCEPT ![q] = "written"]
          /\ state' = [state EXCEPT ![q] = "responded"]
          /\ UNCHANGED tries
     ELSE /\ tries' = [tries EXCEPT ![q] = @ + 1]
          /\ state' = [state EXCEPT ![q] = IF tries[q] + 1 >= MaxTries THEN "settled" ELSE "due"]
          /\ UNCHANGED response
  /\ UNCHANGED <<central, pending, sessions, mail, arg, client, asked, scoped, faulted, crashes,
                 projecting, acts, reached>>

\* MUTANT of Settle: the row that was answered is tried again.
SettleLater(q) ==
  /\ state[q] = "responded"
  /\ state' = [state EXCEPT ![q] = "due"]
  /\ UNCHANGED <<central, pending, sessions, mail, arg, tries, response, client, asked, scoped,
                 faulted, crashes, projecting, acts, reached>>

\* ACTION Settle. markDelivered.
Settle(q) ==
  /\ state[q] = "responded"
  /\ state' = [state EXCEPT ![q] = "settled"]
  /\ UNCHANGED <<central, pending, sessions, mail, arg, tries, response, client, asked, scoped,
                 faulted, crashes, projecting, acts, reached>>

\* ACTION Poll. The call finds its response, or has waited for thirty seconds.
Poll(q) ==
  /\ client[q] = "waiting"
  /\ client' = [client EXCEPT ![q] = IF response[q] # "none" THEN "read" ELSE "timeout"]
  /\ UNCHANGED <<central, pending, sessions, mail, arg, state, tries, response, asked, scoped,
                 faulted, crashes, projecting, acts, reached>>

\* ACTION Approve. The stored frame is dispatched as the host's.
Approve(p) ==
  /\ p \in pending
  /\ Handle(arg[p.req], p.subject) \/ Fails(arg[p.req], p.subject)
  /\ pending' = StaysPending(pending \ {p}, arg[p.req].cmd, p.subject)
  /\ reached' = [reached EXCEPT ![p.req] = @ \cup {p.subject}]
  /\ UNCHANGED <<mail, calls, acts>>

\* ACTION Reject.
Reject(p) ==
  /\ p \in pending
  /\ pending' = pending \ {p}
  /\ UNCHANGED <<central, sessions, mail, calls, projecting, acts, reached>>

\* ACTION Crash. The host goes down: containers are stopped at the next start,
\* deliveries that were not settled begin again, promises are gone.
Crash ==
  /\ crashes < MaxCrashes /\ crashes' = crashes + 1
  /\ Stopped(Sessions)
  /\ projecting' = [g \in Groups |-> 0]
  /\ state' = [q \in Requests |-> IF state[q] \in {"dispatched", "responded"} THEN "due" ELSE state[q]]
  /\ tries' = [q \in Requests |-> 0]
  /\ faulted' = faulted \cup {q \in Requests : state[q] \in {"dispatched", "responded"}}
  /\ client' = [q \in Requests |-> IF client[q] = "waiting" THEN "timeout" ELSE client[q]]
  /\ UNCHANGED <<central, pending, mail, arg, response, asked, scoped, acts, reached>>

-----------------------------------------------------------------------------
Init ==
  /\ groups = FirstGroups /\ fresh = Groups \ FirstGroups
  /\ home = [s \in Sessions |-> IF s <= Len(FirstHome) THEN FirstHome[s] ELSE NoGroup]
  /\ live = 1..Len(FirstHome)
  /\ dest = FirstDest
  /\ scope = [g \in Groups |-> "group"]
  /\ pending = {} /\ lagging = {} /\ faulted = {}
  /\ map = [s \in Sessions |-> {}]
  /\ container = [s \in Sessions |-> "none"]
  /\ inbox = [s \in Sessions |-> <<>>]
  /\ out = [s \in Sessions |-> None]
  /\ arg = [q \in Requests |-> CHOOSE c \in Called : TRUE]
  /\ state = [q \in Requests |-> "unused"]
  /\ tries = [q \in Requests |-> 0]
  /\ response = [q \in Requests |-> "none"]
  /\ client = [q \in Requests |-> "idle"]
  /\ projecting = [g \in Groups |-> 0]
  /\ acts = 0 /\ crashes = 0
  /\ asked = [q \in Requests |-> 0]
  /\ reached = [q \in Requests |-> {}]
  /\ scoped = [q \in Requests |-> {}]

Next ==
  \/ \E s \in Sessions :
      \/ WakeAlone(s) \/ Exit(s) \/ Route(s) \/ Undeliverable(s)
      \/ \E ok \in BOOLEAN : Spawned(s, ok)
      \/ \E entry \in map[s], re \in 0..Len(inbox[s]) : Send(s, entry, re)
      \/ \E name \in Names : CreateAgent(s, name)
  \/ \E g \in Groups : Project(g)
  \/ \E c \in Typed : HostCommand(c)
  \/ \E q \in Requests :
      \/ \E c \in Called : Call(q, c)
      \/ Dispatch(q) \/ Respond(q) \/ Settle(q) \/ Poll(q)
  \/ \E p \in pending : Approve(p) \/ Reject(p)
  \/ Crash

Spec == Init /\ [][Next]_vars

-----------------------------------------------------------------------------
\* Properties

TypeOK ==
  /\ groups \subseteq Groups /\ fresh \subseteq Groups \ groups
  /\ home \in [Sessions -> Groups \cup {NoGroup}]
  /\ live \subseteq {s \in Sessions : home[s] \in groups}
  /\ dest \subseteq Dest /\ \A d \in dest : d.owner \in groups
  /\ scope \in [Groups -> Scopes]
  /\ \A p \in pending : arg[p.req].by \in live
  /\ map \in [Sessions -> SUBSET [name : Names, target : Groups]]
  /\ container \in [Sessions -> {"none", "waking", "up"}]
  /\ \A s \in Sessions : \A i \in 1..Len(inbox[s]) :
       inbox[s][i].from = home[inbox[s][i].source]
  /\ projecting \in [Groups -> Nat]
  /\ state \in [Requests -> {"unused", "due", "dispatched", "responded", "settled"}]

\* The map a container looks names up in is the central table's, while it may be
\* used: spawning writes it, and an add or a remove by command reaches every
\* session, whichever wakes or dies in between.  Lagging are the sessions of a
\* creator's group other than its own, and those that had a destination in a
\* group that was deleted (agent-destinations.ts:25).
MapCurrent ==
  \A s \in live \ lagging :
    container[s] # "none" /\ projecting[home[s]] = 0 => map[s] = Resolved(home[s], dest, groups)

\* A message between agents lands in a session of the group it was sent to, and
\* a reply to that group lands in the very session that asked, if it is still
\* there (agent-route.ts:121).
ReplyReturns ==
  [][\A s, t \in Sessions :
       inbox'[t] # inbox[t] /\ inbox'[t][Len(inbox'[t])].source = s =>
         /\ home'[t] = out[s].to
         /\ LET asking == inbox[s][out[s].re]
            IN out[s].re # 0 /\ asking.from = out[s].to /\ asking.source \in live
                 => t = asking.source]_vars

\* An agent whose commands are scoped to its group sees and changes no other,
\* whichever argument names it, and also when an admin lets the command run as
\* the host's; a disabled one reaches nothing (dispatch.ts:42).
ScopeConfined ==
  \A q \in Requests :
    /\ scoped[q] = {"group"} => reached[q] \subseteq {Own(q)}
    /\ scoped[q] = {"disabled"} => reached[q] = {}

\* A call is put before the admin once, unless the host dies before the call's
\* row is settled (delivery-action.ts:41).
AskedOnce ==
  \A q \in Requests \ faulted : asked[q] <= 1

\* Documented: an agent that asks for a restart restarts its own session only
\* (cli/resources/groups.ts:155).
RestartOnlyCaller ==
  [][\A p \in pending :
       arg[p.req].cmd = "restart" /\ Approve(p)
         => \A s \in Sessions \ {arg[p.req].by} : container'[s] = container[s]]_vars
==============================================================================

-------------------------- MODULE AgentGroupsProofs --------------------------
(***************************************************************************)
(* Proofs about AgentGroups, for any groups, sessions, calls, commands and *)
(* bounds.  The order: types; the maps; messages and their replies; calls, *)
(* their scope and their approvals.                                        *)
(***************************************************************************)
EXTENDS AgentGroups, WellFoundedInduction, TLAPS

LEMMA NextCases ==
  ASSUME Next
  PROVE  \/ \E s \in Sessions : WakeAlone(s) \/ Exit(s) \/ Undeliverable(s)
         \/ \E s \in Sessions : Route(s)
         \/ \E s \in Sessions, ok \in BOOLEAN : Spawned(s, ok)
         \/ \E s \in Sessions : \E entry \in map[s], re \in 0..Len(inbox[s]) : Send(s, entry, re)
         \/ \E s \in Sessions, name \in Names : CreateAgent(s, name)
         \/ \E g \in Groups : Project(g)
         \/ \E c \in Typed : HostCommand(c)
         \/ \E q \in Requests, c \in Called : Call(q, c)
         \/ \E q \in Requests : Dispatch(q)
         \/ \E q \in Requests : Respond(q) \/ Settle(q) \/ Poll(q)
         \/ \E p \in pending : Approve(p)
         \/ \E p \in pending : Reject(p)
         \/ Crash
BY DEF Next

\* A set of numbers that is not empty and has a bound has a greatest.
LEMMA MaxIsIn ==
  ASSUME NEW n \in Nat, NEW S, S \subseteq 1..n, S # {}
  PROVE  Max(S) \in S
<1>. DEFINE T == {n - x : x \in S}
<1>1. T \subseteq Nat /\ T # {}
  <2>1. \A x \in S : x \in 1..n /\ n - x \in Nat
    OBVIOUS
  <2>2. T # {}
    OBVIOUS
  <2>. QED  BY <2>1, <2>2
<1>2. PICK x \in T : \A y \in T : ~ (<<y, x>> \in OpToRel(<, Nat))
  <2>. HIDE DEF T
  <2>. QED  BY <1>1, NatLessThanWellFounded, WFMin
<1>3. \A y \in T : ~ (y < x)
  BY <1>1, <1>2 DEF OpToRel
<1>4. PICK m \in S : x = n - m
  OBVIOUS
<1>5. \A y \in S : m >= y
  <2>. SUFFICES ASSUME NEW y \in S PROVE m >= y
    OBVIOUS
  <2>1. ~ (n - y < n - m)
    BY <1>3, <1>4
  <2>. QED  BY <2>1
<1>. QED  BY <1>4, <1>5 DEF Max

-----------------------------------------------------------------------------
(* Types.                                                                  *)

\* The central database.  A group that is yet to be created has no name.
CentralTypes ==
  /\ groups \subseteq Groups /\ fresh \subseteq Groups \ groups
  /\ home \in [Sessions -> Groups \cup {NoGroup}]
  /\ live \subseteq Sessions /\ \A s \in live : home[s] \in groups
  /\ dest \subseteq Dest
  /\ \A d \in dest : d.owner \in groups /\ d.target \notin fresh
  /\ scope \in [Groups -> Scopes]

SessionTypes ==
  /\ map \in [Sessions -> SUBSET [name : Names, target : Groups]]
  /\ container \in [Sessions -> {"none", "waking", "up"}]
  /\ projecting \in [Groups -> Nat]

\* A message's sender has its group for good.
MailTypes ==
  /\ inbox \in [Sessions -> Seq([from : Groups, source : Sessions])]
  /\ \A s \in Sessions : \A i \in 1..Len(inbox[s]) : inbox[s][i].from = home[inbox[s][i].source]
  /\ \A s \in Sessions : out[s] # None => out[s].to \in Groups /\ out[s].re \in 0..Len(inbox[s])
  /\ out \in [Sessions -> [to : Groups \cup {NoGroup}, re : Nat]]

\* Who calls has its group for good, and names no group that is not there yet.
CallTypes ==
  /\ DOMAIN arg = Requests
  /\ \A q \in Requests : state[q] # "unused" =>
       arg[q] \in Called /\ home[arg[q].by] \in Groups /\ arg[q].target \notin fresh
  /\ state \in [Requests -> {"unused", "due", "dispatched", "responded", "settled"}]
  /\ asked \in [Requests -> Nat]
  /\ response \in [Requests -> {"none", "written"}]
  /\ scoped \in [Requests -> SUBSET Scopes]
  /\ reached \in [Requests -> SUBSET (Groups \cup {NoGroup})]
  /\ pending \subseteq [req : Requests, nth : Nat, subject : Groups \cup {NoGroup}]
  /\ \A p \in pending : state[p.req] # "unused" /\ arg[p.req].by \in live

\* A container belongs to a session that has its group, deleted or not.
HomeInv == \A s \in Sessions : container[s] # "none" => home[s] \in Groups

Types == CentralTypes /\ SessionTypes /\ MailTypes /\ CallTypes /\ HomeInv

LEMMA TypesInit == Init => Types
<1>. SUFFICES ASSUME Init PROVE Types
  OBVIOUS
<1>1. \A s \in Sessions : s <= Len(FirstHome) => FirstHome[s] \in FirstGroups
  BY GroupsAssumption DEF Sessions
<1>2. 1..Len(FirstHome) \subseteq Sessions
  BY GroupsAssumption DEF Sessions
<1>3. CentralTypes
  BY <1>1, <1>2, GroupsAssumption DEF Init, CentralTypes, Scopes, Dest
<1>4. SessionTypes
  BY DEF Init, SessionTypes
<1>5. MailTypes
  BY DEF Init, MailTypes, None
<1>6. CallTypes
  BY DEF Init, CallTypes
<1>7. HomeInv
  BY DEF Init, HomeInv
<1>. QED  BY <1>3, <1>4, <1>5, <1>6, <1>7 DEF Types

\* Where a message goes: a session of the group, or the next one there will be.
LEMMA TargetsAre ==
  ASSUME CentralTypes, NEW s \in Sessions, NEW msg, msg.to \in groups, NEW t \in Targets(s, msg)
  PROVE  \/ t \in live /\ home[t] = msg.to
         \/ t \in Sessions \ live /\ home[t] = NoGroup
<1>1. CASE t \in Candidate(s, msg)
  BY <1>1 DEF Candidate
<1>2. CASE t \in Newest(msg.to)
  <2>1. OfGroup(msg.to) \subseteq 1..MaxSessions /\ OfGroup(msg.to) # {} /\ t = Max(OfGroup(msg.to))
    BY <1>2 DEF Newest, OfGroup, CentralTypes, Sessions
  <2>2. t \in OfGroup(msg.to)
    BY <2>1, MaxIsIn, GroupsAssumption
  <2>. QED  BY <2>2 DEF OfGroup
<1>3. CASE t \in NextSession
  <2>1. t \in Sessions /\ home[t] = NoGroup
    BY <1>3 DEF NextSession
  <2>. QED  BY <2>1, GroupsAssumption DEF CentralTypes
<1>. QED  BY <1>1, <1>2, <1>3 DEF Targets

\* A command leaves the central database well typed, and homes alone.
LEMMA HandleCentral ==
  ASSUME CentralTypes, NEW c \in Calls, c.target \notin fresh, NEW h \in Groups \cup {NoGroup},
         Handle(c, h) \/ Fails(c, h)
  PROVE  CentralTypes' /\ UNCHANGED <<home, fresh>>
<1>1. CASE c.cmd = "add" /\ AddDest(h, c.name, c.target)
  BY <1>1 DEF AddDest, CentralTypes, Dest, Calls
<1>2. CASE c.cmd = "remove" /\ RemoveDest(h, c.name)
  BY <1>2 DEF RemoveDest, CentralTypes
<1>3. CASE c.cmd = "delete" /\ DeleteGroup(h)
  <2>1. scope' \in [Groups -> Scopes]
    BY <1>3 DEF DeleteGroup, CentralTypes, Scopes
  <2>. QED  BY <1>3, <2>1 DEF DeleteGroup, CentralTypes, OfGroup
<1>4. CASE RestartGroup(h) \/ Fails(c, h)
  BY <1>4 DEF RestartGroup, Fails, central, CentralTypes
<1>5. ASSUME NEW value \in Scopes, SetScope(h, value)
      PROVE  CentralTypes' /\ UNCHANGED <<home, fresh>>
  BY <1>5 DEF SetScope, CentralTypes
<1>. QED  BY <1>1, <1>2, <1>3, <1>4, <1>5 DEF Handle

\* What a new message does to the sessions there are.
LEMMA RouteCentral ==
  ASSUME CentralTypes, MailTypes, NEW s \in Sessions, Route(s)
  PROVE  CentralTypes' /\ \A r \in Sessions : home[r] # NoGroup => home'[r] = home[r]
<1>1. out[s].to \in groups /\ UNCHANGED <<groups, fresh, dest, scope>>
  BY DEF Route, Authorized
<1>2. PICK t \in Targets(s, out[s]) :
        \/ t \in live /\ UNCHANGED <<home, live>>
        \/ t \notin live /\ home' = [home EXCEPT ![t] = out[s].to] /\ live' = live \cup {t}
  BY DEF Route
<1>3. \/ t \in live /\ home[t] = out[s].to
      \/ t \in Sessions \ live /\ home[t] = NoGroup
  BY <1>1, <1>2, TargetsAre
<1>. QED  BY <1>1, <1>2, <1>3 DEF CentralTypes

LEMMA CreateCentral ==
  ASSUME CentralTypes, NEW s \in Sessions, NEW name \in Names, CreateAgent(s, name)
  PROVE  CentralTypes' /\ UNCHANGED home /\ fresh' \subseteq fresh
<1>. DEFINE g == CHOOSE x \in fresh : TRUE
<1>1. g \in fresh /\ home[s] \in groups
  BY DEF CreateAgent, CentralTypes
<1>2. /\ groups' = groups \cup {g} /\ fresh' = fresh \ {g}
      /\ dest' = dest \cup {[owner |-> home[s], name |-> name, target |-> g],
                            [owner |-> g, name |-> Parent, target |-> home[s]]}
      /\ UNCHANGED <<home, live, scope>>
  BY DEF CreateAgent
<1>. HIDE DEF g
<1>. QED  BY <1>1, <1>2, GroupsAssumption DEF CentralTypes, Dest

\* What every step keeps of the central database.
Kept ==
  /\ CentralTypes'
  /\ \A s \in Sessions : home[s] \in Groups => home'[s] = home[s]
  /\ fresh' \subseteq fresh

LEMMA CentralStep == Types /\ [Next]_vars => Kept
<1>. SUFFICES ASSUME Types, [Next]_vars PROVE Kept
  OBVIOUS
<1>0. CentralTypes /\ MailTypes /\ CallTypes
  BY DEF Types
<1>1. ASSUME UNCHANGED central PROVE Kept
  BY <1>0, <1>1 DEF central, CentralTypes, Kept
<1>2. CASE UNCHANGED vars
  BY <1>1, <1>2 DEF vars
<1>3. ASSUME NEW s, WakeAlone(s) \/ Exit(s) \/ Undeliverable(s)
      PROVE  Kept
  BY <1>1, <1>3 DEF WakeAlone, Exit, Undeliverable
<1>4. ASSUME NEW s \in Sessions, Route(s) PROVE Kept
  BY <1>0, <1>4, RouteCentral, GroupsAssumption DEF Kept, Route
<1>5. ASSUME NEW s, NEW x, NEW y, Spawned(s, x) \/ Send(s, x, y)
      PROVE  Kept
  BY <1>1, <1>5 DEF Spawned, Send
<1>6. ASSUME NEW s \in Sessions, NEW name \in Names, CreateAgent(s, name) PROVE Kept
  BY <1>0, <1>6, CreateCentral DEF Kept
<1>7. ASSUME NEW g, Project(g) PROVE Kept
  BY <1>1, <1>7 DEF Project
<1>8. ASSUME NEW c \in Typed, HostCommand(c) PROVE Kept
  <2>1. c \in Calls /\ c.target \notin fresh /\ c.subject \in Groups \cup {NoGroup}
    BY <1>8, GroupsAssumption DEF HostCommand, Nameable, Calls
  <2>2. Handle(c, c.subject)
    BY <1>8 DEF HostCommand
  <2>. QED  BY <1>0, <2>1, <2>2, HandleCentral DEF Kept
<1>9. ASSUME NEW q, NEW c, Call(q, c) PROVE Kept
  BY <1>1, <1>9 DEF Call
<1>10. ASSUME NEW q, Dispatch(q) \/ Respond(q) \/ Settle(q) \/ Poll(q) PROVE Kept
  BY <1>1, <1>10 DEF Dispatch, Respond, Settle, Poll
<1>11. ASSUME NEW p \in pending, Approve(p) PROVE Kept
  <2>1. /\ arg[p.req] \in Calls /\ arg[p.req].target \notin fresh
        /\ p.subject \in Groups \cup {NoGroup}
    BY <1>0, GroupsAssumption DEF CallTypes
  <2>2. Handle(arg[p.req], p.subject) \/ Fails(arg[p.req], p.subject)
    BY <1>11 DEF Approve
  <2>. QED  BY <1>0, <2>1, <2>2, HandleCentral DEF Kept
<1>12. ASSUME NEW p, Reject(p) PROVE Kept
  BY <1>1, <1>12 DEF Reject
<1>13. CASE Crash
  BY <1>1, <1>13 DEF Crash
<1>. QED  BY <1>2, <1>3, <1>4, <1>5, <1>6, <1>7, <1>8, <1>9, <1>10, <1>11, <1>12, <1>13, NextCases

\* The rows of a group are pairs of a name and a group.
LEMMA ResolvedTyped ==
  ASSUME NEW rows, rows \subseteq Dest, NEW g, NEW alive
  PROVE  Resolved(g, rows, alive) \in SUBSET [name : Names, target : Groups]
BY DEF Resolved, Dest

LEMMA StoppedTyped ==
  ASSUME SessionTypes, NEW gone, Stopped(gone)
  PROVE  /\ map' \in [Sessions -> SUBSET [name : Names, target : Groups]]
         /\ container' \in [Sessions -> {"none", "waking", "up"}]
BY DEF SessionTypes, Stopped

LEMMA WakeTyped ==
  ASSUME CentralTypes, SessionTypes, NEW s, Wake(s)
  PROVE  /\ map' \in [Sessions -> SUBSET [name : Names, target : Groups]]
         /\ container' \in [Sessions -> {"none", "waking", "up"}]
BY ResolvedTyped DEF CentralTypes, SessionTypes, Wake

LEMMA HandleTyped ==
  ASSUME SessionTypes, NEW c, NEW h \in Groups \cup {NoGroup}, CentralTypes,
         Handle(c, h) \/ Fails(c, h)
  PROVE  SessionTypes'
<1>1. CASE AddDest(h, c.name, c.target) \/ RemoveDest(h, c.name) \/ DeleteGroup(h)
           \/ (\E value \in Scopes : SetScope(h, value)) \/ Fails(c, h)
  BY <1>1 DEF AddDest, RemoveDest, DeleteGroup, SetScope, Fails, sessions, SessionTypes, CentralTypes
<1>2. CASE RestartGroup(h)
  BY <1>2, StoppedTyped DEF RestartGroup, SessionTypes
<1>. QED  BY <1>1, <1>2 DEF Handle

LEMMA SessionStep == Types /\ [Next]_vars => SessionTypes'
<1>. SUFFICES ASSUME Types, [Next]_vars PROVE SessionTypes'
  OBVIOUS
<1>0. CentralTypes /\ SessionTypes /\ MailTypes /\ CallTypes
  BY DEF Types
<1>1. ASSUME UNCHANGED <<map, container, projecting>> PROVE SessionTypes'
  BY <1>0, <1>1 DEF SessionTypes
<1>2. CASE UNCHANGED vars
  BY <1>1, <1>2 DEF vars, sessions
<1>3. ASSUME NEW s \in Sessions, WakeAlone(s) \/ Exit(s) \/ Undeliverable(s)
      PROVE  SessionTypes'
  <2>1. CASE WakeAlone(s)
    BY <1>0, <2>1, WakeTyped DEF WakeAlone, SessionTypes
  <2>2. CASE Exit(s)
    BY <1>0, <2>2, StoppedTyped DEF Exit, SessionTypes
  <2>3. CASE Undeliverable(s)
    BY <1>1, <2>3 DEF Undeliverable, sessions
  <2>. QED  BY <1>3, <2>1, <2>2, <2>3
<1>4. ASSUME NEW s \in Sessions, Route(s) PROVE SessionTypes'
  <2>1. projecting' = projecting
    BY <1>4 DEF Route
  <2>2. PICK t \in Targets(s, out[s]) :
          IF t \in live
          THEN Wake(t) \/ (container[t] # "none" /\ UNCHANGED sessions)
          ELSE /\ container' = [container EXCEPT ![t] = "waking"]
               /\ map' = [map EXCEPT ![t] = Resolved(out[s].to, dest, groups)]
    BY <1>4 DEF Route
  <2>3. CASE t \in live /\ Wake(t)
    BY <1>0, <2>1, <2>3, WakeTyped DEF SessionTypes
  <2>4. CASE t \in live /\ ~ Wake(t)
    BY <1>1, <2>1, <2>2, <2>4 DEF sessions
  <2>5. CASE t \notin live
    BY <1>0, <2>1, <2>2, <2>5, ResolvedTyped DEF SessionTypes, CentralTypes
  <2>. QED  BY <2>3, <2>4, <2>5
<1>5. ASSUME NEW s \in Sessions, NEW ok, Spawned(s, ok) PROVE SessionTypes'
  <2>1. projecting' = projecting
    BY <1>5 DEF Spawned
  <2>2. CASE Stopped({s})
    BY <1>0, <2>1, <2>2, StoppedTyped DEF SessionTypes
  <2>3. CASE ~ Stopped({s})
    BY <1>0, <1>5, <2>3 DEF Spawned, SessionTypes
  <2>. QED  BY <2>2, <2>3
<1>6. ASSUME NEW s, NEW x, NEW y, Send(s, x, y) PROVE SessionTypes'
  BY <1>1, <1>6 DEF Send, sessions
<1>7. ASSUME NEW s \in Sessions, NEW name \in Names, CreateAgent(s, name) PROVE SessionTypes'
  <2>1. dest' \subseteq Dest
    BY <1>0, <1>7, CreateCentral DEF CentralTypes
  <2>2. map' = [map EXCEPT ![s] = Resolved(home[s], dest', groups')] /\ projecting' = projecting
    BY <1>7 DEF CreateAgent
  <2>3. container' \in [Sessions -> {"none", "waking", "up"}]
    BY <1>0, <1>7 DEF CreateAgent, SessionTypes
  <2>. QED  BY <1>0, <2>1, <2>2, <2>3, ResolvedTyped DEF SessionTypes
<1>8. ASSUME NEW g \in Groups, Project(g) PROVE SessionTypes'
  <2>1. projecting' \in [Groups -> Nat]
    BY <1>0, <1>8 DEF Project, SessionTypes
  <2>2. map' \in [Sessions -> SUBSET [name : Names, target : Groups]]
    BY <1>0, <1>8, ResolvedTyped DEF Project, SessionTypes, CentralTypes
  <2>. QED  BY <1>0, <1>8, <2>1, <2>2 DEF Project, SessionTypes
<1>9. ASSUME NEW c \in Typed, HostCommand(c) PROVE SessionTypes'
  <2>1. c.subject \in Groups \cup {NoGroup} /\ Handle(c, c.subject)
    BY <1>9, GroupsAssumption DEF HostCommand, Calls
  <2>. QED  BY <1>0, <2>1, HandleTyped
<1>10. ASSUME NEW q, NEW c, Call(q, c) PROVE SessionTypes'
  BY <1>1, <1>10 DEF Call, sessions
<1>11. ASSUME NEW q, Dispatch(q) \/ Respond(q) \/ Settle(q) \/ Poll(q) PROVE SessionTypes'
  BY <1>1, <1>11 DEF Dispatch, Respond, Settle, Poll, sessions
<1>12. ASSUME NEW p \in pending, Approve(p) PROVE SessionTypes'
  <2>1. p.subject \in Groups \cup {NoGroup}
        /\ (Handle(arg[p.req], p.subject) \/ Fails(arg[p.req], p.subject))
    BY <1>0, <1>12 DEF Approve, CallTypes
  <2>. QED  BY <1>0, <2>1, HandleTyped
<1>13. ASSUME NEW p, Reject(p) PROVE SessionTypes'
  BY <1>1, <1>13 DEF Reject, sessions
<1>14. CASE Crash
  BY <1>0, <1>14, StoppedTyped DEF Crash, SessionTypes
<1>. QED  BY <1>2, <1>3, <1>4, <1>5, <1>6, <1>7, <1>8, <1>9, <1>10, <1>11, <1>12, <1>13, <1>14,
             NextCases

LEMMA ElementTyped ==
  ASSUME NEW S, NEW q \in Seq(S), NEW i \in 1..Len(q)
  PROVE  q[i] \in S
OBVIOUS

LEMMA Appended ==
  ASSUME NEW S, NEW q \in Seq(S), NEW x
  PROVE  /\ Len(Append(q, x)) = Len(q) + 1
         /\ \A i \in 1..Len(q) : Append(q, x)[i] = q[i]
         /\ Append(q, x)[Len(q) + 1] = x
         /\ Len(q) \in Nat
OBVIOUS

LEMMA HomeStep == Types /\ [Next]_vars => HomeInv'
<1>. SUFFICES ASSUME Types, [Next]_vars PROVE HomeInv'
  OBVIOUS
<1>0. /\ CentralTypes /\ SessionTypes /\ MailTypes /\ HomeInv
      /\ \A s \in Sessions : home[s] \in Groups => home'[s] = home[s]
      /\ \A s \in live : home[s] \in Groups
  BY CentralStep DEF Types, Kept, CentralTypes
<1>1. ASSUME \A s \in Sessions : container'[s] # "none" => container[s] # "none" \/ s \in live
      PROVE  HomeInv'
  BY <1>0, <1>1 DEF HomeInv
<1>2. ASSUME NEW gone, Stopped(gone) PROVE HomeInv'
  BY <1>1, <1>2 DEF Stopped
<1>3. ASSUME NEW s, Wake(s) PROVE HomeInv'
  BY <1>0, <1>1, <1>3 DEF Wake, SessionTypes
<1>4. CASE UNCHANGED container
  BY <1>1, <1>4
<1>5. CASE UNCHANGED vars
  BY <1>4, <1>5 DEF vars, sessions
<1>6. ASSUME NEW s \in Sessions, WakeAlone(s) \/ Exit(s) \/ Undeliverable(s) PROVE HomeInv'
  BY <1>2, <1>3, <1>4, <1>6 DEF WakeAlone, Exit, Undeliverable, sessions
<1>7. ASSUME NEW s \in Sessions, NEW ok, Spawned(s, ok) PROVE HomeInv'
  BY <1>0, <1>1, <1>2, <1>7 DEF Spawned, SessionTypes
<1>8. ASSUME NEW s \in Sessions, NEW name, CreateAgent(s, name) PROVE HomeInv'
  BY <1>0, <1>1, <1>8 DEF CreateAgent, SessionTypes
<1>9. ASSUME NEW s \in Sessions, Route(s) PROVE HomeInv'
  <2>1. out[s].to \in groups /\ groups \subseteq Groups
    BY <1>0, <1>9 DEF Route, Authorized, CentralTypes
  <2>2. PICK t \in Targets(s, out[s]) :
          IF t \in live
          THEN Wake(t) \/ (container[t] # "none" /\ UNCHANGED sessions)
          ELSE /\ home' = [home EXCEPT ![t] = out[s].to]
               /\ container' = [container EXCEPT ![t] = "waking"]
    BY <1>9 DEF Route
  <2>3. CASE t \in live
    BY <1>3, <1>4, <2>2, <2>3 DEF sessions
  <2>4. CASE t \notin live
    <3>1. t \in Sessions /\ home'[t] \in Groups
      BY <1>0, <2>1, <2>2, <2>4, TargetsAre DEF CentralTypes
    <3>. QED  BY <1>0, <2>2, <2>4, <3>1 DEF HomeInv, SessionTypes
  <2>. QED  BY <2>3, <2>4
<1>10. ASSUME NEW c, NEW h, Handle(c, h) \/ Fails(c, h) PROVE HomeInv'
  BY <1>2, <1>4, <1>10 DEF Handle, Fails, AddDest, RemoveDest, DeleteGroup, RestartGroup, SetScope,
                           sessions
<1>11. ASSUME NEW p, Approve(p) \/ HostCommand(p) PROVE HomeInv'
  BY <1>10, <1>11 DEF Approve, HostCommand
<1>12. ASSUME NEW x, NEW y, NEW z,
              \/ Project(x) \/ Send(x, y, z) \/ Call(x, y) \/ Dispatch(x) \/ Respond(x) \/ Settle(x)
              \/ Poll(x) \/ Reject(x)
       PROVE  HomeInv'
  BY <1>4, <1>12 DEF Project, Send, Call, Dispatch, Respond, Settle, Poll, Reject, sessions
<1>13. CASE Crash
  BY <1>2, <1>13 DEF Crash
<1>. QED  BY <1>5, <1>6, <1>7, <1>8, <1>9, <1>11, <1>12, <1>13, NextCases

LEMMA MailRecord ==
  ASSUME MailTypes, NEW r \in Sessions, NEW i \in 1..Len(inbox[r])
  PROVE  /\ inbox[r][i] \in [from : Groups, source : Sessions]
         /\ inbox[r][i].from = home[inbox[r][i].source]
<1>1. inbox[r] \in Seq([from : Groups, source : Sessions])
  BY DEF MailTypes
<1>2. inbox[r][i] \in [from : Groups, source : Sessions]
  BY <1>1, ElementTyped
<1>. QED  BY <1>2 DEF MailTypes

LEMMA MailStep == Types /\ [Next]_vars => MailTypes'
<1>. SUFFICES ASSUME Types, [Next]_vars PROVE MailTypes'
  OBVIOUS
<1>0. /\ CentralTypes /\ MailTypes /\ CallTypes
      /\ \A s \in Sessions : home[s] \in Groups => home'[s] = home[s]
  BY CentralStep DEF Types, Kept
<1>1. ASSUME UNCHANGED inbox, NEW s \in Sessions, NEW x, out' = [out EXCEPT ![s] = x],
             x \in [to : Groups, re : 0..Len(inbox[s])] \/ x = None \/ x = out[s]
      PROVE  MailTypes'
  <2>1. \A r \in Sessions : \A i \in 1..Len(inbox[r]) : inbox[r][i].from = home'[inbox[r][i].source]
    BY <1>0, MailRecord
  <2>2. None \in [to : Groups \cup {NoGroup}, re : Nat] /\ Len(inbox[s]) \in Nat
    BY <1>0 DEF None, MailTypes
  <2>3. out[s] \in [to : Groups \cup {NoGroup}, re : Nat]
    BY <1>0 DEF MailTypes
  <2>4. x \in [to : Groups \cup {NoGroup}, re : Nat]
    BY <1>1, <2>2, <2>3
  <2>5. out' \in [Sessions -> [to : Groups \cup {NoGroup}, re : Nat]]
    BY <1>0, <1>1, <2>4 DEF MailTypes
  <2>6. x # None => x.to \in Groups /\ x.re \in 0..Len(inbox[s])
    BY <1>0, <1>1 DEF MailTypes
  <2>7. \A r \in Sessions : out'[r] # None => out'[r].to \in Groups /\ out'[r].re \in 0..Len(inbox[r])
    BY <1>0, <1>1, <2>6 DEF MailTypes
  <2>. QED  BY <1>0, <1>1, <2>1, <2>5, <2>7 DEF MailTypes
<1>2. ASSUME UNCHANGED mail PROVE MailTypes'
  <2>1. \A r \in Sessions : \A i \in 1..Len(inbox[r]) : inbox[r][i].from = home'[inbox[r][i].source]
    BY <1>0, MailRecord
  <2>. QED  BY <1>0, <1>2, <2>1 DEF MailTypes, mail
<1>3. CASE UNCHANGED vars
  BY <1>2, <1>3 DEF vars, mail
<1>4. ASSUME NEW s \in Sessions, Undeliverable(s) PROVE MailTypes'
  BY <1>1, <1>4 DEF Undeliverable
<1>5. ASSUME NEW s \in Sessions, NEW entry \in map[s], NEW re \in 0..Len(inbox[s]), Send(s, entry, re)
      PROVE  MailTypes'
  <2>1. entry.target \in Groups
    BY DEF Types, SessionTypes
  <2>2. [to |-> entry.target, re |-> re] \in [to : Groups, re : 0..Len(inbox[s])]
    BY <2>1
  <2>. QED  BY <1>1, <1>5, <2>2 DEF Send
<1>6. ASSUME NEW s \in Sessions, Route(s) PROVE MailTypes'
  <2>1. home[s] \in Groups /\ home'[s] = home[s] /\ out[s].to \in groups
    BY <1>0, <1>6 DEF Route, Authorized, CentralTypes
  <2>2. PICK t \in Targets(s, out[s]) :
          inbox' = [inbox EXCEPT ![t] = Append(@, [from |-> home[s], source |-> s])]
    BY <1>6 DEF Route
  <2>3. t \in Sessions
    BY <1>0, <2>1, TargetsAre DEF CentralTypes
  <2>4. out' = [out EXCEPT ![s] = None]
    BY <1>6 DEF Route
  <2>5. /\ inbox' \in [Sessions -> Seq([from : Groups, source : Sessions])]
        /\ \A r \in Sessions : Len(inbox'[r]) >= Len(inbox[r])
    <3>1. [from |-> home[s], source |-> s] \in [from : Groups, source : Sessions]
      BY <2>1
    <3>2. inbox[t] \in Seq([from : Groups, source : Sessions])
      BY <1>0, <2>3 DEF MailTypes
    <3>3. Append(inbox[t], [from |-> home[s], source |-> s]) \in Seq([from : Groups, source : Sessions])
      BY <3>1, <3>2
    <3>4. Len(Append(inbox[t], [from |-> home[s], source |-> s])) >= Len(inbox[t])
      BY <3>2
    <3>5. inbox' \in [Sessions -> Seq([from : Groups, source : Sessions])]
      BY <1>0, <2>2, <3>3 DEF MailTypes
    <3>6. \A r \in Sessions : Len(inbox'[r]) >= Len(inbox[r])
      <4>. SUFFICES ASSUME NEW r \in Sessions PROVE Len(inbox'[r]) >= Len(inbox[r])
        OBVIOUS
      <4>1. Len(inbox[r]) \in Nat
        BY <1>0 DEF MailTypes
      <4>2. CASE r = t
        BY <1>0, <2>2, <2>3, <3>4, <4>2 DEF MailTypes
      <4>3. CASE r # t
        BY <1>0, <2>2, <4>1, <4>3 DEF MailTypes
      <4>. QED  BY <4>2, <4>3
    <3>. QED  BY <3>5, <3>6
  <2>6. \A r \in Sessions : \A i \in 1..Len(inbox'[r]) : inbox'[r][i].from = home'[inbox'[r][i].source]
    <3>. SUFFICES ASSUME NEW r \in Sessions, NEW i \in 1..Len(inbox'[r])
                  PROVE  inbox'[r][i].from = home'[inbox'[r][i].source]
      OBVIOUS
    <3>1. CASE i \in 1..Len(inbox[r])
      <4>1. inbox'[r][i] = inbox[r][i]
        <5>1. inbox[t] \in Seq([from : Groups, source : Sessions])
          BY <1>0, <2>3 DEF MailTypes
        <5>2. inbox'[r] = (IF r = t THEN Append(inbox[t], [from |-> home[s], source |-> s]) ELSE inbox[r])
          BY <1>0, <2>2, <2>3 DEF MailTypes
        <5>. QED  BY <3>1, <5>1, <5>2, Appended
      <4>. QED  BY <1>0, <3>1, <4>1, MailRecord
    <3>2. CASE i \notin 1..Len(inbox[r])
      <4>1. inbox'[r][i] = [from |-> home[s], source |-> s]
        <5>1. inbox[t] \in Seq([from : Groups, source : Sessions])
          BY <1>0, <2>3 DEF MailTypes
        <5>2. r = t /\ inbox'[r] = Append(inbox[t], [from |-> home[s], source |-> s])
          BY <1>0, <2>2, <2>3, <3>2 DEF MailTypes
        <5>. QED  BY <3>2, <5>1, <5>2
      <4>. QED  BY <2>1, <4>1
    <3>. QED  BY <3>1, <3>2
  <2>7. \A r \in Sessions : out'[r] # None => out'[r].to \in Groups /\ out'[r].re \in 0..Len(inbox'[r])
    <3>. SUFFICES ASSUME NEW r \in Sessions, out'[r] # None
                  PROVE  out'[r].to \in Groups /\ out'[r].re \in 0..Len(inbox'[r])
      OBVIOUS
    <3>1. out'[r] = out[r] /\ out[r] # None
      BY <1>0, <2>4 DEF MailTypes
    <3>2. out[r].to \in Groups /\ out[r].re \in 0..Len(inbox[r])
      BY <1>0, <3>1 DEF MailTypes
    <3>3. Len(inbox[r]) \in Nat /\ Len(inbox'[r]) \in Nat /\ Len(inbox'[r]) >= Len(inbox[r])
      BY <1>0, <2>5 DEF MailTypes
    <3>. QED  BY <3>1, <3>2, <3>3
  <2>8. out' \in [Sessions -> [to : Groups \cup {NoGroup}, re : Nat]]
    BY <1>0, <2>4 DEF MailTypes, None
  <2>. QED  BY <2>5, <2>6, <2>7, <2>8 DEF MailTypes
<1>7. ASSUME NEW s, NEW x, WakeAlone(s) \/ Exit(s) \/ Spawned(s, x) \/ CreateAgent(s, x)
      PROVE  MailTypes'
  BY <1>2, <1>7 DEF WakeAlone, Exit, Spawned, CreateAgent
<1>8. ASSUME NEW g, Project(g) PROVE MailTypes'
  BY <1>2, <1>8 DEF Project
<1>9. ASSUME NEW c, HostCommand(c) PROVE MailTypes'
  BY <1>2, <1>9 DEF HostCommand
<1>10. ASSUME NEW q, NEW c, Call(q, c) PROVE MailTypes'
  BY <1>2, <1>10 DEF Call
<1>11. ASSUME NEW q, Dispatch(q) \/ Respond(q) \/ Settle(q) \/ Poll(q) PROVE MailTypes'
  BY <1>2, <1>11 DEF Dispatch, Respond, Settle, Poll
<1>12. ASSUME NEW p, Approve(p) \/ Reject(p) PROVE MailTypes'
  BY <1>2, <1>12 DEF Approve, Reject
<1>13. CASE Crash
  BY <1>2, <1>13 DEF Crash
<1>. QED  BY <1>3, <1>4, <1>5, <1>6, <1>7, <1>8, <1>9, <1>10, <1>11, <1>12, <1>13, NextCases

\* What the filter of a deletion leaves pending.
LEMMA StillPending ==
  ASSUME CentralTypes, CallTypes, NEW cmd, NEW h, NEW rows, rows \subseteq pending,
         NEW p \in StaysPending(rows, cmd, h),
         \/ live' = live
         \/ cmd = "delete" /\ h \in groups /\ live' = live \ OfGroup(h)
  PROVE  p \in pending /\ arg[p.req].by \in live'
BY DEF CallTypes, StaysPending, OfGroup

LEMMA HandleLive ==
  ASSUME NEW c, NEW h, Handle(c, h) \/ Fails(c, h)
  PROVE  live' = live \/ (c.cmd = "delete" /\ h \in groups /\ live' = live \ OfGroup(h))
BY DEF Handle, Fails, AddDest, RemoveDest, DeleteGroup, RestartGroup, SetScope, central

LEMMA CallStep == Types /\ [Next]_vars => CallTypes'
<1>. SUFFICES ASSUME Types, [Next]_vars PROVE CallTypes'
  OBVIOUS
<1>0. /\ CentralTypes /\ MailTypes /\ CallTypes
      /\ \A s \in Sessions : home[s] \in Groups => home'[s] = home[s]
      /\ fresh' \subseteq fresh
      /\ \A q \in Requests : state[q] # "unused" => arg[q].by \in Sessions
  BY CentralStep, GroupsAssumption DEF Types, Kept, CallTypes, Calls
<1>. USE DEF calls
<1>1. ASSUME UNCHANGED <<calls, reached, pending>>, live \subseteq live' PROVE CallTypes'
  BY <1>0, <1>1 DEF CallTypes
<1>2. CASE UNCHANGED vars
  BY <1>1, <1>2 DEF vars, central
<1>3. ASSUME NEW s, NEW x, NEW y,
             \/ WakeAlone(s) \/ Exit(s) \/ Undeliverable(s) \/ Spawned(s, x) \/ Send(s, x, y)
             \/ Project(x)
      PROVE  CallTypes'
  BY <1>1, <1>3 DEF WakeAlone, Exit, Undeliverable, Spawned, Send, Project, central
<1>4. ASSUME NEW s \in Sessions, NEW x, Route(s) \/ CreateAgent(s, x) PROVE CallTypes'
  BY <1>1, <1>4 DEF Route, CreateAgent
<1>5. ASSUME NEW c \in Typed, HostCommand(c) PROVE CallTypes'
  <2>1. live' = live \/ (c.cmd = "delete" /\ c.subject \in groups /\ live' = live \ OfGroup(c.subject))
    BY <1>5, HandleLive DEF HostCommand
  <2>2. pending' = StaysPending(pending, c.cmd, c.subject)
    BY <1>5 DEF HostCommand
  <2>3. \A p \in pending' : p \in pending /\ arg[p.req].by \in live'
    BY <1>0, <2>1, <2>2, StillPending
  <2>4. UNCHANGED <<calls, reached>>
    BY <1>5 DEF HostCommand
  <2>. QED  BY <1>0, <2>3, <2>4 DEF CallTypes
<1>6. ASSUME NEW p \in pending, Approve(p) PROVE CallTypes'
  <2>1. \/ live' = live
        \/ arg[p.req].cmd = "delete" /\ p.subject \in groups /\ live' = live \ OfGroup(p.subject)
    BY <1>6, HandleLive DEF Approve
  <2>2. pending' = StaysPending(pending \ {p}, arg[p.req].cmd, p.subject)
    BY <1>6 DEF Approve
  <2>3. \A x \in pending' : x \in pending /\ arg[x.req].by \in live'
    BY <1>0, <2>1, <2>2, StillPending
  <2>4. UNCHANGED calls /\ reached' = [reached EXCEPT ![p.req] = @ \cup {p.subject}]
    BY <1>6 DEF Approve
  <2>5. reached' \in [Requests -> SUBSET (Groups \cup {NoGroup})]
    BY <1>0, <2>4 DEF CallTypes
  <2>. QED  BY <1>0, <2>3, <2>4, <2>5 DEF CallTypes
<1>7. ASSUME NEW p, Reject(p) PROVE CallTypes'
  BY <1>0, <1>7 DEF Reject, CallTypes, central
<1>8. ASSUME NEW q \in Requests, NEW c \in Called, Call(q, c) PROVE CallTypes'
  <2>1. /\ state[q] = "unused" /\ state' = [state EXCEPT ![q] = "due"]
        /\ arg' = [arg EXCEPT ![q] = c] /\ c.target \notin fresh /\ home[c.by] \in Groups
        /\ UNCHANGED <<central, pending, response, asked, scoped, reached>>
    <3>1. c.by \in Sessions
      BY GroupsAssumption DEF Calls
    <3>2. home[c.by] \in Groups
      BY <1>8, <3>1 DEF Call, Types, HomeInv
    <3>. QED  BY <1>8, <3>2 DEF Call, Nameable
  <2>2. \A x \in pending : x.req # q
    BY <1>0, <2>1 DEF CallTypes
  <2>3. DOMAIN arg' = Requests /\ arg'[q] = c /\ \A x \in Requests \ {q} : arg'[x] = arg[x]
    BY <1>0, <2>1 DEF CallTypes
  <2>4. /\ state' \in [Requests -> {"unused", "due", "dispatched", "responded", "settled"}]
        /\ state'[q] = "due" /\ \A x \in Requests \ {q} : state'[x] = state[x]
    BY <1>0, <2>1 DEF CallTypes
  <2>. QED  BY <1>0, <2>1, <2>2, <2>3, <2>4 DEF CallTypes, central
<1>9. ASSUME NEW q \in Requests, Dispatch(q) PROVE CallTypes'
  <2>1. state[q] = "due" /\ Own(q) \in Groups /\ scope[Own(q)] \in Scopes
    BY <1>0, <1>9 DEF Dispatch, CallTypes, CentralTypes, Own
  <2>2. arg[q] \in Calls
    BY <1>0, <2>1, GroupsAssumption DEF CallTypes
  <2>3. Subject(q) \in Groups \cup {NoGroup}
    BY <2>1, <2>2 DEF Subject, Calls
  <2>4. pending' \subseteq pending \cup {[req |-> q, nth |-> asked[q], subject |-> Subject(q)]}
    BY <1>9 DEF Dispatch
  <2>5. scoped' \in [Requests -> SUBSET Scopes]
    BY <1>0, <1>9, <2>1 DEF Dispatch, CallTypes
  <2>6. reached' \in [Requests -> SUBSET (Groups \cup {NoGroup})]
    <3>1. Listed(q) \subseteq Groups
      BY <1>0 DEF Listed, CentralTypes
    <3>2. reached' = reached \/ reached' = [reached EXCEPT ![q] = @ \cup Listed(q)]
      BY <1>9 DEF Dispatch
    <3>. QED  BY <1>0, <3>1, <3>2 DEF CallTypes
  <2>7. asked' \in [Requests -> Nat]
    BY <1>0, <1>9 DEF Dispatch, CallTypes
  <2>8. /\ state' = [state EXCEPT ![q] = "dispatched"] /\ arg[q].by \in live
        /\ UNCHANGED <<central, arg, response>>
    BY <1>9 DEF Dispatch
  <2>9. [req |-> q, nth |-> asked[q], subject |-> Subject(q)]
          \in [req : Requests, nth : Nat, subject : Groups \cup {NoGroup}]
    BY <1>0, <2>3 DEF CallTypes
  <2>10. \A x \in Requests : state'[x] # "unused" <=> state[x] # "unused"
    BY <1>0, <2>1, <2>8 DEF CallTypes
  <2>11. \A p \in pending' : state'[p.req] # "unused" /\ arg'[p.req].by \in live'
    <3>. SUFFICES ASSUME NEW p \in pending' PROVE state'[p.req] # "unused" /\ arg[p.req].by \in live
      BY <2>8 DEF central
    <3>1. CASE p \in pending
      BY <1>0, <2>10, <3>1 DEF CallTypes
    <3>2. CASE p \notin pending
      <4>1. p.req = q
        BY <2>4, <3>2
      <4>. QED  BY <2>1, <2>8, <2>10, <4>1
    <3>. QED  BY <3>1, <3>2
  <2>12. \A x \in Requests : state'[x] # "unused" =>
           arg'[x] \in Called /\ home'[arg'[x].by] \in Groups /\ arg'[x].target \notin fresh'
    BY <1>0, <2>8, <2>10 DEF CallTypes, central
  <2>13. pending' \subseteq [req : Requests, nth : Nat, subject : Groups \cup {NoGroup}]
    BY <1>0, <2>4, <2>9 DEF CallTypes
  <2>14. /\ DOMAIN arg' = Requests /\ response' \in [Requests -> {"none", "written"}]
         /\ state' \in [Requests -> {"unused", "due", "dispatched", "responded", "settled"}]
    BY <1>0, <2>8 DEF CallTypes
  <2>. QED  BY <2>5, <2>6, <2>7, <2>11, <2>12, <2>13, <2>14 DEF CallTypes
<1>10. ASSUME NEW q \in Requests, Respond(q) PROVE CallTypes'
  BY <1>0, <1>10 DEF Respond, CallTypes, central
<1>11. ASSUME NEW q \in Requests, Settle(q) \/ Poll(q) PROVE CallTypes'
  BY <1>0, <1>11 DEF Settle, Poll, CallTypes, central
<1>12. CASE Crash
  <2>1. /\ state' = [q \in Requests |-> IF state[q] \in {"dispatched", "responded"} THEN "due" ELSE state[q]]
        /\ UNCHANGED <<central, pending, arg, response, asked, scoped, reached>>
    BY <1>12 DEF Crash
  <2>2. state' \in [Requests -> {"unused", "due", "dispatched", "responded", "settled"}]
    BY <1>0, <2>1 DEF CallTypes
  <2>3. \A x \in Requests : state'[x] # "unused" <=> state[x] # "unused"
    BY <1>0, <2>1 DEF CallTypes
  <2>. QED  BY <1>0, <2>1, <2>2, <2>3 DEF CallTypes, central
<1>. QED  BY <1>2, <1>3, <1>4, <1>5, <1>6, <1>7, <1>8, <1>9, <1>10, <1>11, <1>12, NextCases

LEMMA TypesStep == Types /\ [Next]_vars => Types'
BY CentralStep, SessionStep, MailStep, CallStep, HomeStep DEF Types, Kept

LEMMA TypesInvariant == Spec => []Types
BY TypesInit, TypesStep, PTL DEF Spec

\* Every row has the shape its table gives it: a destination belongs to a group
\* that exists, a session that is active to a group that exists, a pending
\* command to a session that is there, and a message names its sender's group.
THEOREM TypeCorrect == Spec => []TypeOK
<1>1. Types => TypeOK
  <2>. SUFFICES ASSUME Types PROVE TypeOK
    OBVIOUS
  <2>1. \A s \in Sessions : \A i \in 1..Len(inbox[s]) : inbox[s][i].from = home[inbox[s][i].source]
    BY DEF Types, MailTypes
  <2>2. /\ groups \subseteq Groups /\ fresh \subseteq Groups \ groups
        /\ home \in [Sessions -> Groups \cup {NoGroup}]
        /\ live \subseteq {s \in Sessions : home[s] \in groups}
        /\ dest \subseteq Dest /\ \A d \in dest : d.owner \in groups
        /\ scope \in [Groups -> Scopes]
    BY DEF Types, CentralTypes
  <2>. QED  BY <2>1, <2>2 DEF TypeOK, Types, SessionTypes, CallTypes
<1>. QED  BY <1>1, TypesInvariant, PTL

-----------------------------------------------------------------------------
(* The maps.  Each step either leaves what a map shows alone, or writes the  *)
(* map, or has a projection to come, or puts the session among the lagging.  *)

\* A session whose map is written, or whose container runs on as it was.
LEMMA Unmoved ==
  ASSUME MapCurrent, UNCHANGED <<home, live, dest, groups, projecting>>,
         \A s \in live \ lagging' : container'[s] # "none" =>
           \/ map'[s] = Resolved(home[s], dest, groups)
           \/ container[s] # "none" /\ map'[s] = map[s] /\ s \notin lagging
  PROVE  MapCurrent'
BY DEF MapCurrent

LEMMA MapWake ==
  ASSUME Types, MapCurrent, NEW s, Wake(s), UNCHANGED <<home, live, dest, groups, projecting>>
  PROVE  MapCurrent'
<1>1. SessionTypes /\ CentralTypes
  BY DEF Types
<1>2. map' = [map EXCEPT ![s] = Resolved(home[s], dest, groups)]
      /\ container' = [container EXCEPT ![s] = "waking"] /\ lagging' = lagging \ {s}
  BY DEF Wake
<1>3. \A r \in live : IF r = s THEN map'[r] = Resolved(home[r], dest, groups)
                      ELSE map'[r] = map[r] /\ container'[r] = container[r]
  BY <1>1, <1>2 DEF SessionTypes, CentralTypes
<1>. QED  BY <1>2, <1>3, Unmoved

LEMMA MapStopped ==
  ASSUME Types, MapCurrent, NEW gone, Stopped(gone), UNCHANGED <<home, live, dest, groups, projecting>>
  PROVE  MapCurrent'
<1>1. \A r \in live : IF r \in gone THEN container'[r] = "none"
                      ELSE map'[r] = map[r] /\ container'[r] = container[r]
  BY DEF Stopped, Types, CentralTypes
<1>. QED  BY <1>1, Unmoved DEF Stopped

LEMMA MapAdd ==
  ASSUME Types, MapCurrent, NEW h, NEW name, NEW target,
         AddDest(h, name, target) \/ RemoveDest(h, name)
  PROVE  MapCurrent'
<1>. SUFFICES ASSUME NEW s \in live \ lagging, container[s] # "none", projecting'[home[s]] = 0
              PROVE  map[s] = Resolved(home[s], dest', groups)
  BY DEF AddDest, RemoveDest, sessions, MapCurrent
<1>1. projecting' = [projecting EXCEPT ![h] = @ + 1]
  BY DEF AddDest, RemoveDest
<1>2. home[s] \in Groups /\ projecting \in [Groups -> Nat]
  BY DEF Types, CentralTypes, SessionTypes
<1>3. home[s] # h /\ projecting[home[s]] = 0
  BY <1>1, <1>2
<1>4. \A d : d.owner = home[s] => (d \in dest' <=> d \in dest)
  BY <1>3 DEF AddDest, RemoveDest
<1>5. Resolved(home[s], dest', groups) = Resolved(home[s], dest, groups)
  BY <1>4 DEF Resolved
<1>. QED  BY <1>3, <1>5 DEF MapCurrent

LEMMA MapDelete ==
  ASSUME Types, MapCurrent, NEW h, DeleteGroup(h)
  PROVE  MapCurrent'
<1>. SUFFICES ASSUME NEW s \in live' \ lagging', container[s] # "none", projecting[home[s]] = 0
              PROVE  map[s] = Resolved(home[s], dest', groups')
  BY DEF DeleteGroup, MapCurrent
<1>1. s \in live \ lagging /\ home[s] # h
  BY DEF DeleteGroup, OfGroup
<1>2. ~ \E d \in dest : d.owner = home[s] /\ d.target = h
  BY <1>1 DEF DeleteGroup
<1>3. \A d : d.owner = home[s] =>
        (d \in dest' /\ d.target \in groups' <=> d \in dest /\ d.target \in groups)
  BY <1>1, <1>2 DEF DeleteGroup
<1>4. Resolved(home[s], dest', groups') = Resolved(home[s], dest, groups)
  BY <1>3 DEF Resolved
<1>. QED  BY <1>1, <1>4 DEF MapCurrent

LEMMA MapHandle ==
  ASSUME Types, MapCurrent, NEW c, NEW h, Handle(c, h) \/ Fails(c, h)
  PROVE  MapCurrent'
<1>1. CASE RestartGroup(h)
  BY <1>1, MapStopped DEF RestartGroup, central
<1>2. CASE Fails(c, h)
  BY <1>2 DEF Fails, central, sessions, MapCurrent
<1>3. ASSUME NEW value, SetScope(h, value) PROVE MapCurrent'
  BY <1>3 DEF SetScope, sessions, MapCurrent
<1>. QED  BY <1>1, <1>2, <1>3, MapAdd, MapDelete DEF Handle

LEMMA MapCreate ==
  ASSUME Types, MapCurrent, NEW s, NEW name, CreateAgent(s, name)
  PROVE  MapCurrent'
<1>. DEFINE g == CHOOSE x \in fresh : TRUE
<1>0. CentralTypes /\ SessionTypes
  BY DEF Types
<1>1. g \in fresh /\ s \in live
  BY DEF CreateAgent
<1>2. /\ groups' = groups \cup {g}
      /\ dest' = dest \cup {[owner |-> home[s], name |-> name, target |-> g],
                            [owner |-> g, name |-> Parent, target |-> home[s]]}
      /\ map' = [map EXCEPT ![s] = Resolved(home[s], dest', groups')]
      /\ container' = IF container[s] = "none" THEN [container EXCEPT ![s] = "waking"] ELSE container
      /\ lagging' = (lagging \cup Running(home[s])) \ {s}
      /\ UNCHANGED <<home, live, projecting>>
  BY DEF CreateAgent
<1>. HIDE DEF g
<1>. SUFFICES ASSUME NEW r \in live, r \notin lagging', container'[r] # "none", projecting[home[r]] = 0
              PROVE  map'[r] = Resolved(home[r], dest', groups')
  BY <1>2 DEF MapCurrent
<1>3. CASE r = s
  BY <1>0, <1>2, <1>3 DEF SessionTypes, CentralTypes
<1>4. CASE r # s
  <2>1. map'[r] = map[r] /\ container[r] # "none"
    BY <1>0, <1>2, <1>4 DEF SessionTypes, CentralTypes
  <2>2. r \notin lagging /\ home[r] # home[s]
    BY <1>2, <1>4, <2>1 DEF Running, OfGroup
  <2>3. home[r] # g
    BY <1>0, <1>1 DEF CentralTypes
  <2>4. \A d : d.owner = home[r] =>
          (d \in dest' /\ d.target \in groups' <=> d \in dest /\ d.target \in groups)
    <3>1. \A d : d.owner = home[r] => (d \in dest' <=> d \in dest)
      BY <1>2, <2>2, <2>3
    <3>2. \A d \in dest : d.target # g
      BY <1>0, <1>1 DEF CentralTypes
    <3>. QED  BY <1>2, <3>1, <3>2
  <2>5. Resolved(home[r], dest', groups') = Resolved(home[r], dest, groups)
    BY <2>4 DEF Resolved
  <2>. QED  BY <2>1, <2>2, <2>5 DEF MapCurrent
<1>. QED  BY <1>3, <1>4

LEMMA MapRoute ==
  ASSUME Types, MapCurrent, NEW s \in Sessions, Route(s)
  PROVE  MapCurrent'
<1>0. CentralTypes /\ SessionTypes /\ out[s].to \in groups
  BY DEF Types, Route, Authorized
<1>1. UNCHANGED <<groups, dest, projecting>>
  BY DEF Route
<1>2. PICK t \in Targets(s, out[s]) :
        IF t \in live
        THEN (Wake(t) \/ (container[t] # "none" /\ UNCHANGED sessions)) /\ UNCHANGED <<home, live>>
        ELSE /\ home' = [home EXCEPT ![t] = out[s].to]
             /\ live' = live \cup {t}
             /\ container' = [container EXCEPT ![t] = "waking"]
             /\ map' = [map EXCEPT ![t] = Resolved(out[s].to, dest, groups)]
             /\ UNCHANGED lagging
  BY DEF Route
<1>3. CASE t \in live
  BY <1>1, <1>2, <1>3, MapWake DEF sessions, MapCurrent
<1>4. CASE t \notin live
  <2>1. t \in Sessions
    BY <1>0, <1>4, TargetsAre
  <2>2. home'[t] = out[s].to /\ map'[t] = Resolved(out[s].to, dest, groups)
    BY <1>0, <1>2, <1>4, <2>1 DEF CentralTypes, SessionTypes
  <2>3. \A r \in live : home'[r] = home[r] /\ map'[r] = map[r] /\ container'[r] = container[r]
    BY <1>0, <1>2, <1>4 DEF CentralTypes, SessionTypes
  <2>4. live' = live \cup {t} /\ UNCHANGED lagging
    BY <1>2, <1>4
  <2>. QED  BY <1>1, <2>2, <2>3, <2>4 DEF MapCurrent
<1>. QED  BY <1>3, <1>4

LEMMA MapProject ==
  ASSUME Types, MapCurrent, NEW g \in Groups, Project(g)
  PROVE  MapCurrent'
<1>1. /\ projecting' = [projecting EXCEPT ![g] = @ - 1]
      /\ map' = [s \in Sessions |-> IF s \in Running(g) THEN Resolved(g, dest, groups) ELSE map[s]]
      /\ lagging' = lagging \ OfGroup(g)
      /\ UNCHANGED <<home, live, dest, groups, container>>
  BY DEF Project, central
<1>. SUFFICES ASSUME NEW s \in live \ lagging', container[s] # "none", projecting'[home[s]] = 0
              PROVE  map'[s] = Resolved(home[s], dest, groups)
  BY <1>1 DEF MapCurrent
<1>2. s \in Sessions /\ home[s] \in Groups /\ projecting \in [Groups -> Nat]
  BY DEF Types, CentralTypes, SessionTypes
<1>3. CASE home[s] = g
  BY <1>1, <1>2, <1>3 DEF Running, OfGroup
<1>4. CASE home[s] # g
  <2>1. map'[s] = map[s] /\ projecting[home[s]] = 0 /\ s \notin lagging
    BY <1>1, <1>2, <1>4 DEF Running, OfGroup
  <2>. QED  BY <2>1 DEF MapCurrent
<1>. QED  BY <1>3, <1>4

LEMMA MapStep == Types /\ MapCurrent /\ [Next]_vars => MapCurrent'
<1>. SUFFICES ASSUME Types, MapCurrent, [Next]_vars PROVE MapCurrent'
  OBVIOUS
<1>0. SessionTypes
  BY DEF Types
<1>1. ASSUME UNCHANGED <<central, sessions, projecting>> PROVE MapCurrent'
  BY <1>1 DEF central, sessions, MapCurrent
<1>2. CASE UNCHANGED vars
  BY <1>1, <1>2 DEF vars
<1>3. ASSUME NEW s, WakeAlone(s) \/ Exit(s) PROVE MapCurrent'
  BY <1>3, MapWake, MapStopped DEF WakeAlone, Exit, central
<1>4. ASSUME NEW s, NEW ok, Spawned(s, ok) PROVE MapCurrent'
  <2>1. UNCHANGED <<home, live, dest, groups, projecting>>
    BY <1>4 DEF Spawned, central
  <2>2. CASE Stopped({s})
    BY <2>1, <2>2, MapStopped
  <2>3. CASE container' = [container EXCEPT ![s] = "up"] /\ UNCHANGED <<map, lagging>>
    <3>1. container[s] = "waking"
      BY <1>4 DEF Spawned
    <3>2. \A r \in live : container'[r] # "none" => container[r] # "none"
      BY <1>0, <2>3, <3>1 DEF SessionTypes, Types, CentralTypes
    <3>. QED  BY <2>1, <2>3, <3>2, Unmoved
  <2>. QED  BY <1>4, <2>2, <2>3 DEF Spawned
<1>5. ASSUME NEW c, HostCommand(c) PROVE MapCurrent'
  BY <1>5, MapHandle DEF HostCommand
<1>6. ASSUME NEW p, Approve(p) PROVE MapCurrent'
  BY <1>6, MapHandle DEF Approve
<1>7. ASSUME NEW x, NEW y, NEW z,
             \/ Undeliverable(x) \/ Send(x, y, z) \/ Call(x, y) \/ Dispatch(x) \/ Respond(x)
             \/ Settle(x) \/ Poll(x) \/ Reject(x)
      PROVE  MapCurrent'
  BY <1>1, <1>7 DEF Undeliverable, Send, Call, Dispatch, Respond, Settle, Poll, Reject
<1>8. CASE Crash
  <2>1. \A r \in live : container'[r] = "none"
    BY <1>8 DEF Crash, Stopped, Types, CentralTypes
  <2>2. live' = live
    BY <1>8 DEF Crash, central
  <2>. QED  BY <2>1, <2>2 DEF MapCurrent
<1>. QED  BY <1>2, <1>3, <1>4, <1>5, <1>6, <1>7, <1>8, MapCreate, MapRoute, MapProject, NextCases

\* The map that a container looks names up in is the central table's, but for
\* the sessions that are named as lagging, and while a projection is to come
\* (agent-destinations.ts:25).
THEOREM MapsAreCurrent == Spec => []MapCurrent
<1>1. Init => MapCurrent
  <2>. SUFFICES ASSUME Init PROVE MapCurrent
    OBVIOUS
  <2>1. \A s \in live : s \in Sessions /\ container[s] = "none"
    BY TypesInit DEF Types, CentralTypes, Init
  <2>. QED  BY <2>1 DEF MapCurrent
<1>. QED  BY <1>1, TypesInvariant, MapStep, PTL DEF Spec

-----------------------------------------------------------------------------
(* Messages and their replies.                                             *)

LEMMA RouteReturns ==
  ASSUME Types, NEW z \in Sessions, Route(z), NEW s \in Sessions, NEW t \in Sessions,
         inbox'[t] # inbox[t], inbox'[t][Len(inbox'[t])].source = s
  PROVE  /\ home'[t] = out[s].to
         /\ LET asking == inbox[s][out[s].re]
            IN out[s].re # 0 /\ asking.from = out[s].to /\ asking.source \in live
                 => t = asking.source
<1>0. CentralTypes /\ MailTypes /\ out[z].to \in groups /\ out[z] # None
  BY DEF Types, Route, Authorized
<1>1. PICK x \in Targets(z, out[z]) :
        /\ inbox' = [inbox EXCEPT ![x] = Append(@, [from |-> home[z], source |-> z])]
        /\ home' = home \/ (x \notin live /\ home' = [home EXCEPT ![x] = out[z].to])
        /\ x \in live => home' = home
        /\ x \notin live => home' = [home EXCEPT ![x] = out[z].to]
  BY DEF Route
<1>2. \/ x \in live /\ home[x] = out[z].to
      \/ x \in Sessions \ live /\ home[x] = NoGroup
  BY <1>0, <1>1, TargetsAre
<1>3. x = t /\ inbox'[t] = Append(inbox[t], [from |-> home[z], source |-> z])
  BY <1>0, <1>1 DEF MailTypes
<1>4. z = s
  <2>1. inbox[t] \in Seq([from : Groups, source : Sessions])
    BY <1>0 DEF MailTypes
  <2>2. Len(inbox'[t]) = Len(inbox[t]) + 1 /\ inbox'[t][Len(inbox[t]) + 1] = [from |-> home[z], source |-> z]
    BY <1>3, <2>1, Appended
  <2>. QED  BY <2>2
<1>5. home'[t] = out[s].to
  BY <1>0, <1>1, <1>2, <1>3, <1>4 DEF CentralTypes
<1>6. ASSUME out[s].re # 0, inbox[s][out[s].re].from = out[s].to, inbox[s][out[s].re].source \in live
      PROVE  t = inbox[s][out[s].re].source
  <2>1. out[s].re \in 1..Len(inbox[s])
    BY <1>0, <1>4, <1>6 DEF MailTypes
  <2>2. home[inbox[s][out[s].re].source] = out[s].to
    BY <1>0, <1>6, <2>1, MailRecord
  <2>3. DirectSource(s, out[s].re) = inbox[s][out[s].re].source /\ DirectSource(s, out[s].re) # 0
    BY <1>0, <1>6 DEF DirectSource, CentralTypes, Sessions
  <2>4. Candidate(s, out[s]) = {inbox[s][out[s].re].source}
    BY <1>6, <2>2, <2>3 DEF Candidate
  <2>. QED  BY <1>1, <1>3, <1>4, <2>4 DEF Targets
<1>. QED  BY <1>5, <1>6

\* A message between agents lands in a session of the group it was sent to, and
\* a reply in the very session that asked while it is there (agent-route.ts:121).
THEOREM RepliesReturn == Spec => ReplyReturns
<1>. DEFINE P == \A s, t \in Sessions :
       inbox'[t] # inbox[t] /\ inbox'[t][Len(inbox'[t])].source = s =>
         /\ home'[t] = out[s].to
         /\ LET asking == inbox[s][out[s].re]
            IN out[s].re # 0 /\ asking.from = out[s].to /\ asking.source \in live
                 => t = asking.source
<1>1. Types /\ [Next]_vars => [P]_vars
  <2>. SUFFICES ASSUME Types, Next PROVE P \/ UNCHANGED vars
    OBVIOUS
  <2>1. CASE UNCHANGED inbox
    BY <2>1
  <2>2. CASE \E z \in Sessions : Route(z)
    BY <2>2, RouteReturns
  <2>3. ASSUME NEW s, NEW x, NEW y,
               \/ WakeAlone(s) \/ Exit(s) \/ Undeliverable(s) \/ Spawned(s, x) \/ Send(s, x, y)
               \/ CreateAgent(s, x) \/ Project(s) \/ HostCommand(s) \/ Call(s, x) \/ Dispatch(s)
               \/ Respond(s) \/ Settle(s) \/ Poll(s) \/ Approve(s) \/ Reject(s) \/ Crash
        PROVE  UNCHANGED inbox
    BY <2>3 DEF WakeAlone, Exit, Undeliverable, Spawned, Send, CreateAgent, Project, HostCommand,
                Call, Dispatch, Respond, Settle, Poll, Approve, Reject, Crash, mail
  <2>. QED  BY <2>1, <2>2, <2>3, NextCases
<1>2. Spec => [][P]_vars
  BY <1>1, TypesInvariant, PTL DEF Spec
<1>. QED  BY <1>2 DEF ReplyReturns

-----------------------------------------------------------------------------
(* Calls.                                                                  *)

\* A call whose row was never given back to the delivery by a crash.
AskInv ==
  \A q \in Requests \ faulted :
    /\ state[q] \in {"unused", "due"} => asked[q] = 0
    /\ state[q] \in {"unused", "due", "dispatched"} => response[q] = "none"
    /\ asked[q] <= 1

\* What a call has reached, and may yet reach when it is approved, is what the
\* scope of its dispatch admits.
Confined(q, extent) ==
  reached[q] \subseteq extent /\ \A p \in pending : p.req = q => p.subject \in extent

ScopeInv ==
  \A q \in Requests :
    /\ state[q] = "unused" => scoped[q] = {}
    /\ scoped[q] \in {{}, {"disabled"}} => Confined(q, {})
    /\ scoped[q] = {"group"} => Confined(q, {Own(q)})

LEMMA AskStep == Types /\ AskInv /\ [Next]_vars => AskInv'
<1>. SUFFICES ASSUME Types, AskInv, [Next]_vars PROVE AskInv'
  OBVIOUS
<1>0. CallTypes
  BY DEF Types
<1>1. ASSUME UNCHANGED <<state, asked, response, faulted>> PROVE AskInv'
  BY <1>1 DEF AskInv
<1>2. CASE UNCHANGED vars
  BY <1>1, <1>2 DEF vars, calls
<1>3. ASSUME NEW s, NEW x, NEW y,
             \/ WakeAlone(s) \/ Exit(s) \/ Undeliverable(s) \/ Spawned(s, x) \/ Send(s, x, y)
             \/ Route(s) \/ CreateAgent(s, x) \/ Project(s) \/ HostCommand(s) \/ Approve(s)
             \/ Reject(s) \/ Poll(s)
      PROVE  AskInv'
  BY <1>1, <1>3 DEF WakeAlone, Exit, Undeliverable, Spawned, Send, Route, CreateAgent, Project,
                    HostCommand, Approve, Reject, Poll, calls
<1>4. ASSUME NEW q \in Requests, NEW c, Call(q, c) PROVE AskInv'
  BY <1>0, <1>4 DEF Call, AskInv, CallTypes
<1>5. ASSUME NEW q \in Requests, Dispatch(q) PROVE AskInv'
  <2>1. /\ state[q] = "due" /\ state' = [state EXCEPT ![q] = "dispatched"]
        /\ asked' = asked \/ asked' = [asked EXCEPT ![q] = @ + 1]
        /\ UNCHANGED <<response, faulted>>
    BY <1>5 DEF Dispatch
  <2>. QED  BY <1>0, <2>1 DEF AskInv, CallTypes
<1>6. ASSUME NEW q \in Requests, Respond(q) PROVE AskInv'
  <2>1. UNCHANGED <<asked, faulted>> /\ state[q] = "dispatched"
    BY <1>6 DEF Respond
  <2>2. CASE q \in faulted
    <3>1. \A r \in Requests \ {q} : state'[r] = state[r] /\ response'[r] = response[r]
      BY <1>0, <1>6 DEF Respond, CallTypes
    <3>. QED  BY <2>1, <2>2, <3>1 DEF AskInv
  <2>3. CASE q \notin faulted
    <3>1. response' = [response EXCEPT ![q] = "written"] /\ state' = [state EXCEPT ![q] = "responded"]
      BY <1>6, <2>1, <2>3 DEF Respond, AskInv
    <3>. QED  BY <1>0, <2>1, <3>1 DEF AskInv, CallTypes
  <2>. QED  BY <2>2, <2>3
<1>7. ASSUME NEW q \in Requests, Settle(q) PROVE AskInv'
  BY <1>0, <1>7 DEF Settle, AskInv, CallTypes
<1>8. CASE Crash
  <2>1. /\ state' = [q \in Requests |-> IF state[q] \in {"dispatched", "responded"} THEN "due" ELSE state[q]]
        /\ faulted' = faulted \cup {q \in Requests : state[q] \in {"dispatched", "responded"}}
        /\ UNCHANGED <<asked, response>>
    BY <1>8 DEF Crash
  <2>2. \A q \in Requests \ faulted' : q \notin faulted /\ state'[q] = state[q]
    BY <2>1
  <2>. QED  BY <2>1, <2>2 DEF AskInv
<1>. QED  BY <1>2, <1>3, <1>4, <1>5, <1>6, <1>7, <1>8, NextCases

\* A call is put before the admin once, unless the host dies before the row of
\* the call is settled (delivery-action.ts:41).
THEOREM CallsAreAskedOnce == Spec => []AskedOnce
<1>1. Init => AskInv
  BY DEF Init, AskInv
<1>2. AskInv => AskedOnce
  BY DEF AskInv, AskedOnce
<1>. QED  BY <1>1, <1>2, AskStep, TypesInvariant, PTL DEF Spec

\* Who calls keeps its group.
LEMMA OwnStays ==
  ASSUME Types, [Next]_vars, NEW q \in Requests, state[q] # "unused", arg'[q] = arg[q]
  PROVE  Own(q)' = Own(q)
<1>1. home[arg[q].by] \in Groups /\ arg[q].by \in Sessions
  BY GroupsAssumption DEF Types, CallTypes, Calls
<1>2. home'[arg[q].by] = home[arg[q].by]
  BY <1>1, CentralStep DEF Kept
<1>. QED  BY <1>2 DEF Own

\* A step that adds nothing to what a call has reached or waits for.
LEMMA ScopeSame ==
  ASSUME Types, [Next]_vars, ScopeInv, UNCHANGED <<arg, scoped, reached>>, pending' \subseteq pending,
         \A q \in Requests : state[q] # "unused" <=> state'[q] # "unused"
  PROVE  ScopeInv'
<1>. SUFFICES ASSUME NEW q \in Requests
              PROVE  /\ state'[q] = "unused" => scoped[q] = {}
                     /\ scoped[q] \in {{}, {"disabled"}} => Confined(q, {})'
                     /\ scoped[q] = {"group"} => Confined(q, {Own(q)})'
  BY DEF ScopeInv
<1>1. state'[q] = "unused" => scoped[q] = {}
  BY DEF ScopeInv
<1>2. scoped[q] \in {{}, {"disabled"}} => Confined(q, {})'
  BY DEF ScopeInv, Confined
<1>3. ASSUME scoped[q] = {"group"} PROVE Confined(q, {Own(q)})'
  <2>1. state[q] # "unused"
    BY <1>3 DEF ScopeInv
  <2>2. Own(q)' = Own(q)
    BY <2>1, OwnStays
  <2>3. Confined(q, {Own(q)})
    BY <1>3 DEF ScopeInv
  <2>. QED  BY <2>2, <2>3 DEF Confined
<1>. QED  BY <1>1, <1>2, <1>3

LEMMA ScopeCall ==
  ASSUME Types, [Next]_vars, ScopeInv, NEW q \in Requests, NEW c, Call(q, c)
  PROVE  ScopeInv'
<1>0. CallTypes
  BY DEF Types
<1>1. /\ state[q] = "unused" /\ state' = [state EXCEPT ![q] = "due"] /\ arg' = [arg EXCEPT ![q] = c]
      /\ UNCHANGED <<pending, scoped, reached>>
  BY DEF Call
<1>2. scoped[q] = {} /\ Confined(q, {})
  BY <1>1 DEF ScopeInv
<1>. SUFFICES ASSUME NEW r \in Requests
              PROVE  /\ state'[r] = "unused" => scoped[r] = {}
                     /\ scoped[r] \in {{}, {"disabled"}} => Confined(r, {})'
                     /\ scoped[r] = {"group"} => Confined(r, {Own(r)})'
  BY <1>1 DEF ScopeInv
<1>3. state'[r] = "unused" => scoped[r] = {}
  BY <1>0, <1>1, <1>2 DEF ScopeInv, CallTypes
<1>4. scoped[r] \in {{}, {"disabled"}} => Confined(r, {})'
  BY <1>1 DEF ScopeInv, Confined
<1>5. ASSUME scoped[r] = {"group"} PROVE Confined(r, {Own(r)})'
  <2>1. r # q /\ state[r] # "unused"
    BY <1>2, <1>5 DEF ScopeInv
  <2>2. arg'[r] = arg[r]
    BY <1>0, <1>1, <2>1 DEF CallTypes
  <2>3. Own(r)' = Own(r) /\ Confined(r, {Own(r)})
    BY <1>5, <2>1, <2>2, OwnStays DEF ScopeInv
  <2>. QED  BY <1>1, <2>3 DEF Confined
<1>. QED  BY <1>3, <1>4, <1>5

\* What a scoped call is about is the caller's own group.
LEMMA ScopedSubject ==
  ASSUME NEW q, scope[Own(q)] = "group", ~ Forbidden(q)
  PROVE  Subject(q) = Own(q) /\ Listed(q) \subseteq {Own(q)}
BY DEF Forbidden, Subject, Listed

LEMMA ScopeDispatch ==
  ASSUME Types, [Next]_vars, ScopeInv, NEW q \in Requests, Dispatch(q)
  PROVE  ScopeInv'
<1>. DEFINE row == [req |-> q, nth |-> asked[q], subject |-> Subject(q)]
<1>0. CallTypes /\ CentralTypes
  BY DEF Types
<1>1. /\ state[q] = "due" /\ state' = [state EXCEPT ![q] = "dispatched"]
      /\ scoped' = [scoped EXCEPT ![q] = @ \cup {scope[Own(q)]}]
      /\ UNCHANGED <<central, arg>>
  BY DEF Dispatch
<1>2. \/ UNCHANGED <<reached, pending>>
      \/ ~ Forbidden(q) /\ reached' = [reached EXCEPT ![q] = @ \cup Listed(q)] /\ UNCHANGED pending
      \/ ~ Forbidden(q) /\ reached' = reached /\ pending' = pending \cup {row}
  BY DEF Dispatch
<1>3. \A r \in Requests \ {q} : /\ state'[r] = state[r] /\ scoped'[r] = scoped[r] /\ reached'[r] = reached[r]
                                /\ \A p \in pending' : p.req = r => p \in pending
  BY <1>0, <1>1, <1>2 DEF CallTypes
<1>4. \A r \in Requests : state[r] # "unused" => Own(r)' = Own(r)
  BY <1>1, OwnStays
<1>5. \A r \in Requests \ {q} : /\ state'[r] = "unused" => scoped'[r] = {}
                                /\ scoped'[r] \in {{}, {"disabled"}} => Confined(r, {})'
                                /\ scoped'[r] = {"group"} => Confined(r, {Own(r)})'
  <2>. SUFFICES ASSUME NEW r \in Requests \ {q}
                PROVE  /\ state'[r] = "unused" => scoped'[r] = {}
                       /\ scoped'[r] \in {{}, {"disabled"}} => Confined(r, {})'
                       /\ scoped'[r] = {"group"} => Confined(r, {Own(r)})'
    OBVIOUS
  <2>1. state'[r] = "unused" => scoped'[r] = {}
    BY <1>3 DEF ScopeInv
  <2>2. scoped'[r] \in {{}, {"disabled"}} => Confined(r, {})'
    BY <1>3 DEF ScopeInv, Confined
  <2>3. ASSUME scoped'[r] = {"group"} PROVE Confined(r, {Own(r)})'
    <3>1. state[r] # "unused" /\ Confined(r, {Own(r)})
      BY <1>3, <2>3 DEF ScopeInv
    <3>. QED  BY <1>3, <1>4, <3>1 DEF Confined
  <2>. QED  BY <2>1, <2>2, <2>3
<1>6. scoped'[q] = scoped[q] \cup {scope[Own(q)]} /\ state'[q] = "dispatched" /\ Own(q)' = Own(q)
  BY <1>0, <1>1, <1>4 DEF CallTypes
<1>7. ASSUME scoped'[q] = {"disabled"} PROVE Confined(q, {})'
  <2>1. scope[Own(q)] = "disabled" /\ scoped[q] \in {{}, {"disabled"}}
    BY <1>6, <1>7
  <2>2. UNCHANGED <<reached, pending>>
    BY <1>2, <2>1 DEF Forbidden
  <2>. QED  BY <2>1, <2>2 DEF ScopeInv, Confined
<1>8. ASSUME scoped'[q] = {"group"} PROVE Confined(q, {Own(q)})'
  <2>1. scope[Own(q)] = "group" /\ scoped[q] \in {{}, {"group"}}
    BY <1>6, <1>8
  <2>2. Confined(q, {Own(q)})
    BY <2>1 DEF ScopeInv, Confined
  <2>3. CASE UNCHANGED <<reached, pending>>
    BY <1>6, <2>2, <2>3 DEF Confined
  <2>4. CASE ~ Forbidden(q)
    <3>1. Subject(q) = Own(q) /\ Listed(q) \subseteq {Own(q)}
      BY <2>1, <2>4, ScopedSubject
    <3>2. reached'[q] \subseteq {Own(q)}
      BY <1>0, <1>2, <2>2, <3>1 DEF Confined, CallTypes
    <3>3. \A p \in pending' : p.req = q => p.subject = Own(q)
      BY <1>2, <2>2, <3>1 DEF Confined
    <3>. QED  BY <1>6, <3>2, <3>3 DEF Confined
  <2>. QED  BY <1>2, <2>3, <2>4
<1>9. scoped'[q] # {}
  BY <1>6
<1>. QED  BY <1>5, <1>6, <1>7, <1>8, <1>9 DEF ScopeInv

LEMMA ScopeApprove ==
  ASSUME Types, [Next]_vars, ScopeInv, NEW p \in pending, Approve(p)
  PROVE  ScopeInv'
<1>0. CallTypes /\ p.req \in Requests
  BY DEF Types, CallTypes
<1>1. reached' = [reached EXCEPT ![p.req] = @ \cup {p.subject}] /\ UNCHANGED <<arg, scoped, state>>
  BY DEF Approve, calls
<1>2. pending' \subseteq pending
  BY DEF Approve, StaysPending
<1>. SUFFICES ASSUME NEW r \in Requests
              PROVE  /\ state[r] = "unused" => scoped[r] = {}
                     /\ scoped[r] \in {{}, {"disabled"}} => Confined(r, {})'
                     /\ scoped[r] = {"group"} => Confined(r, {Own(r)})'
  BY <1>1 DEF ScopeInv
<1>3. ASSUME NEW extent, Confined(r, extent)
      PROVE  reached'[r] \subseteq extent /\ \A x \in pending' : x.req = r => x.subject \in extent
  BY <1>0, <1>1, <1>2, <1>3 DEF Confined, CallTypes
<1>4. scoped[r] \in {{}, {"disabled"}} => Confined(r, {})'
  BY <1>3 DEF ScopeInv, Confined
<1>5. ASSUME scoped[r] = {"group"} PROVE Confined(r, {Own(r)})'
  <2>1. state[r] # "unused" /\ Confined(r, {Own(r)})
    BY <1>5 DEF ScopeInv
  <2>2. Own(r)' = Own(r)
    BY <1>1, <2>1, OwnStays
  <2>. QED  BY <1>3, <2>1, <2>2 DEF Confined
<1>. QED  BY <1>4, <1>5 DEF ScopeInv

LEMMA ScopeStep == Types /\ ScopeInv /\ [Next]_vars => ScopeInv'
<1>. SUFFICES ASSUME Types, ScopeInv, [Next]_vars PROVE ScopeInv'
  OBVIOUS
<1>0. CallTypes
  BY DEF Types
<1>1. ASSUME UNCHANGED <<arg, state, scoped, reached>>, pending' \subseteq pending PROVE ScopeInv'
  BY <1>1, ScopeSame
<1>2. CASE UNCHANGED vars
  BY <1>1, <1>2 DEF vars, calls
<1>3. ASSUME NEW s, NEW x, NEW y,
             \/ WakeAlone(s) \/ Exit(s) \/ Undeliverable(s) \/ Spawned(s, x) \/ Send(s, x, y)
             \/ Route(s) \/ CreateAgent(s, x) \/ Project(s) \/ Reject(s) \/ Poll(s)
      PROVE  ScopeInv'
  BY <1>1, <1>3 DEF WakeAlone, Exit, Undeliverable, Spawned, Send, Route, CreateAgent, Project,
                    Reject, Poll, calls
<1>4. ASSUME NEW c, HostCommand(c) PROVE ScopeInv'
  <2>1. pending' \subseteq pending
    BY <1>4 DEF HostCommand, StaysPending
  <2>. QED  BY <1>1, <1>4, <2>1 DEF HostCommand, calls
<1>5. ASSUME NEW q \in Requests, Respond(q) \/ Settle(q) PROVE ScopeInv'
  <2>1. state[q] # "unused" /\ \E x \in {"responded", "settled", "due"} : state' = [state EXCEPT ![q] = x]
    BY <1>5 DEF Respond, Settle
  <2>2. \A r \in Requests : state[r] # "unused" <=> state'[r] # "unused"
    BY <1>0, <2>1 DEF CallTypes
  <2>3. UNCHANGED <<arg, scoped, reached, pending>>
    BY <1>5 DEF Respond, Settle
  <2>. QED  BY <2>2, <2>3, ScopeSame
<1>6. CASE Crash
  <2>1. \A r \in Requests : state[r] # "unused" <=> state'[r] # "unused"
    BY <1>0, <1>6 DEF CallTypes, Crash
  <2>2. UNCHANGED <<arg, scoped, reached, pending>>
    BY <1>6 DEF Crash
  <2>. QED  BY <2>1, <2>2, ScopeSame
<1>. QED  BY <1>2, <1>3, <1>4, <1>5, <1>6, ScopeCall, ScopeDispatch, ScopeApprove, NextCases

\* An agent whose commands are scoped to its group sees and changes no other,
\* also when an admin approves the command; a disabled one reaches nothing
\* (dispatch.ts:42).
THEOREM CallsAreConfined == Spec => []ScopeConfined
<1>1. Init => ScopeInv
  BY DEF Init, ScopeInv, Confined
<1>2. ScopeInv => ScopeConfined
  BY DEF ScopeInv, Confined, ScopeConfined
<1>. QED  BY <1>1, <1>2, ScopeStep, TypesInvariant, PTL DEF Spec
=============================================================================

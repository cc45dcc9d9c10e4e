-------------------------- MODULE AdmissionProofs --------------------------
(***************************************************************************)
(* Proofs about Admission, for any channels, senders, agents, wirings and  *)
(* messages.  The order: types, and where passes and requests come from;   *)
(* whom an agent is woken for; what a refusal keeps; settled channels; and *)
(* what a granted message still has ahead of it.                           *)
(***************************************************************************)
EXTENDS Admission, TLAPS

\* The tables as they are declared.
Tables ==
  /\ arrived \subseteq Events /\ known \subseteq Channels /\ denied \subseteq Channels
  /\ wires \in [Channels -> Seq(Wires)]
  /\ members \subseteq Senders \X Groups
  /\ sessions \subseteq Groups \X Channels
  /\ stored \in [Groups -> [Events -> {"no", "context", "trigger"}]]

\* A pass goes through wirings of its message's channel.
PassTypes ==
  /\ passes \subseteq [event : Events, by : Groups \cup {NoGroup}, rest : Seq(Wires) \ {<<>>}]
  /\ \A p \in passes : \A i \in DOMAIN p.rest :
       \E j \in DOMAIN wires[Channel[p.event]] : wires[Channel[p.event]][j] = p.rest[i]

\* Who asks about a sender has a wiring, and a channel's row is about a message in it.
FlowTypes ==
  /\ asking \subseteq Requests
  /\ senderRows \subseteq [event : Events, agent : Groups, card : BOOLEAN]
  /\ \A r \in asking : r.kind = "sender" => wires[Channel[r.event]] # <<>>
  /\ \A r \in senderRows : wires[Channel[r.event]] # <<>>
  /\ channelRows \in [Channels -> Events \cup {NoEvent}]
  /\ \A c \in Channels : channelRows[c] # NoEvent => Channel[channelRows[c]] = c
  /\ shown \subseteq Channels
  /\ prompts \subseteq [channel : Channels, at : {"dm", "sent"}]
  /\ naming \in Channels \cup {NoChannel}

Histories == granted \subseteq Events \X Groups /\ refused \subseteq Events \X Groups

Types == Tables /\ PassTypes /\ FlowTypes /\ Histories

\* What every step keeps of the tables.
Grows ==
  /\ sessions \subseteq sessions' /\ members \subseteq members' /\ denied \subseteq denied'
  /\ \A c \in Channels : \A i \in DOMAIN wires[c] : i \in DOMAIN wires'[c] /\ wires'[c][i] = wires[c][i]

LEMMA NextCases ==
  ASSUME Next
  PROVE  \/ \E e \in Events : Arrive(e)
         \/ \E p \in passes : Visit(p)
         \/ \E r \in asking, reachable \in BOOLEAN, card \in BOOLEAN : AskSender(r, reachable, card)
         \/ \E r \in asking, reachable \in BOOLEAN, card \in BOOLEAN : AskChannel(r, reachable, card)
         \/ \E row \in senderRows : AllowSender(row)
         \/ \E row \in senderRows : DenySender(row)
         \/ \E c \in Channels : Reject(c)
         \/ \E c \in Channels : ClickNew(c)
         \/ \E c \in Channels, a \in Agents : Connect(c, a)
         \/ \E q \in prompts, ok \in BOOLEAN : Prompt(q, ok) \/ Prompted(q, ok)
         \/ \E a \in NewAgents \cup {NoGroup} : NameReply(a)
         \/ Crash
BY DEF Next

LEMMA TypesInit == Init => Types
<1>. SUFFICES ASSUME Init PROVE Types
  OBVIOUS
<1>1. Tables
  BY AdmissionAssumption DEF Init, Tables
<1>2. PassTypes /\ Histories
  BY DEF Init, PassTypes, Histories
<1>3. FlowTypes
  BY DEF Init, FlowTypes
<1>. QED  BY <1>1, <1>2, <1>3 DEF Types

LEMMA ElementTyped ==
  ASSUME NEW S, NEW q \in Seq(S), NEW i \in DOMAIN q
  PROVE  q[i] \in S
OBVIOUS

LEMMA HeadTyped ==
  ASSUME NEW S, NEW q \in Seq(S), q # <<>>
  PROVE  /\ 1 \in DOMAIN q /\ Head(q) = q[1] /\ Head(q) \in S
         /\ Len(q) \in Nat \ {0}
         /\ Tail(q) \in Seq(S)
         /\ Len(q) # 1 => Tail(q) # <<>>
         /\ \A i \in DOMAIN Tail(q) : i + 1 \in DOMAIN q /\ Tail(q)[i] = q[i + 1]
<1>1. Len(q) \in Nat \ {0} /\ DOMAIN q = 1..Len(q)
  OBVIOUS
<1>2. Len(Tail(q)) = Len(q) - 1 /\ Tail(q) \in Seq(S)
  BY <1>1
<1>3. \A i \in 1..(Len(q) - 1) : Tail(q)[i] = q[i + 1]
  BY <1>1
<1>4. DOMAIN Tail(q) = 1..(Len(q) - 1)
  BY <1>1, <1>2
<1>5. Len(q) # 1 => Tail(q) # <<>>
  <2>1. Len(q) # 1 => Len(Tail(q)) # 0
    BY <1>1, <1>2
  <2>2. Len(<<>>) = 0
    OBVIOUS
  <2>. QED  BY <2>1, <2>2
<1>. QED  BY <1>1, <1>2, <1>3, <1>4, <1>5

LEMMA Appended ==
  ASSUME NEW S, NEW q \in Seq(S), NEW x \in S
  PROVE  /\ Append(q, x) \in Seq(S) /\ Append(q, x) # <<>>
         /\ \A i \in DOMAIN q : i \in DOMAIN Append(q, x) /\ Append(q, x)[i] = q[i]
         /\ Len(q) + 1 \in DOMAIN Append(q, x) /\ Append(q, x)[Len(q) + 1] = x
         /\ \A i \in DOMAIN Append(q, x) : i \in DOMAIN q \/ i = Len(q) + 1
         /\ Len(q) + 1 \notin DOMAIN q
<1>1. DOMAIN q = 1..Len(q) /\ Len(q) \in Nat /\ DOMAIN Append(q, x) = 1..(Len(q) + 1)
  OBVIOUS
<1>2. Append(q, x) \in Seq(S) /\ Append(q, x) # <<>>
  BY <1>1
<1>. QED  BY <1>1, <1>2

-----------------------------------------------------------------------------
(* Types.                                                                  *)

\* A wiring that is registered.
LEMMA NewWireTyped ==
  ASSUME NEW c \in Channels, NEW a \in Groups
  PROVE  NewWire(c, a) \in Wires
<1>1. Group[c] \in BOOLEAN
  BY AdmissionAssumption
<1>. QED  BY <1>1 DEF NewWire, Wires, Modes

\* A step that leaves the wirings alone.
LEMMA GrowsSame ==
  ASSUME UNCHANGED wires, sessions \subseteq sessions', members \subseteq members', denied \subseteq denied'
  PROVE  Grows
BY DEF Grows

\* What registering an agent in a channel does to the tables and the passes.
LEMMA RegisterTyped ==
  ASSUME Types, NEW c \in Channels, NEW a \in Groups, Register(c, a), channelRows[c] # NoEvent,
         UNCHANGED <<arrived, known, denied, sessions, stored, asking, senderRows, shown, prompts, refused>>,
         naming' \in Channels \cup {NoChannel}
  PROVE  Types' /\ Grows
<1>. DEFINE e == channelRows[c]
<1>0. Tables /\ PassTypes /\ FlowTypes /\ Histories
  BY DEF Types
<1>1. e \in Events /\ Channel[e] = c /\ Sender[e] \in Senders
  BY <1>0, AdmissionAssumption DEF FlowTypes
<1>2. /\ wires' = [wires EXCEPT ![c] = Append(@, NewWire(c, a))]
      /\ members' = members \cup {<<Sender[e], a>>}
      /\ channelRows' = [channelRows EXCEPT ![c] = NoEvent]
      /\ passes' = passes \cup {[event |-> e, by |-> a, rest |-> wires'[c]]}
      /\ granted' \subseteq granted \cup {<<e, a>>}
  BY DEF Register, Grant
<1>. HIDE DEF e
<1>3. wires[c] \in Seq(Wires) /\ NewWire(c, a) \in Wires
  BY <1>0, NewWireTyped DEF Tables
<1>4. /\ wires'[c] = Append(wires[c], NewWire(c, a)) /\ wires'[c] \in Seq(Wires) \ {<<>>}
      /\ \A d \in Channels \ {c} : wires'[d] = wires[d]
  BY <1>0, <1>2, <1>3, Appended DEF Tables
<1>5. wires' \in [Channels -> Seq(Wires)]
  BY <1>0, <1>2, <1>4 DEF Tables
<1>6. \A d \in Channels : \A i \in DOMAIN wires[d] : i \in DOMAIN wires'[d] /\ wires'[d][i] = wires[d][i]
  BY <1>3, <1>4, Appended
<1>7. Grows
  BY <1>2, <1>6 DEF Grows
<1>8. Tables'
  BY <1>0, <1>1, <1>2, <1>5 DEF Tables
<1>9. PassTypes'
  <2>1. passes' \subseteq [event : Events, by : Groups \cup {NoGroup}, rest : Seq(Wires) \ {<<>>}]
    <3>1. [event |-> e, by |-> a, rest |-> wires'[c]]
            \in [event : Events, by : Groups \cup {NoGroup}, rest : Seq(Wires) \ {<<>>}]
      BY <1>1, <1>4
    <3>. QED  BY <1>0, <1>2, <3>1 DEF PassTypes
  <2>2. \A p \in passes : Channel[p.event] \in Channels
    BY <1>0, AdmissionAssumption DEF PassTypes
  <2>3. \A p \in passes : \A i \in DOMAIN p.rest :
          \E j \in DOMAIN wires'[Channel[p.event]] : wires'[Channel[p.event]][j] = p.rest[i]
    BY <1>0, <1>6, <2>2 DEF PassTypes
  <2>4. \A p \in passes' : \A i \in DOMAIN p.rest :
          \E j \in DOMAIN wires'[Channel[p.event]] : wires'[Channel[p.event]][j] = p.rest[i]
    <3>. SUFFICES ASSUME NEW p \in passes', p \notin passes
                  PROVE  \A i \in DOMAIN p.rest :
                    \E j \in DOMAIN wires'[Channel[p.event]] : wires'[Channel[p.event]][j] = p.rest[i]
      BY <2>3
    <3>1. p = [event |-> e, by |-> a, rest |-> wires'[c]]
      BY <1>2
    <3>2. p.event = e /\ p.rest = wires'[c]
      BY <3>1
    <3>. QED  BY <1>1, <3>2
  <2>. QED  BY <2>1, <2>4 DEF PassTypes
<1>10. FlowTypes'
  <2>1. channelRows' \in [Channels -> Events \cup {NoEvent}]
    BY <1>0, <1>2 DEF FlowTypes
  <2>2. \A d \in Channels : channelRows'[d] # NoEvent => Channel[channelRows'[d]] = d
    BY <1>0, <1>2 DEF FlowTypes
  <2>3. \A x \in Events : wires[Channel[x]] # <<>> => wires'[Channel[x]] # <<>>
    BY <1>4, AdmissionAssumption
  <2>4. /\ \A r \in asking : r.kind = "sender" => wires'[Channel[r.event]] # <<>>
        /\ \A r \in senderRows : wires'[Channel[r.event]] # <<>>
    BY <1>0, <2>3 DEF FlowTypes, Requests
  <2>. QED  BY <1>0, <2>1, <2>2, <2>4 DEF FlowTypes
<1>11. Histories'
  BY <1>0, <1>1, <1>2 DEF Histories
<1>. QED  BY <1>7, <1>8, <1>9, <1>10, <1>11 DEF Types

\* A pass with its first wiring done.
LEMMA Shorter ==
  ASSUME NEW p \in [event : Events, by : Groups \cup {NoGroup}, rest : Seq(Wires) \ {<<>>}],
         Len(p.rest) # 1
  PROVE  \E q \in [event : Events, by : Groups \cup {NoGroup}, rest : Seq(Wires) \ {<<>>}] :
           /\ q = [p EXCEPT !.rest = Tail(@)]
           /\ q.event = p.event /\ q.by = p.by /\ q.rest = Tail(p.rest)
<1>1. p.rest \in Seq(Wires) /\ p.rest # <<>>
  OBVIOUS
<1>2. Tail(p.rest) \in Seq(Wires) /\ Tail(p.rest) # <<>>
  BY <1>1, HeadTyped
<1>3. p.event \in Events /\ p.by \in Groups \cup {NoGroup}
  OBVIOUS
<1>4. PICK t : t = Tail(p.rest)
  OBVIOUS
<1>5. t \in Seq(Wires) \ {<<>>}
  BY <1>2, <1>4
<1>6. [p EXCEPT !.rest = Tail(@)] = [event |-> p.event, by |-> p.by, rest |-> t]
  <2>1. p = [event |-> p.event, by |-> p.by, rest |-> p.rest]
    OBVIOUS
  <2>2. [p EXCEPT !.rest = Tail(@)] = [p EXCEPT !.rest = t]
    BY <1>4
  <2>3. [[event |-> p.event, by |-> p.by, rest |-> p.rest] EXCEPT !.rest = t] = [event |-> p.event, by |-> p.by, rest |-> t]
    OBVIOUS
  <2>. QED  BY <2>1, <2>2, <2>3
<1>7. [event |-> p.event, by |-> p.by, rest |-> t]
        \in [event : Events, by : Groups \cup {NoGroup}, rest : Seq(Wires) \ {<<>>}]
  BY <1>3, <1>5
<1>. QED  BY <1>4, <1>6, <1>7

LEMMA RestTyped ==
  ASSUME Types, NEW p \in passes, NEW thrown, passes' = Rest(p, thrown), UNCHANGED wires
  PROVE  PassTypes'
<1>. DEFINE Declared == [event : Events, by : Groups \cup {NoGroup}, rest : Seq(Wires) \ {<<>>}]
<1>. HIDE DEF Declared
<1>0. /\ passes \subseteq Declared
      /\ \A x \in passes : \A i \in DOMAIN x.rest :
           \E j \in DOMAIN wires[Channel[x.event]] : wires[Channel[x.event]][j] = x.rest[i]
  BY DEF Types, PassTypes, Declared
<1>1. CASE passes' \subseteq passes
  <2>1. passes' \subseteq Declared
    BY <1>0, <1>1
  <2>. QED  BY <1>0, <1>1, <2>1 DEF PassTypes, Declared
<1>2. CASE Len(p.rest) # 1 /\ passes' = (passes \ {p}) \cup {[p EXCEPT !.rest = Tail(@)]}
  <2>1. PICK q \in Declared : /\ q = [p EXCEPT !.rest = Tail(@)]
                              /\ q.event = p.event /\ q.rest = Tail(p.rest)
    BY <1>0, <1>2, Shorter DEF Declared
  <2>2. passes' \subseteq passes \cup {q}
    BY <1>2, <2>1
  <2>3. passes' \subseteq Declared
    BY <1>0, <2>1, <2>2
  <2>4. p.rest \in Seq(Wires) /\ p.rest # <<>>
    BY <1>0 DEF Declared
  <2>5. \A i \in DOMAIN q.rest : i + 1 \in DOMAIN p.rest /\ q.rest[i] = p.rest[i + 1]
    BY <2>1, <2>4, HeadTyped
  <2>6. \A i \in DOMAIN q.rest :
          \E j \in DOMAIN wires[Channel[q.event]] : wires[Channel[q.event]][j] = q.rest[i]
    BY <1>0, <2>1, <2>5
  <2>7. \A x \in passes' : \A i \in DOMAIN x.rest :
          \E j \in DOMAIN wires'[Channel[x.event]] : wires'[Channel[x.event]][j] = x.rest[i]
    BY <1>0, <2>2, <2>6
  <2>. QED  BY <2>3, <2>7 DEF PassTypes, Declared
<1>. QED  BY <1>1, <1>2 DEF Rest

\* The wiring a pass is at.
LEMMA HeadIsWire ==
  ASSUME Types, NEW p \in passes
  PROVE  /\ p.event \in Events /\ Channel[p.event] \in Channels
         /\ Head(p.rest) \in Wires /\ Head(p.rest).agent \in Groups
         /\ \E j \in DOMAIN wires[Channel[p.event]] : wires[Channel[p.event]][j] = Head(p.rest)
<1>1. PassTypes /\ p.rest \in Seq(Wires) \ {<<>>} /\ p.event \in Events
  BY DEF Types, PassTypes
<1>2. 1 \in DOMAIN p.rest /\ Head(p.rest) = p.rest[1] /\ Head(p.rest) \in Wires
  BY <1>1, HeadTyped
<1>3. \E j \in DOMAIN wires[Channel[p.event]] : wires[Channel[p.event]][j] = p.rest[1]
  BY <1>1, <1>2 DEF PassTypes
<1>4. Channel[p.event] \in Channels
  BY <1>1, AdmissionAssumption
<1>5. Head(p.rest).agent \in Groups
  BY <1>2 DEF Wires
<1>. QED  BY <1>1, <1>2, <1>3, <1>4, <1>5

\* One turn of the fan-out in the terms the proofs need.
LEMMA VisitDoes ==
  ASSUME Types, NEW p \in passes, Visit(p)
  PROVE  LET w == Head(p.rest)
             e == p.event
         IN /\ UNCHANGED <<arrived, known, denied, wires, members, senderRows, channelRows,
                           shown, prompts, naming, granted>>
            /\ sessions' = sessions \/ sessions' = sessions \cup {<<w.agent, Channel[e]>>}
            /\ \/ stored' = stored
               \/ /\ stored' = [stored EXCEPT ![w.agent][e] = "trigger"]
                  /\ AccessOk(w, e) /\ ScopeOk(w, e)
               \/ /\ stored' = [stored EXCEPT ![w.agent][e] = "context"]
                  /\ ~ Engages(w, e)
            /\ \/ refused' = refused
               \/ Engages(w, e) /\ refused' = refused \cup {<<e, w.agent>>}
            /\ asking' = asking \/ asking' = asking \cup AskFor(w, e)
            /\ \E thrown \in BOOLEAN : passes' = Rest(p, thrown)
<1>. DEFINE w == Head(p.rest)
            e == p.event
<1>0. Throws(w, e) \in BOOLEAN
  BY DEF Throws
<1>1. CASE Engage(p, w)
  BY <1>0, <1>1 DEF Visit, Engage, DeliverToAgent
<1>2. CASE Refuse(p, w)
  BY <1>2 DEF Visit, Refuse
<1>3. CASE Accumulate(p, w)
  BY <1>0, <1>3 DEF Visit, Accumulate, DeliverToAgent
<1>4. CASE Ignore(p, w)
  BY <1>4 DEF Visit, Ignore
<1>. QED  BY <1>1, <1>2, <1>3, <1>4 DEF Visit

LEMMA StoredTyped ==
  ASSUME stored \in [Groups -> [Events -> {"no", "context", "trigger"}]],
         NEW a \in Groups, NEW e \in Events, NEW v \in {"no", "context", "trigger"}
  PROVE  /\ [stored EXCEPT ![a][e] = v] \in [Groups -> [Events -> {"no", "context", "trigger"}]]
         /\ \A b \in Groups, x \in Events :
              [stored EXCEPT ![a][e] = v][b][x] = IF b = a /\ x = e THEN v ELSE stored[b][x]
<1>1. stored[a] \in [Events -> {"no", "context", "trigger"}]
  OBVIOUS
<1>2. [stored[a] EXCEPT ![e] = v] \in [Events -> {"no", "context", "trigger"}]
  BY <1>1
<1>3. \A x \in Events : [stored[a] EXCEPT ![e] = v][x] = IF x = e THEN v ELSE stored[a][x]
  BY <1>1
<1>. QED  BY <1>2, <1>3

LEMMA TypesVisit ==
  ASSUME Types, NEW p \in passes, Visit(p)
  PROVE  Types' /\ Grows
<1>. DEFINE w == Head(p.rest)
            e == p.event
<1>0. Tables /\ FlowTypes /\ Histories
  BY DEF Types
<1>1. /\ e \in Events /\ Channel[e] \in Channels /\ w.agent \in Groups
      /\ \E j \in DOMAIN wires[Channel[e]] : wires[Channel[e]][j] = w
  BY HeadIsWire
<1>2. /\ UNCHANGED <<arrived, known, denied, wires, members, senderRows, channelRows,
                     shown, prompts, naming, granted>>
      /\ sessions' = sessions \/ sessions' = sessions \cup {<<w.agent, Channel[e]>>}
      /\ \/ stored' = stored
         \/ stored' = [stored EXCEPT ![w.agent][e] = "trigger"]
         \/ stored' = [stored EXCEPT ![w.agent][e] = "context"]
      /\ refused' = refused \/ refused' = refused \cup {<<e, w.agent>>}
      /\ asking' = asking \/ asking' = asking \cup AskFor(w, e)
      /\ \E thrown \in BOOLEAN : passes' = Rest(p, thrown)
  BY VisitDoes
<1>. HIDE DEF w, e
<1>3. PassTypes'
  BY <1>2, RestTyped
<1>4. stored' \in [Groups -> [Events -> {"no", "context", "trigger"}]]
  <2>1. stored \in [Groups -> [Events -> {"no", "context", "trigger"}]]
    BY <1>0 DEF Tables
  <2>2. \A v \in {"no", "context", "trigger"} :
          [stored EXCEPT ![w.agent][e] = v] \in [Groups -> [Events -> {"no", "context", "trigger"}]]
    BY <1>1, <2>1, StoredTyped
  <2>. QED  BY <1>2, <2>1, <2>2
<1>5. Tables'
  BY <1>0, <1>1, <1>2, <1>4 DEF Tables
<1>6. asking' \subseteq asking \cup {[kind |-> "sender", event |-> e, agent |-> w.agent]}
  BY <1>2 DEF AskFor
<1>7. FlowTypes'
  <2>1. [kind |-> "sender", event |-> e, agent |-> w.agent] \in Requests
    BY <1>1 DEF Requests
  <2>2. asking' \subseteq Requests
    BY <1>0, <1>6, <2>1 DEF FlowTypes
  <2>3. wires[Channel[e]] # <<>>
    BY <1>1
  <2>4. \A r \in asking' : r.kind = "sender" => wires[Channel[r.event]] # <<>>
    BY <1>0, <1>6, <2>3 DEF FlowTypes
  <2>. QED  BY <1>0, <1>2, <2>2, <2>4 DEF FlowTypes
<1>8. Histories'
  BY <1>0, <1>1, <1>2 DEF Histories
<1>9. Grows
  BY <1>2, GrowsSame
<1>. QED  BY <1>3, <1>5, <1>7, <1>8, <1>9 DEF Types

LEMMA TypesArrive ==
  ASSUME Types, NEW e \in Events, Arrive(e)
  PROVE  Types' /\ Grows
<1>0. Tables /\ PassTypes /\ FlowTypes /\ Histories
  BY DEF Types
<1>1. Channel[e] \in Channels
  BY AdmissionAssumption
<1>2. /\ arrived' = arrived \cup {e}
      /\ known' \subseteq known \cup {Channel[e]}
      /\ passes' = passes \/ (wires[Channel[e]] # <<>> /\ passes' = passes \cup {Pass(e, NoGroup)})
      /\ asking' = asking \/ asking' = asking \cup {ChannelRequest(e)}
      /\ UNCHANGED <<denied, wires, members, sessions, stored, senderRows, channelRows,
                     shown, prompts, naming, granted, refused>>
  BY DEF Arrive
<1>3. Tables'
  BY <1>0, <1>1, <1>2 DEF Tables
<1>4. PassTypes'
  <2>1. CASE passes' = passes
    BY <1>0, <1>2, <2>1 DEF PassTypes
  <2>2. CASE wires[Channel[e]] # <<>> /\ passes' = passes \cup {Pass(e, NoGroup)}
    <3>1. wires[Channel[e]] \in Seq(Wires) \ {<<>>}
      BY <1>0, <1>1, <2>2 DEF Tables
    <3>2. /\ Pass(e, NoGroup) \in [event : Events, by : Groups \cup {NoGroup}, rest : Seq(Wires) \ {<<>>}]
          /\ Pass(e, NoGroup).event = e /\ Pass(e, NoGroup).rest = wires[Channel[e]]
      BY <3>1 DEF Pass
    <3>. QED  BY <1>0, <1>2, <2>2, <3>2 DEF PassTypes
  <2>. QED  BY <1>2, <2>1, <2>2
<1>5. FlowTypes'
  <2>1. ChannelRequest(e) \in Requests /\ ChannelRequest(e).kind = "channel"
    BY DEF ChannelRequest, Requests
  <2>2. asking' \subseteq Requests
    BY <1>0, <1>2, <2>1 DEF FlowTypes
  <2>3. \A r \in asking' : r.kind = "sender" => wires[Channel[r.event]] # <<>>
    BY <1>0, <1>2, <2>1 DEF FlowTypes
  <2>. QED  BY <1>0, <1>2, <2>2, <2>3 DEF FlowTypes
<1>6. Histories'
  BY <1>0, <1>2 DEF Histories
<1>. QED  BY <1>2, <1>3, <1>4, <1>5, <1>6, GrowsSame DEF Types

LEMMA TypesAllow ==
  ASSUME Types, NEW row \in senderRows, AllowSender(row)
  PROVE  Types' /\ Grows
<1>. DEFINE e == row.event
            pass == Pass(e, row.agent)
<1>0. Tables /\ PassTypes /\ FlowTypes /\ Histories
  BY DEF Types
<1>1. e \in Events /\ row.agent \in Groups /\ wires[Channel[e]] # <<>>
  BY <1>0 DEF FlowTypes
<1>2. Channel[e] \in Channels /\ Sender[e] \in Senders
  BY <1>1, AdmissionAssumption
<1>3. /\ members' = members \cup {<<Sender[e], row.agent>>}
      /\ senderRows' = senderRows \ {row}
      /\ passes' = passes \cup {pass}
      /\ granted' \subseteq granted \cup {<<e, row.agent>>}
      /\ UNCHANGED <<arrived, known, denied, wires, sessions, stored, asking, channelRows,
                     shown, prompts, naming, refused>>
  BY DEF AllowSender, Grant
<1>4. /\ pass \in [event : Events, by : Groups \cup {NoGroup}, rest : Seq(Wires) \ {<<>>}]
      /\ pass.event = e /\ pass.rest = wires[Channel[e]]
  <2>1. wires[Channel[e]] \in Seq(Wires) \ {<<>>}
    BY <1>0, <1>1, <1>2 DEF Tables
  <2>. QED  BY <1>1, <2>1 DEF Pass
<1>. HIDE DEF e, pass
<1>5. Tables'
  BY <1>0, <1>1, <1>2, <1>3 DEF Tables
<1>6. PassTypes'
  BY <1>0, <1>3, <1>4 DEF PassTypes
<1>7. FlowTypes'
  BY <1>0, <1>3 DEF FlowTypes
<1>8. Histories'
  BY <1>0, <1>1, <1>3 DEF Histories
<1>. QED  BY <1>3, <1>5, <1>6, <1>7, <1>8, GrowsSame DEF Types

LEMMA TypesAsk ==
  ASSUME Types, NEW r \in asking, NEW reachable \in BOOLEAN, NEW card \in BOOLEAN,
         AskSender(r, reachable, card) \/ AskChannel(r, reachable, card)
  PROVE  Types' /\ Grows
<1>0. Tables /\ PassTypes /\ FlowTypes /\ Histories
  BY DEF Types
<1>1. r \in Requests /\ r.event \in Events /\ Channel[r.event] \in Channels
  BY <1>0, AdmissionAssumption DEF FlowTypes, Requests
<1>2. UNCHANGED <<arrived, tables, passes, prompts, naming, granted, refused>> /\ asking' = asking \ {r}
  BY DEF AskSender, AskChannel
<1>3. Tables' /\ PassTypes' /\ Histories' /\ Grows
  BY <1>0, <1>2, GrowsSame DEF Tables, PassTypes, Histories, tables
<1>4. CASE AskSender(r, reachable, card)
  <2>1. /\ r.kind = "sender" /\ UNCHANGED <<channelRows, shown>>
        /\ senderRows' \subseteq senderRows \cup {[event |-> r.event, agent |-> r.agent, card |-> card]}
    BY <1>4 DEF AskSender
  <2>2. r.agent \in Groups /\ wires[Channel[r.event]] # <<>>
    BY <1>0, <1>1, <2>1 DEF FlowTypes, Requests
  <2>3. [event |-> r.event, agent |-> r.agent, card |-> card]
          \in [event : Events, agent : Groups, card : BOOLEAN]
    BY <1>1, <2>2
  <2>4. senderRows' \subseteq [event : Events, agent : Groups, card : BOOLEAN]
    BY <1>0, <2>1, <2>3 DEF FlowTypes
  <2>5. \A x \in senderRows' : wires[Channel[x.event]] # <<>>
    BY <1>0, <2>1, <2>2 DEF FlowTypes
  <2>6. FlowTypes'
    BY <1>0, <1>2, <2>1, <2>4, <2>5 DEF FlowTypes, tables
  <2>. QED  BY <1>3, <2>6 DEF Types
<1>5. CASE AskChannel(r, reachable, card)
  <2>1. /\ UNCHANGED senderRows
        /\ \/ UNCHANGED channelRows
           \/ channelRows' = [channelRows EXCEPT ![Channel[r.event]] = r.event]
        /\ shown' = shown \/ shown' = shown \cup {Channel[r.event]}
    BY <1>5 DEF AskChannel
  <2>2. FlowTypes'
    BY <1>0, <1>1, <1>2, <2>1 DEF FlowTypes, tables
  <2>. QED  BY <1>3, <2>2 DEF Types
<1>. QED  BY <1>4, <1>5

LEMMA TypesStep == Types /\ [Next]_vars => Types' /\ Grows
<1>. SUFFICES ASSUME Types, [Next]_vars PROVE Types' /\ Grows
  OBVIOUS
<1>0. Tables /\ PassTypes /\ FlowTypes /\ Histories
  BY DEF Types
<1>1. CASE UNCHANGED vars
  <2>1. Tables' /\ PassTypes' /\ FlowTypes' /\ Histories'
    BY <1>0, <1>1 DEF vars, tables, flows, Tables, PassTypes, FlowTypes, Histories
  <2>. QED  BY <1>1, <2>1, GrowsSame DEF Types, vars, tables
<1>2. ASSUME NEW row \in senderRows, DenySender(row) PROVE Types' /\ Grows
  <2>1. Tables' /\ PassTypes' /\ FlowTypes' /\ Histories'
    BY <1>0, <1>2 DEF DenySender, tables, Tables, PassTypes, FlowTypes, Histories
  <2>. QED  BY <1>2, <2>1, GrowsSame DEF Types, DenySender, tables
<1>3. ASSUME NEW c \in Channels, Reject(c) PROVE Types' /\ Grows
  <2>1. Tables' /\ PassTypes' /\ Histories'
    BY <1>0, <1>3 DEF Reject, Tables, PassTypes, Histories
  <2>2. FlowTypes'
    BY <1>0, <1>3 DEF Reject, FlowTypes
  <2>. QED  BY <1>3, <2>1, <2>2, GrowsSame DEF Types, Reject
<1>4. ASSUME NEW c \in Channels, ClickNew(c) PROVE Types' /\ Grows
  <2>1. Tables' /\ PassTypes' /\ Histories'
    BY <1>0, <1>4 DEF ClickNew, tables, Tables, PassTypes, Histories
  <2>2. FlowTypes'
    BY <1>0, <1>4 DEF ClickNew, FlowTypes, tables
  <2>. QED  BY <1>4, <2>1, <2>2, GrowsSame DEF Types, ClickNew, tables
<1>5. ASSUME NEW c \in Channels, NEW a \in Agents, Connect(c, a) PROVE Types' /\ Grows
  <2>1. a \in Groups /\ naming' = naming /\ naming \in Channels \cup {NoChannel}
    BY <1>0, <1>5 DEF Connect, Groups, FlowTypes
  <2>. QED  BY <1>5, <2>1, RegisterTyped DEF Connect, Clickable, ChannelInFlight
<1>6. ASSUME NEW q \in prompts, NEW ok \in BOOLEAN, Prompt(q, ok) \/ Prompted(q, ok) PROVE Types' /\ Grows
  <2>1. UNCHANGED <<arrived, tables, passes, asking, senderRows, channelRows, shown, granted, refused>>
    BY <1>6 DEF Prompt, Prompted
  <2>2. Tables' /\ PassTypes' /\ Histories'
    BY <1>0, <2>1 DEF tables, Tables, PassTypes, Histories
  <2>3. q \in [channel : Channels, at : {"dm", "sent"}]
    BY <1>0 DEF FlowTypes
  <2>4. /\ prompts' \subseteq prompts \cup {[q EXCEPT !.at = "sent"]}
        /\ naming' \in {naming, q.channel, NoChannel}
    BY <1>6 DEF Prompt, Prompted
  <2>5. FlowTypes'
    BY <1>0, <2>1, <2>3, <2>4 DEF FlowTypes, tables
  <2>. QED  BY <2>1, <2>2, <2>5, GrowsSame DEF Types, tables
<1>7. ASSUME NEW a \in NewAgents \cup {NoGroup}, NameReply(a) PROVE Types' /\ Grows
  <2>1. CASE a \in NewAgents /\ ChannelInFlight(naming) /\ Register(naming, a)
    <3>1. a \in Groups /\ naming \in Channels
      BY <1>0, <1>7, <2>1 DEF Groups, FlowTypes, NameReply
    <3>. QED  BY <1>7, <2>1, <3>1, RegisterTyped DEF NameReply, ChannelInFlight
  <2>2. CASE UNCHANGED <<wires, members, channelRows, passes, granted>>
    <3>1. Tables' /\ PassTypes' /\ FlowTypes' /\ Histories'
      BY <1>0, <1>7, <2>2 DEF NameReply, Tables, PassTypes, FlowTypes, Histories
    <3>. QED  BY <1>7, <2>2, <3>1, GrowsSame DEF Types, NameReply
  <2>. QED  BY <1>7, <2>1, <2>2 DEF NameReply
<1>8. CASE Crash
  <2>1. Tables' /\ PassTypes' /\ FlowTypes' /\ Histories'
    BY <1>0, <1>8 DEF Crash, tables, Tables, PassTypes, FlowTypes, Histories
  <2>. QED  BY <1>8, <2>1, GrowsSame DEF Types, Crash, tables
<1>. QED  BY <1>1, <1>2, <1>3, <1>4, <1>5, <1>6, <1>7, <1>8, TypesArrive, TypesVisit, TypesAllow,
             TypesAsk, NextCases

LEMMA TypesInvariant == Spec => []Types
BY TypesInit, TypesStep, PTL DEF Spec

\* Every table and every pass in flight has the shape its declaration gives it;
\* no pass is ever without a wiring to look at.
THEOREM TypeCorrect == Spec => []TypeOK
<1>1. Types => TypeOK
  BY DEF Types, Tables, PassTypes, FlowTypes, Histories, TypeOK
<1>. QED  BY <1>1, TypesInvariant, PTL

-----------------------------------------------------------------------------
(* Whom an agent is woken for.                                             *)

\* Only a turn of a fan-out gives an agent a message.
LEMMA OnlyVisits ==
  ASSUME [Next]_vars
  PROVE  UNCHANGED <<stored, refused>> \/ \E p \in passes : Visit(p)
<1>1. ASSUME NEW x, NEW y, NEW z,
             \/ Arrive(x) \/ AskSender(x, y, z) \/ AskChannel(x, y, z) \/ AllowSender(x)
             \/ DenySender(x) \/ Reject(x) \/ ClickNew(x) \/ Connect(x, y) \/ Prompt(x, y)
             \/ Prompted(x, y) \/ NameReply(x) \/ Crash
      PROVE  UNCHANGED <<stored, refused>>
  BY <1>1 DEF Arrive, AskSender, AskChannel, AllowSender, DenySender, Reject, ClickNew, Connect,
              Prompt, Prompted, NameReply, Crash, tables
<1>2. CASE UNCHANGED vars
  BY <1>2 DEF vars, tables
<1>. QED  BY <1>1, <1>2, NextCases

\* What lets an agent be woken for a message.
Admitted(a, e) ==
  \/ Member(Sender[e], a)
  \/ /\ Policy[Channel[e]] = "public"
     /\ \E i \in DOMAIN wires[Channel[e]] :
          LET w == wires[Channel[e]][i] IN w.agent = a /\ w.scope = "all"

LEMMA AdmittedStays ==
  ASSUME Grows, NEW a, NEW e \in Events, Admitted(a, e)
  PROVE  Admitted(a, e)'
<1>1. Channel[e] \in Channels
  BY AdmissionAssumption
<1>2. Member(Sender[e], a) => Member(Sender[e], a)'
  BY DEF Grows, Member
<1>3. \A i \in DOMAIN wires[Channel[e]] :
        i \in DOMAIN wires'[Channel[e]] /\ wires'[Channel[e]][i] = wires[Channel[e]][i]
  BY <1>1 DEF Grows
<1>. QED  BY <1>2, <1>3 DEF Admitted

\* No agent is woken for a sender who was not admitted to it, unless the channel
\* and the wiring let anybody in (accessGate and senderScopeGate in routeInbound).
THEOREM OnlyAdmittedWake == Spec => []NoUnknownSender
<1>1. Init => NoUnknownSender
  BY DEF Init, NoUnknownSender
<1>2. Types /\ NoUnknownSender /\ [Next]_vars => NoUnknownSender'
  <2>. SUFFICES ASSUME Types, NoUnknownSender, [Next]_vars,
                       NEW a \in Groups, NEW e \in Events, stored'[a][e] = "trigger"
                PROVE  Admitted(a, e)'
    BY DEF NoUnknownSender, Admitted
  <2>0. Grows
    BY TypesStep
  <2>1. CASE stored[a][e] = "trigger"
    <3>1. Admitted(a, e)
      BY <2>1 DEF NoUnknownSender, Admitted
    <3>. QED  BY <2>0, <3>1, AdmittedStays
  <2>2. CASE stored[a][e] # "trigger"
    <3>1. PICK p \in passes : Visit(p)
      BY <2>2, OnlyVisits
    <3>. DEFINE w == Head(p.rest)
    <3>2. /\ p.event \in Events /\ w.agent \in Groups
          /\ \E j \in DOMAIN wires[Channel[p.event]] : wires[Channel[p.event]][j] = w
      BY HeadIsWire
    <3>3. \/ stored' = stored
          \/ /\ stored' = [stored EXCEPT ![w.agent][p.event] = "trigger"]
             /\ AccessOk(w, p.event) /\ ScopeOk(w, p.event)
          \/ stored' = [stored EXCEPT ![w.agent][p.event] = "context"]
      BY <3>1, VisitDoes
    <3>. HIDE DEF w
    <3>4. stored \in [Groups -> [Events -> {"no", "context", "trigger"}]]
      BY DEF Types, Tables
    <3>5. stored' # [stored EXCEPT ![w.agent][p.event] = "context"]
      <4>1. [stored EXCEPT ![w.agent][p.event] = "context"][a][e] # "trigger"
        BY <2>2, <3>2, <3>4, StoredTyped
      <4>. QED  BY <4>1
    <3>6. a = w.agent /\ e = p.event /\ AccessOk(w, e) /\ ScopeOk(w, e)
      <4>1. CASE stored' = [stored EXCEPT ![w.agent][p.event] = "trigger"]
                 /\ AccessOk(w, p.event) /\ ScopeOk(w, p.event)
        <5>1. a = w.agent /\ e = p.event
          BY <2>2, <3>2, <3>4, <4>1, StoredTyped
        <5>. QED  BY <4>1, <5>1
      <4>. QED  BY <2>2, <3>3, <3>5, <4>1
    <3>7. Admitted(a, e)
      BY <3>2, <3>6 DEF Admitted, AccessOk, ScopeOk
    <3>. QED  BY <2>0, <3>7, AdmittedStays
  <2>. QED  BY <2>1, <2>2
<1>. QED  BY <1>1, <1>2, TypesInvariant, PTL DEF Spec

-----------------------------------------------------------------------------
(* What a refusal keeps.  A channel has an agent once, so the wiring that    *)
(* refused a message is the one that is looked at again, and it engaged.     *)

Distinct ==
  \A c \in Channels : \A i, j \in DOMAIN wires[c] : wires[c][i].agent = wires[c][j].agent => i = j

HasWire(e, w) == \E i \in DOMAIN wires[Channel[e]] : wires[Channel[e]][i] = w

RefusedInv ==
  \A r \in refused : \E w \in Wires : HasWire(r[1], w) /\ w.agent = r[2] /\ Engages(w, r[1])

LEMMA OnlyRegister ==
  ASSUME Types, [Next]_vars
  PROVE  UNCHANGED wires \/ \E c \in Channels, a \in Groups : Register(c, a)
<1>1. ASSUME NEW x, NEW y, NEW z,
             \/ Arrive(x) \/ Visit(x) \/ AskSender(x, y, z) \/ AskChannel(x, y, z) \/ AllowSender(x)
             \/ DenySender(x) \/ Reject(x) \/ ClickNew(x) \/ Prompt(x, y) \/ Prompted(x, y) \/ Crash
      PROVE  UNCHANGED wires
  BY <1>1 DEF Arrive, Visit, AskSender, AskChannel, AllowSender, DenySender, Reject, ClickNew,
              Prompt, Prompted, Crash, tables
<1>2. ASSUME NEW c \in Channels, NEW a \in Agents, Connect(c, a)
      PROVE  a \in Groups /\ Register(c, a)
  BY <1>2 DEF Connect, Groups
<1>3. ASSUME NEW a, NameReply(a)
      PROVE  UNCHANGED wires \/ (naming \in Channels /\ a \in Groups /\ Register(naming, a))
  BY <1>3 DEF NameReply, Groups, Types, FlowTypes
<1>4. CASE UNCHANGED vars
  BY <1>4 DEF vars, tables
<1>. QED  BY <1>1, <1>2, <1>3, <1>4, NextCases

LEMMA DistinctStep == Types /\ Distinct /\ [Next]_vars => Distinct'
<1>. SUFFICES ASSUME Types, Distinct, [Next]_vars PROVE Distinct'
  OBVIOUS
<1>1. CASE UNCHANGED wires
  BY <1>1 DEF Distinct
<1>2. ASSUME NEW c \in Channels, NEW a \in Groups, Register(c, a) PROVE Distinct'
  <2>1. /\ wires \in [Channels -> Seq(Wires)] /\ wires[c] \in Seq(Wires)
        /\ NewWire(c, a) \in Wires /\ NewWire(c, a).agent = a
    BY NewWireTyped DEF Types, Tables, NewWire
  <2>2. \A i \in DOMAIN wires[c] : wires[c][i].agent # a
    BY <1>2 DEF Register, WiredTo
  <2>3. wires'[c] = Append(wires[c], NewWire(c, a)) /\ \A d \in Channels \ {c} : wires'[d] = wires[d]
    BY <1>2, <2>1 DEF Register
  <2>4. \A i, j \in DOMAIN wires'[c] : wires'[c][i].agent = wires'[c][j].agent => i = j
    <3>. SUFFICES ASSUME NEW i \in DOMAIN wires'[c], NEW j \in DOMAIN wires'[c],
                         wires'[c][i].agent = wires'[c][j].agent
                  PROVE  i = j
      OBVIOUS
    <3>1. \A k \in DOMAIN wires[c] : wires'[c][k] = wires[c][k]
      BY <2>1, <2>3, Appended
    <3>2. \A k \in DOMAIN wires'[c] : k \in DOMAIN wires[c] \/ k = Len(wires[c]) + 1
      BY <2>1, <2>3, Appended
    <3>3. wires'[c][Len(wires[c]) + 1].agent = a
      BY <2>1, <2>3, Appended
    <3>4. CASE i \in DOMAIN wires[c] /\ j \in DOMAIN wires[c]
      BY <3>1, <3>4 DEF Distinct
    <3>. QED  BY <2>2, <3>1, <3>2, <3>3, <3>4
  <2>. QED  BY <2>3, <2>4 DEF Distinct
<1>. QED  BY <1>1, <1>2, OnlyRegister

LEMMA EngagesStays ==
  ASSUME Grows, NEW w, NEW e, Engages(w, e)
  PROVE  Engages(w, e)'
BY DEF Grows, Engages

LEMMA RefusedStep == Types /\ RefusedInv /\ [Next]_vars => RefusedInv'
<1>. SUFFICES ASSUME Types, RefusedInv, [Next]_vars PROVE RefusedInv'
  OBVIOUS
<1>0. Grows /\ Types'
  BY TypesStep
<1>. SUFFICES ASSUME NEW r \in refused'
              PROVE  \E w \in Wires : (HasWire(r[1], w) /\ w.agent = r[2] /\ Engages(w, r[1]))'
  BY DEF RefusedInv
<1>1. Channel[r[1]] \in Channels
  BY <1>0, AdmissionAssumption DEF Types, Histories
<1>2. ASSUME NEW w \in Wires, HasWire(r[1], w), Engages(w, r[1])
      PROVE  HasWire(r[1], w)' /\ Engages(w, r[1])'
  BY <1>0, <1>1, <1>2, EngagesStays DEF Grows, HasWire
<1>3. CASE r \in refused
  BY <1>2, <1>3 DEF RefusedInv
<1>4. CASE r \notin refused
  <2>1. PICK p \in passes : Visit(p)
    BY <1>4, OnlyVisits
  <2>2. Engages(Head(p.rest), p.event) /\ r = <<p.event, Head(p.rest).agent>>
    BY <1>4, <2>1, VisitDoes
  <2>3. Head(p.rest) \in Wires /\ HasWire(p.event, Head(p.rest))
    BY HeadIsWire DEF HasWire
  <2>4. PICK w \in Wires : w = Head(p.rest)
    BY <2>3
  <2>5. HasWire(r[1], w) /\ Engages(w, r[1]) /\ w.agent = r[2]
    BY <2>2, <2>3, <2>4
  <2>. QED  BY <1>2, <2>5
<1>. QED  BY <1>3, <1>4

\* A message that a gate has refused for an agent is never kept as context for
\* it afterwards, however often it is routed again (router.ts:311).
THEOREM RefusedStaysOut == Spec => RefusedNeverContext
<1>. DEFINE P == \A a \in Groups, e \in Events :
       stored[a][e] = "no" /\ stored'[a][e] = "context" => <<e, a>> \notin refused
            Inv == Types /\ Distinct /\ RefusedInv
<1>1. Init => Inv
  BY TypesInit, AdmissionAssumption DEF Init, Distinct, RefusedInv
<1>2. Inv /\ [Next]_vars => Inv'
  BY TypesStep, DistinctStep, RefusedStep
<1>3. Inv /\ [Next]_vars => [P]_vars
  <2>. SUFFICES ASSUME Inv, [Next]_vars, NEW a \in Groups, NEW e \in Events,
                       stored[a][e] = "no", stored'[a][e] = "context", <<e, a>> \in refused
                PROVE  FALSE
    OBVIOUS
  <2>1. PICK p \in passes : Visit(p)
    BY OnlyVisits
  <2>. DEFINE w == Head(p.rest)
  <2>2. /\ p.event \in Events /\ w.agent \in Groups /\ Channel[p.event] \in Channels
        /\ \E j \in DOMAIN wires[Channel[p.event]] : wires[Channel[p.event]][j] = w
    BY HeadIsWire
  <2>3. \/ stored' = stored
        \/ stored' = [stored EXCEPT ![w.agent][p.event] = "trigger"]
        \/ stored' = [stored EXCEPT ![w.agent][p.event] = "context"] /\ ~ Engages(w, p.event)
    BY <2>1, VisitDoes
  <2>. HIDE DEF w
  <2>4. stored \in [Groups -> [Events -> {"no", "context", "trigger"}]]
    BY DEF Types, Tables
  <2>5. a = w.agent /\ e = p.event /\ ~ Engages(w, e)
    <3>1. stored' # [stored EXCEPT ![w.agent][p.event] = "trigger"]
      <4>1. [stored EXCEPT ![w.agent][p.event] = "trigger"][a][e] # "context"
        BY <2>2, <2>4, StoredTyped
      <4>. QED  BY <4>1
    <3>2. stored' = [stored EXCEPT ![w.agent][p.event] = "context"] /\ ~ Engages(w, p.event)
      BY <2>3, <3>1
    <3>3. a = w.agent /\ e = p.event
      BY <2>2, <2>4, <3>2, StoredTyped
    <3>. QED  BY <3>2, <3>3
  <2>6. \E i \in DOMAIN wires[Channel[e]] : wires[Channel[e]][i].agent = a /\ Engages(wires[Channel[e]][i], e)
    BY DEF RefusedInv, HasWire
  <2>7. \E i \in DOMAIN wires[Channel[e]] : wires[Channel[e]][i] = w
    BY <2>2, <2>5
  <2>. QED  BY <2>2, <2>5, <2>6, <2>7 DEF Distinct
<1>4. Spec => [][P]_vars
  <2>. HIDE DEF Inv, P
  <2>. QED  BY <1>1, <1>2, <1>3, PTL DEF Spec
<1>. QED  BY <1>4 DEF RefusedNeverContext

-----------------------------------------------------------------------------
(* Settled channels.                                                       *)

LEMMA SettledStep ==
  ASSUME Types, [Next]_vars, NEW c \in Channels, Settled(c)
  PROVE  Settled(c)'
<1>0. Tables /\ FlowTypes /\ Grows
  BY TypesStep DEF Types
<1>1. /\ c \in denied \/ wires[c] # <<>>
      /\ channelRows[c] = NoEvent
      /\ \A r \in asking : r.kind = "channel" => Channel[r.event] # c
  BY DEF Settled, ChannelInFlight
<1>2. c \in denied' \/ wires'[c] # <<>>
  <2>1. wires[c] # <<>> => wires'[c] # <<>>
    BY <1>0, TypesStep, HeadTyped DEF Grows, Tables
  <2>. QED  BY <1>0, <1>1, <2>1 DEF Grows
<1>3. ASSUME channelRows'[c] = NoEvent, \A r \in asking' \ asking : r.kind = "channel" => Channel[r.event] # c
      PROVE  Settled(c)'
  BY <1>1, <1>2, <1>3 DEF Settled, ChannelInFlight
<1>4. CASE UNCHANGED vars
  BY <1>1, <1>3, <1>4 DEF vars, flows
<1>5. ASSUME NEW e \in Events, Arrive(e) PROVE Settled(c)'
  <2>1. channelRows' = channelRows
    BY <1>5 DEF Arrive
  <2>2. asking' = asking \/ (/\ asking' = asking \cup {ChannelRequest(e)}
                             /\ wires[Channel[e]] = <<>> /\ Channel[e] \notin denied)
    BY <1>5 DEF Arrive, Escalates
  <2>3. \A r \in asking' \ asking : Channel[r.event] # c
    BY <1>1, <2>2 DEF ChannelRequest
  <2>. QED  BY <1>1, <1>3, <2>1, <2>3
<1>6. ASSUME NEW p \in passes, Visit(p) PROVE Settled(c)'
  <2>1. channelRows' = channelRows
    BY <1>6 DEF Visit
  <2>2. asking' \subseteq asking \cup AskFor(Head(p.rest), p.event)
    BY <1>6, VisitDoes
  <2>3. \A r \in AskFor(Head(p.rest), p.event) : r.kind = "sender"
    BY DEF AskFor
  <2>. QED  BY <1>1, <1>3, <2>1, <2>2, <2>3
<1>7. ASSUME NEW r \in asking, NEW x, NEW y, AskSender(r, x, y) \/ AskChannel(r, x, y) PROVE Settled(c)'
  <2>1. asking' \subseteq asking
    BY <1>7 DEF AskSender, AskChannel
  <2>2. channelRows'[c] = channelRows[c]
    BY <1>0, <1>1, <1>7 DEF AskSender, AskChannel, FlowTypes
  <2>. QED  BY <1>1, <1>3, <2>1, <2>2
<1>8. ASSUME NEW d, NEW a, Register(d, a), UNCHANGED asking PROVE Settled(c)'
  <2>1. channelRows'[c] = NoEvent
    BY <1>0, <1>1, <1>8 DEF Register, FlowTypes
  <2>. QED  BY <1>3, <1>8, <2>1
<1>9. ASSUME NEW x, NEW y, Connect(x, y) \/ NameReply(x) PROVE Settled(c)'
  BY <1>1, <1>3, <1>8, <1>9 DEF Connect, NameReply
<1>10. ASSUME NEW d, Reject(d) PROVE Settled(c)'
  <2>1. channelRows'[c] = NoEvent /\ UNCHANGED asking
    BY <1>0, <1>1, <1>10 DEF Reject, FlowTypes
  <2>. QED  BY <1>3, <2>1
<1>11. ASSUME NEW x, NEW y, AllowSender(x) \/ DenySender(x) \/ ClickNew(x) \/ Prompt(x, y) \/ Prompted(x, y)
       PROVE  Settled(c)'
  BY <1>1, <1>3, <1>11 DEF AllowSender, DenySender, ClickNew, Prompt, Prompted
<1>12. CASE Crash
  BY <1>1, <1>3, <1>12 DEF Crash
<1>. QED  BY <1>4, <1>5, <1>6, <1>7, <1>9, <1>10, <1>11, <1>12, NextCases

\* Once a channel is wired or denied and no request is on its way, the approver
\* is never asked about it again (denied_at and the agent count in routeInbound).
THEOREM SettledChannelsStay == Spec => SettledStays
<1>1. Types /\ [Next]_vars => [\A c \in Channels : Settled(c) => Settled(c)']_vars
  BY SettledStep
<1>2. Spec => [][\A c \in Channels : Settled(c) => Settled(c)']_vars
  BY <1>1, TypesInvariant, PTL DEF Spec
<1>. QED  BY <1>2 DEF SettledStays

-----------------------------------------------------------------------------
(* What a granted message still has ahead of it.  A pass holds a slice of    *)
(* its channel's wirings; what counts is where the slice begins and ends.    *)

Lone(ws) == \A i, j \in DOMAIN ws : ws[i].agent = ws[j].agent => i = j
Slice(ws, rest, s) ==
  /\ 1 <= s /\ s + Len(rest) - 1 <= Len(ws)
  /\ \A i \in 1..Len(rest) : rest[i] = ws[s + i - 1]
At(ws, rest) == CHOOSE i \in DOMAIN ws : ws[i].agent = rest[1].agent

Places(e) == DOMAIN wires[Channel[e]]
From(p) == At(wires[Channel[p.event]], p.rest)
Till(p) == From(p) + Len(p.rest) - 1
Slices == \A p \in passes : \E s \in Nat : Slice(wires[Channel[p.event]], p.rest, s)

LEMMA SliceFacts ==
  ASSUME NEW ws \in Seq(Wires), Lone(ws), NEW rest \in Seq(Wires), rest # <<>>,
         NEW s \in Nat, Slice(ws, rest, s)
  PROVE  /\ At(ws, rest) = s
         /\ s \in DOMAIN ws /\ s + Len(rest) - 1 \in DOMAIN ws
         /\ Len(rest) \in Nat \ {0} /\ Len(ws) \in Nat /\ Head(rest) = ws[s]
<1>1. Len(rest) \in Nat \ {0} /\ Len(ws) \in Nat /\ DOMAIN ws = 1..Len(ws) /\ Head(rest) = rest[1]
  BY HeadTyped
<1>2. s \in DOMAIN ws /\ s + Len(rest) - 1 \in DOMAIN ws
  BY <1>1 DEF Slice
<1>3. rest[1] = ws[s]
  <2>1. rest[1] = ws[s + 1 - 1]
    BY <1>1 DEF Slice
  <2>. QED  BY <2>1
<1>4. \A i \in DOMAIN ws : ws[i].agent = rest[1].agent => i = s
  BY <1>2, <1>3 DEF Lone
<1>5. At(ws, rest) = s
  BY <1>2, <1>3, <1>4 DEF At
<1>. QED  BY <1>1, <1>2, <1>3, <1>5

LEMMA SliceTail ==
  ASSUME NEW ws \in Seq(Wires), NEW rest \in Seq(Wires), rest # <<>>, Len(rest) # 1,
         NEW s \in Nat, Slice(ws, rest, s)
  PROVE  Slice(ws, Tail(rest), s + 1) /\ Len(Tail(rest)) = Len(rest) - 1
<1>1. Len(rest) \in Nat \ {0, 1} /\ Len(ws) \in Nat
  BY HeadTyped
<1>2. Len(Tail(rest)) = Len(rest) - 1 /\ \A i \in 1..(Len(rest) - 1) : Tail(rest)[i] = rest[i + 1]
  BY <1>1
<1>3. ASSUME NEW i \in 1..(Len(rest) - 1) PROVE rest[i + 1] = ws[s + 1 + i - 1]
  <2>1. i + 1 \in 1..Len(rest) /\ s + (i + 1) - 1 = s + 1 + i - 1
    BY <1>1
  <2>2. rest[i + 1] = ws[s + (i + 1) - 1]
    BY <2>1 DEF Slice
  <2>. QED  BY <2>1, <2>2
<1>4. 1 <= s + 1 /\ s + 1 + (Len(rest) - 1) - 1 <= Len(ws)
  BY <1>1 DEF Slice
<1>. QED  BY <1>2, <1>3, <1>4 DEF Slice

LEMMA SliceLonger ==
  ASSUME NEW ws \in Seq(Wires), NEW vs \in Seq(Wires), NEW rest \in Seq(Wires), rest # <<>>,
         \A i \in DOMAIN ws : i \in DOMAIN vs /\ vs[i] = ws[i],
         NEW s \in Nat, Slice(ws, rest, s)
  PROVE  Slice(vs, rest, s)
<1>1. /\ Len(rest) \in Nat \ {0} /\ Len(ws) \in Nat /\ Len(vs) \in Nat
      /\ DOMAIN ws = 1..Len(ws) /\ DOMAIN vs = 1..Len(vs)
  BY HeadTyped
<1>2. s + Len(rest) - 1 \in DOMAIN ws
  BY <1>1 DEF Slice
<1>3. s + Len(rest) - 1 <= Len(vs)
  BY <1>1, <1>2
<1>4. ASSUME NEW i \in 1..Len(rest) PROVE rest[i] = vs[s + i - 1]
  <2>1. s + i - 1 \in DOMAIN ws
    BY <1>1 DEF Slice
  <2>. QED  BY <2>1 DEF Slice
<1>. QED  BY <1>3, <1>4 DEF Slice

LEMMA SliceWhole ==
  ASSUME NEW ws \in Seq(Wires)
  PROVE  Slice(ws, ws, 1) /\ 1 + Len(ws) - 1 = Len(ws)
BY DEF Slice

\* Where a pass is.
LEMMA Placing ==
  ASSUME Types, Distinct, Slices, NEW p \in passes
  PROVE  /\ p.event \in Events /\ p.rest \in Seq(Wires) /\ p.rest # <<>>
         /\ wires[Channel[p.event]] \in Seq(Wires) /\ Lone(wires[Channel[p.event]])
         /\ Slice(wires[Channel[p.event]], p.rest, From(p))
         /\ From(p) \in Nat /\ Till(p) \in Nat /\ 1 <= From(p) /\ From(p) <= Till(p)
         /\ From(p) \in Places(p.event) /\ Till(p) \in Places(p.event)
         /\ Head(p.rest) = wires[Channel[p.event]][From(p)]
         /\ (Len(p.rest) = 1 <=> From(p) = Till(p))
<1>1. p.event \in Events /\ p.rest \in Seq(Wires) /\ p.rest # <<>>
  BY DEF Types, PassTypes
<1>2. Channel[p.event] \in Channels
  BY <1>1, AdmissionAssumption
<1>3. wires[Channel[p.event]] \in Seq(Wires) /\ Lone(wires[Channel[p.event]])
  BY <1>2 DEF Types, Tables, Distinct, Lone
<1>4. PICK s \in Nat : Slice(wires[Channel[p.event]], p.rest, s)
  BY DEF Slices
<1>. DEFINE ws == wires[Channel[p.event]]
<1>5. /\ At(ws, p.rest) = s /\ s \in DOMAIN ws /\ s + Len(p.rest) - 1 \in DOMAIN ws
      /\ Len(p.rest) \in Nat \ {0} /\ Len(ws) \in Nat /\ Head(p.rest) = ws[s]
  BY <1>1, <1>3, <1>4, SliceFacts
<1>6. From(p) = s /\ Till(p) = s + Len(p.rest) - 1
  BY <1>5 DEF From, Till
<1>. HIDE DEF ws
<1>7. 1 <= s
  BY <1>4 DEF Slice
<1>8. From(p) \in Nat /\ Till(p) \in Nat /\ 1 <= From(p) /\ From(p) <= Till(p)
  BY <1>5, <1>6, <1>7
<1>9. Len(p.rest) = 1 <=> From(p) = Till(p)
  <2>1. \A m, n \in Nat : n = 1 <=> m = m + n - 1
    OBVIOUS
  <2>2. Len(p.rest) \in Nat
    BY <1>5
  <2>. QED  BY <1>6, <2>1, <2>2
<1>10. From(p) \in Places(p.event) /\ Till(p) \in Places(p.event)
  BY <1>5, <1>6 DEF Places, ws
<1>11. Slice(wires[Channel[p.event]], p.rest, From(p)) /\ Head(p.rest) = wires[Channel[p.event]][From(p)]
  BY <1>4, <1>5, <1>6 DEF ws
<1>. QED  BY <1>1, <1>3, <1>8, <1>9, <1>10, <1>11

\* Where a pass of the next state is, from a slice it is known to hold.
LEMMA PlacingNext ==
  ASSUME Types', Distinct', NEW q \in passes', NEW s \in Nat,
         Slice(wires'[Channel[q.event]], q.rest, s)
  PROVE  From(q)' = s /\ Till(q)' = s + Len(q.rest) - 1
<1>1. q.event \in Events /\ q.rest \in Seq(Wires) /\ q.rest # <<>>
  BY DEF Types, PassTypes
<1>2. Channel[q.event] \in Channels
  BY <1>1, AdmissionAssumption
<1>3. wires'[Channel[q.event]] \in Seq(Wires) /\ Lone(wires'[Channel[q.event]])
  BY <1>2 DEF Types, Tables, Distinct, Lone
<1>4. At(wires'[Channel[q.event]], q.rest) = s
  BY <1>1, <1>3, SliceFacts
<1>. QED  BY <1>4 DEF From, Till

\* How a pass begins.
Begins(e) ==
  \/ Arrive(e)
  \/ \E row \in senderRows : AllowSender(row) /\ row.event = e
  \/ \E c \in Channels, a \in Groups : Register(c, a) /\ channelRows[c] = e

LEMMA OnlyPasses ==
  ASSUME Types, [Next]_vars, NEW q \in passes', q \notin passes
  PROVE  \/ \E p \in passes : /\ Visit(p) /\ Len(p.rest) # 1
                              /\ q.event = p.event /\ q.rest = Tail(p.rest)
         \/ q.rest = wires'[Channel[q.event]] /\ Begins(q.event)
<1>1. ASSUME NEW x, NEW y, NEW z,
             \/ AskSender(x, y, z) \/ AskChannel(x, y, z) \/ DenySender(x) \/ Reject(x)
             \/ ClickNew(x) \/ Prompt(x, y) \/ Prompted(x, y) \/ Crash
      PROVE  passes' \subseteq passes
  BY <1>1 DEF AskSender, AskChannel, DenySender, Reject, ClickNew, Prompt, Prompted, Crash
<1>2. CASE UNCHANGED vars
  BY <1>2 DEF vars
<1>3. ASSUME NEW e \in Events, Arrive(e)
      PROVE  q.rest = wires'[Channel[q.event]] /\ Begins(q.event)
  <2>1. q = Pass(e, NoGroup) /\ wires' = wires
    BY <1>3 DEF Arrive
  <2>2. q.event = e /\ q.rest = wires[Channel[e]]
    BY <2>1 DEF Pass
  <2>. QED  BY <1>3, <2>1, <2>2 DEF Begins
<1>4. ASSUME NEW row \in senderRows, AllowSender(row)
      PROVE  q.rest = wires'[Channel[q.event]] /\ Begins(q.event)
  <2>1. q = Pass(row.event, row.agent) /\ wires' = wires
    BY <1>4 DEF AllowSender
  <2>2. q.event = row.event /\ q.rest = wires[Channel[row.event]]
    BY <2>1 DEF Pass
  <2>. QED  BY <1>4, <2>1, <2>2 DEF Begins
<1>5. ASSUME NEW c \in Channels, NEW a \in Groups, Register(c, a), channelRows[c] # NoEvent
      PROVE  q.rest = wires'[Channel[q.event]] /\ Begins(q.event)
  <2>1. q = [event |-> channelRows[c], by |-> a, rest |-> wires'[c]]
    BY <1>5 DEF Register
  <2>2. q.event = channelRows[c] /\ q.rest = wires'[c]
    BY <2>1
  <2>3. Channel[channelRows[c]] = c
    BY <1>5 DEF Types, FlowTypes
  <2>. QED  BY <1>5, <2>2, <2>3 DEF Begins
<1>6. ASSUME NEW c \in Channels, NEW a \in Agents, Connect(c, a)
      PROVE  q.rest = wires'[Channel[q.event]] /\ Begins(q.event)
  <2>1. a \in Groups /\ Register(c, a) /\ channelRows[c] # NoEvent
    BY <1>6 DEF Connect, Groups, Clickable, ChannelInFlight
  <2>. QED  BY <1>5, <2>1
<1>7. ASSUME NEW a, NameReply(a)
      PROVE  q.rest = wires'[Channel[q.event]] /\ Begins(q.event)
  <2>1. naming \in Channels /\ a \in Groups /\ Register(naming, a) /\ channelRows[naming] # NoEvent
    BY <1>7 DEF NameReply, Groups, Types, FlowTypes, ChannelInFlight
  <2>. QED  BY <1>5, <2>1
<1>8. ASSUME NEW p \in passes, Visit(p)
      PROVE  Len(p.rest) # 1 /\ q.event = p.event /\ q.rest = Tail(p.rest)
  <2>1. PICK thrown \in BOOLEAN : passes' = Rest(p, thrown)
    BY <1>8, VisitDoes
  <2>2. Len(p.rest) # 1 /\ q = [p EXCEPT !.rest = Tail(@)]
    BY <2>1 DEF Rest
  <2>3. p \in [event : Events, by : Groups \cup {NoGroup}, rest : Seq(Wires) \ {<<>>}]
    BY DEF Types, PassTypes
  <2>. QED  BY <2>2, <2>3, Shorter
<1>. QED  BY <1>1, <1>2, <1>3, <1>4, <1>6, <1>7, <1>8, NextCases

\* A pass of the next state is one of before, one turn further, or a new one.
LEMMA Carried ==
  ASSUME Types, Distinct, Slices, [Next]_vars, NEW q \in passes'
  PROVE  /\ q.event \in Events
         /\ \E s \in Nat : Slice(wires'[Channel[q.event]], q.rest, s)
         /\ \/ \E p \in passes : /\ p.event = q.event /\ Till(q)' = Till(p)
                                 /\ \/ From(q)' = From(p)
                                    \/ From(q)' = From(p) + 1 /\ Visit(p)
            \/ /\ From(q)' = 1 /\ Till(q)' = Len(wires'[Channel[q.event]])
               /\ Begins(q.event)
<1>0. Types' /\ Distinct' /\ Grows
  BY TypesStep, DistinctStep
<1>1. q.event \in Events /\ q.rest \in Seq(Wires) /\ q.rest # <<>> /\ Channel[q.event] \in Channels
  BY <1>0, AdmissionAssumption DEF Types, PassTypes
<1>2. wires'[Channel[q.event]] \in Seq(Wires) /\ wires[Channel[q.event]] \in Seq(Wires)
  BY <1>0, <1>1 DEF Types, Tables
<1>3. \A i \in Places(q.event) :
        i \in DOMAIN wires'[Channel[q.event]] /\ wires'[Channel[q.event]][i] = wires[Channel[q.event]][i]
  BY <1>0, <1>1 DEF Grows, Places
<1>4. CASE q \in passes
  <2>1. From(q) \in Nat /\ Slice(wires[Channel[q.event]], q.rest, From(q))
    BY <1>4, Placing
  <2>2. Slice(wires'[Channel[q.event]], q.rest, From(q))
    BY <1>1, <1>2, <1>3, <2>1, SliceLonger DEF Places
  <2>3. From(q)' = From(q) /\ Till(q)' = From(q) + Len(q.rest) - 1
    BY <1>0, <2>1, <2>2, PlacingNext
  <2>. QED  BY <1>1, <1>4, <2>1, <2>2, <2>3 DEF Till
<1>5. ASSUME NEW p \in passes, Visit(p), Len(p.rest) # 1, q.event = p.event, q.rest = Tail(p.rest)
      PROVE  /\ \E s \in Nat : Slice(wires'[Channel[q.event]], q.rest, s)
             /\ Till(q)' = Till(p) /\ From(q)' = From(p) + 1
  <2>1. /\ From(p) \in Nat /\ Slice(wires[Channel[p.event]], p.rest, From(p))
        /\ p.rest \in Seq(Wires) /\ p.rest # <<>>
    BY Placing
  <2>2. Slice(wires[Channel[p.event]], Tail(p.rest), From(p) + 1) /\ Len(Tail(p.rest)) = Len(p.rest) - 1
    BY <1>2, <1>5, <2>1, SliceTail
  <2>3. From(p) + 1 \in Nat /\ Slice(wires[Channel[q.event]], q.rest, From(p) + 1)
    BY <1>5, <2>1, <2>2
  <2>4. Slice(wires'[Channel[q.event]], q.rest, From(p) + 1)
    BY <1>1, <1>2, <1>3, <2>3, SliceLonger DEF Places
  <2>5. From(q)' = From(p) + 1 /\ Till(q)' = From(p) + 1 + Len(q.rest) - 1
    BY <1>0, <2>3, <2>4, PlacingNext
  <2>6. Len(p.rest) \in Nat
    BY <2>1
  <2>7. Till(q)' = Till(p)
    BY <1>5, <2>1, <2>2, <2>5, <2>6 DEF Till
  <2>. QED  BY <2>3, <2>4, <2>5, <2>7
<1>6. CASE q.rest = wires'[Channel[q.event]] /\ Begins(q.event)
  <2>1. Slice(wires'[Channel[q.event]], q.rest, 1)
    BY <1>2, <1>6, SliceWhole
  <2>2. From(q)' = 1 /\ Till(q)' = 1 + Len(q.rest) - 1
    BY <1>0, <2>1, PlacingNext
  <2>3. Till(q)' = Len(wires'[Channel[q.event]])
    BY <1>2, <1>6, <2>2, SliceWhole
  <2>. QED  BY <1>1, <1>6, <2>1, <2>2, <2>3
<1>. QED  BY <1>1, <1>4, <1>5, <1>6, OnlyPasses

LEMMA SlicesStep == Types /\ Distinct /\ Slices /\ [Next]_vars => Slices'
BY Carried DEF Slices

-----------------------------------------------------------------------------
\* What a turn of the fan-out gives the agent it is at.
LEMMA VisitTakes ==
  ASSUME Types, NEW p \in passes, Visit(p)
  PROVE  LET w == Head(p.rest)
             e == p.event
         IN /\ \/ stored' = stored
               \/ /\ stored[w.agent][e] = "no" /\ Command[e] = "none"
                  /\ \/ stored' = [stored EXCEPT ![w.agent][e] = "trigger"]
                     \/ stored' = [stored EXCEPT ![w.agent][e] = "context"]
            /\ Command[e] = "none" /\ stored[w.agent][e] = "no" =>
                 /\ passes' = Rest(p, FALSE)
                 /\ Engages(w, e) /\ AccessOk(w, e) /\ ScopeOk(w, e) =>
                      stored' = [stored EXCEPT ![w.agent][e] = "trigger"]
            /\ \/ asking' = asking
               \/ Engages(w, e) /\ asking' = asking \cup AskFor(w, e)
<1>. DEFINE w == Head(p.rest)
            e == p.event
<1>0. Command[e] = "none" /\ stored[w.agent][e] = "no" => ~ Throws(w, e)
  BY DEF Throws
<1>1. ~ Throws(w, e) => Rest(p, Throws(w, e)) = Rest(p, FALSE)
  BY DEF Rest
<1>2. Command[e] = "none" /\ ~ Throws(w, e) => stored[w.agent][e] = "no"
  BY DEF Throws
<1>3. CASE Engage(p, w)
  <2>1. \/ stored' = stored /\ ~(Command[e] = "none" /\ ~ Throws(w, e))
        \/ Command[e] = "none" /\ ~ Throws(w, e) /\ stored' = [stored EXCEPT ![w.agent][e] = "trigger"]
    BY <1>3 DEF Engage, DeliverToAgent
  <2>2. asking' = asking /\ passes' = Rest(p, Throws(w, e))
    BY <1>3 DEF Engage
  <2>. QED  BY <1>0, <1>1, <1>2, <2>1, <2>2
<1>4. CASE Refuse(p, w)
  BY <1>4 DEF Refuse
<1>5. CASE Accumulate(p, w)
  <2>1. \/ stored' = stored
        \/ Command[e] = "none" /\ ~ Throws(w, e) /\ stored' = [stored EXCEPT ![w.agent][e] = "context"]
    BY <1>5 DEF Accumulate, DeliverToAgent
  <2>2. asking' = asking /\ passes' = Rest(p, Throws(w, e)) /\ ~ Engages(w, e)
    BY <1>5 DEF Accumulate
  <2>. QED  BY <1>0, <1>1, <1>2, <2>1, <2>2
<1>6. CASE Ignore(p, w)
  BY <1>6 DEF Ignore
<1>. QED  BY <1>3, <1>4, <1>5, <1>6 DEF Visit

LEMMA Gives ==
  ASSUME Types, NEW a \in Groups, NEW e \in Events, NEW v \in {"no", "context", "trigger"},
         stored' = [stored EXCEPT ![a][e] = v]
  PROVE  /\ stored'[a][e] = v
         /\ \A b \in Groups, x \in Events : b # a \/ x # e => stored'[b][x] = stored[b][x]
<1>1. stored \in [Groups -> [Events -> {"no", "context", "trigger"}]]
  BY DEF Types, Tables
<1>2. \A b \in Groups, x \in Events :
        [stored EXCEPT ![a][e] = v][b][x] = IF b = a /\ x = e THEN v ELSE stored[b][x]
  BY <1>1, StoredTyped
<1>. QED  BY <1>2

\* What an agent has of a message it keeps.
LEMMA StoredStays ==
  ASSUME Types, [Next]_vars, NEW a \in Groups, NEW e \in Events, stored[a][e] # "no"
  PROVE  stored'[a][e] = stored[a][e]
<1>1. CASE stored' = stored
  BY <1>1
<1>2. CASE stored' # stored
  <2>1. PICK p \in passes : Visit(p)
    BY <1>2, OnlyVisits
  <2>. DEFINE w == Head(p.rest)
  <2>2. p.event \in Events /\ w.agent \in Groups
    BY HeadIsWire
  <2>3. /\ stored[w.agent][p.event] = "no"
        /\ \/ stored' = [stored EXCEPT ![w.agent][p.event] = "trigger"]
           \/ stored' = [stored EXCEPT ![w.agent][p.event] = "context"]
    BY <1>2, <2>1, VisitTakes
  <2>. HIDE DEF w
  <2>4. a # w.agent \/ e # p.event
    BY <2>3
  <2>5. ASSUME NEW v \in {"no", "context", "trigger"}, stored' = [stored EXCEPT ![w.agent][p.event] = v]
        PROVE  stored'[a][e] = stored[a][e]
    BY <2>2, <2>4, <2>5, Gives
  <2>. QED  BY <2>3, <2>5
<1>. QED  BY <1>1, <1>2

\* Whether the agent at a place of the list has a message.
Has(e, n) == stored[wires[Channel[e]][n].agent][e] # "no"

LEMMA PlaceStays ==
  ASSUME Types, Distinct, [Next]_vars, NEW e \in Events, NEW n \in Places(e)
  PROVE  /\ n \in Nat /\ 1 <= n /\ n \in Places(e)' /\ n <= Len(wires'[Channel[e]])
         /\ wires'[Channel[e]][n] = wires[Channel[e]][n]
         /\ wires[Channel[e]][n] \in Wires /\ wires[Channel[e]][n].agent \in Groups
         /\ Has(e, n) => Has(e, n)'
         /\ stored' = stored => Has(e, n)' = Has(e, n)
<1>0. Types' /\ Grows /\ Channel[e] \in Channels
  BY TypesStep, AdmissionAssumption
<1>1. wires'[Channel[e]] \in Seq(Wires) /\ wires[Channel[e]] \in Seq(Wires)
  BY <1>0 DEF Types, Tables
<1>2. n \in Places(e)' /\ wires'[Channel[e]][n] = wires[Channel[e]][n]
  BY <1>0 DEF Grows, Places
<1>3. n \in Nat /\ 1 <= n /\ n <= Len(wires'[Channel[e]])
  BY <1>1, <1>2 DEF Places
<1>4. wires[Channel[e]][n] \in Wires
  BY <1>1, ElementTyped DEF Places
<1>5. wires[Channel[e]][n].agent \in Groups
  BY <1>4 DEF Wires
<1>6. Has(e, n) => Has(e, n)'
  BY <1>2, <1>5, StoredStays DEF Has
<1>7. stored' = stored => Has(e, n)' = Has(e, n)
  BY <1>2 DEF Has
<1>. QED  BY <1>2, <1>3, <1>4, <1>5, <1>6, <1>7

-----------------------------------------------------------------------------
(* The invariant.                                                          *)

\* A place is within a message's passes when each comes by it, or already has
\* an agent on its way that has the message.
Within(e, n) ==
  \A q \in passes : q.event = e => n <= Till(q) \/ \E j \in 1..Till(q) : Has(e, j)

\* The wiring at a place engages, and the sender is a member.
Admits(e, n) ==
  /\ Engages(wires[Channel[e]][n], e)
  /\ Member(Sender[e], wires[Channel[e]][n].agent)

\* Whom the approver is asked to admit, or is about to be asked.
Asks ==
  {<<r.event, r.agent>> : r \in {x \in asking : x.kind = "sender"}}
    \cup {<<r.event, r.agent>> : r \in senderRows}

AsksInv ==
  \A r \in Asks : Command[r[1]] = "none" =>
    \E n \in Places(r[1]) :
      /\ wires[Channel[r[1]]][n].agent = r[2]
      /\ Engages(wires[Channel[r[1]]][n], r[1])
      /\ Within(r[1], n)

\* Two kinds of pass: the message's shortest, and the replays of an admission.
Shortest(p) == \A q \in passes : q.event = p.event => Till(p) <= Till(q)
ReplaysFor(p, n) ==
  /\ Admits(p.event, n) /\ Within(p.event, n)
  /\ n < From(p) => Has(p.event, n)

PassesInv ==
  \A p \in passes : Command[p.event] = "none" =>
    Shortest(p) \/ \E n \in Places(p.event) : ReplaysFor(p, n)

\* A message that waits for its channel is in no pass, and nobody is asked
\* about its sender.
Waits(e) == channelRows[Channel[e]] = e \/ ChannelRequest(e) \in asking

ChannelsInv ==
  \A e \in Events :
    /\ e \notin arrived \/ Waits(e) => /\ \A p \in passes : p.event # e
                                       /\ \A r \in Asks : r[1] # e
    /\ Waits(e) => e \in arrived /\ Mention[e]
    /\ ~(channelRows[Channel[e]] = e /\ ChannelRequest(e) \in asking)

\* A granted message has its agent, or a pass with nothing between the two.
Reaches(e, n) ==
  \E p \in passes : p.event = e /\ From(p) <= n /\ \A j \in From(p)..n : ~ Has(e, j)

GrantInv ==
  \A g \in granted : Command[g[1]] = "none" =>
    \E n \in Places(g[1]) :
      /\ wires[Channel[g[1]]][n].agent = g[2] /\ Admits(g[1], n)
      /\ \A q \in passes : q.event = g[1] => n <= Till(q)
      /\ stored[g[2]][g[1]] = "trigger" \/ Reaches(g[1], n)

ReplayInv == Slices /\ AsksInv /\ PassesInv /\ ChannelsInv /\ GrantInv

LEMMA AdmitsStays ==
  ASSUME Types, Distinct, [Next]_vars, NEW e \in Events, NEW n \in Places(e)
  PROVE  /\ Engages(wires[Channel[e]][n], e) => Engages(wires[Channel[e]][n], e)'
         /\ Admits(e, n) => Admits(e, n)'
<1>1. wires'[Channel[e]][n] = wires[Channel[e]][n] /\ Grows
  BY PlaceStays, TypesStep
<1>2. Engages(wires[Channel[e]][n], e) => Engages(wires[Channel[e]][n], e)'
  BY <1>1 DEF Grows, Engages
<1>3. Member(Sender[e], wires[Channel[e]][n].agent) => Member(Sender[e], wires[Channel[e]][n].agent)'
  BY <1>1 DEF Grows, Member
<1>. QED  BY <1>2, <1>3 DEF Admits

LEMMA WithinStays ==
  ASSUME Types, Distinct, Slices, [Next]_vars, NEW e \in Events, NEW n \in Places(e), Within(e, n)
  PROVE  Within(e, n)'
<1>. SUFFICES ASSUME NEW q \in passes', q.event = e
              PROVE  n <= Till(q)' \/ \E j \in 1..Till(q)' : Has(e, j)'
  BY DEF Within
<1>1. n <= Len(wires'[Channel[e]])
  BY PlaceStays
<1>2. ASSUME NEW p \in passes, p.event = e, Till(q)' = Till(p)
      PROVE  n <= Till(q)' \/ \E j \in 1..Till(q)' : Has(e, j)'
  <2>1. CASE n <= Till(p)
    BY <1>2, <2>1
  <2>2. ASSUME NEW j \in 1..Till(p), Has(e, j) PROVE Has(e, j)'
    <3>1. Till(p) \in Places(e) /\ wires[Channel[e]] \in Seq(Wires) /\ Till(p) \in Nat
      BY <1>2, Placing
    <3>2. j \in Places(e)
      BY <3>1 DEF Places
    <3>. QED  BY <2>2, <3>2, PlaceStays
  <2>. QED  BY <1>2, <2>1, <2>2 DEF Within
<1>. QED  BY <1>1, <1>2, Carried

\* No pass is beyond what another will see, unless that one meets an agent that
\* has the message.
LEMMA FromWithin ==
  ASSUME Types, Distinct, Slices, PassesInv, NEW p \in passes, Command[p.event] = "none"
  PROVE  Within(p.event, From(p))
<1>. DEFINE e == p.event
<1>1. From(p) \in Nat /\ Till(p) \in Nat /\ From(p) <= Till(p) /\ e \in Events
  BY Placing
<1>2. CASE Shortest(p)
  <2>1. ASSUME NEW q \in passes, q.event = e PROVE From(p) <= Till(q)
    <3>1. Till(q) \in Nat /\ Till(p) <= Till(q)
      BY <1>2, <2>1, Placing DEF Shortest
    <3>. QED  BY <1>1, <3>1
  <2>. QED  BY <2>1 DEF Within
<1>3. ASSUME NEW n \in Places(e), ReplaysFor(p, n) PROVE Within(e, From(p))
  <2>1. n \in Nat /\ 1 <= n
    <3>1. wires[Channel[e]] \in Seq(Wires)
      BY Placing
    <3>. QED  BY <3>1 DEF Places
  <2>2. ASSUME NEW q \in passes, q.event = e, ~(From(p) <= Till(q))
        PROVE  \E j \in 1..Till(q) : Has(e, j)
    <3>1. Till(q) \in Nat
      BY Placing
    <3>2. CASE n <= Till(q)
      <4>1. n < From(p) /\ n \in 1..Till(q)
        BY <1>1, <2>1, <2>2, <3>1, <3>2
      <4>. QED  BY <1>3, <4>1 DEF ReplaysFor
    <3>. QED  BY <1>3, <2>2, <3>2 DEF ReplaysFor, Within
  <2>. QED  BY <2>2 DEF Within
<1>. QED  BY <1>2, <1>3 DEF PassesInv

Inductive == Types /\ Distinct /\ ReplayInv

\* Only a refusal asks.
LEMMA OnlyAsks ==
  ASSUME Types, [Next]_vars, NEW r \in Asks', r \notin Asks
  PROVE  \E p \in passes : /\ Visit(p) /\ r = <<p.event, Head(p.rest).agent>>
                           /\ Engages(Head(p.rest), p.event)
<1>1. ASSUME NEW x, NEW y, NEW z,
             \/ AskChannel(x, y, z) \/ AllowSender(x) \/ DenySender(x) \/ Reject(x) \/ ClickNew(x)
             \/ Connect(x, y) \/ Prompt(x, y) \/ Prompted(x, y) \/ NameReply(x) \/ Crash
      PROVE  asking' \subseteq asking /\ senderRows' \subseteq senderRows
  BY <1>1 DEF AskChannel, AllowSender, DenySender, Reject, ClickNew, Connect, Prompt, Prompted,
              NameReply, Crash
<1>2. CASE UNCHANGED vars
  BY <1>2 DEF vars, flows, Asks
<1>3. CASE asking' \subseteq asking /\ senderRows' \subseteq senderRows
  BY <1>3 DEF Asks
<1>4. ASSUME NEW e \in Events, Arrive(e) PROVE FALSE
  <2>1. senderRows' = senderRows /\ (asking' = asking \/ asking' = asking \cup {ChannelRequest(e)})
    BY <1>4 DEF Arrive
  <2>2. ChannelRequest(e).kind # "sender"
    BY DEF ChannelRequest
  <2>. QED  BY <2>1, <2>2 DEF Asks
<1>5. ASSUME NEW x \in asking, NEW y, NEW z, AskSender(x, y, z) PROVE FALSE
  <2>1. /\ x.kind = "sender" /\ asking' \subseteq asking
        /\ senderRows' \subseteq senderRows \cup {[event |-> x.event, agent |-> x.agent, card |-> z]}
    BY <1>5 DEF AskSender
  <2>2. <<x.event, x.agent>> \in Asks
    BY <2>1 DEF Asks
  <2>3. ASSUME NEW t \in senderRows' PROVE <<t.event, t.agent>> \in Asks
    <3>1. CASE t \in senderRows
      BY <3>1 DEF Asks
    <3>2. CASE t = [event |-> x.event, agent |-> x.agent, card |-> z]
      <4>1. t.event = x.event /\ t.agent = x.agent
        BY <3>2
      <4>. QED  BY <2>2, <4>1
    <3>. QED  BY <2>1, <3>1, <3>2
  <2>. QED  BY <2>1, <2>3 DEF Asks
<1>6. ASSUME NEW p \in passes, Visit(p)
      PROVE  r = <<p.event, Head(p.rest).agent>> /\ Engages(Head(p.rest), p.event)
  <2>1. senderRows' = senderRows
    BY <1>6 DEF Visit
  <2>2. \/ asking' = asking
        \/ Engages(Head(p.rest), p.event) /\ asking' = asking \cup AskFor(Head(p.rest), p.event)
    BY <1>6, VisitTakes
  <2>3. \A x \in AskFor(Head(p.rest), p.event) : x.event = p.event /\ x.agent = Head(p.rest).agent
    BY DEF AskFor
  <2>. QED  BY <2>1, <2>2, <2>3 DEF Asks
<1>. QED  BY <1>1, <1>2, <1>3, <1>4, <1>5, <1>6, NextCases

LEMMA AsksStep == Inductive /\ [Next]_vars => AsksInv'
<1>. SUFFICES ASSUME Inductive, [Next]_vars, NEW r \in Asks', Command[r[1]] = "none"
              PROVE  \E n \in Places(r[1])' :
                       /\ (wires[Channel[r[1]]][n].agent = r[2])'
                       /\ Engages(wires[Channel[r[1]]][n], r[1])'
                       /\ Within(r[1], n)'
  BY DEF AsksInv
<1>0. Types /\ Distinct /\ Slices /\ AsksInv /\ PassesInv
  BY DEF Inductive, ReplayInv
<1>1. SUFFICES r[1] \in Events /\ \E n \in Places(r[1]) :
                       /\ wires[Channel[r[1]]][n].agent = r[2]
                       /\ Engages(wires[Channel[r[1]]][n], r[1])
                       /\ Within(r[1], n)
  BY <1>0, PlaceStays, AdmitsStays, WithinStays
<1>2. CASE r \in Asks
  <2>1. r[1] \in Events
    BY <1>0, <1>2 DEF Types, FlowTypes, Asks, Requests
  <2>. QED  BY <1>0, <1>2, <2>1 DEF AsksInv
<1>3. CASE r \notin Asks
  <2>1. PICK p \in passes : /\ Visit(p) /\ r = <<p.event, Head(p.rest).agent>>
                            /\ Engages(Head(p.rest), p.event)
    BY <1>0, <1>3, OnlyAsks
  <2>2. r[1] = p.event /\ r[2] = Head(p.rest).agent
    BY <2>1
  <2>3. p.event \in Events /\ From(p) \in Places(p.event) /\ Head(p.rest) = wires[Channel[p.event]][From(p)]
    BY <1>0, Placing
  <2>4. Within(p.event, From(p))
    BY <1>0, <2>2, FromWithin
  <2>. QED  BY <2>1, <2>2, <2>3, <2>4
<1>. QED  BY <1>2, <1>3

LEMMA ChannelsStep == Inductive /\ [Next]_vars => ChannelsInv'
<1>. SUFFICES ASSUME Inductive, [Next]_vars, NEW e \in Events
              PROVE  /\ (e \notin arrived \/ Waits(e))' => /\ \A p \in passes' : p.event # e
                                                          /\ \A r \in Asks' : r[1] # e
                     /\ Waits(e)' => e \in arrived' /\ Mention[e]
                     /\ ~(channelRows'[Channel[e]] = e /\ ChannelRequest(e) \in asking')
  BY DEF ChannelsInv
<1>0. Types /\ Distinct /\ Slices /\ ChannelsInv
  BY DEF Inductive, ReplayInv
<1>1. /\ e \notin arrived \/ Waits(e) => /\ \A p \in passes : p.event # e
                                         /\ \A r \in Asks : r[1] # e
      /\ Waits(e) => e \in arrived /\ Mention[e]
      /\ ~(channelRows[Channel[e]] = e /\ ChannelRequest(e) \in asking)
  BY <1>0 DEF ChannelsInv
<1>2. /\ channelRows \in [Channels -> Events \cup {NoEvent}] /\ Channel[e] \in Channels
      /\ NoEvent \notin Events /\ asking \subseteq Requests
  BY <1>0, AdmissionAssumption DEF Types, FlowTypes
\* What a step does to the arrivals, the rows and the requests.
<1>3. \/ /\ arrived' = arrived /\ asking' \cap {ChannelRequest(e)} \subseteq asking
         /\ channelRows'[Channel[e]] # channelRows[Channel[e]] =>
              \/ channelRows'[Channel[e]] # e
              \/ ChannelRequest(e) \in asking /\ ChannelRequest(e) \notin asking'
      \/ \E x \in Events : Arrive(x)
  <2>1. ASSUME NEW x, NEW y, NEW z,
               \/ AskSender(x, y, z) \/ AllowSender(x) \/ DenySender(x)
               \/ ClickNew(x) \/ Prompt(x, y) \/ Prompted(x, y) \/ Crash
        PROVE  arrived' = arrived /\ asking' \subseteq asking /\ channelRows' = channelRows
    BY <2>1 DEF AskSender, AllowSender, DenySender, ClickNew, Prompt, Prompted, Crash
  <2>2. CASE UNCHANGED vars
    BY <2>2 DEF vars, flows
  <2>3. ASSUME NEW p \in passes, Visit(p)
        PROVE  /\ arrived' = arrived /\ channelRows' = channelRows
               /\ asking' \cap {ChannelRequest(e)} \subseteq asking
    <3>1. asking' = asking \/ asking' = asking \cup AskFor(Head(p.rest), p.event)
      BY <1>0, <2>3, VisitDoes
    <3>2. ChannelRequest(e) \notin AskFor(Head(p.rest), p.event)
      <4>1. ChannelRequest(e).kind = "channel" /\ \A x \in AskFor(Head(p.rest), p.event) : x.kind = "sender"
        BY DEF ChannelRequest, AskFor
      <4>. QED  BY <4>1
    <3>. QED  BY <2>3, <3>1, <3>2 DEF Visit
  <2>4. ASSUME NEW x \in asking, NEW y, NEW z, AskChannel(x, y, z)
        PROVE  /\ arrived' = arrived /\ asking' \subseteq asking
               /\ channelRows'[Channel[e]] # channelRows[Channel[e]] =>
                    \/ channelRows'[Channel[e]] # e
                    \/ ChannelRequest(e) \in asking /\ ChannelRequest(e) \notin asking'
    <3>1. arrived' = arrived /\ asking' = asking \ {x} /\ x.kind = "channel"
      BY <2>4 DEF AskChannel
    <3>2. \/ channelRows' = channelRows
          \/ channelRows' = [channelRows EXCEPT ![Channel[x.event]] = x.event]
      BY <2>4 DEF AskChannel
    <3>3. ASSUME channelRows'[Channel[e]] # channelRows[Channel[e]], channelRows'[Channel[e]] = e
          PROVE  x = ChannelRequest(e)
      <4>1. x.event = e
        BY <1>2, <3>2, <3>3
      <4>2. x \in Requests
        BY <1>2
      <4>. QED  BY <3>1, <4>1, <4>2 DEF Requests, ChannelRequest
    <3>. QED  BY <3>1, <3>3
  <2>5. ASSUME NEW x, NEW y, Reject(x) \/ Register(x, y)
        PROVE  channelRows'[Channel[e]] # channelRows[Channel[e]] => channelRows'[Channel[e]] # e
    <3>1. channelRows' = [channelRows EXCEPT ![x] = NoEvent]
      BY <2>5 DEF Reject, Register
    <3>. QED  BY <1>2, <3>1
  <2>6. ASSUME NEW x, NEW y, Reject(x) \/ Connect(x, y) \/ NameReply(x)
        PROVE  /\ arrived' = arrived /\ asking' = asking
               /\ channelRows'[Channel[e]] # channelRows[Channel[e]] => channelRows'[Channel[e]] # e
    BY <2>5, <2>6 DEF Reject, Connect, NameReply
  <2>. QED  BY <2>1, <2>2, <2>3, <2>4, <2>6, NextCases
<1>4. ASSUME NEW q \in passes', q.event = e
      PROVE  \/ \E p \in passes : p.event = e
             \/ Begins(e)
  BY <1>0, <1>4, Carried
<1>5. ASSUME NEW r \in Asks', r[1] = e, r \notin Asks PROVE \E p \in passes : p.event = e
  BY <1>0, <1>5, OnlyAsks
\* The message that arrives may wait, and nothing is known of it before.
<1>6. ASSUME NEW x \in Events, Arrive(x)
      PROVE  /\ arrived' = arrived \cup {x} /\ x \notin arrived /\ channelRows' = channelRows
             /\ asking' \cap {ChannelRequest(e)} # {} => ChannelRequest(e) \in asking \/ e = x
             /\ ChannelRequest(x) \in asking' =>
                  ChannelRequest(x) \in asking \/ (passes' = passes /\ Mention[x])
  <2>1. ChannelRequest(e) = ChannelRequest(x) => e = x
    <3>1. ChannelRequest(e).event = e /\ ChannelRequest(x).event = x
      BY DEF ChannelRequest
    <3>. QED  BY <3>1
  <2>2. \/ asking' = asking
        \/ asking' = asking \cup {ChannelRequest(x)} /\ passes' = passes /\ Mention[x]
    BY <1>6 DEF Arrive, Escalates
  <2>. QED  BY <1>6, <2>1, <2>2 DEF Arrive
\* A step that is no arrival leaves nobody new to wait.
<1>7. CASE ~ \E x \in Events : Arrive(x)
  <2>1. /\ arrived' = arrived
        /\ Waits(e)' => Waits(e)
        /\ ~(channelRows'[Channel[e]] = e /\ ChannelRequest(e) \in asking')
    BY <1>1, <1>3, <1>7 DEF Waits
  <2>2. ASSUME (e \notin arrived \/ Waits(e))', NEW q \in passes' PROVE q.event # e
    <3>1. ~ \E p \in passes : p.event = e
      BY <1>1, <2>1, <2>2
    <3>. SUFFICES ASSUME q.event = e, Begins(e) PROVE FALSE
      BY <1>4, <3>1
    <3>2. ASSUME NEW row \in senderRows, row.event = e PROVE FALSE
      <4>1. <<row.event, row.agent>> \in Asks /\ <<row.event, row.agent>>[1] = e
        BY <3>2 DEF Asks
      <4>. QED  BY <1>1, <2>1, <2>2, <4>1
    <3>3. ASSUME NEW c \in Channels, NEW a \in Groups, Register(c, a), channelRows[c] = e PROVE FALSE
      <4>1. c = Channel[e]
        BY <1>0, <1>2, <3>3 DEF Types, FlowTypes
      <4>2. channelRows'[Channel[e]] = NoEvent
        BY <1>2, <3>3, <4>1 DEF Register
      <4>3. e \in arrived' /\ ChannelRequest(e) \notin asking'
        BY <1>1, <1>3, <1>7, <3>3, <4>1 DEF Waits
      <4>. QED  BY <1>2, <2>2, <4>2, <4>3 DEF Waits
    <3>. QED  BY <1>7, <3>2, <3>3 DEF Begins
  <2>3. ASSUME (e \notin arrived \/ Waits(e))', NEW r \in Asks' PROVE r[1] # e
    BY <1>1, <1>5, <2>1, <2>3
  <2>4. Waits(e)' => e \in arrived' /\ Mention[e]
    BY <1>1, <2>1
  <2>. QED  BY <2>1, <2>2, <2>3, <2>4
<1>8. ASSUME NEW x \in Events, Arrive(x), e # x
      PROVE  /\ (e \notin arrived \/ Waits(e))' => /\ \A p \in passes' : p.event # e
                                                  /\ \A r \in Asks' : r[1] # e
             /\ Waits(e)' => e \in arrived' /\ Mention[e]
             /\ ~(channelRows'[Channel[e]] = e /\ ChannelRequest(e) \in asking')
  <2>1. /\ (e \notin arrived \/ Waits(e))' => e \notin arrived \/ Waits(e)
        /\ Waits(e)' => Waits(e) /\ e \in arrived'
        /\ ~(channelRows'[Channel[e]] = e /\ ChannelRequest(e) \in asking')
    BY <1>1, <1>6, <1>8 DEF Waits
  <2>2. ASSUME NEW q \in passes' PROVE q.event = e => \E p \in passes : p.event = e
    <3>1. passes' \subseteq passes \cup {Pass(x, NoGroup)} /\ Pass(x, NoGroup).event = x
      BY <1>8 DEF Arrive, Pass
    <3>. QED  BY <1>8, <3>1
  <2>. QED  BY <1>1, <1>5, <2>1, <2>2
<1>9. ASSUME Arrive(e)
      PROVE  /\ (e \notin arrived \/ Waits(e))' => /\ \A p \in passes' : p.event # e
                                                  /\ \A r \in Asks' : r[1] # e
             /\ Waits(e)' => e \in arrived' /\ Mention[e]
             /\ ~(channelRows'[Channel[e]] = e /\ ChannelRequest(e) \in asking')
  <2>1. e \in arrived' /\ e \notin arrived /\ ~ Waits(e)
    BY <1>1, <1>6, <1>9
  <2>2. Waits(e)' => passes' = passes /\ Mention[e]
    BY <1>6, <1>9, <2>1 DEF Waits
  <2>. QED  BY <1>1, <1>5, <1>6, <1>9, <2>1, <2>2 DEF Waits
<1>. QED  BY <1>7, <1>8, <1>9

\* A message without a pass, and nobody asked about its sender: what begins is
\* the first pass of an arrival or of a registered channel.
LEMMA FirstPass ==
  ASSUME Inductive, [Next]_vars, NEW e \in Events,
         Arrive(e) \/ \E c \in Channels, a \in Groups : Register(c, a) /\ channelRows[c] = e
  PROVE  \A p \in passes : p.event # e
<1>1. CASE Arrive(e)
  BY <1>1 DEF Inductive, ReplayInv, ChannelsInv, Arrive
<1>2. ASSUME NEW c \in Channels, NEW a \in Groups, Register(c, a), channelRows[c] = e
      PROVE  \A p \in passes : p.event # e
  <2>1. Channel[e] = c
    BY <1>2, AdmissionAssumption DEF Inductive, Types, FlowTypes
  <2>. QED  BY <1>2, <2>1 DEF Inductive, ReplayInv, ChannelsInv, Waits
<1>. QED  BY <1>1, <1>2

LEMMA PassesStep == Inductive /\ [Next]_vars => PassesInv'
<1>. SUFFICES ASSUME Inductive, [Next]_vars, NEW q \in passes', Command[q.event] = "none"
              PROVE  Shortest(q)' \/ \E n \in Places(q.event)' : ReplaysFor(q, n)'
  BY DEF PassesInv
<1>. DEFINE e == q.event
<1>0. Types /\ Distinct /\ Slices /\ AsksInv /\ PassesInv
  BY DEF Inductive, ReplayInv
<1>1. Types' /\ Distinct' /\ Slices' /\ Grows
  BY <1>0, TypesStep, DistinctStep, SlicesStep
<1>2. e \in Events /\ Channel[e] \in Channels
  BY <1>0, Carried, AdmissionAssumption
<1>3. /\ Till(q)' \in Nat /\ Till(q)' <= Len(wires'[Channel[e]])
      /\ From(q)' \in Nat
  <2>1. Till(q)' \in DOMAIN wires'[Channel[e]] /\ wires'[Channel[e]] \in Seq(Wires) /\ From(q)' \in Nat
    <3>1. ASSUME Types', Distinct', Slices'
          PROVE  /\ (Till(q) \in Places(q.event))' /\ wires'[Channel[q.event]] \in Seq(Wires)
                 /\ From(q)' \in Nat
      <4>1. q.rest \in Seq(Wires) /\ q.rest # <<>>
        BY <3>1 DEF Types, PassTypes
      <4>2. wires'[Channel[q.event]] \in Seq(Wires) /\ Lone(wires'[Channel[q.event]])
        BY <1>2, <3>1 DEF Types, Tables, Distinct, Lone
      <4>3. PICK s \in Nat : Slice(wires'[Channel[q.event]], q.rest, s)
        BY <3>1 DEF Slices
      <4>4. At(wires'[Channel[q.event]], q.rest) = s
            /\ s + Len(q.rest) - 1 \in DOMAIN wires'[Channel[q.event]]
        BY <4>1, <4>2, <4>3, SliceFacts
      <4>. QED  BY <4>2, <4>4 DEF From, Till, Places
    <3>. QED  BY <1>1, <3>1 DEF Places
  <2>. QED  BY <2>1
\* A pass goes on.
<1>4. ASSUME NEW p \in passes, p.event = e, Till(q)' = Till(p),
             From(q)' = From(p) \/ (From(q)' = From(p) + 1 /\ Visit(p))
      PROVE  Shortest(q)' \/ \E n \in Places(q.event)' : ReplaysFor(q, n)'
  <2>1. CASE Shortest(p)
    <3>1. ASSUME NEW r \in passes', r.event = e PROVE Till(q)' <= Till(r)'
      <4>1. ASSUME NEW p2 \in passes, p2.event = r.event, Till(r)' = Till(p2) PROVE Till(q)' <= Till(r)'
        BY <1>4, <2>1, <3>1, <4>1 DEF Shortest
      <4>. QED  BY <1>0, <1>3, <3>1, <4>1, Carried
    <3>2. Shortest(q)'
      BY <3>1 DEF Shortest
    <3>. QED  BY <3>2
  <2>2. ASSUME NEW n \in Places(e), ReplaysFor(p, n) PROVE n \in Places(e)' /\ ReplaysFor(q, n)'
    <3>1. /\ n \in Nat /\ n \in Places(e)'
          /\ wires'[Channel[e]][n] = wires[Channel[e]][n]
          /\ wires[Channel[e]][n].agent \in Groups
          /\ Has(e, n) => Has(e, n)'
      BY <1>0, <1>2, PlaceStays
    <3>2. Admits(e, n) /\ Admits(e, n)' /\ Within(e, n)'
      BY <1>0, <1>2, <1>4, <2>2, AdmitsStays, WithinStays DEF ReplaysFor
    <3>3. From(p) \in Nat /\ Head(p.rest) = wires[Channel[e]][From(p)]
      BY <1>0, <1>4, Placing
    <3>4. ASSUME n < From(q)' PROVE Has(e, n)'
      <4>1. CASE n < From(p)
        BY <1>4, <2>2, <3>1, <4>1 DEF ReplaysFor
      <4>2. CASE ~(n < From(p))
        <5>1. n = From(p) /\ Visit(p)
          BY <1>4, <3>1, <3>3, <3>4, <4>2
        <5>. DEFINE w == Head(p.rest)
        <5>2. w = wires[Channel[e]][n] /\ w.agent \in Groups
          BY <3>1, <3>3, <5>1
        <5>3. Engages(w, e) /\ AccessOk(w, e) /\ ScopeOk(w, e)
          BY <3>2, <5>2 DEF Admits, AccessOk, ScopeOk
        <5>4. CASE Has(e, n)
          BY <3>1, <5>4
        <5>5. CASE ~ Has(e, n)
          <6>1. stored[w.agent][e] = "no"
            BY <5>2, <5>5 DEF Has
          <6>2. stored' = [stored EXCEPT ![w.agent][e] = "trigger"]
            BY <1>0, <1>4, <5>1, <5>3, <6>1, VisitTakes
          <6>. HIDE DEF w
          <6>4. stored'[w.agent][e] = "trigger"
            BY <1>0, <1>2, <5>2, <6>2, Gives
          <6>. QED  BY <3>1, <5>2, <6>4 DEF Has
        <5>. QED  BY <5>4, <5>5
      <4>. QED  BY <4>1, <4>2
    <3>. QED  BY <3>1, <3>2, <3>4 DEF ReplaysFor
  <2>. QED  BY <1>0, <1>4, <2>1, <2>2 DEF PassesInv
\* A pass begins.
<1>5. ASSUME From(q)' = 1, Till(q)' = Len(wires'[Channel[e]]), Begins(e)
      PROVE  Shortest(q)' \/ \E n \in Places(q.event)' : ReplaysFor(q, n)'
  <2>1. CASE Arrive(e) \/ \E c \in Channels, a \in Groups : Register(c, a) /\ channelRows[c] = e
    <3>1. \A p \in passes : p.event # e
      BY <1>2, <2>1, FirstPass
    <3>2. ASSUME NEW r \in passes', r.event = e PROVE Till(q)' <= Till(r)'
      <4>1. Till(r)' = Len(wires'[Channel[r.event]])
        BY <1>0, <3>1, <3>2, Carried
      <4>2. Till(r)' = Till(q)'
        BY <1>5, <3>2, <4>1
      <4>. QED  BY <1>3, <4>2
    <3>3. Shortest(q)'
      BY <3>2 DEF Shortest
    <3>. QED  BY <3>3
  <2>2. ASSUME NEW row \in senderRows, AllowSender(row), row.event = e
        PROVE  \E n \in Places(q.event)' : ReplaysFor(q, n)'
    <3>1. <<e, row.agent>> \in Asks
      BY <2>2 DEF Asks
    <3>2. PICK n \in Places(e) : /\ wires[Channel[e]][n].agent = row.agent
                                 /\ Engages(wires[Channel[e]][n], e)
                                 /\ Within(e, n)
      BY <1>0, <3>1 DEF AsksInv
    <3>3. /\ n \in Nat /\ 1 <= n /\ n \in Places(e)'
          /\ wires'[Channel[e]][n] = wires[Channel[e]][n]
      BY <1>0, <1>2, PlaceStays
    <3>4. Within(e, n)' /\ Engages(wires[Channel[e]][n], e)'
      BY <1>0, <1>2, <3>2, WithinStays, AdmitsStays
    <3>5. Member(Sender[e], row.agent)'
      BY <2>2 DEF AllowSender, Member
    <3>6. Admits(e, n)'
      BY <3>2, <3>3, <3>4, <3>5 DEF Admits
    <3>7. ~(n < From(q)')
      BY <1>5, <3>3
    <3>. QED  BY <3>3, <3>4, <3>6, <3>7 DEF ReplaysFor
  <2>. QED  BY <1>5, <2>1, <2>2 DEF Begins
<1>. QED  BY <1>0, <1>4, <1>5, Carried

\* A pass that is not moved stays where it is, whatever is appended.
LEMMA StaysAt ==
  ASSUME Types, Distinct, Slices, [Next]_vars, NEW p \in passes, p \in passes'
  PROVE  From(p)' = From(p)
<1>0. Types' /\ Distinct' /\ Grows
  BY TypesStep, DistinctStep
<1>1. /\ p.event \in Events /\ p.rest \in Seq(Wires) /\ p.rest # <<>> /\ From(p) \in Nat
      /\ wires[Channel[p.event]] \in Seq(Wires)
      /\ Slice(wires[Channel[p.event]], p.rest, From(p))
  BY Placing
<1>2. Channel[p.event] \in Channels
  BY <1>1, AdmissionAssumption
<1>3. wires'[Channel[p.event]] \in Seq(Wires)
  BY <1>0, <1>2 DEF Types, Tables
<1>4. Slice(wires'[Channel[p.event]], p.rest, From(p))
  BY <1>0, <1>1, <1>2, <1>3, SliceLonger DEF Grows
<1>. QED  BY <1>0, <1>1, <1>4, PlacingNext

\* A pass that meets an agent without the message goes on to the next.
LEMMA GoesOn ==
  ASSUME Types, Distinct, Slices, [Next]_vars, NEW p \in passes, Visit(p),
         Command[p.event] = "none", ~ Has(p.event, From(p)), From(p) # Till(p)
  PROVE  \E q \in passes' : q.event = p.event /\ From(q)' = From(p) + 1
<1>0. Types' /\ Distinct'
  BY TypesStep, DistinctStep
<1>1. /\ p.event \in Events /\ p.rest \in Seq(Wires) /\ p.rest # <<>> /\ From(p) \in Nat
      /\ wires[Channel[p.event]] \in Seq(Wires)
      /\ Slice(wires[Channel[p.event]], p.rest, From(p))
      /\ Head(p.rest) = wires[Channel[p.event]][From(p)] /\ Len(p.rest) # 1
  BY Placing
<1>2. stored[Head(p.rest).agent][p.event] = "no"
  BY <1>1 DEF Has
<1>3. passes' = Rest(p, FALSE) /\ wires' = wires
  BY <1>2, VisitTakes DEF Visit
<1>4. [p EXCEPT !.rest = Tail(@)] \in passes'
  BY <1>1, <1>3 DEF Rest
<1>5. p \in [event : Events, by : Groups \cup {NoGroup}, rest : Seq(Wires) \ {<<>>}]
  BY DEF Types, PassTypes
<1>6. PICK q \in passes' : q.event = p.event /\ q.rest = Tail(p.rest)
  BY <1>1, <1>4, <1>5, Shorter
<1>7. Slice(wires'[Channel[q.event]], q.rest, From(p) + 1) /\ From(p) + 1 \in Nat
  BY <1>1, <1>3, <1>6, SliceTail
<1>8. From(q)' = From(p) + 1
  BY <1>0, <1>1, <1>7, PlacingNext
<1>. QED  BY <1>6, <1>8

LEMMA PassesKept ==
  ASSUME Types, [Next]_vars, granted' # {}, NEW p \in passes
  PROVE  p \in passes' \/ Visit(p)
<1>1. ASSUME NEW x, NEW y, NEW z,
             \/ Arrive(x) \/ AskSender(x, y, z) \/ AskChannel(x, y, z) \/ AllowSender(x)
             \/ DenySender(x) \/ Reject(x) \/ ClickNew(x) \/ Connect(x, y) \/ Prompt(x, y)
             \/ Prompted(x, y) \/ NameReply(x)
      PROVE  p \in passes'
  BY <1>1 DEF Arrive, AskSender, AskChannel, AllowSender, DenySender, Reject, ClickNew, Connect,
              Prompt, Prompted, NameReply, Register
<1>2. CASE UNCHANGED vars
  BY <1>2 DEF vars
<1>3. ASSUME NEW v \in passes, Visit(v), v # p PROVE p \in passes'
  <2>1. PICK thrown \in BOOLEAN : passes' = Rest(v, thrown)
    BY <1>3, VisitDoes
  <2>. QED  BY <1>3, <2>1 DEF Rest
<1>4. ~ Crash
  BY DEF Crash
<1>. QED  BY <1>1, <1>2, <1>3, <1>4, NextCases

\* A turn gives a message to the agent it is at, and to no other.
LEMMA OnlyHere ==
  ASSUME Types, Distinct, Slices, [Next]_vars, NEW v \in passes, Visit(v),
         NEW e \in Events, NEW j \in Places(e), ~ Has(e, j), v.event # e \/ From(v) # j
  PROVE  ~ Has(e, j)'
<1>. DEFINE w == Head(v.rest)
            b == wires[Channel[e]][j].agent
<1>1. /\ v.event \in Events /\ From(v) \in Places(v.event)
      /\ w = wires[Channel[v.event]][From(v)]
      /\ Lone(wires[Channel[v.event]])
  BY Placing
<1>2. b \in Groups /\ wires'[Channel[e]][j] = wires[Channel[e]][j]
  BY PlaceStays
<1>3. w.agent \in Groups
  BY HeadIsWire
<1>4. ~(w.agent = b /\ v.event = e)
  BY <1>1 DEF Lone, Places
<1>5. \/ stored' = stored
      \/ stored' = [stored EXCEPT ![w.agent][v.event] = "trigger"]
      \/ stored' = [stored EXCEPT ![w.agent][v.event] = "context"]
  BY VisitTakes
<1>6. v.event \in Events /\ b \in Groups /\ w.agent \in Groups /\ (b # w.agent \/ e # v.event)
  BY <1>1, <1>2, <1>3, <1>4
<1>. HIDE DEF w, b
<1>7. ASSUME NEW x \in {"no", "context", "trigger"}, stored' = [stored EXCEPT ![w.agent][v.event] = x]
      PROVE  stored'[b][e] = stored[b][e]
  <2>1. \A d \in Groups, y \in Events : d # w.agent \/ y # v.event => stored'[d][y] = stored[d][y]
    BY <1>6, <1>7, Gives
  <2>. QED  BY <1>6, <2>1
<1>8. stored'[b][e] = stored[b][e]
  BY <1>5, <1>7
<1>. QED  BY <1>2, <1>8 DEF Has, b

LEMMA OnlyGrants ==
  ASSUME Types, [Next]_vars, NEW g \in granted', g \notin granted
  PROVE  /\ stored' = stored
         /\ \/ \E row \in senderRows :
                 /\ AllowSender(row) /\ g = <<row.event, row.agent>>
                 /\ Clear(wires[Channel[row.event]], row.agent, row.event)
            \/ \E c \in Channels, a \in Groups :
                 /\ Register(c, a) /\ channelRows[c] # NoEvent /\ g = <<channelRows[c], a>>
                 /\ Clear(wires'[c], a, channelRows[c])
<1>1. ASSUME NEW x, NEW y, NEW z,
             \/ Arrive(x) \/ Visit(x) \/ AskSender(x, y, z) \/ AskChannel(x, y, z)
             \/ DenySender(x) \/ Reject(x) \/ ClickNew(x) \/ Prompt(x, y) \/ Prompted(x, y) \/ Crash
      PROVE  granted' \subseteq granted
  BY <1>1 DEF Arrive, Visit, AskSender, AskChannel, DenySender, Reject, ClickNew, Prompt, Prompted, Crash
<1>2. CASE UNCHANGED vars
  BY <1>2 DEF vars
<1>3. ASSUME NEW row \in senderRows, AllowSender(row)
      PROVE  /\ stored' = stored /\ g = <<row.event, row.agent>>
             /\ Clear(wires[Channel[row.event]], row.agent, row.event)
  BY <1>3 DEF AllowSender, Grant
<1>4. ASSUME NEW c, NEW a, Register(c, a)
      PROVE  g = <<channelRows[c], a>> /\ Clear(wires'[c], a, channelRows[c])
  BY <1>4 DEF Register, Grant
<1>5. ASSUME NEW c \in Channels, NEW a \in Agents, Connect(c, a)
      PROVE  stored' = stored /\ a \in Groups /\ Register(c, a) /\ channelRows[c] # NoEvent
  BY <1>5 DEF Connect, Groups, Clickable, ChannelInFlight
<1>6. ASSUME NEW a, NameReply(a)
      PROVE  /\ stored' = stored /\ naming \in Channels /\ a \in Groups
             /\ Register(naming, a) /\ channelRows[naming] # NoEvent
  BY <1>6 DEF NameReply, Groups, Types, FlowTypes, ChannelInFlight
<1>. QED  BY <1>1, <1>2, <1>3, <1>4, <1>5, <1>6, NextCases

\* What Clear says of the places up to an agent's.
LEMMA ClearPlaces ==
  ASSUME NEW ws \in Seq(Wires), Lone(ws), NEW n \in DOMAIN ws, NEW e, Clear(ws, ws[n].agent, e)
  PROVE  \A j \in 1..n : stored[ws[j].agent][e] = "no"
<1>1. DOMAIN ws = 1..Len(ws) /\ Len(ws) \in Nat
  OBVIOUS
<1>. SUFFICES ASSUME NEW j \in 1..n PROVE ws[j].agent \in UpTo(ws, ws[n].agent)
  BY DEF Clear
<1>2. j \in DOMAIN ws
  BY <1>1
<1>3. ASSUME NEW k \in 1..(j - 1) PROVE ws[k].agent # ws[n].agent
  <2>1. k \in DOMAIN ws /\ k # n
    BY <1>1
  <2>. QED  BY <2>1 DEF Lone
<1>. QED  BY <1>2, <1>3 DEF UpTo

\* The heart of it: a pass with nothing in front of the agent gets there, or
\* the pass that comes in between takes its place.
LEMMA ReachesStays ==
  ASSUME Inductive, [Next]_vars, granted' # {},
         NEW e \in Events, Command[e] = "none", NEW n \in Places(e), Admits(e, n),
         \A q \in passes : q.event = e => n <= Till(q),
         Reaches(e, n)
  PROVE  (stored[wires[Channel[e]][n].agent][e] = "trigger")' \/ Reaches(e, n)'
<1>0. Types /\ Distinct /\ Slices
  BY DEF Inductive, ReplayInv
<1>1. PICK p \in passes : p.event = e /\ From(p) <= n /\ \A j \in From(p)..n : ~ Has(e, j)
  BY DEF Reaches
<1>2. /\ From(p) \in Nat /\ 1 <= From(p) /\ wires[Channel[e]] \in Seq(Wires)
      /\ Lone(wires[Channel[e]])
  BY <1>0, <1>1, Placing
<1>3. n \in Nat /\ 1 <= n /\ DOMAIN wires[Channel[e]] = 1..Len(wires[Channel[e]])
  BY <1>2 DEF Places
<1>4. \A j \in From(p)..n : j \in Places(e)
  BY <1>2, <1>3 DEF Places
\* Nothing is visited in between.
<1>5. ASSUME p \in passes', \A j \in From(p)..n : ~ Has(e, j)'
      PROVE  Reaches(e, n)'
  <2>1. From(p)' = From(p)
    BY <1>0, <1>5, StaysAt
  <2>. QED  BY <1>1, <1>5, <2>1 DEF Reaches
<1>6. CASE ~ \E v \in passes : Visit(v)
  <2>1. stored' = stored /\ p \in passes'
    BY <1>0, <1>6, OnlyVisits, PassesKept
  <2>2. \A j \in From(p)..n : ~ Has(e, j)'
    BY <1>0, <1>1, <1>4, <2>1, PlaceStays
  <2>. QED  BY <1>5, <2>1, <2>2
<1>7. ASSUME NEW v \in passes, Visit(v), v.event # e \/ ~(From(p) <= From(v) /\ From(v) <= n)
      PROVE  Reaches(e, n)'
  <2>1. v # p
    BY <1>1, <1>2, <1>7
  <2>2. p \in passes'
    <3>1. PICK thrown \in BOOLEAN : passes' = Rest(v, thrown)
      BY <1>0, <1>7, VisitDoes
    <3>. QED  BY <2>1, <3>1 DEF Rest
  <2>3. ASSUME NEW j \in From(p)..n PROVE ~ Has(e, j)'
    <3>1. v.event # e \/ From(v) # j
      BY <1>2, <1>3, <1>7
    <3>. QED  BY <1>0, <1>1, <1>4, <1>7, <3>1, OnlyHere
  <2>. QED  BY <1>5, <2>2, <2>3
\* The agent itself is visited.
<1>8. ASSUME NEW v \in passes, Visit(v), v.event = e, From(v) = n
      PROVE  (stored[wires[Channel[e]][n].agent][e] = "trigger")'
  <2>. DEFINE w == Head(v.rest)
  <2>1. w = wires[Channel[e]][n] /\ w.agent \in Groups
    BY <1>0, <1>8, Placing, HeadIsWire
  <2>2. Engages(w, e) /\ AccessOk(w, e) /\ ScopeOk(w, e)
    BY <2>1 DEF Admits, AccessOk, ScopeOk
  <2>3. stored[w.agent][e] = "no"
    <3>1. ~ Has(e, n)
      BY <1>1, <1>2, <1>3
    <3>. QED  BY <2>1, <3>1 DEF Has
  <2>4. stored' = [stored EXCEPT ![w.agent][e] = "trigger"]
    BY <1>0, <1>8, <2>2, <2>3, VisitTakes
  <2>5. wires'[Channel[e]][n] = wires[Channel[e]][n]
    BY <1>0, PlaceStays
  <2>. HIDE DEF w
  <2>6. stored'[w.agent][e] = "trigger"
    BY <1>0, <2>1, <2>4, Gives
  <2>. QED  BY <2>1, <2>5, <2>6
\* An agent on the way is visited: whichever pass does it goes on.
<1>9. ASSUME NEW v \in passes, Visit(v), v.event = e, From(p) <= From(v), From(v) <= n, From(v) # n
      PROVE  Reaches(e, n)'
  <2>1. From(v) \in Nat /\ Till(v) \in Nat /\ n <= Till(v)
    BY <1>0, <1>9, Placing
  <2>2. From(v) # Till(v) /\ From(v) \in From(p)..n
    BY <1>2, <1>3, <1>9, <2>1
  <2>3. PICK q \in passes' : q.event = e /\ From(q)' = From(v) + 1
    BY <1>0, <1>1, <1>9, <2>2, GoesOn
  <2>4. ASSUME NEW j \in (From(v) + 1)..n PROVE ~ Has(e, j)'
    <3>1. j \in From(p)..n /\ From(v) # j
      BY <1>2, <1>3, <1>9, <2>1
    <3>. QED  BY <1>0, <1>1, <1>4, <1>9, <3>1, OnlyHere
  <2>5. From(v) + 1 <= n
    BY <1>3, <1>9, <2>1
  <2>. QED  BY <2>3, <2>4, <2>5 DEF Reaches
<1>. QED  BY <1>6, <1>7, <1>8, <1>9

LEMMA GrantStep == Inductive /\ [Next]_vars => GrantInv'
<1>. SUFFICES ASSUME Inductive, [Next]_vars, NEW g \in granted', Command[g[1]] = "none"
              PROVE  \E n \in Places(g[1])' :
                       /\ (wires[Channel[g[1]]][n].agent = g[2])' /\ Admits(g[1], n)'
                       /\ \A q \in passes' : q.event = g[1] => n <= Till(q)'
                       /\ (stored[g[2]][g[1]] = "trigger")' \/ Reaches(g[1], n)'
  BY DEF GrantInv
<1>. DEFINE e == g[1]
            a == g[2]
<1>0. Types /\ Distinct /\ Slices /\ AsksInv /\ ChannelsInv /\ GrantInv
  BY DEF Inductive, ReplayInv
<1>1. Types' /\ Distinct' /\ Grows
  BY <1>0, TypesStep, DistinctStep
<1>2. e \in Events /\ a \in Groups /\ Channel[e] \in Channels
  BY <1>1, AdmissionAssumption DEF Types, Histories
<1>3. wires[Channel[e]] \in Seq(Wires) /\ wires'[Channel[e]] \in Seq(Wires)
      /\ Lone(wires[Channel[e]]) /\ Lone(wires'[Channel[e]])
  BY <1>0, <1>1, <1>2 DEF Types, Tables, Distinct, Lone
\* The end of every pass stays beyond a place of the list.
<1>4. ASSUME NEW n \in Places(e), \A q \in passes : q.event = e => n <= Till(q)
      PROVE  \A q \in passes' : q.event = e => n <= Till(q)'
  BY <1>0, <1>2, <1>4, PlaceStays, Carried
<1>. HIDE DEF e, a
<1>5. CASE g \in granted
  <2>1. PICK n \in Places(e) :
          /\ wires[Channel[e]][n].agent = a /\ Admits(e, n)
          /\ \A q \in passes : q.event = e => n <= Till(q)
          /\ stored[a][e] = "trigger" \/ Reaches(e, n)
    BY <1>0, <1>5 DEF GrantInv, e, a
  <2>2. n \in Places(e)' /\ wires'[Channel[e]][n] = wires[Channel[e]][n] /\ Admits(e, n)'
    BY <1>0, <1>2, <2>1, PlaceStays, AdmitsStays
  <2>3. stored[a][e] = "trigger" => stored'[a][e] = "trigger"
    BY <1>0, <1>2, StoredStays
  <2>4. Reaches(e, n) => stored'[a][e] = "trigger" \/ Reaches(e, n)'
    BY <1>2, <1>5, <2>1, <2>2, ReachesStays DEF e
  <2>. QED  BY <1>4, <2>1, <2>2, <2>3, <2>4 DEF e, a
<1>6. ASSUME NEW row \in senderRows, AllowSender(row), g = <<row.event, row.agent>>,
             Clear(wires[Channel[row.event]], row.agent, row.event), stored' = stored
      PROVE  \E n \in Places(e)' :
               /\ (wires[Channel[e]][n].agent = a)' /\ Admits(e, n)'
               /\ \A q \in passes' : q.event = e => n <= Till(q)'
               /\ Reaches(e, n)'
  <2>1. row.event = e /\ row.agent = a
    BY <1>6 DEF e, a
  <2>2. <<e, a>> \in Asks
    BY <2>1 DEF Asks
  <2>3. PICK n \in Places(e) : /\ wires[Channel[e]][n].agent = a
                               /\ Engages(wires[Channel[e]][n], e)
                               /\ Within(e, n)
    BY <1>0, <2>2 DEF AsksInv, e
  <2>4. /\ n \in Nat /\ 1 <= n /\ n \in Places(e)'
        /\ wires'[Channel[e]][n] = wires[Channel[e]][n]
    BY <1>0, <1>2, PlaceStays
  <2>5. Admits(e, n)'
    <3>1. Engages(wires[Channel[e]][n], e)'
      BY <1>0, <1>2, <2>3, AdmitsStays
    <3>2. Member(Sender[e], a)'
      BY <1>6, <2>1 DEF AllowSender, Member
    <3>. QED  BY <2>3, <2>4, <3>1, <3>2 DEF Admits
  <2>6. \A j \in 1..n : ~ Has(e, j)
    <3>1. \A j \in 1..n : stored[wires[Channel[e]][j].agent][e] = "no"
      <4>1. Clear(wires[Channel[e]], wires[Channel[e]][n].agent, e)
        BY <1>6, <2>1, <2>3
      <4>2. n \in DOMAIN wires[Channel[e]]
        BY DEF Places
      <4>. QED  BY <1>3, <4>1, <4>2, ClearPlaces
    <3>. QED  BY <3>1 DEF Has
  <2>7. ASSUME NEW q \in passes, q.event = e PROVE n <= Till(q)
    <3>1. Till(q) \in Nat
      BY <1>0, Placing
    <3>2. ASSUME ~(n <= Till(q)) PROVE FALSE
      <4>1. PICK j \in 1..Till(q) : Has(e, j)
        BY <2>3, <2>7, <3>2 DEF Within
      <4>2. j \in 1..n
        BY <2>4, <3>1, <3>2
      <4>. QED  BY <2>6, <4>1, <4>2
    <3>. QED  BY <3>2
  <2>8. Reaches(e, n)'
    <3>1. Pass(e, a) \in passes' /\ wires' = wires
      BY <1>6, <2>1 DEF AllowSender
    <3>2. PICK q \in passes' : q.event = e /\ q.rest = wires'[Channel[e]]
      BY <3>1 DEF Pass
    <3>3. Slice(wires'[Channel[q.event]], q.rest, 1)
      BY <1>3, <3>2, SliceWhole
    <3>4. From(q)' = 1
      BY <1>1, <3>3, PlacingNext
    <3>5. \A j \in 1..n : ~ Has(e, j)'
      <4>1. \A j \in 1..n : j \in Places(e)
        BY <1>3, <2>4 DEF Places
      <4>. QED  BY <1>0, <1>2, <1>6, <2>6, <4>1, PlaceStays
    <3>. QED  BY <2>4, <3>2, <3>4, <3>5 DEF Reaches
  <2>. QED  BY <1>4, <2>3, <2>4, <2>5, <2>7, <2>8
<1>7. ASSUME NEW c \in Channels, NEW b \in Groups, Register(c, b), channelRows[c] # NoEvent,
             g = <<channelRows[c], b>>, Clear(wires'[c], b, channelRows[c]), stored' = stored
      PROVE  \E n \in Places(e)' :
               /\ (wires[Channel[e]][n].agent = a)' /\ Admits(e, n)'
               /\ \A q \in passes' : q.event = e => n <= Till(q)'
               /\ Reaches(e, n)'
  <2>1. channelRows[c] = e /\ b = a
    BY <1>7 DEF e, a
  <2>2. Channel[e] = c
    BY <1>0, <1>7, <2>1 DEF Types, FlowTypes
  <2>3. Mention[e] /\ \A p \in passes : p.event # e
    BY <1>0, <1>2, <2>1, <2>2 DEF ChannelsInv, Waits
  <2>4. /\ NewWire(c, a) \in Wires /\ NewWire(c, a).agent = a
        /\ NewWire(c, a).mode \in {"always", "mention-sticky"}
    BY <1>2, <1>7, NewWireTyped DEF NewWire
  <2>5. wires'[c] = Append(wires[c], NewWire(c, a))
    BY <1>0, <1>7, <2>1 DEF Register, Types, Tables
  <2>6. PICK n \in Nat : /\ 1 <= n /\ n \in DOMAIN wires'[c] /\ wires'[c][n] = NewWire(c, a)
                         /\ n = Len(wires'[c])
    <3>1. Len(wires[c]) \in Nat /\ Len(Append(wires[c], NewWire(c, a))) = Len(wires[c]) + 1
      BY <1>3, <2>2, <2>4
    <3>2. /\ Len(wires[c]) + 1 \in DOMAIN wires'[c] /\ wires'[c][Len(wires[c]) + 1] = NewWire(c, a)
          /\ Len(wires[c]) + 1 = Len(wires'[c])
      BY <1>3, <2>2, <2>4, <2>5, <3>1, Appended
    <3>. QED  BY <3>1, <3>2
  <2>7. Admits(e, n)'
    <3>1. Engages(NewWire(c, a), e)'
      BY <2>3, <2>4 DEF Engages
    <3>2. Member(Sender[e], a)'
      BY <1>7, <2>1 DEF Register, Member
    <3>. QED  BY <2>2, <2>4, <2>6, <3>1, <3>2 DEF Admits
  <2>8. \A q \in passes' : q.event = e => n <= Till(q)'
    BY <1>0, <2>2, <2>3, <2>6, Carried
  <2>9. Reaches(e, n)'
    <3>0. [event |-> e, by |-> a, rest |-> wires'[c]] \in passes'
      BY <1>7, <2>1 DEF Register
    <3>1. PICK q \in passes' : q.event = e /\ q.rest = wires'[Channel[e]]
      BY <2>2, <3>0
    <3>2. Slice(wires'[Channel[q.event]], q.rest, 1)
      BY <1>3, <3>1, SliceWhole
    <3>3. From(q)' = 1
      BY <1>1, <3>2, PlacingNext
    <3>4. \A j \in 1..n : stored[wires'[c][j].agent][e] = "no"
      <4>1. Clear(wires'[c], wires'[c][n].agent, e)
        BY <1>7, <2>1, <2>4, <2>6
      <4>. QED  BY <1>3, <2>2, <2>6, <4>1, ClearPlaces
    <3>5. \A j \in 1..n : ~ Has(e, j)'
      BY <1>7, <2>2, <3>4 DEF Has
    <3>. QED  BY <2>6, <3>1, <3>3, <3>5 DEF Reaches
  <2>. QED  BY <2>2, <2>4, <2>6, <2>7, <2>8, <2>9 DEF Places
<1>8. CASE g \notin granted
  BY <1>0, <1>6, <1>7, <1>8, OnlyGrants DEF e, a
<1>. QED  BY <1>5, <1>8

LEMMA InductiveInit == Init => Inductive
<1>. SUFFICES ASSUME Init PROVE Inductive
  OBVIOUS
<1>1. Types /\ Distinct
  BY TypesInit, AdmissionAssumption DEF Init, Distinct
<1>2. Slices /\ AsksInv /\ PassesInv /\ GrantInv
  BY DEF Init, Slices, AsksInv, Asks, PassesInv, GrantInv
<1>3. ASSUME NEW e \in Events PROVE ~ Waits(e) /\ channelRows[Channel[e]] # e
  BY AdmissionAssumption DEF Init, Waits
<1>4. ChannelsInv
  BY <1>3 DEF Init, ChannelsInv, Asks
<1>. QED  BY <1>1, <1>2, <1>4 DEF Inductive, ReplayInv

LEMMA InductiveStep == Inductive /\ [Next]_vars => Inductive'
<1>. SUFFICES ASSUME Inductive, [Next]_vars PROVE Inductive'
  OBVIOUS
<1>1. Types /\ Distinct /\ Slices
  BY DEF Inductive, ReplayInv
<1>2. Types' /\ Distinct' /\ Slices'
  BY <1>1, TypesStep, DistinctStep, SlicesStep
<1>. QED  BY <1>2, AsksStep, PassesStep, ChannelsStep, GrantStep DEF Inductive, ReplayInv

\* A message whose approval was granted wakes the agent it was granted for by the
\* end of the replay (index.ts:269, :507): as long as it has not, some pass of the
\* message still has the agent ahead of it.
THEOREM GrantedReplayReaches == Spec => []ReplayReaches
<1>1. Inductive => ReplayReaches
  <2>. SUFFICES ASSUME Inductive, NEW g \in granted, Command[g[1]] = "none",
                       stored[g[2]][g[1]] # "trigger"
                PROVE  \E p \in passes : p.event = g[1] /\ \E i \in DOMAIN p.rest : p.rest[i].agent = g[2]
    BY DEF ReplayReaches
  <2>0. Types /\ Distinct /\ Slices /\ GrantInv
    BY DEF Inductive, ReplayInv
  <2>1. PICK n \in Places(g[1]) :
          /\ wires[Channel[g[1]]][n].agent = g[2]
          /\ \A q \in passes : q.event = g[1] => n <= Till(q)
          /\ Reaches(g[1], n)
    BY <2>0 DEF GrantInv
  <2>2. PICK p \in passes : p.event = g[1] /\ From(p) <= n
    BY <2>1 DEF Reaches
  <2>3. /\ p.rest \in Seq(Wires) /\ From(p) \in Nat /\ Till(p) \in Nat
        /\ wires[Channel[g[1]]] \in Seq(Wires)
        /\ Slice(wires[Channel[g[1]]], p.rest, From(p))
    BY <2>0, <2>2, Placing
  <2>4. n \in Nat /\ n <= Till(p) /\ Len(p.rest) \in Nat /\ DOMAIN p.rest = 1..Len(p.rest)
    BY <2>1, <2>2, <2>3 DEF Places
  <2>5. n - From(p) + 1 \in 1..Len(p.rest) /\ From(p) + (n - From(p) + 1) - 1 = n
    BY <2>2, <2>3, <2>4 DEF Till
  <2>6. p.rest[n - From(p) + 1] = wires[Channel[g[1]]][n]
    BY <2>3, <2>5 DEF Slice
  <2>. QED  BY <2>1, <2>2, <2>4, <2>5, <2>6
<1>. QED  BY <1>1, InductiveInit, InductiveStep, PTL DEF Spec
=============================================================================

------------------------------ MODULE Admission ------------------------------
(***************************************************************************)
(* From a chat message to the sessions of the agents that may see it: the  *)
(* router's fan-out (src/router.ts), the gates of the permissions module   *)
(* and its two approval flows, for senders nobody knows and for channels   *)
(* nobody has wired.                                                       *)
(*                                                                         *)
(* Both flows store the message that started them and route it again when *)
(* an approver says yes.  Everything up to an await is one step; a pass of *)
(* the router awaits a container wake after each agent, a request awaits   *)
(* the approver's DM channel before it writes its row.                     *)
(*                                                                         *)
(* A channel stands for a messaging group and one thread of it, so a       *)
(* session is a pair of an agent and a channel.  There is one approver, an *)
(* owner, and clicks of anybody else change nothing and are left out.      *)
(***************************************************************************)
EXTENDS Integers, Sequences, FiniteSets

CONSTANTS
  Channels,    \* messaging groups
  Senders,     \* chat users, none of them an admin
  Agents,      \* agent groups that exist from the start
  NewAgents,   \* agent groups that a name reply may create
  Events,      \* inbound messages, each arrives once
  Channel,     \* [Events -> Channels]
  Sender,      \* [Events -> Senders]
  Mention,     \* [Events -> BOOLEAN], isMention (always so in a DM)
  Command,     \* [Events -> {"none", "filtered", "admin"}], gateCommand's classes
  Group,       \* [Channels -> BOOLEAN], the thread id is not null
  Policy,      \* [Channels -> Policies], unknown_sender_policy
  Wired,       \* [Channels -> Seq(Wires)], messaging_group_agents at the start
  NoEvent, NoChannel

Policies == {"strict", "request_approval", "public"}
Modes == {"always", "mention", "mention-sticky"}
Groups == Agents \cup NewAgents

\* A row of messaging_group_agents; "always" is the pattern '.'.
Wires == [agent : Groups, mode : Modes, scope : {"all", "known"},
          ignored : {"drop", "accumulate"}]

ASSUME AdmissionAssumption ==
  /\ Channel \in [Events -> Channels]
  /\ Sender \in [Events -> Senders]
  /\ Mention \in [Events -> BOOLEAN]
  /\ Command \in [Events -> {"none", "filtered", "admin"}]
  /\ Group \in [Channels -> BOOLEAN]
  /\ Policy \in [Channels -> Policies]
  /\ Wired \in [Channels -> Seq(Wires)]
  /\ \A c \in Channels : \A i, j \in DOMAIN Wired[c] : Wired[c][i].agent = Wired[c][j].agent => i = j
  /\ NoEvent \notin Events /\ NoChannel \notin Channels
  /\ Agents \cap NewAgents = {}

VARIABLES
  arrived,     \* events that have arrived (environment)
  known,       \* channels with a messaging_groups row
  denied,      \* channels with denied_at set
  wires,       \* messaging_group_agents in the order of the fan-out
  members,     \* agent_group_members
  sessions,    \* sessions rows, <<agent, channel>>
  stored,      \* messages_in of those sessions: what each agent has of each event
  passes,      \* calls of routeInbound that are in their fan-out
  asking,      \* approval requests that await the approver's DM channel
  senderRows,  \* pending_sender_approvals
  channelRows, \* pending_channel_approvals
  shown,       \* channels whose card is on the approver's screen
  prompts,     \* "new agent" clicks: channels that await the DM, or the prompt's delivery
  naming,      \* awaitingNameInput of the approver
  \* histories
  granted,     \* <<event, agent>> whose approval replays the event past agents that lack it
  refused      \* <<event, agent>> that a gate has turned away

tables == <<known, denied, wires, members, sessions, stored>>
flows == <<asking, senderRows, channelRows, shown, prompts, naming>>
vars == <<arrived, tables, passes, flows, granted, refused>>

-----------------------------------------------------------------------------
\* Gates

Member(s, a) == <<s, a>> \in members

\* The agents of a fan-out list up to one of them, and whether all of these
\* have yet to see an event.
UpTo(ws, a) ==
  {ws[i].agent : i \in {j \in DOMAIN ws : \A k \in 1..(j - 1) : ws[k].agent # a}}
Clear(ws, a, e) == \A b \in UpTo(ws, a) : stored[b][e] = "no"
Grant(ws, a, e) == IF Clear(ws, a, e) THEN granted \cup {<<e, a>>} ELSE granted

\* evaluateEngage: the session is the subscription of a mention-sticky wiring.
Engages(w, e) ==
  \/ w.mode = "always"
  \/ w.mode \in {"mention", "mention-sticky"} /\ Mention[e]
  \/ /\ w.mode = "mention-sticky"
     /\ Group[Channel[e]]
     /\ <<w.agent, Channel[e]>> \in sessions

\* MUTANT of AccessOk: a member of any group passes.
AccessOfAnyGroup(w, e) ==
  Policy[Channel[e]] = "public" \/ \E a \in Groups : Member(Sender[e], a)

\* The access gate, then the wiring's own sender_scope.
AccessOk(w, e) == Policy[Channel[e]] = "public" \/ Member(Sender[e], w.agent)
ScopeOk(w, e) == w.scope = "all" \/ Member(Sender[e], w.agent)

\* hasInFlightSenderApproval, hasInFlightChannelApproval
SenderInFlight(c, s) == \E r \in senderRows : Channel[r.event] = c /\ Sender[r.event] = s
ChannelInFlight(c) == channelRows[c] # NoEvent

\* requestSenderApproval up to its first await, started by the access gate.
AskFor(w, e) ==
  IF Policy[Channel[e]] = "request_approval" /\ ~SenderInFlight(Channel[e], Sender[e])
  THEN {[kind |-> "sender", event |-> e, agent |-> w.agent]}
  ELSE {}

ChannelRequest(e) == [kind |-> "channel", event |-> e]

-----------------------------------------------------------------------------
\* The router

Pass(e, by) == [event |-> e, by |-> by, rest |-> wires[Channel[e]]]
NoGroup == "inbound"

\* MUTANT of Escalates: denied_at is not looked at.
EscalatesAgain(e) == Mention[e] /\ ~ChannelInFlight(Channel[e])

\* What is escalated to the approver: the bot was addressed in a channel that
\* was not denied and has no card yet.
Escalates(e) == Mention[e] /\ Channel[e] \notin denied /\ ~ChannelInFlight(Channel[e])

\* ACTION Arrive. An adapter hands over a message.  A channel without a row
\* gets one when the bot is addressed; without agents the message ends here,
\* and escalates unless the channel was denied.
Arrive(e) ==
  LET c == Channel[e] IN
  /\ e \notin arrived
  /\ arrived' = arrived \cup {e}
  /\ known' = IF Mention[e] THEN known \cup {c} ELSE known
  /\ IF wires[c] # <<>>
     THEN /\ passes' = passes \cup {Pass(e, NoGroup)}
          /\ UNCHANGED asking
     ELSE /\ asking' = IF Escalates(e) THEN asking \cup {ChannelRequest(e)} ELSE asking
          /\ UNCHANGED passes
  /\ UNCHANGED <<denied, wires, members, sessions, stored, senderRows, channelRows,
                 shown, prompts, naming, granted, refused>>

\* writeSessionMessage inserts under the id <event>:<agent>, a primary key.
\* A denied admin command is answered through a connection that was opened for
\* reading (openOutboundDb), so it throws like a second insert does.
Throws(w, e) ==
  \/ Command[e] = "admin"
  \/ Command[e] = "none" /\ stored[w.agent][e] # "no"

\* deliverToAgent: the session is resolved (and created) before the command
\* gate looks at the text.
DeliverToAgent(w, e, as) ==
  /\ sessions' = sessions \cup {<<w.agent, Channel[e]>>}
  /\ stored' = IF Command[e] = "none" /\ ~Throws(w, e)
               THEN [stored EXCEPT ![w.agent][e] = as] ELSE stored

\* A throw ends the pass: it is not caught inside the loop.
Rest(p, thrown) ==
  IF thrown \/ Len(p.rest) = 1 THEN passes \ {p}
  ELSE (passes \ {p}) \cup {[p EXCEPT !.rest = Tail(@)]}

\* ACTION Visit. One turn of the fan-out loop, up to the await of the wake.
Engage(p, w) ==
  /\ Engages(w, p.event) /\ AccessOk(w, p.event) /\ ScopeOk(w, p.event)
  /\ DeliverToAgent(w, p.event, "trigger")
  /\ passes' = Rest(p, Throws(w, p.event))
  /\ UNCHANGED <<asking, refused>>

Refuse(p, w) ==
  /\ Engages(w, p.event) /\ ~(AccessOk(w, p.event) /\ ScopeOk(w, p.event))
  /\ asking' = IF AccessOk(w, p.event) THEN asking ELSE asking \cup AskFor(w, p.event)
  /\ refused' = refused \cup {<<p.event, w.agent>>}
  /\ passes' = Rest(p, FALSE)
  /\ UNCHANGED <<sessions, stored>>

\* MUTANT of Accumulate: what a gate refused is kept as context too.
AccumulateAnyway(p, w) ==
  /\ ~(Engages(w, p.event) /\ AccessOk(w, p.event) /\ ScopeOk(w, p.event))
  /\ w.ignored = "accumulate"
  /\ DeliverToAgent(w, p.event, "context")
  /\ passes' = Rest(p, Throws(w, p.event))
  /\ UNCHANGED <<asking, refused>>

Accumulate(p, w) ==
  /\ ~Engages(w, p.event) /\ w.ignored = "accumulate"
  /\ DeliverToAgent(w, p.event, "context")
  /\ passes' = Rest(p, Throws(w, p.event))
  /\ UNCHANGED <<asking, refused>>

Ignore(p, w) ==
  /\ ~Engages(w, p.event) /\ w.ignored = "drop"
  /\ passes' = Rest(p, FALSE)
  /\ UNCHANGED <<sessions, stored, asking, refused>>

Visit(p) ==
  /\ \/ Engage(p, Head(p.rest))
     \/ Refuse(p, Head(p.rest))
     \/ Accumulate(p, Head(p.rest))
     \/ Ignore(p, Head(p.rest))
  /\ UNCHANGED <<arrived, known, denied, wires, members, senderRows, channelRows,
                 shown, prompts, naming, granted>>

-----------------------------------------------------------------------------
\* Unknown senders

\* ACTION AskSender. The DM channel is found: the row is inserted and the card
\* sent, which may fail and leaves the row.  A second row for the sender breaks
\* UNIQUE(messaging_group_id, sender_identity); nobody reachable ends it too.
AskSender(r, reachable, card) ==
  /\ r.kind = "sender"
  /\ asking' = asking \ {r}
  /\ senderRows' =
       IF reachable /\ ~SenderInFlight(Channel[r.event], Sender[r.event])
       THEN senderRows \cup {[event |-> r.event, agent |-> r.agent, card |-> card]}
       ELSE senderRows
  /\ UNCHANGED <<arrived, tables, passes, channelRows, shown, prompts, naming, granted, refused>>

\* ACTION AllowSender. The row goes before the replay, so that the replay can ask again.
AllowSender(row) ==
  /\ row.card
  /\ members' = members \cup {<<Sender[row.event], row.agent>>}
  /\ senderRows' = senderRows \ {row}
  /\ passes' = passes \cup {Pass(row.event, row.agent)}
  /\ granted' = Grant(wires[Channel[row.event]], row.agent, row.event)
  /\ UNCHANGED <<arrived, known, denied, wires, sessions, stored, asking, channelRows,
                 shown, prompts, naming, refused>>

\* ACTION DenySender. No denial is remembered.
DenySender(row) ==
  /\ row.card
  /\ senderRows' = senderRows \ {row}
  /\ UNCHANGED <<arrived, tables, passes, asking, channelRows, shown, prompts, naming, granted, refused>>

-----------------------------------------------------------------------------
\* Unknown channels

\* ACTION AskChannel. As AskSender; the row's key is the channel, and so is the
\* card's question id: a card on the screen answers for any row of its channel.
AskChannel(r, reachable, card) ==
  LET c == Channel[r.event] IN
  /\ r.kind = "channel"
  /\ asking' = asking \ {r}
  /\ IF reachable /\ ~ChannelInFlight(c)
     THEN /\ channelRows' = [channelRows EXCEPT ![c] = r.event]
          /\ shown' = IF card THEN shown \cup {c} ELSE shown
     ELSE UNCHANGED <<channelRows, shown>>
  /\ UNCHANGED <<arrived, tables, passes, senderRows, prompts, naming, granted, refused>>

Clickable(c) == c \in shown /\ ChannelInFlight(c)

\* ACTION Reject.
Reject(c) ==
  /\ Clickable(c)
  /\ denied' = denied \cup {c}
  /\ channelRows' = [channelRows EXCEPT ![c] = NoEvent]
  /\ UNCHANGED <<arrived, known, wires, members, sessions, stored, passes, asking,
                 senderRows, shown, prompts, naming, granted, refused>>

NewWire(c, a) ==
  [agent |-> a, mode |-> IF Group[c] THEN "mention-sticky" ELSE "always",
   scope |-> "known", ignored |-> "accumulate"]

WiredTo(c) == {wires[c][i].agent : i \in DOMAIN wires[c]}

\* MUTANT of Register: the sender of the stored message is not admitted.
RegisterOnly(c, a) ==
  LET e == channelRows[c] IN
  /\ a \notin WiredTo(c)
  /\ wires' = [wires EXCEPT ![c] = Append(@, NewWire(c, a))]
  /\ channelRows' = [channelRows EXCEPT ![c] = NoEvent]
  /\ passes' = passes \cup {[event |-> e, by |-> a, rest |-> wires'[c]]}
  /\ granted' = Grant(wires'[c], a, e)
  /\ UNCHANGED members

\* The shared end of both ways to register: wire the channel, admit the sender
\* of the stored message, drop the row, replay.  A second wiring of the pair
\* breaks UNIQUE(messaging_group_id, agent_group_id) and changes nothing.
Register(c, a) ==
  LET e == channelRows[c] IN
  /\ a \notin WiredTo(c)
  /\ wires' = [wires EXCEPT ![c] = Append(@, NewWire(c, a))]
  /\ members' = members \cup {<<Sender[e], a>>}
  /\ channelRows' = [channelRows EXCEPT ![c] = NoEvent]
  /\ passes' = passes \cup {[event |-> e, by |-> a, rest |-> wires'[c]]}
  /\ granted' = Grant(wires'[c], a, e)

\* ACTION Connect. A click on connect:<agent group>.
Connect(c, a) ==
  /\ Clickable(c)
  /\ Register(c, a)
  /\ UNCHANGED <<arrived, known, denied, sessions, stored, asking, senderRows, shown,
                 prompts, naming, refused>>

\* ACTION ClickNew. "New agent" awaits the approver's DM channel.
ClickNew(c) ==
  /\ Clickable(c)
  /\ prompts' = prompts \cup {[channel |-> c, at |-> "dm"]}
  /\ UNCHANGED <<arrived, tables, passes, asking, senderRows, channelRows, shown,
                 naming, granted, refused>>

\* ACTION Prompt. The expected name is noted, whatever became of the row, and
\* the prompt is sent; without a DM channel nothing happens.
Prompt(q, reachable) ==
  /\ q.at = "dm"
  /\ IF reachable
     THEN /\ naming' = q.channel
          /\ prompts' = (prompts \ {q}) \cup {[q EXCEPT !.at = "sent"]}
     ELSE /\ prompts' = prompts \ {q}
          /\ UNCHANGED naming
  /\ UNCHANGED <<arrived, tables, passes, asking, senderRows, channelRows, shown, granted, refused>>

\* ACTION Prompted. A failed prompt forgets the approver's entry, whoever made it.
Prompted(q, ok) ==
  /\ q.at = "sent"
  /\ prompts' = prompts \ {q}
  /\ naming' = IF ok THEN naming ELSE NoChannel
  /\ UNCHANGED <<arrived, tables, passes, asking, senderRows, channelRows, shown, granted, refused>>

\* ACTION NameReply. The interceptor takes the approver's next direct message;
\* an empty text, or a row that is gone, ends it there.
NameReply(a) ==
  LET c == naming IN
  /\ c # NoChannel
  /\ naming' = NoChannel
  /\ \/ /\ a \in NewAgents /\ \A d \in Channels : a \notin WiredTo(d)
        /\ ChannelInFlight(c)
        /\ Register(c, a)
     \/ /\ a \notin NewAgents \/ ~ChannelInFlight(c)
        /\ UNCHANGED <<wires, members, channelRows, passes, granted>>
  /\ UNCHANGED <<arrived, known, denied, sessions, stored, asking, senderRows, shown,
                 prompts, refused>>

\* ACTION Crash. The host restarts: rows stay, everything in memory goes.
Crash ==
  /\ passes' = {} /\ asking' = {} /\ prompts' = {} /\ naming' = NoChannel
  /\ granted' = {}
  /\ UNCHANGED <<arrived, tables, senderRows, channelRows, shown, refused>>

-----------------------------------------------------------------------------
Init ==
  /\ arrived = {}
  /\ known = {c \in Channels : Wired[c] # <<>>}
  /\ denied = {}
  /\ wires = Wired
  /\ members = {}
  /\ sessions = {}
  /\ stored = [a \in Groups |-> [e \in Events |-> "no"]]
  /\ passes = {} /\ asking = {} /\ senderRows = {}
  /\ channelRows = [c \in Channels |-> NoEvent]
  /\ shown = {} /\ prompts = {} /\ naming = NoChannel
  /\ granted = {} /\ refused = {}

Next ==
  \/ \E e \in Events : Arrive(e)
  \/ \E p \in passes : Visit(p)
  \/ \E r \in asking, reachable, card \in BOOLEAN :
       AskSender(r, reachable, card) \/ AskChannel(r, reachable, card)
  \/ \E row \in senderRows : AllowSender(row) \/ DenySender(row)
  \/ \E c \in Channels : Reject(c) \/ ClickNew(c) \/ \E a \in Agents : Connect(c, a)
  \/ \E q \in prompts, ok \in BOOLEAN : Prompt(q, ok) \/ Prompted(q, ok)
  \/ \E a \in NewAgents \cup {NoGroup} : NameReply(a)
  \/ Crash

Spec == Init /\ [][Next]_vars

-----------------------------------------------------------------------------
\* Properties

Requests ==
  [kind : {"sender"}, event : Events, agent : Groups] \cup [kind : {"channel"}, event : Events]

TypeOK ==
  /\ arrived \subseteq Events /\ known \subseteq Channels /\ denied \subseteq Channels
  /\ wires \in [Channels -> Seq(Wires)]
  /\ members \subseteq Senders \X Groups
  /\ sessions \subseteq Groups \X Channels
  /\ stored \in [Groups -> [Events -> {"no", "context", "trigger"}]]
  /\ passes \subseteq [event : Events, by : Groups \cup {NoGroup}, rest : Seq(Wires) \ {<<>>}]
  /\ asking \subseteq Requests
  /\ senderRows \subseteq [event : Events, agent : Groups, card : BOOLEAN]
  /\ channelRows \in [Channels -> Events \cup {NoEvent}]
  /\ shown \subseteq Channels
  /\ prompts \subseteq [channel : Channels, at : {"dm", "sent"}]
  /\ naming \in Channels \cup {NoChannel}
  /\ granted \subseteq Events \X Groups
  /\ refused \subseteq Events \X Groups

\* An agent is woken for a message only if its sender was admitted to that
\* agent, or both the channel and the wiring let anybody in: the router judges
\* every pass anew, the replays that approvals start for another agent included
\* (accessGate and senderScopeGate in routeInbound).
NoUnknownSender ==
  \A a \in Groups, e \in Events :
    stored[a][e] = "trigger" =>
      \/ Member(Sender[e], a)
      \/ /\ Policy[Channel[e]] = "public"
         /\ \E i \in DOMAIN wires[Channel[e]] :
              LET w == wires[Channel[e]][i] IN w.agent = a /\ w.scope = "all"

\* A message that a gate has refused for an agent is never kept as context for
\* it afterwards, however often it is routed again (router.ts:311): a wiring
\* that engaged once on a message goes on engaging, since sessions are never
\* taken away.
RefusedNeverContext ==
  [][\A a \in Groups, e \in Events :
       stored[a][e] = "no" /\ stored'[a][e] = "context" => <<e, a>> \notin refused]_vars

\* A message whose approval was granted wakes the agent it was granted for by
\* the end of the replay (index.ts:269, :507), provided that no agent up to it in
\* the fan-out had the message when the replay began: a second insert would end
\* the replay there.
ReplayReaches ==
  \A g \in granted :
    \/ stored[g[2]][g[1]] = "trigger"
    \/ Command[g[1]] # "none"
    \/ \E p \in passes : p.event = g[1] /\ \E i \in DOMAIN p.rest : p.rest[i].agent = g[2]

\* Once a channel is wired or denied and no request is on its way, the approver
\* is never asked about it again, by any message, replay or stale click
\* (denied_at and the agent count in routeInbound).
Settled(c) ==
  /\ c \in denied \/ wires[c] # <<>>
  /\ ~ChannelInFlight(c)
  /\ \A r \in asking : r.kind = "channel" => Channel[r.event] # c

SettledStays == [][\A c \in Channels : Settled(c) => Settled(c)']_vars

\* "Fan-out: evaluate each wired agent independently" (router.ts:258): a pass
\* comes to every agent of its list.
FanOutIndependent ==
  [][\A p \in passes : Visit(p) /\ Len(p.rest) > 1 =>
       \E q \in passes' : q.event = p.event /\ q.by = p.by]_vars

\* "once a thread has engaged us once, follow-ups arrive with no mention and
\* should still fire" (router.ts:361): a mention-sticky agent is woken without
\* a mention only in a thread that has woken it before.
StickyNeedsMention ==
  [][\A c \in Channels : \A i \in DOMAIN wires[c] :
       LET w == wires[c][i] IN
       w.mode = "mention-sticky" =>
         \A e \in {x \in Events : Channel[x] = c /\ ~Mention[x]} :
           stored'[w.agent][e] = "trigger" /\ stored[w.agent][e] # "trigger" =>
             \E x \in Events : Channel[x] = c /\ stored[w.agent][x] = "trigger"]_vars
==============================================================================

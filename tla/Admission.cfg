CONSTANTS
  Channels = {c1, c2}
  Senders = {s1, s2}
  Agents = {a1}
  NewAgents = {n1, a2, a3, a4}
  Events = {e1, e2, e3}
  c1 = c1
  c2 = c2
  s1 = s1
  s2 = s2
  a1 = a1
  a2 = a2
  a3 = a3
  a4 = a4
  e1 = e1
  e2 = e2
  e3 = e3
  e4 = e4
  Channel <- MCChannel
  Sender <- MCSender
  Mention <- MCMention
  Command <- MCPlain
  Group <- MCGroup
  Policy <- MCAsks
  Wired <- MCWired
  NoEvent = NoEvent
  NoChannel = NoChannel
SPECIFICATION Spec
INVARIANTS NoUnknownSender ReplayReaches
PROPERTIES SettledStays RefusedNeverContext
CHECK_DEADLOCK FALSE

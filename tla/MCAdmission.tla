----------------------------- MODULE MCAdmission -----------------------------
\* Instances of Admission for TLC: c1 is a group nobody has wired, c2 a group
\* with four agents: one keeps what it ignores, one does not, two take everything.
EXTENDS Admission

CONSTANTS c1, c2, s1, s2, a1, a2, a3, a4, e1, e2, e3, e4

MCChannel == [e \in Events |-> IF e \in {e1, e2} THEN c1 ELSE c2]
MCSender == [e \in Events |-> IF e = e2 THEN s2 ELSE s1]
MCMention == [e \in Events |-> e \in {e1, e2}]
MCPlain == [e \in Events |-> "none"]
MCAdmin == [e \in Events |-> "admin"]
MCGroup == [c \in Channels |-> TRUE]
MCAsks == [c \in Channels |-> "request_approval"]
MCOpen == [c \in Channels |-> "public"]

Wire(a, mode, scope, ignored) ==
  [agent |-> a, mode |-> mode, scope |-> scope, ignored |-> ignored]

MCWired ==
  [c \in Channels |->
     IF c = c1 THEN <<>>
     ELSE <<Wire(a3, "mention-sticky", "all", "accumulate"),
            Wire(a4, "mention", "all", "drop"),
            Wire(a1, "always", "all", "accumulate"),
            Wire(a2, "always", "known", "accumulate")>>]
==============================================================================

---------------------------- MODULE MCAgentGroups ----------------------------
\* Instance of AgentGroups for TLC: g1 has two sessions, g2 none, g3 is created.
EXTENDS AgentGroups

CONSTANTS g1, g2, g3, n1, n2

MCFirstGroups == {g1, g2}
MCFirstHome == <<g1, g1>>
MCFirstDest == {[owner |-> g1, name |-> n1, target |-> g2],
                [owner |-> g2, name |-> n1, target |-> g1]}

Command(cmd, key, subject) ==
  [by |-> 1, cmd |-> cmd, key |-> key, subject |-> subject, name |-> IF cmd = "add" THEN n2 ELSE n1, target |-> g1]

MCTyped ==
  {Command("add", "group", g1), Command("remove", "group", g1), Command("delete", "id", g1),
   Command("delete", "id", g2), Command("restart", "id", g1), Command("scope", "id", g1)}

MCCalled ==
  {Command("list", "id", NoGroup), Command("list", "group", g2), Command("roles", "group", g1),
   Command("add", "group", g2), Command("remove", "group", g2), Command("remove", "id", g1),
   Command("restart", "id", NoGroup), Command("scope", "id", g1), Command("delete", "id", g1)}
==============================================================================

CONSTANTS
  g1 = g1
  g2 = g2
  g3 = g3
  n1 = n1
  n2 = n2
  Groups = {g1, g2, g3}
  Names = {n1, n2}
  NoGroup = NoGroup
  Parent = n2
  Requests = {q1}
  FirstGroups <- MCFirstGroups
  FirstHome <- MCFirstHome
  FirstDest <- MCFirstDest
  MaxSessions = 3
  Typed <- MCTyped
  Called <- MCCalled
  MaxActs = 3
  MaxCrashes = 1
  MaxTries = 2
SPECIFICATION Spec
INVARIANTS   AskedOnce
PROPERTIES ReplyReturns
CHECK_DEADLOCK FALSE

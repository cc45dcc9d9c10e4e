SPECIFICATION FairSpec
CONSTANTS
  s1 = s1  s2 = s2  m1 = m1  m2 = m2
  None = None
  Sessions = {s1, s2}
  Rows = {m1, m2}
  Home <- SameHome
  MaxAttempts = 2
  MaxCrashes = 1
  MaxClock = 2
INVARIANTS SentOncePerFault
PROPERTIES ImplementsOutbox NoOvertaking EveryRowGetsVerdict

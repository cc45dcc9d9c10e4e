SPECIFICATION FairSpec
CONSTANTS
  NRows = 3
  Kinds = {"chat", "clear", "slash"}
  BufferCap = 2
  MaxCrashes = 2
INVARIANTS FollowUpsTaken ResumesWhatIsStored
PROPERTIES CommandGetsThrough
CHECK_DEADLOCK FALSE

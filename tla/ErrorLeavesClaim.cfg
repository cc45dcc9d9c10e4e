SPECIFICATION Spec
CONSTANTS
  NRows = 1
  Kinds = {"chat"}
  BufferCap = 1
  MaxCrashes = 0
INVARIANTS ErrorLeavesClaim
CHECK_DEADLOCK FALSE

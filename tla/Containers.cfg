SPECIFICATION FairSpec
CONSTANTS
  Sessions = {s1, s2}
  Backoff <- MCBackoff
  MaxConfigs = 1
  MaxStarts = 4
  MaxStrays = 1
INVARIANTS OneContainer RestartApplies BackoffCountsCrashes
PROPERTIES RestartWakes
CHECK_DEADLOCK FALSE

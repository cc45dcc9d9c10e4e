SPECIFICATION FairSpec
CONSTANTS
  Rows = {r1, r2, r3}
  MaxTries = 1
  MaxCommands = 2
  MaxQueue = 2
  MaxCrashes = 1
  None = None
INVARIANTS OneOccurrence CancelStops
PROPERTIES SeriesSurvives OccurrenceFollows

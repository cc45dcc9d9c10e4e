SPECIFICATION SetupSpec
CONSTANTS
  Channels = {"telegram", "discord", "whatsapp", "signal", "slack", "imessage", "teams", "other"}
  MaxRuns = 2
INVARIANTS NoRepeat SkippedIsDone 
 

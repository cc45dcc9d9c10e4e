SPECIFICATION Spec
CONSTANTS
  Msgs = {m1, m2}
  Kinds = {"chat", "context", "task", "clear", "command", "restart"}
  MaxTries = 1
  PromptCap = 2
SYMMETRY Symmetry
INVARIANTS TypeOK NoSilentDrop  InFlightCovered
PROPERTIES VerdictIsFinal AckIsFinal SingleWriter 

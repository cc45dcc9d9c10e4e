SPECIFICATION FairSpec
CONSTANTS
  Msgs = {m1, m2}
  Kinds = {"chat"}
  MaxTries = 1
  PromptCap = 1
PROPERTY EveryRowSettles

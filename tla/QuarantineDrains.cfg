CONSTANTS
  BlockCount = 1
  Arenas = {a1}
  StrictMode = FALSE
  MaxGen = 1
SPECIFICATION FairSpec
PROPERTY QuarantineDrains
CHECK_DEADLOCK FALSE

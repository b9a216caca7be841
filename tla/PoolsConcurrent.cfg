CONSTANTS
  BlockCount = 2
  Arenas = {a1, a2, a3}
  StrictMode = TRUE
  MaxGen = 1
  Openers = {c1}
  Closers = {c1, c2}
  Sanitizers = {}
  CountMod = 4
SPECIFICATION FairSpec
INVARIANTS
  TypeOK
  CountsBalance
PROPERTIES
  KeepsLifecycle
  ClientsProgress
CHECK_DEADLOCK FALSE

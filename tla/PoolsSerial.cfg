CONSTANTS
  BlockCount = 2
  Arenas = {a1, a2}
  StrictMode = FALSE
  MaxGen = 4
  Openers = {t1}
  Closers = {t1}
  Sanitizers = {t1}
  CountMod = 4
SPECIFICATION Spec
SYMMETRY ArenaSymmetry
INVARIANTS
  CountsBalance
  L2PoolClean
PROPERTIES
  KeepsLifecycle
CHECK_DEADLOCK FALSE

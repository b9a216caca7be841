CONSTANTS
  BlockCount = 2
  Arenas = {a1, a2, a3}
  StrictMode = FALSE
  MaxGen = 1
  Openers = {c1, c2}
  Closers = {c1, c2}
  Sanitizers = {}
  CountMod = 4
SPECIFICATION Spec
SYMMETRY ArenaSymmetry
INVARIANT NoBlockLost
CHECK_DEADLOCK FALSE

CONSTANTS
  BlockCount = 2
  Arenas = {a1, a2}
  StrictMode = FALSE
  MaxGen = 3
  Openers = {c1}
  Closers = {c1}
  Sanitizers = {s1}
  CountMod = 4
SPECIFICATION Spec
INVARIANT NoBlockLost
CHECK_DEADLOCK FALSE

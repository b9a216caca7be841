CONSTANTS
  BlockCount = 2
  Arenas = {a1, a2}
  StrictMode = TRUE
  MaxGen = 5
SPECIFICATION Spec
SYMMETRY ArenaSymmetry
INVARIANTS
  TypeOK
  BlockConservation
  NeverMixWithCommon
  GracePeriodElapsed
  QuarantinedFlagExact
PROPERTY KeepsCustody
CHECK_DEADLOCK FALSE

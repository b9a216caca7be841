CONSTANTS
  first = first
  second = second
  Calls = {first, second}
  Free = Free
  Workloads <- MCWorkloads
SPECIFICATION FairSpec
INVARIANTS
  TypeOK
  VerdictOfOutcomes
  BilledAsHeard
  NothingLeftBehind
  LastTurnsReach
PROPERTY EveryCallEnds
CHECK_DEADLOCK FALSE

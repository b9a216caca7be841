CONSTANTS
  Providers = {p1, p2}
  Threads = {t1, t2}
  Nobody = Nobody
  Strategies = {"round_robin"}
  Workers = 1
  MaxNames = 2
  MaxCalls = 2
SPECIFICATION FairSpec
INVARIANTS
  TypeOK
  CountersAddUp
  RateAtMostOne
PROPERTIES
  RaceVerdict
  EveryCallReturns
CHECK_DEADLOCK FALSE

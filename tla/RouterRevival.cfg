CONSTANTS
  Providers = {p1}
  Threads = {t1, t2}
  Nobody = Nobody
  Strategies = {"other"}
  Workers = 1
  MaxNames = 1
  MaxCalls = 3
SPECIFICATION Spec
PROPERTY FailureNeverRevives
CHECK_DEADLOCK FALSE

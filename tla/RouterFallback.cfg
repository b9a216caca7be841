CONSTANTS
  Requests = {r1}
  CandidateCount = 2
  Configs <- FallbackConfigs
  Estimates = {1}
  MaxHours = 0
SPECIFICATION Spec
INVARIANT FallbackReachesProvider
CHECK_DEADLOCK FALSE

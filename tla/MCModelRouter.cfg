CONSTANTS
  Requests = {r1, r2}
  CandidateCount = 2
  Configs <- MCConfigs
  Estimates = {1}
  MaxHours = 1
SPECIFICATION FairSpec
INVARIANTS
  TypeOK
  AccountBalances
  PostsArePaid
  NoAnswerDropped
PROPERTIES
  LosersStop
  EveryRequestAnswered
CHECK_DEADLOCK FALSE

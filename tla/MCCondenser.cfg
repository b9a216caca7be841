CONSTANTS
  Kinds <- MCKinds
  Configs <- MCConfigs
  Weight = 2
  Granule = 2
  MaxMessages = 5
  MaxCondensed = 3
SPECIFICATION Spec
INVARIANT TypeOK
PROPERTIES
  OnlySelects
  WithinBudget
  Stable
  ImportanceFirst
  PromptStaysFirst
CHECK_DEADLOCK FALSE

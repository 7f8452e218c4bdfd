SPECIFICATION Spec
CONSTANTS
  Configs <- SearchConfigs
  Word = 64
  MaxKids = 2
  MaxHeight = 4
  MaxWidth = 4
INVARIANTS TypeOK Partitioned MaxCovers
PROPERTIES ImplementsPool LimitsFirst
CHECK_DEADLOCK FALSE

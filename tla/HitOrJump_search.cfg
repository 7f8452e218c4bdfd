SPECIFICATION Spec
CONSTANT Configs <- MCConfigs
CHECK_DEADLOCK FALSE
INVARIANTS
  TypeOK
  GoalsHit
  NothingTwice
  GraphHeld
  SearchComplete
PROPERTY SearchEnds

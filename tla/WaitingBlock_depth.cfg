SPECIFICATION Spec
CONSTANTS
  Configs <- DepthConfigs
  Word = 64
  MaxKids = 2
  MaxHeight = 5
  MaxWidth = 5
PROPERTY PopReturns
CHECK_DEADLOCK FALSE

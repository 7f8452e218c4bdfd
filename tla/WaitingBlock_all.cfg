SPECIFICATION Spec
CONSTANTS
  Configs <- AllConfigs
  Word = 16
  MaxKids = 2
  MaxHeight = 3
  MaxWidth = 3
PROPERTY PopReturns
CHECK_DEADLOCK FALSE

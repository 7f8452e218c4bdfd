SPECIFICATION Spec
CONSTANTS
  Configs <- BreadthConfigs
  Word = 16
  MaxKids = 2
  MaxHeight = 7
  MaxWidth = 7
PROPERTY PopReturns
CHECK_DEADLOCK FALSE

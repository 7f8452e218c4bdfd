SPECIFICATION Spec
CONSTANTS
  Configs <- AllConfigs
  Weights = {0, 3, 6}
  NewWeights = {2, 4, 6}
  MaxKids = 2
  MaxHeight = 3
  MaxContexts = 5
INVARIANTS TypeOK WindowCovers 
PROPERTIES PopsInOrder RequeueWeighsAll ImplementsPool
CHECK_DEADLOCK FALSE

\* The ALL strategy on the leaves of an earlier graph: steps of several contexts, one or two children.
SPECIFICATION Spec
CONSTANTS
  Units = {"coverage", "filter"}
  PreUnits <- CoverageThenFilter
  PostUnits <- CoverageThenFilter
  Filters = {"filter"}
  Coverages = {"coverage"}
  Selectors = {}
  JumpUnits <- NoUnits
  JumpCount = 1
  TrialsLimit = 1
  Outcomes <- Joining
  Leaves = 2
  LocalScope = FALSE
  PopsAll = TRUE
  Redundancy = TRUE
  StopScript = TRUE
  CheckPeriod = 2
  EvalLimit = 3
  StepLimit = 4
  NodeLimit = 6
  HeightLimit = 2
  WidthLimit = 4
INVARIANT NothingForgotten
PROPERTIES StopIsFinal StopIsFired

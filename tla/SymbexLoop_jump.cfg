\* A hit-or-jump unit and a coverage unit that share the requests; local search scope.
SPECIFICATION Spec
CONSTANTS
  Units = {"hoj", "coverage"}
  PreUnits <- JumpThenCoverage
  PostUnits <- OneCoverage
  Filters = {}
  Coverages = {"coverage"}
  Selectors = {}
  JumpUnits <- OneJump
  JumpCount = 1
  TrialsLimit = 1
  Outcomes <- Branching
  Leaves = 2
  LocalScope = TRUE
  PopsAll = FALSE
  Redundancy = FALSE
  StopScript = FALSE
  CheckPeriod = 2
  EvalLimit = 2
  StepLimit = 4
  NodeLimit = 3
  HeightLimit = 2
  WidthLimit = 9
INVARIANT RequestsHaveListeners
PROPERTIES NoListenerSkipped StopIsFinal Termination

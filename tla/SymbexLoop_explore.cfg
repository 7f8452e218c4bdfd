\* Main and redundancy filters, a unit that selects before one that rejects, all ending statuses, a stop file.
SPECIFICATION Spec
CONSTANTS
  Units = {"projection", "filter"}
  PreUnits <- OneFilter
  PostUnits <- SelectThenFilter
  Filters = {"filter"}
  Coverages = {}
  Selectors = {"projection"}
  JumpUnits <- NoUnits
  JumpCount = 1
  TrialsLimit = 1
  Outcomes <- Statuses
  Leaves = 0
  LocalScope = FALSE
  PopsAll = FALSE
  Redundancy = TRUE
  StopScript = TRUE
  CheckPeriod = 2
  EvalLimit = 3
  StepLimit = 5
  NodeLimit = 6
  HeightLimit = 2
  WidthLimit = 2
INVARIANTS TypeOK EvalCountWithinLimit EvaluatedWithinLimits DistinctPlaces NoDuplicate
PROPERTIES StopIsFinal Termination EvaluatedOnce

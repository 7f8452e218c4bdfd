\* A machine that saves b while it skips.
SPECIFICATION Spec
CONSTANTS
  Machines = {"A", "B", "C", "D", "P"}
  Above <- Alone
  NoOne = "none"
  Mids = {"a", "b"}
  Vals = {"v"}
  BufferNames = {"f", "l", "m", "s"}
  Configs <- SavingPrograms
PROPERTIES SavesComeBack
CHECK_DEADLOCK FALSE

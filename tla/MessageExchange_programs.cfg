\* Six programs, between them with every statement and every policy.
SPECIFICATION Spec
CONSTANTS
  Machines = {"A", "B", "C", "D", "P"}
  Above <- Alone
  NoOne = "none"
  Mids = {"a", "b"}
  Vals = {"v"}
  BufferNames = {"f", "l", "m", "s"}
  Configs <- Programs
INVARIANTS TypeOK WithinCapacity InOrder SameOrder
PROPERTIES ImplementsChannel PresentMeansInput SkipsUnexpected SkipEnds
CHECK_DEADLOCK FALSE

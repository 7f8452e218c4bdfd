SPECIFICATION Spec
CONSTANT Configs <- Goals
CHECK_DEADLOCK FALSE
INVARIANT GoalsAreReal

SPECIFICATION Spec
CONSTANTS
  Cap = 2
  RunsApp = TRUE
  MaxChanges = 5
  None = None
INVARIANTS NoneLeft
CHECK_DEADLOCK FALSE

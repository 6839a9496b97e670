SPECIFICATION FairSpec
CONSTANTS
  Cap = 2
  RunsApp = TRUE
  MaxChanges = 5
  None = None
INVARIANTS TypeOK OneChild CaughtUp
PROPERTIES ChangesAreBuilt
CHECK_DEADLOCK FALSE

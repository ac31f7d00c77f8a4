CONSTANTS
  Timeout = 2
  MaxTime = 6
  MaxQueued = 2
  CheckState = TRUE

SPECIFICATION DetectorsSpec

INVARIANT ReportsAnrs

\* tac_common_init may abort the process, and the clock stops.
CHECK_DEADLOCK FALSE

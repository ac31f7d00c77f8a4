CONSTANTS
  Timeout = 2
  MaxTime = 6
  MaxQueued = 2
  CheckState = TRUE

SPECIFICATION DetectorsSpec

INVARIANT HandlerFindsData
INVARIANT SuccessMeansArmed
INVARIANT TraceAllOrNothing
INVARIANT ReportsApart
INVARIANT LateAnrsEnd

\* tac_common_init may abort the process, and the clock stops.
CHECK_DEADLOCK FALSE

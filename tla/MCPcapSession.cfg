SPECIFICATION Spec
CONSTANTS
    SHARED_BUFFER_SIZE = 1000
    Sessions = 2
    Requests = 2
    MaxIncidents = 2
INVARIANTS TypeOK LoopRuns MeasuredForward OwnStamps
PROPERTIES SearchReturns OffloadEnds
CHECK_DEADLOCK FALSE

\* Two measurements of each sample, and any two incidents.
CONSTANTS
    MAX_RETRIES = 3
    MaxIncidents = 2
    Requests = 4
SPECIFICATION Spec
INVARIANTS TypeOK OwnRequest OwnAnswer
PROPERTIES BothEnd BenchCompletes
\* Both programs end.
CHECK_DEADLOCK FALSE

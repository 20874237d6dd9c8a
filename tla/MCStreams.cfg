\* Any client and server, partial reads and sends.
CONSTANTS
    c1 = c1
    c2 = c2
    none = none
    NoClient = none
    Clients <- OneClient
    BUFSIZE = 2
    Requests = 2
    RequestUnits = 2
    ResponseUnits = 2
    Unasked = 1
    Patient = FALSE
    PartialSends = TRUE
    Stdins <- AnyStdin
SPECIFICATION Spec
INVARIANTS TypeOK StreamsIntact WedgedOnlyMidRequest
\* Every client comes once, so the proxy ends up waiting in accept.
CHECK_DEADLOCK FALSE

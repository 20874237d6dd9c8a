\* An idle session whose control connection is closed.
CONSTANTS
    c1 = c1
    c2 = c2
    none = none
    NoClient = none
    Clients <- OneClient
    BUFSIZE = 1
    Requests = 0
    RequestUnits = 1
    ResponseUnits = 1
    Unasked = 0
    Patient = TRUE
    PartialSends = FALSE
    Stdins <- QuietStdin
SPECIFICATION Spec
PROPERTIES ControlCloseEndsSession
\* Every client comes once, so the proxy ends up waiting in accept.
CHECK_DEADLOCK FALSE

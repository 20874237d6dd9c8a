\* The proxy's thread is scheduled; peers do as they like.
CONSTANTS
    c1 = c1
    c2 = c2
    none = none
    NoClient = none
    Clients <- OneClient
    BUFSIZE = 1
    Requests = 1
    RequestUnits = 2
    ResponseUnits = 2
    Unasked = 1
    Patient = FALSE
    PartialSends = TRUE
    Stdins <- AnyStdin
SPECIFICATION Spec
PROPERTIES InputCloseEndsSession AnswersRecorded
\* Every client comes once, so the proxy ends up waiting in accept.
CHECK_DEADLOCK FALSE

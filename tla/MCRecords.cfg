\* Two clients in any order that wait for answers, and a server that waits to be asked.
CONSTANTS
    c1 = c1
    c2 = c2
    none = none
    NoClient = none
    Clients <- TwoClients
    BUFSIZE = 2
    Requests = 2
    RequestUnits = 2
    ResponseUnits = 2
    Unasked = 0
    Patient = TRUE
    PartialSends = TRUE
    Stdins <- QuietStdin
SPECIFICATION Spec
SYMMETRY ClientSymmetry
INVARIANTS FreshRecord OrderPairs
PROPERTIES ImplementsRelay
\* Every client comes once, so the proxy ends up waiting in accept.
CHECK_DEADLOCK FALSE

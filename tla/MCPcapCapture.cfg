\* Two sessions, both directions, a full round through the two buffers; calls
\* and stopLoop return.
CONSTANTS
    p1 = p1
    p2 = p2
    SHARED_BUFFER_SIZE = 2
    Payloads <- OnePayload
    MaxPackets = 5
    MaxSessions = 2
SPECIFICATION Spec
INVARIANTS IInv TypeOK UnreadIntact NoSlotRace OverflowMeansBehind
PROPERTIES OverrunOnlyInWindow ImplementsQueue SearchReturns StopReturns
\* The process may end (fate), and so may the packets (MaxPackets).
CHECK_DEADLOCK FALSE

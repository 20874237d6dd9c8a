\* What PcapLoopCallback.h says of the members of UserData.
CONSTANTS
    p1 = p1
    p2 = p2
    SHARED_BUFFER_SIZE = 2
    Payloads <- OnePayload
    MaxPackets = 4
    MaxSessions = 1
SPECIFICATION Spec
INVARIANTS MembersNotShared
\* The process may end (fate), and so may the packets (MaxPackets).
CHECK_DEADLOCK FALSE

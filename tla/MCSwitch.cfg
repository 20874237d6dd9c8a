\* What PcapWrapper.cpp says of the end of the buffer.
CONSTANTS
    p1 = p1
    p2 = p2
    SHARED_BUFFER_SIZE = 2
    Payloads <- OnePayload
    MaxPackets = 4
    MaxSessions = 1
SPECIFICATION Spec
INVARIANTS SwitchesAtEnd
\* The process may end (fate), and so may the packets (MaxPackets).
CHECK_DEADLOCK FALSE

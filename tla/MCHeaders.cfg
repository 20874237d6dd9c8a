\* What Ipv6Parser.cpp says of the size of extension headers.
CONSTANTS
    SizeValues = 1048576
    MAX_PACKET_SIZE = 1500
    Frames <- SomeFrames
SPECIFICATION Spec
INVARIANTS HeadersOf64
\* A frame is decoded and handled once and the model stops.
CHECK_DEADLOCK FALSE

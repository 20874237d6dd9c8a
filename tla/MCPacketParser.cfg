\* Sizes around every limit; a size_t large enough for a wrapped difference.
CONSTANTS
    SizeValues = 1048576
    MAX_PACKET_SIZE = 1500
    Frames <- SomeFrames
SPECIFICATION Spec
INVARIANTS DecodesLayer CapturesExactly StoredInFrame
\* A frame is decoded and handled once and the model stops.
CHECK_DEADLOCK FALSE

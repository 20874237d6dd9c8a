\* Seconds of three units of two nanoseconds: every relation of two times.
CONSTANTS
    UnitsPerSecond = 3
    NsPerUnit = 2
    CounterSize = 5
    MaxSeconds = 2
SPECIFICATION Spec
INVARIANTS PcapDeltaExact KernelDeltaExact
\* One measurement is made and the model stops.
CHECK_DEADLOCK FALSE

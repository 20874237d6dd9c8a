----------------------------- MODULE TimeDeltas -----------------------------
(***************************************************************************)
(* The last step of a measurement: getLastMeasurement subtracts the time   *)
(* of the request from the time of the response.  PCAPTimingSocket uses    *)
(* timevalDeltaToNs (seconds and the fraction the capture precision        *)
(* gives), KernelTimingSocket uses timespecDiff (seconds and nanoseconds), *)
(* CPUTimingSocket subtracts two readings of a 64 bit counter.             *)
(*                                                                         *)
(* A throw without an exception to rethrow ends the process: Terminates    *)
(* is then the result.  The lengths of a second are constants, for the     *)
(* algorithms do not depend on them and TLC's integers are small.          *)
(***************************************************************************)
EXTENDS Integers

CONSTANTS
    UnitsPerSecond,  \* usecs_per_second: 10^6 or 10^9, by capture precision
    NsPerUnit,       \* 1000 or 1: nanoseconds in one unit of tv_usec
    CounterSize,     \* 2^64: values of the CPU counter
    MaxSeconds       \* bound: the seconds TLC enumerates

ASSUME TimeAssumption ==
    /\ UnitsPerSecond \in Nat \ {0}
    /\ NsPerUnit \in Nat \ {0}
    /\ CounterSize \in Nat \ {0}
    /\ MaxSeconds \in Nat

NsPerSecond == UnitsPerSecond * NsPerUnit

\* A normalised struct timeval or timespec, its fraction below one second.
Timeval  == [sec : 0 .. MaxSeconds, frac : 0 .. UnitsPerSecond - 1]
Timespec == [sec : 0 .. MaxSeconds, frac : 0 .. NsPerSecond - 1]

Terminates == -1

\* Mutant: no second is borrowed for the smaller fraction.
timevalDeltaNoBorrow(early, late) ==
    IF early.sec > late.sec THEN Terminates
    ELSE LET carry == IF late.frac < early.frac THEN UnitsPerSecond ELSE 0
         IN  (late.sec - early.sec) * NsPerSecond
             + (late.frac + carry - early.frac) * NsPerUnit

timevalDeltaToNs(early, late) ==
    LET seconds == late.sec - early.sec
        borrow  == late.frac < early.frac
        units   == late.frac + (IF borrow THEN UnitsPerSecond ELSE 0)
                   - early.frac
    IN  IF seconds < 0 \/ (borrow /\ seconds = 0) THEN Terminates
        ELSE (seconds - (IF borrow THEN 1 ELSE 0)) * NsPerSecond
             + units * NsPerUnit

\* Mutant: only the seconds are compared before the subtraction.
timespecDiffSecondsOnly(after, before) ==
    IF after.sec < before.sec THEN Terminates
    ELSE (after.sec - before.sec) * NsPerSecond + (after.frac - before.frac)

timespecDiff(after, before) ==
    IF \/ after.sec < before.sec
       \/ after.sec = before.sec /\ after.frac < before.frac
    THEN Terminates
    ELSE LET borrow == after.frac < before.frac
         IN  (after.sec - before.sec - (IF borrow THEN 1 ELSE 0)) * NsPerSecond
             + (after.frac + (IF borrow THEN NsPerSecond ELSE 0) - before.frac)

\* The counter's readings and their difference are uint64_t.
cpuDelta(write_tstamp, read_tstamp) ==
    (read_tstamp - write_tstamp) % CounterSize

VARIABLES
    kind,     \* the measurement technique
    tx, rx,   \* tx_timestamp and rx_timestamp, or the two counter readings
    outcome   \* <<>> before getLastMeasurement, then what it returned

tdVars == <<kind, tx, rx, outcome>>

\* The two times come from outside and need not be in order: the clocks are
\* stepped, the counters differ between CPUs, a response precedes its request.
Init ==
    /\ outcome = <<>>
    /\ \/ kind = "PCAP"   /\ tx \in Timeval  /\ rx \in Timeval
       \/ kind = "Kernel" /\ tx \in Timespec /\ rx \in Timespec
       \/ kind = "CPU"    /\ tx \in 0 .. CounterSize - 1
                          /\ rx \in 0 .. CounterSize - 1

getLastMeasurement ==
    /\ outcome = <<>>
    /\ outcome' = CASE kind = "PCAP"   -> <<timevalDeltaToNs(tx, rx)>>
                    [] kind = "Kernel" -> <<timespecDiff(rx, tx)>>
                    [] kind = "CPU"    -> <<cpuDelta(tx, rx)>>
    /\ UNCHANGED <<kind, tx, rx>>

Next == getLastMeasurement

Spec == Init /\ [][Next]_tdVars

-----------------------------------------------------------------------------
\* The reference: a time as a number of nanoseconds.
TimevalNs(t)  == (t.sec * UnitsPerSecond + t.frac) * NsPerUnit
TimespecNs(t) == t.sec * NsPerSecond + t.frac

\* A capture-based measurement is the exact time between request and
\* response at either precision, and the process ends exactly on a response
\* older than its request.
PcapDeltaExact ==
    kind = "PCAP" /\ outcome # <<>> =>
       outcome = IF TimevalNs(tx) <= TimevalNs(rx)
                 THEN <<TimevalNs(rx) - TimevalNs(tx)>> ELSE <<Terminates>>

\* The same of a kernel timestamp.
KernelDeltaExact ==
    kind = "Kernel" /\ outcome # <<>> =>
       outcome = IF TimespecNs(tx) <= TimespecNs(rx)
                 THEN <<TimespecNs(rx) - TimespecNs(tx)>> ELSE <<Terminates>>

=============================================================================

-------------------------- MODULE TimeDeltasProofs --------------------------
(***************************************************************************)
(* Proofs about TimeDeltas, for every capture precision, counter width and *)
(* pair of normalised times.                                               *)
(***************************************************************************)
EXTENDS TimeDeltas, TLAPS

\* How two normalised times compare: by seconds, then by fraction.
LEMMA SecondsFirst ==
    ASSUME NEW n \in Nat \ {0},
           NEW s \in Int, NEW f \in 0 .. n - 1,
           NEW t \in Int, NEW g \in 0 .. n - 1
    PROVE  s * n + f <= t * n + g <=> s < t \/ (s = t /\ f <= g)
  <1>1. CASE s = t
    BY <1>1
  <1>2. CASE s < t
    <2>1. PICK d \in Nat : t = s + 1 + d
      <3>1. t - s - 1 \in Nat /\ t = s + 1 + (t - s - 1)
        BY <1>2
      <3> QED BY <3>1
    <2>2. t * n = s * n + n + d * n /\ d * n \in Nat
      BY <2>1
    <2> QED BY <1>2, <2>2
  <1>3. CASE s > t
    <2>1. PICK d \in Nat : s = t + 1 + d
      <3>1. s - t - 1 \in Nat /\ s = t + 1 + (s - t - 1)
        BY <1>3
      <3> QED BY <3>1
    <2>2. s * n = t * n + n + d * n /\ d * n \in Nat
      BY <2>1
    <2> QED BY <1>3, <2>2
  <1> QED BY <1>1, <1>2, <1>3

\* Borrowing a second changes the form of a difference, not its value.
LEMMA Borrow ==
    ASSUME NEW n \in Int, NEW m \in Int, NEW s \in Int, NEW u \in Int
    PROVE  /\ (s - 1) * (n * m) + (u + n) * m = s * (n * m) + u * m
           /\ (s - 1) * n + (u + n) = s * n + u
  OBVIOUS

\* timevalDeltaToNs returns the exact difference in nanoseconds, and ends the
\* process exactly when the later time is the smaller one.
THEOREM TimevalDeltaExact ==
    ASSUME NEW early \in Timeval, NEW late \in Timeval
    PROVE  timevalDeltaToNs(early, late)
              = IF TimevalNs(early) <= TimevalNs(late)
                THEN TimevalNs(late) - TimevalNs(early) ELSE Terminates
  <1> DEFINE n == UnitsPerSecond
             m == NsPerUnit
             s == late.sec - early.sec
             u == late.frac - early.frac
  <1>1. /\ n \in Nat \ {0} /\ m \in Nat \ {0}
        /\ early.sec \in Int /\ early.frac \in 0 .. n - 1
        /\ late.sec \in Int /\ late.frac \in 0 .. n - 1
        /\ s \in Int /\ u \in Int
    BY TimeAssumption DEF TimeAssumption, Timeval
  <1>2. TimevalNs(early) <= TimevalNs(late)
           <=> s > 0 \/ (s = 0 /\ early.frac <= late.frac)
    <2> DEFINE a == early.sec * n + early.frac
               b == late.sec * n + late.frac
    <2>1. a <= b <=> early.sec < late.sec
                     \/ (early.sec = late.sec /\ early.frac <= late.frac)
      BY <1>1, SecondsFirst
    <2>2. a \in Int /\ b \in Int
      BY <1>1
    <2> HIDE DEF a, b
    <2>3. a * m <= b * m <=> a <= b
      <3>1. CASE a <= b
        <4>1. (b - a) * m \in Nat /\ b * m = a * m + (b - a) * m
          BY <1>1, <2>2, <3>1
        <4>2. a * m \in Int
          BY <1>1, <2>2
        <4> QED BY <3>1, <4>1, <4>2
      <3>2. CASE a > b
        <4>1. (a - b) * m \in Nat \ {0} /\ a * m = b * m + (a - b) * m
          BY <1>1, <2>2, <3>2
        <4>2. b * m \in Int
          BY <1>1, <2>2
        <4> QED BY <2>2, <3>2, <4>1, <4>2
      <3> QED BY <2>2, <3>1, <3>2
    <2>4. TimevalNs(early) = a * m /\ TimevalNs(late) = b * m
      BY DEF TimevalNs, a, b
    <2> QED BY <1>1, <2>1, <2>3, <2>4
  <1>3. TimevalNs(late) - TimevalNs(early) = s * (n * m) + u * m
    BY <1>1 DEF TimevalNs
  <1>4. CASE late.frac < early.frac
    <2>1. timevalDeltaToNs(early, late)
             = IF s < 0 \/ s = 0 THEN Terminates
               ELSE (s - 1) * (n * m) + (u + n) * m
      BY <1>1, <1>4 DEF timevalDeltaToNs, NsPerSecond
    <2>2. (s - 1) * (n * m) + (u + n) * m = s * (n * m) + u * m
      BY <1>1, Borrow
    <2>3. TimevalNs(early) <= TimevalNs(late) <=> ~(s < 0 \/ s = 0)
      BY <1>1, <1>2, <1>4
    <2> QED BY <1>3, <2>1, <2>2, <2>3
  <1>5. CASE ~(late.frac < early.frac)
    <2>1. timevalDeltaToNs(early, late)
             = IF s < 0 THEN Terminates ELSE s * (n * m) + u * m
      BY <1>1, <1>5 DEF timevalDeltaToNs, NsPerSecond
    <2>2. TimevalNs(early) <= TimevalNs(late) <=> ~(s < 0)
      BY <1>1, <1>2, <1>5
    <2> QED BY <1>3, <2>1, <2>2
  <1> QED BY <1>4, <1>5

\* timespecDiff, likewise.
THEOREM TimespecDiffExact ==
    ASSUME NEW before \in Timespec, NEW after \in Timespec
    PROVE  timespecDiff(after, before)
              = IF TimespecNs(before) <= TimespecNs(after)
                THEN TimespecNs(after) - TimespecNs(before) ELSE Terminates
  <1> DEFINE n == NsPerSecond
             s == after.sec - before.sec
             u == after.frac - before.frac
  <1>1. /\ n \in Nat \ {0}
        /\ before.sec \in Int /\ before.frac \in 0 .. n - 1
        /\ after.sec \in Int /\ after.frac \in 0 .. n - 1
        /\ s \in Int /\ u \in Int
    <2>1. UnitsPerSecond * NsPerUnit \in Nat \ {0}
      BY TimeAssumption DEF TimeAssumption
    <2> QED BY <2>1 DEF NsPerSecond, Timespec
  <1>2. TimespecNs(before) <= TimespecNs(after)
           <=> before.sec < after.sec
               \/ (before.sec = after.sec /\ before.frac <= after.frac)
    BY <1>1, SecondsFirst DEF TimespecNs
  <1>3. TimespecNs(after) - TimespecNs(before) = s * n + u
    BY <1>1 DEF TimespecNs
  <1>4. CASE \/ after.sec < before.sec
             \/ after.sec = before.sec /\ after.frac < before.frac
    BY <1>1, <1>2, <1>4 DEF timespecDiff
  <1>5. CASE ~ \/ after.sec < before.sec
               \/ after.sec = before.sec /\ after.frac < before.frac
    <2>1. timespecDiff(after, before) = s * n + u
      <3>1. CASE after.frac < before.frac
        <4>1. timespecDiff(after, before) = (s - 1) * n + (u + n)
          BY <1>1, <1>5, <3>1 DEF timespecDiff
        <4> QED BY <1>1, <4>1, Borrow
      <3>2. CASE ~(after.frac < before.frac)
        BY <1>1, <1>5, <3>2 DEF timespecDiff
      <3> QED BY <3>1, <3>2
    <2>2. TimespecNs(before) <= TimespecNs(after)
      BY <1>1, <1>2, <1>5
    <2> QED BY <1>3, <2>1, <2>2
  <1> QED BY <1>4, <1>5

\* What getLastMeasurement needs to know of the two times.
Times == /\ kind = "PCAP" => tx \in Timeval /\ rx \in Timeval
         /\ kind = "Kernel" => tx \in Timespec /\ rx \in Timespec
         /\ kind \in {"PCAP", "Kernel", "CPU"}

\* Every measurement of the two timestamping techniques is exact, or the
\* process ends because the response is older than its request.
LEMMA MeasurementsExact == Spec => [](PcapDeltaExact /\ KernelDeltaExact)
  <1> DEFINE Inv == Times /\ PcapDeltaExact /\ KernelDeltaExact
  <1>1. Init => Inv
    BY DEF Init, Times, PcapDeltaExact, KernelDeltaExact
  <1>2. Inv /\ [Next]_tdVars => Inv'
    <2> SUFFICES ASSUME Inv, [Next]_tdVars PROVE Inv'
      OBVIOUS
    <2>1. CASE getLastMeasurement
      <3>1. Times'
        BY <2>1 DEF getLastMeasurement, Times
      <3>2. CASE kind = "PCAP"
        <4>1. outcome' = <<timevalDeltaToNs(tx, rx)>>
          BY <2>1, <3>2 DEF getLastMeasurement
        <4>2. outcome' = IF TimevalNs(tx) <= TimevalNs(rx)
                         THEN <<TimevalNs(rx) - TimevalNs(tx)>>
                         ELSE <<Terminates>>
          BY <3>2, <4>1, TimevalDeltaExact DEF Times
        <4> QED BY <2>1, <3>1, <3>2, <4>2
                DEF getLastMeasurement, PcapDeltaExact, KernelDeltaExact,
                    TimevalNs
      <3>3. CASE kind = "Kernel"
        <4>1. outcome' = <<timespecDiff(rx, tx)>>
          BY <2>1, <3>3 DEF getLastMeasurement
        <4>2. outcome' = IF TimespecNs(tx) <= TimespecNs(rx)
                         THEN <<TimespecNs(rx) - TimespecNs(tx)>>
                         ELSE <<Terminates>>
          BY <3>3, <4>1, TimespecDiffExact DEF Times
        <4> QED BY <2>1, <3>1, <3>3, <4>2
                DEF getLastMeasurement, PcapDeltaExact, KernelDeltaExact,
                    TimespecNs
      <3>4. CASE kind = "CPU"
        BY <2>1, <3>1, <3>4
           DEF getLastMeasurement, PcapDeltaExact, KernelDeltaExact
      <3> QED BY <3>2, <3>3, <3>4 DEF Times
    <2>2. CASE UNCHANGED tdVars
      BY <2>2 DEF tdVars, Times, PcapDeltaExact, KernelDeltaExact, TimevalNs,
                  TimespecNs
    <2> QED BY <2>1, <2>2 DEF Next
  <1>3. Inv => PcapDeltaExact /\ KernelDeltaExact
    OBVIOUS
  <1> QED BY <1>1, <1>2, <1>3, PTL DEF Spec

\* PCAPTimingSocket::getLastMeasurement: in every behaviour the difference of
\* two normalised timevals is exact, in nanoseconds, or the process ends
\* because the response is older.
THEOREM PcapMeasurementsExact == Spec => []PcapDeltaExact
  BY MeasurementsExact, PTL

\* KernelTimingSocket::getLastMeasurement: the same of two timespecs.
THEOREM KernelMeasurementsExact == Spec => []KernelDeltaExact
  BY MeasurementsExact, PTL

=============================================================================

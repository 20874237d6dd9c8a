---------------------------- MODULE CaptureQueue ----------------------------
(***************************************************************************)
(* What PcapWrapper promises to the timing socket, without buffers and     *)
(* threads: libpcap appends captured packets to an unbounded history, and  *)
(* timingForPacket(payload, direction) answers with the earliest packet    *)
(* after the ones spent by earlier calls that has this payload and this    *)
(* direction.  PcapCapture is shown to implement this module.              *)
(*                                                                         *)
(* The capture clock (pcap_pkthdr::ts) is abstracted to the packet's       *)
(* ordinal in the history: it is strictly monotone and names one packet.   *)
(***************************************************************************)
EXTENDS Integers, Sequences

CONSTANTS
    SHARED_BUFFER_SIZE,  \* slots of each of the two shared buffers
    Payloads             \* the distinct TCP payloads on the wire

Directions == {"DESTINATION_REMOTE", "SOURCE_REMOTE"}

\* What a call of timingForPacket looks for, and what a packet offers.
Packet == [payload : Payloads, direction : Directions]

VARIABLES
    captured,  \* the packets captured since startLoop
    cursor,    \* the captures up to here are spent by completed calls
    request,   \* <<wanted>> during a call of timingForPacket, else <<>>
    result,    \* what the last completed call returned (0: none yet)
    fate       \* whether the process still runs, and what stopped it

cqVars == <<captured, cursor, request, result, fate>>

Matches(p, w) == p.payload = w.payload /\ p.direction = w.direction

\* Mutant: no capture is ever spent.
HitsAmongAll(w) == {j \in 1 .. Len(captured) : Matches(captured[j], w)}

\* The unspent captures that answer w.
Hits(w) == {j \in cursor + 1 .. Len(captured) : Matches(captured[j], w)}

Init ==
    /\ captured = <<>>
    /\ cursor = 0
    /\ request = <<>>
    /\ result = 0
    /\ fate = "running"

\* startLoop: a new session forgets every earlier capture.
Open ==
    /\ request = <<>>
    /\ captured' = <<>>
    /\ cursor' = 0
    /\ UNCHANGED <<request, result, fate>>

Capture(p) ==
    /\ captured' = Append(captured, p)
    /\ UNCHANGED <<cursor, request, result, fate>>

Ask(w) ==
    /\ request = <<>>
    /\ request' = <<w>>
    /\ UNCHANGED <<captured, cursor, result, fate>>

Answer ==
    /\ request # <<>>
    /\ \E j \in Hits(request[1]) :
          /\ \A k \in Hits(request[1]) : j <= k
          /\ result' = j
          /\ cursor' = j
    /\ request' = <<>>
    /\ UNCHANGED <<captured, fate>>

\* The callback ends the process when it finds no buffer to write to: never
\* while fewer than a buffer's worth of captures is unspent.
Overflow ==
    /\ Len(captured) - cursor >= SHARED_BUFFER_SIZE
    /\ fate' = "buffer_full"
    /\ UNCHANGED <<captured, cursor, request, result>>

\* The callback ends the process on a packet it cannot take.
Reject ==
    /\ fate' = "rejected"
    /\ UNCHANGED <<captured, cursor, request, result>>

\* A call leaves the buffer it reads: only during a call, and only when the
\* session has captured at least a buffer's worth of packets.
Stray ==
    /\ request # <<>>
    /\ Len(captured) >= SHARED_BUFFER_SIZE
    /\ fate' = "overrun"
    /\ UNCHANGED <<captured, cursor, request, result>>

Next ==
    /\ fate = "running"
    /\ \/ Open
       \/ \E p \in Packet : Capture(p)
       \/ \E w \in Packet : Ask(w)
       \/ Answer
       \/ Overflow
       \/ Reject
       \/ Stray

Spec == Init /\ [][Next]_cqVars

=============================================================================

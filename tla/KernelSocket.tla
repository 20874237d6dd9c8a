---------------------------- MODULE KernelSocket ----------------------------
(***************************************************************************)
(* KernelTimingSocket: how connect asks for time stamps, and how write and *)
(* read get them.  write sends and then looks through the error queue of   *)
(* the socket, where the kernel puts every packet it has stamped, for one  *)
(* whose payload begins with the chunk.  read takes the stamp that comes   *)
(* with the data.  A program makes the calls: see Bench.                   *)
(*                                                                         *)
(* The kernel, the device and the network are external.  A chunk is a      *)
(* sequence of units, bytes that stay together.  One packet is stamped for *)
(* every send: the one with its last byte.  The clock counts the events    *)
(* that are stamped.  A few times, something happens that is not ordinary: *)
(*                                                                         *)
(*   partial_send   send takes a part of the chunk                         *)
(*   split_request  a chunk leaves in several packets                      *)
(*   retransmit     a packet is sent, and stamped, again                   *)
(*   no_stamp       a stamp is lost, or takes longer than the retries      *)
(*   split_answer   an answer arrives in several packets                   *)
(*   unstamped      a packet arrives without a stamp                       *)
(***************************************************************************)
EXTENDS Integers, SequencesExt

CONSTANTS
    MAX_RETRIES,  \* TIMESTAMPING_MESSAGE_MAX_RETRIES (1000)
    MaxIncidents  \* bound: how often something is not ordinary

Incidents == {"partial_send", "split_request", "retransmit", "no_stamp",
              "split_answer", "unstamped"}

ASSUME KernelAssumption ==
    /\ MAX_RETRIES \in Nat \ {0}
    /\ MaxIncidents \in Nat

VARIABLES
    incidents,  \* the kinds that have happened, and how many may still
    driver,     \* external: whether the device makes hardware stamps
    options,    \* the stamps the kernel makes for the socket
    deviceSupportsHardwareTimestamping,
    tstamp_source,
    pc,         \* where the program with the socket is
    calls,      \* the chunks of the write calls that have not returned
    retries,
    tx_timestamp,
    rx_timestamp,
    outgoing,   \* sends that have not left
    errqueue,   \* stamped packets
    last,       \* <<the last stamped packet>>, while it may be sent again
    incoming,   \* packets on their way to the socket
    received,   \* units that wait for read; the last of a packet has its stamp
    now         \* the clock

stampVars  == <<driver, options, deviceSupportsHardwareTimestamping,
                tstamp_source>>
callVars   == <<calls, retries, tx_timestamp, rx_timestamp>>
wireVars   == <<outgoing, errqueue, last, incoming, received, now>>
kernelVars == <<incidents, stampVars, pc, callVars, wireVars>>

Incident(kind) ==
    /\ incidents.left > 0
    /\ incidents' = [kinds |-> incidents.kinds \cup {kind},
                     left  |-> incidents.left - 1]

\* Something happens in the ordinary way, or else as an incident.
Ordinary(usual, kind) == IF usual THEN UNCHANGED incidents ELSE Incident(kind)

\* A stamp: the request or the answer that was stamped, and when.
Stamp(of, at) == [of |-> of, at |-> at]

KernelInit ==
    /\ driver \in BOOLEAN
    /\ incidents = [kinds |-> {}, left |-> MaxIncidents]
    /\ options = "NONE"
    /\ deviceSupportsHardwareTimestamping = FALSE
    /\ tstamp_source = "SOFTWARE"
    /\ pc = "connect"
    /\ calls = <<>>
    /\ retries = 0
    /\ tx_timestamp = Stamp(0, 0)
    /\ rx_timestamp = Stamp(0, 0)
    /\ outgoing = <<>> /\ errqueue = <<>> /\ last = <<>>
    /\ incoming = <<>> /\ received = <<>>
    /\ now = 0

-----------------------------------------------------------------------------
(***************************************************************************)
(* connect.                                                                *)
(***************************************************************************)

\* Loopback is refused, and nobody may listen at the target: nothing catches
\* the exception.
Connect ==
    /\ pc = "connect"
    /\ pc' \in {"device", "terminated"}
    /\ UNCHANGED <<incidents, stampVars, callVars, wireVars>>

\* Mutant: the device counts as enabled whatever the driver says.
SupportedAlways(enabled) == TRUE
Supported(enabled)       == enabled

\* SIOCGHWTSTAMP says that the device stamps already, or SIOCSHWTSTAMP has it
\* stamp, or does not.
InitializeDevice ==
    /\ pc = "device"
    /\ \E enabled \in BOOLEAN :
          /\ driver => enabled
          /\ driver' = enabled
          /\ deviceSupportsHardwareTimestamping' = Supported(enabled)
    /\ pc' = "socket"
    /\ UNCHANGED <<incidents, options, tstamp_source, callVars, wireVars>>

\* setsockopt takes the options for hardware stamps, or those for software
\* stamps, or neither.
InitializeSocket ==
    /\ pc = "socket"
    /\ \/ /\ \/ /\ deviceSupportsHardwareTimestamping
                /\ tstamp_source' = "HARDWARE"
             \/ tstamp_source' = "SOFTWARE"
          /\ options' = tstamp_source'
          /\ pc' = "request"
       \/ /\ pc' = "terminated"
          /\ UNCHANGED <<tstamp_source, options>>
    /\ UNCHANGED <<incidents, driver, deviceSupportsHardwareTimestamping,
                   callVars, wireVars>>

\* Hardware stamps need a device that makes them.
Stamping == options = "SOFTWARE" \/ (options = "HARDWARE" /\ driver)

\* The three cells of a stamp: the kernel fills that of its kind.
CellOf(stamp) == IF tstamp_source = options THEN stamp ELSE Stamp(0, 0)

-----------------------------------------------------------------------------
(***************************************************************************)
(* write.                                                                  *)
(***************************************************************************)

\* TimingSocket::write.  The rest of a partial send goes to the virtual
\* write, which looks for a stamp of its own.
Send(request) ==
    /\ pc = "send"
    /\ \E n \in 1 .. Len(Head(calls)) :
          /\ Ordinary(n = Len(Head(calls)), "partial_send")
          /\ outgoing' = Append(outgoing,
                [of |-> request, units |-> SubSeq(Head(calls), 1, n)])
          /\ IF n < Len(Head(calls))
             THEN /\ calls' = <<SubSeq(Head(calls), n + 1, Len(Head(calls)))>>
                                \o calls
                  /\ pc' = pc
             ELSE calls' = calls /\ pc' = "search"
    /\ retries' = 0
    /\ UNCHANGED <<stampVars, tx_timestamp, rx_timestamp, errqueue,
                   last, incoming, received, now>>

\* Mutant: any packet of the queue will do.
BeginsWithAny(units, chunk) == {TRUE}

\* memcmp reads as many bytes as the chunk has.  Beyond a shorter payload
\* there is whatever the stack has.
BeginsWith(units, chunk) ==
    IF IsPrefix(chunk, units) THEN {TRUE}
    ELSE IF IsPrefix(units, chunk) THEN BOOLEAN
    ELSE {FALSE}

\* The stamps the program waits for are made within the retries.
InTime == outgoing = <<>> \/ ~Stamping \/ retries < MAX_RETRIES - 1

\* A turn that does not find the packet is counted.
NextTry == retries + 1

\* Mutant: the call stays on the stack.
CallStays   == calls
CallReturns == Tail(calls)

\* A turn of getTxTimestamp's loop: EAGAIN (and a sleep), a packet that is
\* not the chunk's, or the chunk's; next is what follows write.
Search(next) ==
    /\ pc = "search" /\ retries < MAX_RETRIES
    /\ \/ /\ errqueue = <<>> /\ InTime
          /\ retries' = NextTry
          /\ UNCHANGED <<pc, calls, tx_timestamp, errqueue>>
       \/ /\ errqueue # <<>>
          /\ errqueue' = Tail(errqueue)
          /\ \E found \in BeginsWith(Head(errqueue).units, Head(calls)) :
                IF found
                THEN /\ tx_timestamp' = CellOf(Stamp(Head(errqueue).of,
                                                     Head(errqueue).at))
                     /\ calls' = CallReturns
                     /\ retries' = 0
                     /\ pc' = IF Len(calls) = 1 THEN next ELSE pc
                ELSE /\ retries' = NextTry
                     /\ UNCHANGED <<pc, calls, tx_timestamp>>
    /\ UNCHANGED <<incidents, stampVars, rx_timestamp, outgoing, last,
                   incoming, received, now>>

\* The exception is not caught.
SearchFails ==
    /\ pc = "search" /\ retries = MAX_RETRIES
    /\ pc' = "terminated"
    /\ UNCHANGED <<incidents, stampVars, callVars, wireVars>>

-----------------------------------------------------------------------------
(***************************************************************************)
(* read.                                                                   *)
(***************************************************************************)

\* What recvmsg takes, and the units of it that end a packet with a stamp.
Taken(size)   == IF size < Len(received) THEN size ELSE Len(received)
Stamped(size) == {i \in 1 .. Taken(size) : received[i].at > 0}

\* A blocking read of up to size units: the stamp is that of the last packet
\* it takes to the end.  Without one, read has the data and returns -1.
Read(size) ==
    /\ pc = "read" /\ received # <<>>
    /\ received' = SubSeq(received, Taken(size) + 1, Len(received))
    /\ rx_timestamp' =
          IF Stamped(size) = {} THEN rx_timestamp
          ELSE LET i == Max(Stamped(size))
               IN  CellOf(Stamp(received[i].of, received[i].at))
    /\ UNCHANGED <<incidents, stampVars, calls, retries, tx_timestamp,
                   outgoing, errqueue, last, incoming, now>>

ReadReturns(size) == IF Stamped(size) = {} THEN -1 ELSE Taken(size)

\* timespecDiff ends the process when the answer is older than the request.
\* A stamp that was never written is whatever memory holds.
AnswerOlder == IF rx_timestamp.of = 0 THEN BOOLEAN
               ELSE {rx_timestamp.at < tx_timestamp.at}

-----------------------------------------------------------------------------
(***************************************************************************)
(* The network.                                                            *)
(***************************************************************************)

\* The units that can leave in one packet: the next send, or a first part.
Packets == IF outgoing = <<>> THEN {}
           ELSE {SubSeq(Head(outgoing).units, 1, n) :
                   n \in 1 .. Len(Head(outgoing).units)}

\* A packet leaves.  The one with the last unit of its send is stamped.
Transmit(units) ==
    /\ now' = now + 1
    /\ LET send  == Head(outgoing)
           rest  == SubSeq(send.units, Len(units) + 1, Len(send.units))
           stamp == [of |-> send.of, units |-> units, at |-> now']
       IN  \/ /\ rest # <<>> /\ Incident("split_request")
              /\ outgoing' = <<[send EXCEPT !.units = rest]>>
                               \o Tail(outgoing)
              /\ UNCHANGED <<errqueue, last>>
           \/ /\ rest = <<>> /\ Stamping
              /\ outgoing' = Tail(outgoing)
              /\ errqueue' = Append(errqueue, stamp)
              /\ last' = <<stamp>>
              /\ UNCHANGED incidents
           \/ /\ rest = <<>> /\ Ordinary(~Stamping, "no_stamp")
              /\ outgoing' = Tail(outgoing)
              /\ last' = <<>>
              /\ UNCHANGED errqueue
    /\ UNCHANGED <<stampVars, pc, callVars, incoming, received>>

\* The stamped packet is sent once more, before an answer acknowledges it.
Retransmit ==
    /\ last # <<>> /\ Incident("retransmit")
    /\ now' = now + 1
    /\ errqueue' = Append(errqueue, [last[1] EXCEPT !.at = now'])
    /\ last' = <<>>
    /\ UNCHANGED <<stampVars, pc, callVars, outgoing, incoming,
                   received>>

\* A packet of an answer arrives; it acknowledges what the server had got.
Arrive ==
    /\ incoming # <<>>
    /\ now' = now + 1
    /\ incoming' = Tail(incoming)
    /\ \E stamped \in BOOLEAN :
          /\ stamped => Stamping
          /\ Ordinary(stamped = Stamping, "unstamped")
          /\ received' = received \o
                [i \in 1 .. Head(incoming).size |->
                   Stamp(Head(incoming).of,
                         IF stamped /\ i = Head(incoming).size THEN now'
                         ELSE 0)]
    /\ last' = IF last # <<>> /\ last[1].at <= Head(incoming).acks THEN <<>>
               ELSE last
    /\ UNCHANGED <<stampVars, pc, callVars, outgoing, errqueue>>

=============================================================================

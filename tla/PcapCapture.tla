---------------------------- MODULE PcapCapture -----------------------------
(***************************************************************************)
(* PcapWrapper and PcapLoopCallback: the two threads that share a UserData *)
(* object.  The loop thread runs pcap_loop and enters handlePacket for     *)
(* every captured packet; the main thread calls startLoop, any number of   *)
(* times timingForPacket, and stopLoop.                                    *)
(*                                                                         *)
(* The members of UserData are plain (no mutex, no atomic).  Every load or *)
(* store of a member the other thread also uses is a step of its own, in   *)
(* program order, which is what the default build (no optimisation, x86)   *)
(* executes.  Members that only one thread uses are read and written       *)
(* together with the neighbouring step.                                    *)
(*                                                                         *)
(* A packet is its payload and its direction.  The capture time is the     *)
(* packet's ordinal in captured, so it is strictly monotone and identifies *)
(* the packet.  A callback that returns early (stop_loop set, undecodable  *)
(* packet, empty payload) changes nothing and has no action.               *)
(***************************************************************************)
EXTENDS Integers, Sequences

CONSTANTS
    SHARED_BUFFER_SIZE,  \* slots of each of the two shared buffers
    Payloads,            \* the distinct TCP payloads on the wire
    MaxPackets,          \* bound: packets stored in one session
    MaxSessions          \* bound: calls of startLoop

ASSUME BufferAssumption == SHARED_BUFFER_SIZE \in Nat \ {0}

Directions == {"DESTINATION_REMOTE", "SOURCE_REMOTE"}
Packet     == [payload : Payloads, direction : Directions]
PacketInfo == [payload : Payloads, direction : Directions, timing : Nat]

\* The content of a slot nothing was stored in.
Unwritten == [payload |-> "none", direction |-> "none", timing |-> 0]

\* active_buffer_* is a bool: 0 is shared_buffer_a, 1 is shared_buffer_b.
Buffers    == {0, 1}
Slots      == 0 .. SHARED_BUFFER_SIZE - 1
Negated(b) == 1 - b

VARIABLES
    shared_buffer,                 \* shared_buffer_a and shared_buffer_b
    active_buffer_consumer,
    active_buffer_producer,
    shared_buffer_index_producer,
    shared_buffer_index_consumer,
    stop_loop,
    break_loop,    \* libpcap's flag, set by pcap_breakloop
    loop_pc,       \* where the loop thread is
    packet,        \* what handlePacket decoded
    main_pc,       \* where the main thread is
    wanted,        \* buf, buflen and direction of timingForPacket
    match,         \* the slot whose timing was found
    result,        \* the timing returned last
    session,       \* number of calls of startLoop
    fate,          \* "running", or what ended the process
    captured,      \* history: what handlePacket published in this session
    taken,         \* history: how many of them timingForPacket went past
    cursor         \* history: taken at the end of the last completed call

bufferVars  == <<shared_buffer, active_buffer_producer,
                 shared_buffer_index_producer>>
readVars    == <<active_buffer_consumer, shared_buffer_index_consumer>>
searchVars  == <<wanted, match, result, cursor>>
controlVars == <<stop_loop, break_loop, session>>

\* What only the loop thread, or only the main thread, moves during a session.
loopSide == <<bufferVars, loop_pc, packet, captured>>
mainSide == <<readVars, main_pc, searchVars, controlVars, taken>>
vars     == <<loopSide, mainSide, fate>>

LoopPcs == {"none", "pcap_loop", "check_consumer", "reset_index",
            "flip_buffer", "store", "publish", "exited"}
SearchPcs == {"check_active", "check_index", "check_end", "switch_buffer",
              "compare", "return_timing"}
MainPcs == SearchPcs \cup {"closed", "idle", "set_stop", "join"}

Fates == {"running", "buffer_full", "rejected", "overrun"}

Init ==
    /\ shared_buffer = [b \in Buffers |-> [i \in Slots |-> Unwritten]]
    /\ active_buffer_consumer = 0
    /\ active_buffer_producer = 0
    /\ shared_buffer_index_producer = 0
    /\ shared_buffer_index_consumer = 0
    /\ stop_loop = FALSE
    /\ break_loop = FALSE
    /\ loop_pc = "none"
    /\ packet \in Packet
    /\ main_pc = "closed"
    /\ wanted \in Packet
    /\ match = [buffer |-> 0, index |-> 0]
    /\ result = 0
    /\ session = 0
    /\ fate = "running"
    /\ captured = <<>>
    /\ taken = 0
    /\ cursor = 0

-----------------------------------------------------------------------------
\* The thread is about to run the statement; nothing runs once fate is sealed.
LoopAt(pc) == fate = "running" /\ loop_pc = pc
MainAt(pc) == fate = "running" /\ main_pc = pc

(***************************************************************************)
(* The loop thread: handlePacket.                                          *)
(***************************************************************************)

\* Mutant: the end of the buffer is noticed one packet late.
BufferFullLate == shared_buffer_index_producer > SHARED_BUFFER_SIZE
BufferFull     == shared_buffer_index_producer = SHARED_BUFFER_SIZE

\* Mutants: the other buffer is taken without asking, or in the wrong case.
ConsumerDoneAlways == TRUE
ConsumerDoneWrong  == active_buffer_producer # active_buffer_consumer
ConsumerDone       == active_buffer_producer = active_buffer_consumer

\* The callback is entered, finds stop_loop unset and decodes a payload of at
\* most MAX_PACKET_SIZE bytes.
HandlePacket(p) ==
    /\ LoopAt("pcap_loop")
    /\ ~stop_loop
    /\ Len(captured) < MaxPackets
    /\ packet' = p
    /\ loop_pc' = IF BufferFull THEN "check_consumer" ELSE "store"
    /\ UNCHANGED <<bufferVars, captured, mainSide, fate>>

\* The callback throws: the payload is larger than MAX_PACKET_SIZE, or the
\* parser throws something other than std::invalid_argument.  Nothing catches
\* it on this thread, so the process ends.
RejectPacket ==
    /\ LoopAt("pcap_loop")
    /\ ~stop_loop
    /\ fate' = "rejected"
    /\ UNCHANGED <<loopSide, mainSide>>

\* "switch buffer if consumer is done with other buffer, else panic": a throw
\* without an exception to rethrow ends the process.
CheckConsumer ==
    /\ LoopAt("check_consumer")
    /\ IF ConsumerDone
       THEN loop_pc' = "reset_index" /\ fate' = fate
       ELSE loop_pc' = loop_pc /\ fate' = "buffer_full"
    /\ UNCHANGED <<bufferVars, packet, captured, mainSide>>

ResetProducerIndex ==
    /\ LoopAt("reset_index")
    /\ shared_buffer_index_producer' = 0
    /\ loop_pc' = "flip_buffer"
    /\ UNCHANGED <<shared_buffer, active_buffer_producer, packet, captured,
                   mainSide, fate>>

\* Mutant: the producer starts over in the buffer it has just filled.
KeepProducerBuffer ==
    /\ LoopAt("flip_buffer")
    /\ loop_pc' = "store"
    /\ UNCHANGED <<bufferVars, packet, captured, mainSide, fate>>

FlipProducerBuffer ==
    /\ LoopAt("flip_buffer")
    /\ active_buffer_producer' = Negated(active_buffer_producer)
    /\ loop_pc' = "store"
    /\ UNCHANGED <<shared_buffer, shared_buffer_index_producer, packet,
                   captured, mainSide, fate>>

\* The member-wise copy into the slot; it is not visible to the consumer's
\* index tests before the index moves.
StorePacket ==
    /\ LoopAt("store")
    /\ shared_buffer' =
          [shared_buffer EXCEPT
             ![active_buffer_producer][shared_buffer_index_producer] =
                [payload |-> packet.payload, direction |-> packet.direction,
                 timing |-> Len(captured) + 1]]
    /\ loop_pc' = "publish"
    /\ UNCHANGED <<active_buffer_producer, shared_buffer_index_producer,
                   packet, captured, mainSide, fate>>

PublishPacket ==
    /\ LoopAt("publish")
    /\ shared_buffer_index_producer' = shared_buffer_index_producer + 1
    /\ captured' = Append(captured, packet)
    /\ loop_pc' = "pcap_loop"
    /\ UNCHANGED <<shared_buffer, active_buffer_producer, packet, mainSide,
                   fate>>

\* pcap_loop tests its flag between packets, at its own times; it clears the
\* flag and returns PCAP_ERROR_BREAK, and the thread function ends.
LeaveLoop ==
    /\ LoopAt("pcap_loop")
    /\ break_loop
    /\ break_loop' = FALSE
    /\ loop_pc' = "exited"
    /\ UNCHANGED <<bufferVars, packet, captured, readVars, main_pc,
                   searchVars, stop_loop, session, taken, fate>>

\* pcap_loop fails (the device goes away); the thread function reports it and
\* ends.  Nobody tells the main thread, and break_loop is not consumed.
FailLoop ==
    /\ LoopAt("pcap_loop")
    /\ loop_pc' = "exited"
    /\ UNCHANGED <<bufferVars, packet, captured, mainSide, fate>>

-----------------------------------------------------------------------------
(***************************************************************************)
(* The main thread: startLoop, timingForPacket, stopLoop.                  *)
(***************************************************************************)

\* The slots keep what an earlier session left in them.
StartLoop ==
    /\ MainAt("closed")
    /\ session < MaxSessions
    /\ session' = session + 1
    /\ shared_buffer_index_consumer' = 0
    /\ shared_buffer_index_producer' = 0
    /\ active_buffer_consumer' = 0
    /\ active_buffer_producer' = 0
    /\ stop_loop' = FALSE
    /\ loop_pc' = "pcap_loop"
    /\ main_pc' = "idle"
    /\ captured' = <<>>
    /\ taken' = 0
    /\ cursor' = 0
    /\ UNCHANGED <<shared_buffer, packet, wanted, match, result, break_loop,
                   fate>>

TimingForPacket(w) ==
    /\ MainAt("idle")
    /\ wanted' = w
    /\ main_pc' = "check_active"
    /\ UNCHANGED <<loopSide, readVars, match, result, cursor, controlVars,
                   taken, fate>>

\* Mutant: only the indexes are compared, not the buffers they belong to.
CheckIndexOnly ==
    /\ MainAt("check_active")
    /\ main_pc' = "check_index"
    /\ UNCHANGED <<loopSide, readVars, searchVars, controlVars, taken, fate>>

\* First half of the test "no new packets".
CheckActive ==
    /\ MainAt("check_active")
    /\ main_pc' = IF active_buffer_producer = active_buffer_consumer
                  THEN "check_index" ELSE "check_end"
    /\ UNCHANGED <<loopSide, readVars, searchVars, controlVars, taken, fate>>

\* Second half: yield and start over when there is nothing new.
CheckIndex ==
    /\ MainAt("check_index")
    /\ main_pc' =
          IF shared_buffer_index_producer = shared_buffer_index_consumer
          THEN "check_active" ELSE "check_end"
    /\ UNCHANGED <<loopSide, readVars, searchVars, controlVars, taken, fate>>

\* Mutant: the consumer looks for the end of its buffer one slot too far.
AtEndLate == /\ active_buffer_producer # active_buffer_consumer
             /\ shared_buffer_index_consumer > SHARED_BUFFER_SIZE
AtEnd     == /\ active_buffer_producer # active_buffer_consumer
             /\ shared_buffer_index_consumer = SHARED_BUFFER_SIZE

CheckEnd ==
    /\ MainAt("check_end")
    /\ main_pc' = IF AtEnd THEN "switch_buffer" ELSE "compare"
    /\ UNCHANGED <<loopSide, readVars, searchVars, controlVars, taken, fate>>

\* "switch to the other buffer"; the index is the main thread's own.
SwitchConsumerBuffer ==
    /\ MainAt("switch_buffer")
    /\ active_buffer_consumer' = Negated(active_buffer_consumer)
    /\ shared_buffer_index_consumer' = 0
    /\ main_pc' = "check_active"
    /\ UNCHANGED <<loopSide, searchVars, controlVars, taken, fate>>

\* Mutant: a packet with the right payload is taken in either direction.
MatchesPayload(p, w) == p.payload = w.payload
Matches(p, w) == p.payload = w.payload /\ p.direction = w.direction

Candidate == shared_buffer[active_buffer_consumer][shared_buffer_index_consumer]

\* The candidate is compared and passed; a match is remembered by address.
CompareCandidate ==
    /\ MainAt("compare")
    /\ shared_buffer_index_consumer < SHARED_BUFFER_SIZE
    /\ IF Matches(Candidate, wanted)
       THEN /\ main_pc' = "return_timing"
            /\ match' = [buffer |-> active_buffer_consumer,
                         index  |-> shared_buffer_index_consumer]
       ELSE /\ main_pc' = "check_active"
            /\ match' = match
    /\ shared_buffer_index_consumer' = shared_buffer_index_consumer + 1
    /\ taken' = taken + 1
    /\ UNCHANGED <<loopSide, active_buffer_consumer, wanted, result, cursor,
                   controlVars, fate>>

\* The slot after the last one is read.  The language gives the program no
\* meaning from here on, so the model ends.
ReadPastEnd ==
    /\ MainAt("compare")
    /\ shared_buffer_index_consumer >= SHARED_BUFFER_SIZE
    /\ fate' = "overrun"
    /\ UNCHANGED <<loopSide, mainSide>>

\* The timing is copied out of the slot after the index has moved past it.
ReturnTiming ==
    /\ MainAt("return_timing")
    /\ result' = shared_buffer[match.buffer][match.index].timing
    /\ cursor' = taken
    /\ main_pc' = "idle"
    /\ UNCHANGED <<loopSide, readVars, wanted, match, controlVars, taken,
                   fate>>

\* Mutant: libpcap is not told to leave its loop.
SkipBreakLoop ==
    /\ MainAt("idle")
    /\ main_pc' = "set_stop"
    /\ UNCHANGED <<loopSide, readVars, searchVars, controlVars, taken, fate>>

\* stopLoop, in three steps: pcap_breakloop, stop_loop = true, join.
BreakLoop ==
    /\ MainAt("idle")
    /\ break_loop' = TRUE
    /\ main_pc' = "set_stop"
    /\ UNCHANGED <<loopSide, readVars, searchVars, stop_loop, session, taken,
                   fate>>

SetStopLoop ==
    /\ MainAt("set_stop")
    /\ stop_loop' = TRUE
    /\ main_pc' = "join"
    /\ UNCHANGED <<loopSide, readVars, searchVars, break_loop, session,
                   taken, fate>>

JoinLoop ==
    /\ MainAt("join")
    /\ loop_pc = "exited"
    /\ loop_pc' = "none"
    /\ main_pc' = "closed"
    /\ UNCHANGED <<bufferVars, packet, captured, readVars, searchVars,
                   controlVars, taken, fate>>

-----------------------------------------------------------------------------
\* What the operating system keeps scheduling: a callback once entered, a
\* pcap_loop told to leave, and the main thread inside a call.
LoopStep ==
    \/ CheckConsumer \/ ResetProducerIndex \/ FlipProducerBuffer
    \/ StorePacket \/ PublishPacket \/ LeaveLoop

SearchStep ==
    \/ CheckActive \/ CheckIndex \/ CheckEnd \/ SwitchConsumerBuffer
    \/ CompareCandidate \/ ReadPastEnd \/ ReturnTiming

StopStep == SetStopLoop \/ JoinLoop

Next ==
    \/ \E p \in Packet : HandlePacket(p)
    \/ RejectPacket
    \/ FailLoop
    \/ LoopStep
    \/ StartLoop
    \/ \E w \in Packet : TimingForPacket(w)
    \/ SearchStep
    \/ BreakLoop
    \/ StopStep

Spec == /\ Init /\ [][Next]_vars
        /\ WF_vars(LoopStep)
        /\ WF_vars(SearchStep \/ StopStep)

-----------------------------------------------------------------------------
(***************************************************************************)
(* Properties.                                                             *)
(***************************************************************************)

TypeOK ==
    /\ shared_buffer \in [Buffers -> [Slots -> PacketInfo \cup {Unwritten}]]
    /\ active_buffer_consumer \in Buffers
    /\ active_buffer_producer \in Buffers
    /\ shared_buffer_index_producer \in 0 .. SHARED_BUFFER_SIZE
    /\ shared_buffer_index_consumer \in 0 .. SHARED_BUFFER_SIZE
    /\ stop_loop \in BOOLEAN
    /\ break_loop \in BOOLEAN
    /\ loop_pc \in LoopPcs
    /\ packet \in Packet
    /\ main_pc \in MainPcs
    /\ wanted \in Packet
    /\ match \in [buffer : Buffers, index : Slots]
    /\ result \in Nat
    /\ session \in Nat
    /\ fate \in Fates
    /\ captured \in Seq(Packet)
    /\ taken \in Nat
    /\ cursor \in Nat

\* What the slot of the j-th capture has to hold.
Info(j) == [payload   |-> captured[j].payload,
            direction |-> captured[j].direction,
            timing    |-> j]

\* The slot timingForPacket will read for the j-th capture, j > taken.
SlotOf(j) ==
    LET i == shared_buffer_index_consumer + (j - taken - 1)
    IN  IF i < SHARED_BUFFER_SIZE
        THEN shared_buffer[active_buffer_consumer][i]
        ELSE shared_buffer[Negated(active_buffer_consumer)]
                          [i - SHARED_BUFFER_SIZE]

\* No capture is lost or overwritten before it is searched: whatever the two
\* threads are doing, the consumer's own walk through the two buffers meets
\* every published and not yet passed packet, in capture order.
UnreadIntact ==
    \A j \in taken + 1 .. Len(captured) : SlotOf(j) = Info(j)

\* handlePacket never writes the slot that timingForPacket is comparing, nor
\* the slot whose address it keeps in match until it has copied the timing,
\* although the consumer's index has moved past that slot by then.
NoSlotRace ==
    loop_pc = "store" =>
       LET written == [buffer |-> active_buffer_producer,
                       index  |-> shared_buffer_index_producer]
       IN  /\ main_pc = "compare" =>
                 written # [buffer |-> active_buffer_consumer,
                            index  |-> shared_buffer_index_consumer]
           /\ main_pc = "return_timing" => written # match

\* The callback gives up on a full buffer only when the consumer is at least a
\* whole buffer behind: a consumer that keeps up is never punished.
OverflowMeansBehind ==
    fate = "buffer_full" => Len(captured) - taken >= SHARED_BUFFER_SIZE

\* timingForPacket goes on to read beyond the end of its buffer in one
\* interleaving only: it makes its last test exactly between the two stores
\* (index, then flag) by which the producer switches buffers.
OverrunOnlyInWindow ==
    [][ /\ main_pc = "check_end"
        /\ main_pc' = "compare"
        /\ shared_buffer_index_consumer = SHARED_BUFFER_SIZE
        => loop_pc = "flip_buffer" ]_vars

\* A call whose packet has been captured returns, unless the process ends.
SearchReturns ==
    (/\ main_pc \in SearchPcs
     /\ \E j \in taken + 1 .. Len(captured) : Matches(captured[j], wanted))
       ~> (main_pc = "idle" \/ fate # "running")

\* stopLoop returns, unless the process ends.
StopReturns ==
    main_pc = "set_stop" ~> (main_pc = "closed" \/ fate # "running")

\* The buffers implement the queue: a call returns the earliest unspent match.
Queue == INSTANCE CaptureQueue WITH
            request <- IF main_pc \in SearchPcs THEN <<wanted>> ELSE <<>>
ImplementsQueue == Queue!Spec

-----------------------------------------------------------------------------
(***************************************************************************)
(* The inductive invariant behind the safety properties.                   *)
(***************************************************************************)

\* What the loop thread's place in handlePacket says of its own index, and of
\* the slot it has written and not yet published.
LoopPlace ==
    /\ loop_pc \in {"store", "publish"} =>
          shared_buffer_index_producer < SHARED_BUFFER_SIZE
    /\ loop_pc \in {"check_consumer", "reset_index"} =>
          shared_buffer_index_producer = SHARED_BUFFER_SIZE
    /\ loop_pc = "flip_buffer" => shared_buffer_index_producer = 0
    /\ loop_pc \in {"reset_index", "flip_buffer"} =>
          active_buffer_producer = active_buffer_consumer
    /\ loop_pc = "publish" =>
          shared_buffer[active_buffer_producer][shared_buffer_index_producer]
             = [payload |-> packet.payload, direction |-> packet.direction,
                timing |-> Len(captured) + 1]

\* Between the two stores of a switch the producer still stands at the end of
\* the buffer it has filled.
ProducerEnd == IF loop_pc = "flip_buffer"
               THEN SHARED_BUFFER_SIZE ELSE shared_buffer_index_producer

\* The unread packets are those between the two threads' positions.
UnreadCount ==
    IF active_buffer_producer = active_buffer_consumer
    THEN /\ shared_buffer_index_consumer <= ProducerEnd
         /\ Len(captured) - taken = ProducerEnd - shared_buffer_index_consumer
    ELSE Len(captured) - taken =
            (SHARED_BUFFER_SIZE - shared_buffer_index_consumer)
            + shared_buffer_index_producer

\* What the outcome of a test of timingForPacket is still worth when the next
\* statement runs.
SearchPlace ==
    /\ main_pc = "switch_buffer" =>
          /\ active_buffer_producer # active_buffer_consumer
          /\ shared_buffer_index_consumer = SHARED_BUFFER_SIZE
    /\ main_pc = "check_end" =>
          \/ taken < Len(captured)
          \/ /\ shared_buffer_index_consumer = SHARED_BUFFER_SIZE
             /\ \/ active_buffer_producer # active_buffer_consumer
                \/ loop_pc = "flip_buffer"
    /\ main_pc = "compare" =>
          \/ taken < Len(captured)
          \/ shared_buffer_index_consumer = SHARED_BUFFER_SIZE
    /\ main_pc = "return_timing" =>
          /\ shared_buffer_index_consumer > 0
          /\ match = [buffer |-> active_buffer_consumer,
                      index  |-> shared_buffer_index_consumer - 1]
          /\ shared_buffer[match.buffer][match.index].timing = taken

\* How far the running call has come, and what it has not found.
SearchProgress ==
    /\ shared_buffer_index_consumer <= taken
    /\ cursor <= taken
    /\ main_pc \notin SearchPcs => cursor = taken
    /\ main_pc \in SearchPcs \ {"return_timing"} =>
          \A j \in cursor + 1 .. taken : ~Matches(captured[j], wanted)
    /\ main_pc = "return_timing" =>
          /\ cursor < taken
          /\ Matches(captured[taken], wanted)
          /\ \A j \in cursor + 1 .. taken - 1 : ~Matches(captured[j], wanted)

\* There is a loop thread exactly while a session is open.
Lifecycle == loop_pc = "none" <=> main_pc = "closed"

IInv == /\ TypeOK
        /\ LoopPlace
        /\ UnreadCount
        /\ UnreadIntact
        /\ SearchPlace
        /\ SearchProgress
        /\ Lifecycle
        /\ OverflowMeansBehind

-----------------------------------------------------------------------------
(***************************************************************************)
(* Statements of the source's comments that the code does not keep.        *)
(***************************************************************************)

\* PcapLoopCallback.h: "These members are never accessed from more than one
\* thread".  Were it so, no two threads could be about to access the same
\* member, one of them to write it.
MembersNotShared ==
    /\ ~ /\ main_pc = "check_index"
         /\ loop_pc \in {"reset_index", "publish"}
    /\ ~ (main_pc \in {"check_active", "check_end"} /\ loop_pc = "flip_buffer")
    /\ ~ (main_pc = "switch_buffer" /\ loop_pc = "check_consumer")

\* PcapWrapper.cpp: "we are at the end of the current buffer, switch to the
\* other buffer".  The consumer that has reached the end never reads on.
SwitchesAtEnd ==
    main_pc = "compare" => shared_buffer_index_consumer < SHARED_BUFFER_SIZE

=============================================================================

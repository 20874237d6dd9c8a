------------------------- MODULE PcapCaptureProofs --------------------------
(***************************************************************************)
(* Proofs about PcapCapture, for buffers of any size, any set of payloads  *)
(* and any number of packets and sessions.                                 *)
(***************************************************************************)
EXTENDS PcapCapture, TLAPS

USE BufferAssumption DEF LoopAt, MainAt

-----------------------------------------------------------------------------
(***************************************************************************)
(* Types.                                                                  *)
(***************************************************************************)

\* The initial state, in which the process has not called startLoop yet, has
\* the declared types.
LEMMA TypeInit == Init => TypeOK
  <1> SUFFICES ASSUME Init PROVE TypeOK
    OBVIOUS
  <1>1. shared_buffer \in [Buffers -> [Slots -> PacketInfo \cup {Unwritten}]]
    BY DEF Init
  <1>2. match \in [buffer : Buffers, index : Slots]
    BY DEF Init, Buffers, Slots
  <1>3. captured \in Seq(Packet)
    BY DEF Init
  <1> QED BY <1>1, <1>2, <1>3
         DEF Init, TypeOK, Buffers, LoopPcs, MainPcs, Fates

\* Every step of either thread keeps the types; the producer's index stays in
\* its buffer because of where handlePacket stands (LoopPlace).
LEMMA TypeStep == TypeOK /\ LoopPlace /\ [Next]_vars => TypeOK'
  <1> SUFFICES ASSUME TypeOK, LoopPlace, [Next]_vars PROVE TypeOK'
    OBVIOUS
  <1> USE DEF TypeOK, Buffers, Slots, LoopPcs, MainPcs, SearchPcs, Fates,
              bufferVars, readVars, searchVars, controlVars,
              loopSide, mainSide
  <1>1. CASE \E p \in Packet : HandlePacket(p)
    BY <1>1 DEF HandlePacket
  <1>2. CASE RejectPacket \/ FailLoop
    <2>1. loop_pc' \in LoopPcs /\ fate' \in Fates
      BY <1>2 DEF RejectPacket, FailLoop
    <2>2. UNCHANGED <<bufferVars, packet, captured, mainSide>>
      BY <1>2 DEF RejectPacket, FailLoop
    <2> HIDE DEF Buffers, Slots, LoopPcs, MainPcs, Fates
    <2> QED BY <2>1, <2>2
  <1>3. CASE LoopStep
    <2>1. CASE CheckConsumer
      BY <2>1 DEF CheckConsumer
    <2>2. CASE ResetProducerIndex
      BY <2>2 DEF ResetProducerIndex
    <2>3. CASE FlipProducerBuffer
      BY <2>3 DEF FlipProducerBuffer, Negated
    <2>4. CASE StorePacket
      <3> DEFINE stored == [payload   |-> packet.payload,
                            direction |-> packet.direction,
                            timing    |-> Len(captured) + 1]
      <3>1. stored \in PacketInfo
        BY DEF PacketInfo, Packet
      <3>2. shared_buffer_index_producer \in Slots
        BY <2>4 DEF StorePacket, LoopPlace
      <3> HIDE DEF stored
      <3>3. shared_buffer' =
              [shared_buffer EXCEPT
                 ![active_buffer_producer][shared_buffer_index_producer]
                    = stored]
        BY <2>4 DEF StorePacket, stored
      <3>4. ASSUME NEW b \in Buffers
            PROVE  shared_buffer'[b] \in [Slots -> PacketInfo \cup {Unwritten}]
        BY <3>1, <3>2, <3>3
      <3>5. shared_buffer' \in [Buffers -> [Slots -> PacketInfo \cup {Unwritten}]]
        BY <3>3, <3>4
      <3> QED BY <2>4, <3>5 DEF StorePacket
    <2>5. CASE PublishPacket
      <3>1. shared_buffer_index_producer' \in 0 .. SHARED_BUFFER_SIZE
        BY <2>5 DEF PublishPacket, LoopPlace
      <3>2. captured' \in Seq(Packet)
        BY <2>5 DEF PublishPacket
      <3> QED BY <2>5, <3>1, <3>2 DEF PublishPacket
    <2>6. CASE LeaveLoop
      BY <2>6 DEF LeaveLoop
    <2> QED BY <1>3, <2>1, <2>2, <2>3, <2>4, <2>5, <2>6 DEF LoopStep
  <1>4. CASE StartLoop
    <2>1. captured' \in Seq(Packet)
      BY <1>4 DEF StartLoop
    <2>2. /\ shared_buffer_index_consumer' \in 0 .. SHARED_BUFFER_SIZE
          /\ shared_buffer_index_producer' \in 0 .. SHARED_BUFFER_SIZE
          /\ taken' \in Nat
          /\ cursor' \in Nat
          /\ session' \in Nat
      BY <1>4 DEF StartLoop
    <2> QED BY <1>4, <2>1, <2>2 DEF StartLoop
  <1>5. CASE \E w \in Packet : TimingForPacket(w)
    BY <1>5 DEF TimingForPacket
  <1>6. CASE SearchStep
    <2>1. CASE CheckActive
      BY <2>1 DEF CheckActive
    <2>2. CASE CheckIndex
      BY <2>2 DEF CheckIndex
    <2>3. CASE CheckEnd
      BY <2>3 DEF CheckEnd
    <2>4. CASE SwitchConsumerBuffer
      BY <2>4 DEF SwitchConsumerBuffer, Negated
    <2>5. CASE CompareCandidate
      BY <2>5 DEF CompareCandidate
    <2>6. CASE ReadPastEnd
      BY <2>6 DEF ReadPastEnd
    <2>7. CASE ReturnTiming
      <3>1. shared_buffer[match.buffer][match.index]
               \in PacketInfo \cup {Unwritten}
        OBVIOUS
      <3>2. shared_buffer[match.buffer][match.index].timing \in Nat
        BY <3>1 DEF PacketInfo, Unwritten
      <3> QED BY <2>7, <3>2 DEF ReturnTiming
    <2> QED BY <1>6, <2>1, <2>2, <2>3, <2>4, <2>5, <2>6, <2>7 DEF SearchStep
  <1>7. CASE BreakLoop
    BY <1>7 DEF BreakLoop
  <1>8. CASE StopStep
    BY <1>8 DEF StopStep, SetStopLoop, JoinLoop
  <1>9. CASE UNCHANGED vars
    BY <1>9 DEF vars
  <1> QED BY <1>1, <1>2, <1>3, <1>4, <1>5, <1>6, <1>7, <1>8, <1>9 DEF Next

-----------------------------------------------------------------------------
(***************************************************************************)
(* The inductive invariant: one lemma per actor's kind of step.            *)
(***************************************************************************)

\* The invariant holds before the first startLoop.
LEMMA IInvInit == Init => IInv
  <1> SUFFICES ASSUME Init PROVE IInv
    OBVIOUS
  <1>1. TypeOK
    BY TypeInit
  <1>2. Len(captured) = 0
    BY DEF Init
  <1>3. LoopPlace /\ UnreadCount /\ UnreadIntact
    BY <1>2 DEF Init, LoopPlace, UnreadCount, ProducerEnd, UnreadIntact
  <1>4. SearchPlace /\ SearchProgress /\ Lifecycle /\ OverflowMeansBehind
    BY DEF Init, SearchPlace, SearchProgress, SearchPcs, Lifecycle,
           OverflowMeansBehind
  <1> QED BY <1>1, <1>3, <1>4 DEF IInv

\* The numbers the invariant relates are integers.
Counters ==
    /\ shared_buffer_index_producer \in Int
    /\ shared_buffer_index_consumer \in Int
    /\ 0 <= shared_buffer_index_producer
    /\ shared_buffer_index_producer <= SHARED_BUFFER_SIZE
    /\ 0 <= shared_buffer_index_consumer
    /\ shared_buffer_index_consumer <= SHARED_BUFFER_SIZE
    /\ SHARED_BUFFER_SIZE \in Nat
    /\ SHARED_BUFFER_SIZE > 0
    /\ Len(captured) \in Nat
    /\ taken \in Nat
    /\ cursor \in Nat

LEMMA Numbers == TypeOK => Counters
  BY DEF TypeOK, Counters

\* Entering the callback disturbs nothing but the thread's place.
LEMMA HandlePacketKeepsIInv ==
    ASSUME IInv, NEW p \in Packet, HandlePacket(p)
    PROVE  IInv'
  <1> USE DEF IInv, bufferVars, readVars, searchVars, controlVars,
              loopSide, mainSide
  <1>0. Counters
    BY Numbers
  <1>1. TypeOK'
    BY TypeStep DEF Next
  <1>2. LoopPlace'
    BY <1>0 DEF Counters, HandlePacket, LoopPlace, BufferFull
  <1>3. UnreadCount'
    BY DEF HandlePacket, UnreadCount, ProducerEnd
  <1>4. UnreadIntact'
    BY DEF HandlePacket, UnreadIntact, SlotOf, Info
  <1>5. SearchPlace' /\ SearchProgress'
    BY DEF HandlePacket, SearchPlace, SearchProgress, SearchPcs
  <1>6. Lifecycle' /\ OverflowMeansBehind'
    BY DEF HandlePacket, Lifecycle, OverflowMeansBehind
  <1> QED BY <1>1, <1>2, <1>3, <1>4, <1>5, <1>6

\* A packet that is thrown out ends the process and changes nothing else.
LEMMA RejectPacketKeepsIInv ==
    ASSUME IInv, RejectPacket
    PROVE  IInv'
  <1> USE DEF IInv, bufferVars, readVars, searchVars, controlVars,
              loopSide, mainSide
  <1>1. TypeOK'
    BY TypeStep DEF Next
  <1>2. LoopPlace' /\ UnreadCount' /\ UnreadIntact'
    BY DEF RejectPacket, LoopPlace, UnreadCount, ProducerEnd, UnreadIntact,
           SlotOf, Info
  <1>3. SearchPlace' /\ SearchProgress' /\ Lifecycle' /\ OverflowMeansBehind'
    BY DEF RejectPacket, SearchPlace, SearchProgress, SearchPcs, Lifecycle,
           OverflowMeansBehind
  <1> QED BY <1>1, <1>2, <1>3

\* Switching buffers, and leaving the loop: the packets do not move, and the
\* producer's end stays where it was until the buffer is flipped.
LEMMA SwitchKeepsIInv ==
    ASSUME IInv,
           \/ CheckConsumer \/ ResetProducerIndex \/ FlipProducerBuffer
           \/ LeaveLoop \/ FailLoop
    PROVE  IInv'
  <1> USE DEF IInv, bufferVars, readVars, searchVars, controlVars,
              loopSide, mainSide
  <1>0. Counters
    BY Numbers
  <1>1. TypeOK'
    BY TypeStep DEF Next, LoopStep
  <1>2. UnreadIntact'
    BY DEF CheckConsumer, ResetProducerIndex, FlipProducerBuffer, LeaveLoop,
           FailLoop, UnreadIntact, SlotOf, Info
  <1>3. SearchProgress' /\ Lifecycle'
    BY DEF CheckConsumer, ResetProducerIndex, FlipProducerBuffer, LeaveLoop,
           FailLoop, SearchProgress, SearchPcs, Lifecycle
  <1>4. CASE CheckConsumer
    <2>1. LoopPlace' /\ UnreadCount'
      BY <1>4 DEF CheckConsumer, ConsumerDone, LoopPlace, UnreadCount,
                  ProducerEnd
    <2>2. SearchPlace'
      BY <1>4 DEF CheckConsumer, SearchPlace
    <2>3. OverflowMeansBehind'
      BY <1>4, <1>0 DEF Counters, CheckConsumer, ConsumerDone, LoopPlace,
                        UnreadCount,
                           OverflowMeansBehind
    <2> QED BY <1>1, <1>2, <1>3, <2>1, <2>2, <2>3
  <1>5. CASE ResetProducerIndex
    <2>1. LoopPlace' /\ UnreadCount'
      BY <1>5, <1>0 DEF Counters, ResetProducerIndex, LoopPlace, UnreadCount,
                           ProducerEnd
    <2>2. SearchPlace' /\ OverflowMeansBehind'
      BY <1>5 DEF ResetProducerIndex, SearchPlace, OverflowMeansBehind
    <2> QED BY <1>1, <1>2, <1>3, <2>1, <2>2
  <1>6. CASE FlipProducerBuffer
    <2>1. active_buffer_producer' # active_buffer_consumer'
      BY <1>6 DEF FlipProducerBuffer, LoopPlace, TypeOK, Buffers, Negated
    <2>2. LoopPlace' /\ UnreadCount'
      BY <1>6, <2>1, <1>0 DEF Counters, FlipProducerBuffer, LoopPlace,
                              UnreadCount,
                                 ProducerEnd
    <2>3. SearchPlace' /\ OverflowMeansBehind'
      BY <1>6, <2>1 DEF FlipProducerBuffer, SearchPlace, OverflowMeansBehind
    <2> QED BY <1>1, <1>2, <1>3, <2>2, <2>3
  <1>7. CASE LeaveLoop \/ FailLoop
    <2>1. LoopPlace' /\ UnreadCount'
      BY <1>7 DEF LeaveLoop, FailLoop, LoopPlace, UnreadCount, ProducerEnd
    <2>2. SearchPlace' /\ OverflowMeansBehind'
      BY <1>7 DEF LeaveLoop, FailLoop, SearchPlace, OverflowMeansBehind
    <2> QED BY <1>1, <1>2, <1>3, <2>1, <2>2
  <1> QED BY <1>4, <1>5, <1>6, <1>7

\* Where the j-th capture lies while it is unread: in the consumer's buffer
\* before the producer's end when both work in one buffer, else in the rest of
\* the consumer's buffer or before the producer's index in the other.
LEMMA UnreadPosition ==
    ASSUME IInv, NEW j \in taken + 1 .. Len(captured),
           NEW i, i = shared_buffer_index_consumer + (j - taken - 1)
    PROVE  /\ i \in Int /\ i >= 0
           /\ active_buffer_producer = active_buffer_consumer =>
                 i < ProducerEnd /\ ProducerEnd <= SHARED_BUFFER_SIZE
           /\ active_buffer_producer # active_buffer_consumer =>
                 i < SHARED_BUFFER_SIZE + shared_buffer_index_producer
  <1>0. Counters
    BY Numbers DEF IInv
  <1> DEFINE unread == Len(captured) - taken
  <1>1. /\ j \in Int /\ 0 <= j - taken - 1 /\ j - taken - 1 < unread
        /\ unread \in Int
    BY <1>0 DEF Counters, IInv
  <1>2. i \in Int /\ i >= 0 /\ i < shared_buffer_index_consumer + unread
    BY <1>1, <1>0 DEF Counters, IInv
  <1>3. ProducerEnd \in Int /\ ProducerEnd <= SHARED_BUFFER_SIZE
    BY <1>0 DEF Counters, IInv, ProducerEnd
  <1>4. ASSUME active_buffer_producer = active_buffer_consumer
        PROVE  i < ProducerEnd
    <2>1. unread = ProducerEnd - shared_buffer_index_consumer
      BY <1>4 DEF IInv, UnreadCount
    <2> HIDE DEF unread
    <2> QED BY <1>2, <1>3, <2>1, <1>0 DEF Counters, IInv
  <1>5. ASSUME active_buffer_producer # active_buffer_consumer
        PROVE  i < SHARED_BUFFER_SIZE + shared_buffer_index_producer
    <2>1. unread = (SHARED_BUFFER_SIZE - shared_buffer_index_consumer)
                      + shared_buffer_index_producer
      BY <1>5 DEF IInv, UnreadCount
    <2> HIDE DEF unread
    <2> QED BY <1>2, <2>1, <1>0 DEF Counters, IInv
  <1> QED BY <1>2, <1>3, <1>4, <1>5

\* A slot other than the one written keeps its content.
LEMMA OtherSlotsKept ==
    ASSUME TypeOK, StorePacket, NEW b \in Buffers, NEW i \in Slots,
           b # active_buffer_producer \/ i # shared_buffer_index_producer
    PROVE  shared_buffer'[b][i] = shared_buffer[b][i]
  BY DEF StorePacket, TypeOK

\* Storing a packet touches no unread slot and not the slot of a match.
LEMMA StorePacketKeepsIInv ==
    ASSUME IInv, StorePacket
    PROVE  IInv'
  <1> USE DEF IInv, readVars, searchVars, controlVars, mainSide
  <1>0. Counters
    BY Numbers
  <1>1. TypeOK'
    BY TypeStep DEF Next, LoopStep
  <1>2. shared_buffer_index_producer < SHARED_BUFFER_SIZE
        /\ ProducerEnd = shared_buffer_index_producer
    BY DEF StorePacket, LoopPlace, ProducerEnd
  <1>3. LoopPlace'
    <2>1. shared_buffer'[active_buffer_producer][shared_buffer_index_producer]
             = [payload |-> packet.payload, direction |-> packet.direction,
                timing |-> Len(captured) + 1]
      BY <1>2, <1>0 DEF Counters, StorePacket, TypeOK, Slots
    <2> QED BY <1>2, <2>1 DEF StorePacket, LoopPlace
  <1>4. UnreadCount'
    BY DEF StorePacket, UnreadCount, ProducerEnd
  <1>5. UnreadIntact'
    <2> SUFFICES ASSUME NEW j \in taken + 1 .. Len(captured)
                 PROVE  SlotOf(j)' = SlotOf(j)
      BY DEF StorePacket, UnreadIntact, Info
    <2> DEFINE i == shared_buffer_index_consumer + (j - taken - 1)
    <2>1. /\ i \in Int /\ i >= 0
          /\ active_buffer_producer = active_buffer_consumer =>
                i < ProducerEnd
          /\ active_buffer_producer # active_buffer_consumer =>
                i < SHARED_BUFFER_SIZE + shared_buffer_index_producer
      BY UnreadPosition
    <2>2. CASE i < SHARED_BUFFER_SIZE
      <3>1. i \in Slots
        BY <2>1, <2>2, <1>0 DEF Counters, Slots
      <3>2. active_buffer_producer = active_buffer_consumer =>
               i # shared_buffer_index_producer
        BY <1>2, <2>1, <1>0 DEF Counters
      <3>3. shared_buffer'[active_buffer_consumer][i]
               = shared_buffer[active_buffer_consumer][i]
        BY <3>1, <3>2, OtherSlotsKept DEF TypeOK
      <3> QED BY <2>2, <3>3 DEF SlotOf, StorePacket
    <2>3. CASE i >= SHARED_BUFFER_SIZE
      <3> DEFINE k == i - SHARED_BUFFER_SIZE
      <3>1. active_buffer_producer # active_buffer_consumer
        BY <1>2, <2>1, <2>3, <1>0 DEF Counters
      <3>2. k \in Slots /\ k # shared_buffer_index_producer
        <4>1. /\ i \in Int /\ i >= SHARED_BUFFER_SIZE
              /\ i < SHARED_BUFFER_SIZE + shared_buffer_index_producer
          BY <2>1, <2>3, <3>1
        <4>2. /\ k \in Int /\ 0 <= k /\ k < shared_buffer_index_producer
              /\ k < SHARED_BUFFER_SIZE
          BY <4>1, <1>0 DEF Counters
        <4> HIDE DEF k
        <4> QED BY <4>2, <1>0 DEF Counters, Slots
      <3>3. Negated(active_buffer_consumer) \in Buffers
        BY DEF TypeOK, Buffers, Negated
      <3>4. shared_buffer'[Negated(active_buffer_consumer)][k]
               = shared_buffer[Negated(active_buffer_consumer)][k]
        BY <3>2, <3>3, OtherSlotsKept
      <3>5. ~(i < SHARED_BUFFER_SIZE)
        BY <2>1, <2>3, <1>0 DEF Counters
      <3> QED BY <3>4, <3>5 DEF SlotOf, StorePacket
    <2> QED BY <2>1, <2>2, <2>3, <1>0 DEF Counters
  <1>6. SearchPlace'
    <2>1. main_pc = "return_timing" =>
             /\ match.buffer \in Buffers /\ match.index \in Slots
             /\ \/ match.buffer # active_buffer_producer
                \/ match.index # shared_buffer_index_producer
      BY <1>2, <1>0 DEF Counters, SearchPlace, UnreadCount, TypeOK
    <2>2. main_pc = "return_timing" =>
             shared_buffer'[match.buffer][match.index]
                = shared_buffer[match.buffer][match.index]
      BY <2>1, OtherSlotsKept
    <2> QED BY <2>2 DEF StorePacket, SearchPlace
  <1>7. SearchProgress' /\ Lifecycle' /\ OverflowMeansBehind'
    BY DEF StorePacket, SearchProgress, SearchPcs, Lifecycle,
           OverflowMeansBehind
  <1> QED BY <1>1, <1>3, <1>4, <1>5, <1>6, <1>7

\* The published packet is the last unread one; its slot is where the consumer
\* will look for it.
LEMMA PublishPacketKeepsIInv ==
    ASSUME IInv, PublishPacket
    PROVE  IInv'
  <1> USE DEF IInv, readVars, searchVars, controlVars, mainSide
  <1>0. Counters
    BY Numbers
  <1>1. TypeOK'
    BY TypeStep DEF Next, LoopStep
  <1>2. /\ shared_buffer_index_producer < SHARED_BUFFER_SIZE
        /\ ProducerEnd = shared_buffer_index_producer
        /\ ProducerEnd' = shared_buffer_index_producer + 1
    BY DEF PublishPacket, LoopPlace, ProducerEnd
  <1>3. /\ Len(captured') = Len(captured) + 1
        /\ \A j \in 1 .. Len(captured) : captured'[j] = captured[j]
        /\ captured'[Len(captured) + 1] = packet
    BY DEF PublishPacket, TypeOK
  <1>4. LoopPlace'
    BY DEF PublishPacket, LoopPlace
  <1>5. UnreadCount'
    <2>1. CASE active_buffer_producer = active_buffer_consumer
      <3>1. /\ shared_buffer_index_consumer <= ProducerEnd'
            /\ Len(captured') - taken
                  = ProducerEnd' - shared_buffer_index_consumer
        <4>1. /\ shared_buffer_index_consumer <= shared_buffer_index_producer
              /\ Len(captured) - taken
                    = shared_buffer_index_producer
                      - shared_buffer_index_consumer
          BY <1>2, <2>1 DEF UnreadCount
        <4>2. Len(captured') - taken
                 = shared_buffer_index_producer + 1
                   - shared_buffer_index_consumer
          BY <1>3, <4>1, <1>0 DEF Counters
        <4>3. shared_buffer_index_consumer <= shared_buffer_index_producer + 1
          BY <4>1, <1>0 DEF Counters
        <4> QED BY <1>2, <4>2, <4>3, <1>0 DEF Counters
      <3> QED BY <2>1, <3>1 DEF PublishPacket, UnreadCount
    <2>2. CASE active_buffer_producer # active_buffer_consumer
      <3> DEFINE rest == SHARED_BUFFER_SIZE - shared_buffer_index_consumer
      <3>1. Len(captured) - taken = rest + shared_buffer_index_producer
        BY <2>2 DEF UnreadCount
      <3>2. rest \in Int
        BY <1>0 DEF Counters
      <3> HIDE DEF rest
      <3>3. Len(captured') - taken = rest + (shared_buffer_index_producer + 1)
        <4>1. Len(captured') = Len(captured) + 1
          BY <1>3
        <4> QED BY <3>1, <3>2, <4>1, <1>0 DEF Counters
      <3>4. /\ shared_buffer_index_producer' = shared_buffer_index_producer + 1
            /\ shared_buffer_index_consumer' = shared_buffer_index_consumer
            /\ active_buffer_producer' # active_buffer_consumer'
            /\ taken' = taken
        BY <2>2 DEF PublishPacket
      <3> QED BY <3>3, <3>4 DEF UnreadCount, rest
    <2> QED BY <2>1, <2>2
  <1>6. UnreadIntact'
    <2> SUFFICES ASSUME NEW j \in taken + 1 .. Len(captured) + 1
                 PROVE  SlotOf(j) = Info(j)'
      BY <1>3 DEF PublishPacket, UnreadIntact, SlotOf
    <2>1. CASE j <= Len(captured)
      <3>1. j \in taken + 1 .. Len(captured) /\ j \in 1 .. Len(captured)
        BY <2>1, <1>0 DEF Counters
      <3> QED BY <1>3, <3>1 DEF UnreadIntact, Info
    <2>2. CASE j = Len(captured) + 1
      <3> DEFINE i == shared_buffer_index_consumer + (j - taken - 1)
      <3>1. CASE active_buffer_producer = active_buffer_consumer
        <4>1. Len(captured) - taken
                 = shared_buffer_index_producer - shared_buffer_index_consumer
          BY <1>2, <3>1 DEF UnreadCount
        <4>2. j - taken - 1 = Len(captured) - taken
          BY <2>2, <1>0 DEF Counters
        <4>3. i = shared_buffer_index_producer
          BY <4>1, <4>2, <1>0 DEF Counters
        <4>4. i < SHARED_BUFFER_SIZE
          BY <1>2, <4>3
        <4> QED BY <1>3, <2>2, <3>1, <4>3, <4>4
                DEF PublishPacket, LoopPlace, SlotOf, Info
      <3>2. CASE active_buffer_producer # active_buffer_consumer
        <4>1. /\ i - SHARED_BUFFER_SIZE = shared_buffer_index_producer
              /\ ~(i < SHARED_BUFFER_SIZE)
          <5>1. Len(captured) - taken
                   = (SHARED_BUFFER_SIZE - shared_buffer_index_consumer)
                     + shared_buffer_index_producer
            BY <3>2 DEF UnreadCount
          <5>2. j - taken - 1 = Len(captured) - taken
            BY <2>2, <1>0 DEF Counters
          <5> QED BY <5>1, <5>2, <1>0 DEF Counters
        <4>2. Negated(active_buffer_consumer) = active_buffer_producer
          BY <3>2 DEF TypeOK, Buffers, Negated
        <4> QED BY <1>3, <2>2, <4>1, <4>2
                DEF PublishPacket, LoopPlace, SlotOf, Info
      <3> QED BY <3>1, <3>2
    <2> QED BY <2>1, <2>2, <1>0 DEF Counters
  <1>7. SearchPlace'
    BY <1>3, <1>0 DEF Counters, PublishPacket, SearchPlace
  <1>8. SearchProgress'
    <2>1. taken <= Len(captured)
      BY <1>2, <1>0 DEF Counters, UnreadCount
    <2>2. \A j \in cursor + 1 .. taken : captured'[j] = captured[j]
      BY <1>3, <2>1, <1>0 DEF Counters
    <2>3. main_pc = "return_timing" =>
             /\ captured'[taken] = captured[taken]
             /\ \A j \in cursor + 1 .. taken - 1 : captured'[j] = captured[j]
      BY <1>3, <2>1, <1>0 DEF Counters, SearchProgress
    <2> QED BY <2>2, <2>3 DEF PublishPacket, SearchProgress
  <1>9. Lifecycle' /\ OverflowMeansBehind'
    BY DEF PublishPacket, Lifecycle, OverflowMeansBehind
  <1> QED BY <1>1, <1>4, <1>5, <1>6, <1>7, <1>8, <1>9

\* A session starts with no packet and no loop thread at work.
LEMMA StartLoopKeepsIInv ==
    ASSUME IInv, StartLoop
    PROVE  IInv'
  <1> USE DEF IInv
  <1>1. TypeOK'
    BY TypeStep DEF Next
  <1>2. Len(captured') = 0
    BY DEF StartLoop
  <1>3. /\ taken' = 0 /\ cursor' = 0
        /\ shared_buffer_index_producer' = 0
        /\ shared_buffer_index_consumer' = 0
        /\ active_buffer_producer' = active_buffer_consumer'
        /\ loop_pc' = "pcap_loop" /\ main_pc' = "idle"
        /\ fate' = "running"
    BY DEF StartLoop
  <1>4. LoopPlace' /\ UnreadCount' /\ UnreadIntact'
    BY <1>2, <1>3 DEF LoopPlace, UnreadCount, ProducerEnd, UnreadIntact
  <1>5. SearchPlace' /\ SearchProgress' /\ Lifecycle' /\ OverflowMeansBehind'
    BY <1>3 DEF SearchPlace, SearchProgress, SearchPcs, Lifecycle,
                OverflowMeansBehind
  <1> QED BY <1>1, <1>4, <1>5

\* Calling timingForPacket, and the first two statements of stopLoop.
LEMMA CallKeepsIInv ==
    ASSUME IInv,
           \/ \E w \in Packet : TimingForPacket(w)
           \/ BreakLoop \/ SetStopLoop \/ JoinLoop
    PROVE  IInv'
  <1> USE DEF IInv, bufferVars, readVars, searchVars, controlVars,
              loopSide, mainSide, TimingForPacket, BreakLoop, SetStopLoop,
              JoinLoop
  <1>0. Counters
    BY Numbers
  <1>1. TypeOK'
    BY TypeStep DEF Next, StopStep
  <1>2. LoopPlace' /\ UnreadCount'
    BY DEF LoopPlace, UnreadCount, ProducerEnd
  <1>3. UnreadIntact'
    BY DEF UnreadIntact, SlotOf, Info
  <1>4. SearchPlace'
    BY DEF SearchPlace
  <1>5. SearchProgress'
    <2>1. cursor = taken /\ cursor' = taken'
      BY DEF SearchProgress, SearchPcs
    <2>2. cursor' + 1 .. taken' = {}
      BY <2>1, <1>0 DEF Counters
    <2> QED BY <2>1, <2>2, <1>0 DEF Counters, SearchProgress, SearchPcs
  <1>6. Lifecycle' /\ OverflowMeansBehind'
    BY DEF Lifecycle, OverflowMeansBehind
  <1> QED BY <1>1, <1>2, <1>3, <1>4, <1>5, <1>6

\* The tests of timingForPacket: each outcome holds for as long as it is used,
\* whatever the loop thread does in between.
LEMMA TestKeepsIInv ==
    ASSUME IInv, CheckActive \/ CheckIndex \/ CheckEnd \/ ReadPastEnd
    PROVE  IInv'
  <1> USE DEF IInv, bufferVars, readVars, searchVars, controlVars,
              loopSide, mainSide
  <1>0. Counters
    BY Numbers
  <1>1. TypeOK'
    BY TypeStep DEF Next, SearchStep
  <1>2. LoopPlace' /\ UnreadCount' /\ UnreadIntact'
    BY DEF CheckActive, CheckIndex, CheckEnd, ReadPastEnd, LoopPlace,
           UnreadCount, ProducerEnd, UnreadIntact, SlotOf, Info
  <1>3. Lifecycle' /\ OverflowMeansBehind' /\ SearchProgress'
    BY DEF CheckActive, CheckIndex, CheckEnd, ReadPastEnd, Lifecycle,
           OverflowMeansBehind, SearchProgress, SearchPcs
  <1>4. CASE CheckActive
    <2>1. active_buffer_producer # active_buffer_consumer =>
             \/ taken < Len(captured)
             \/ shared_buffer_index_consumer = SHARED_BUFFER_SIZE
      BY <1>0 DEF Counters, UnreadCount
    <2>2. SearchPlace'
      BY <1>4, <2>1 DEF CheckActive, SearchPlace
    <2> QED BY <1>1, <1>2, <1>3, <2>2
  <1>5. CASE CheckIndex
    <2>1. \/ shared_buffer_index_producer = shared_buffer_index_consumer
          \/ taken < Len(captured)
          \/ /\ shared_buffer_index_consumer = SHARED_BUFFER_SIZE
             /\ \/ active_buffer_producer # active_buffer_consumer
                \/ loop_pc = "flip_buffer"
      BY <1>0 DEF Counters, UnreadCount, ProducerEnd
    <2>2. SearchPlace'
      BY <1>5, <2>1 DEF CheckIndex, SearchPlace
    <2> QED BY <1>1, <1>2, <1>3, <2>2
  <1>6. CASE CheckEnd
    BY <1>1, <1>2, <1>3, <1>6 DEF CheckEnd, AtEnd, SearchPlace
  <1>7. CASE ReadPastEnd
    BY <1>1, <1>2, <1>3, <1>7 DEF ReadPastEnd, SearchPlace
  <1> QED BY <1>4, <1>5, <1>6, <1>7

\* Moving to the other buffer changes the view of the unread packets, not the
\* packets: they now all lie in one buffer.
LEMMA SwitchConsumerBufferKeepsIInv ==
    ASSUME IInv, SwitchConsumerBuffer
    PROVE  IInv'
  <1> USE DEF IInv, bufferVars, loopSide, searchVars, controlVars, mainSide
  <1>0. Counters
    BY Numbers
  <1>1. TypeOK'
    BY TypeStep DEF Next, SearchStep
  <1>2. /\ active_buffer_producer # active_buffer_consumer
        /\ shared_buffer_index_consumer = SHARED_BUFFER_SIZE
        /\ active_buffer_consumer' = active_buffer_producer
        /\ active_buffer_consumer' = Negated(active_buffer_consumer)
        /\ shared_buffer_index_consumer' = 0
        /\ loop_pc \notin {"reset_index", "flip_buffer"}
    BY DEF SwitchConsumerBuffer, SearchPlace, LoopPlace, TypeOK, Buffers,
           Negated
  <1>3. LoopPlace'
    BY <1>2 DEF SwitchConsumerBuffer, LoopPlace
  <1>4. UnreadCount'
    BY <1>2, <1>0 DEF Counters, SwitchConsumerBuffer, UnreadCount, ProducerEnd
  <1>5. UnreadIntact'
    <2> SUFFICES ASSUME NEW j \in taken + 1 .. Len(captured)
                 PROVE  SlotOf(j)' = SlotOf(j)
      BY DEF SwitchConsumerBuffer, UnreadIntact, Info
    <2> DEFINE k == j - taken - 1
    <2>1. /\ k \in Int /\ k >= 0
          /\ SHARED_BUFFER_SIZE + k < SHARED_BUFFER_SIZE
                                      + shared_buffer_index_producer
      BY <1>2, UnreadPosition, <1>0 DEF Counters
    <2>2. /\ k < SHARED_BUFFER_SIZE
          /\ 0 + k = k
          /\ (SHARED_BUFFER_SIZE + k) - SHARED_BUFFER_SIZE = k
          /\ ~(SHARED_BUFFER_SIZE + k < SHARED_BUFFER_SIZE)
      BY <2>1, <1>0 DEF Counters
    <2>3. SlotOf(j) = shared_buffer[Negated(active_buffer_consumer)][k]
      BY <1>2, <2>2 DEF SlotOf
    <2>4. SlotOf(j)' = shared_buffer[Negated(active_buffer_consumer)][k]
      BY <1>2, <2>2 DEF SlotOf, SwitchConsumerBuffer
    <2> QED BY <2>3, <2>4
  <1>6. SearchPlace' /\ SearchProgress'
    BY <1>2, <1>0 DEF Counters, SwitchConsumerBuffer, SearchPlace,
                      SearchProgress,
                         SearchPcs
  <1>7. Lifecycle' /\ OverflowMeansBehind'
    BY DEF SwitchConsumerBuffer, Lifecycle, OverflowMeansBehind
  <1> QED BY <1>1, <1>3, <1>4, <1>5, <1>6, <1>7

\* A comparison that goes ahead inside the buffer reads the next unread packet.
LEMMA CandidateIsNext ==
    ASSUME IInv, CompareCandidate
    PROVE  /\ taken + 1 \in 1 .. Len(captured)
           /\ Candidate = Info(taken + 1)
           /\ Matches(Candidate, wanted) <=> Matches(captured[taken + 1], wanted)
  <1>0. Counters
    BY Numbers DEF IInv
  <1>1. taken < Len(captured)
    BY <1>0 DEF Counters, IInv, CompareCandidate, SearchPlace
  <1>2. taken + 1 \in taken + 1 .. Len(captured) /\ taken + 1 \in 1 .. Len(captured)
    BY <1>1, <1>0 DEF Counters, IInv
  <1>3. SlotOf(taken + 1) = Candidate
    <2>1. shared_buffer_index_consumer + ((taken + 1) - taken - 1)
             = shared_buffer_index_consumer
      BY <1>0 DEF Counters, IInv
    <2> QED BY <2>1 DEF SlotOf, Candidate, CompareCandidate
  <1>4. Candidate = Info(taken + 1)
    BY <1>2, <1>3 DEF IInv, UnreadIntact
  <1> QED BY <1>2, <1>4 DEF Info, Matches

\* Passing a packet makes it the last taken one; a match is its slot.
LEMMA CompareCandidateKeepsIInv ==
    ASSUME IInv, CompareCandidate
    PROVE  IInv'
  <1> USE DEF IInv, bufferVars, loopSide, controlVars
  <1>0. Counters
    BY Numbers
  <1>1. TypeOK'
    BY TypeStep DEF Next, SearchStep
  <1>2. /\ shared_buffer_index_consumer < SHARED_BUFFER_SIZE
        /\ shared_buffer_index_consumer' = shared_buffer_index_consumer + 1
        /\ taken' = taken + 1
        /\ taken + 1 <= Len(captured)
    BY CandidateIsNext, <1>0 DEF Counters, CompareCandidate
  <1>3. LoopPlace'
    BY DEF CompareCandidate, LoopPlace
  <1>4. UnreadCount'
    <2>1. ProducerEnd' = ProducerEnd /\ ProducerEnd \in Int
      BY <1>0 DEF Counters, CompareCandidate, ProducerEnd
    <2>2. CASE active_buffer_producer = active_buffer_consumer
      <3>1. /\ shared_buffer_index_consumer + 1 <= ProducerEnd
            /\ Len(captured) - (taken + 1)
                  = ProducerEnd - (shared_buffer_index_consumer + 1)
        <4>1. Len(captured) - taken
                 = ProducerEnd - shared_buffer_index_consumer
          BY <2>2 DEF UnreadCount
        <4>2. Len(captured) - (taken + 1)
                 = ProducerEnd - (shared_buffer_index_consumer + 1)
          BY <2>1, <4>1, <1>0 DEF Counters
        <4>3. Len(captured) - (taken + 1) >= 0
          BY <1>2, <1>0 DEF Counters
        <4>4. shared_buffer_index_consumer + 1 <= ProducerEnd
          BY <2>1, <4>2, <4>3, <1>0 DEF Counters
        <4> QED BY <4>2, <4>4
      <3> QED BY <1>2, <2>1, <2>2, <3>1 DEF CompareCandidate, UnreadCount
    <2>3. CASE active_buffer_producer # active_buffer_consumer
      <3>1. Len(captured) - taken
               = (SHARED_BUFFER_SIZE - shared_buffer_index_consumer)
                 + shared_buffer_index_producer
        BY <2>3 DEF UnreadCount
      <3>2. Len(captured) - (taken + 1)
               = (SHARED_BUFFER_SIZE - (shared_buffer_index_consumer + 1))
                 + shared_buffer_index_producer
        BY <3>1, <1>0 DEF Counters
      <3> QED BY <1>2, <2>3, <3>2 DEF CompareCandidate, UnreadCount
    <2> QED BY <2>2, <2>3
  <1>5. UnreadIntact'
    <2> SUFFICES ASSUME NEW j \in taken + 2 .. Len(captured)
                 PROVE  SlotOf(j)' = Info(j)
      BY <1>2, <1>0 DEF Counters, CompareCandidate, UnreadIntact, Info
    <2>1. j \in taken + 1 .. Len(captured)
      BY <1>0 DEF Counters
    <2>2. (shared_buffer_index_consumer + 1) + (j - (taken + 1) - 1)
             = shared_buffer_index_consumer + (j - taken - 1)
      BY <2>1, <1>0 DEF Counters
    <2>3. SlotOf(j)' = SlotOf(j)
      BY <1>2, <2>2 DEF CompareCandidate, SlotOf
    <2> QED BY <2>1, <2>3 DEF UnreadIntact
  <1>6. CASE Matches(Candidate, wanted)
    <2>1. /\ main_pc' = "return_timing"
          /\ match' = [buffer |-> active_buffer_consumer,
                       index  |-> shared_buffer_index_consumer]
          /\ shared_buffer' = shared_buffer
          /\ active_buffer_consumer' = active_buffer_consumer
      BY <1>6 DEF CompareCandidate
    <2>2. shared_buffer[match'.buffer][match'.index].timing = taken + 1
      BY <2>1, CandidateIsNext DEF Candidate, Info
    <2>3. SearchPlace'
      BY <1>2, <2>1, <2>2, <1>0 DEF Counters, SearchPlace
    <2>4. SearchProgress'
      <3>1. \A j \in cursor + 1 .. taken : ~Matches(captured[j], wanted)
        BY DEF CompareCandidate, SearchProgress, SearchPcs
      <3>2. Matches(captured[taken + 1], wanted)
        BY <1>6, CandidateIsNext
      <3>3. (taken + 1) - 1 = taken
        BY <1>0 DEF Counters
      <3>4. /\ captured' = captured /\ wanted' = wanted /\ cursor' = cursor
            /\ cursor <= taken /\ shared_buffer_index_consumer <= taken
        BY DEF CompareCandidate, SearchProgress
      <3> QED BY <1>2, <2>1, <3>1, <3>2, <3>3, <3>4, <1>0
              DEF Counters, SearchProgress, SearchPcs
    <2>5. Lifecycle' /\ OverflowMeansBehind'
      BY <2>1 DEF CompareCandidate, Lifecycle, OverflowMeansBehind
    <2> QED BY <1>1, <1>3, <1>4, <1>5, <2>3, <2>4, <2>5
  <1>7. CASE ~Matches(Candidate, wanted)
    <2>1. main_pc' = "check_active"
      BY <1>7 DEF CompareCandidate
    <2>2. SearchPlace'
      BY <2>1 DEF SearchPlace
    <2>3. SearchProgress'
      <3>1. \A j \in cursor + 1 .. taken : ~Matches(captured[j], wanted)
        BY DEF CompareCandidate, SearchProgress, SearchPcs
      <3>2. ~Matches(captured[taken + 1], wanted)
        BY <1>7, CandidateIsNext
      <3>3. \A j \in cursor + 1 .. taken + 1 : ~Matches(captured[j], wanted)
        BY <3>1, <3>2, <1>0 DEF Counters
      <3>4. /\ captured' = captured /\ wanted' = wanted /\ cursor' = cursor
            /\ cursor <= taken /\ shared_buffer_index_consumer <= taken
        BY DEF CompareCandidate, SearchProgress
      <3> QED BY <1>2, <2>1, <3>3, <3>4, <1>0
              DEF Counters, SearchProgress, SearchPcs
    <2>4. Lifecycle' /\ OverflowMeansBehind'
      BY <2>1 DEF CompareCandidate, Lifecycle, OverflowMeansBehind
    <2> QED BY <1>1, <1>3, <1>4, <1>5, <2>2, <2>3, <2>4
  <1> QED BY <1>6, <1>7

\* A call that returns has spent everything it went past.
LEMMA ReturnTimingKeepsIInv ==
    ASSUME IInv, ReturnTiming
    PROVE  IInv'
  <1> USE DEF IInv, bufferVars, readVars, loopSide, controlVars
  <1>0. Counters
    BY Numbers
  <1>1. TypeOK'
    BY TypeStep DEF Next, SearchStep
  <1>2. LoopPlace' /\ UnreadCount' /\ UnreadIntact'
    BY DEF ReturnTiming, LoopPlace, UnreadCount, ProducerEnd, UnreadIntact,
           SlotOf, Info
  <1>3. SearchPlace' /\ Lifecycle' /\ OverflowMeansBehind'
    BY DEF ReturnTiming, SearchPlace, Lifecycle, OverflowMeansBehind
  <1>4. SearchProgress'
    BY <1>0 DEF Counters, ReturnTiming, SearchProgress, SearchPcs
  <1> QED BY <1>1, <1>2, <1>3, <1>4

\* No step of the two threads breaks the invariant.
LEMMA IInvStep == IInv /\ [Next]_vars => IInv'
  <1> SUFFICES ASSUME IInv, [Next]_vars PROVE IInv'
    OBVIOUS
  <1>1. CASE \E p \in Packet : HandlePacket(p)
    BY <1>1, HandlePacketKeepsIInv
  <1>2. CASE LoopStep \/ FailLoop
    BY <1>2, SwitchKeepsIInv, StorePacketKeepsIInv, PublishPacketKeepsIInv
       DEF LoopStep
  <1>3. CASE SearchStep
    BY <1>3, TestKeepsIInv, SwitchConsumerBufferKeepsIInv,
       CompareCandidateKeepsIInv, ReturnTimingKeepsIInv DEF SearchStep
  <1>4. CASE (\E w \in Packet : TimingForPacket(w)) \/ BreakLoop \/ StopStep
    BY <1>4, CallKeepsIInv DEF StopStep
  <1>5. CASE UNCHANGED vars
    <2>1. TypeOK'
      BY <1>5, TypeStep DEF IInv
    <2>2. LoopPlace' /\ UnreadCount' /\ UnreadIntact'
      BY <1>5 DEF IInv, vars, bufferVars, readVars, loopSide, mainSide,
                  LoopPlace,
                  UnreadCount, ProducerEnd, UnreadIntact, SlotOf, Info
    <2>3. SearchPlace' /\ SearchProgress' /\ Lifecycle' /\ OverflowMeansBehind'
      BY <1>5 DEF IInv, vars, bufferVars, readVars, loopSide, mainSide,
                  searchVars,
                  SearchPlace, SearchProgress, Lifecycle, OverflowMeansBehind
    <2> QED BY <2>1, <2>2, <2>3 DEF IInv
  <1> QED BY <1>1, <1>2, <1>3, <1>4, <1>5, RejectPacketKeepsIInv,
             StartLoopKeepsIInv DEF Next

-----------------------------------------------------------------------------
(***************************************************************************)
(* The theorems.                                                           *)
(***************************************************************************)

\* The inductive invariant holds whenever the two threads run.
THEOREM Invariant == Spec => []IInv
  <1> QED BY IInvInit, IInvStep, PTL DEF Spec

\* Indexes stay inside the buffers' bounds (one past the last slot included)
\* and every member holds a value of its type.
THEOREM TypeCorrect == Spec => []TypeOK
  <1>1. IInv => TypeOK
    BY DEF IInv
  <1> QED BY <1>1, Invariant, PTL

\* No captured packet is lost, overwritten or reordered before timingForPacket
\* has gone past it.
THEOREM NothingLost == Spec => []UnreadIntact
  <1>1. IInv => UnreadIntact
    BY DEF IInv
  <1> QED BY <1>1, Invariant, PTL

\* The callback ends the process for want of a buffer only when a whole
\* buffer's worth of packets is unread.
THEOREM OverflowJustified == Spec => []OverflowMeansBehind
  <1>1. IInv => OverflowMeansBehind
    BY DEF IInv
  <1> QED BY <1>1, Invariant, PTL

\* handlePacket never writes the slot that timingForPacket is about to read,
\* although no lock protects the slots.
THEOREM SlotsRaceFree == Spec => []NoSlotRace
  <1>1. IInv => NoSlotRace
    <2> SUFFICES ASSUME IInv, loop_pc = "store" PROVE NoSlotRace
      BY DEF NoSlotRace
    <2> DEFINE written == [buffer |-> active_buffer_producer,
                           index  |-> shared_buffer_index_producer]
    <2>0. Counters
      BY Numbers DEF IInv
    <2>1. /\ shared_buffer_index_producer < SHARED_BUFFER_SIZE
          /\ ProducerEnd = shared_buffer_index_producer
      BY DEF IInv, LoopPlace, ProducerEnd
    <2>2. ASSUME main_pc = "compare"
          PROVE  written # [buffer |-> active_buffer_consumer,
                            index  |-> shared_buffer_index_consumer]
      <3>1. \/ active_buffer_producer # active_buffer_consumer
            \/ shared_buffer_index_producer # shared_buffer_index_consumer
        BY <2>0, <2>1, <2>2
           DEF Counters, IInv, SearchPlace, UnreadCount
      <3> QED BY <3>1
    <2>3. ASSUME main_pc = "return_timing"
          PROVE  written # match
      <3>1. \/ active_buffer_producer # active_buffer_consumer
            \/ shared_buffer_index_producer # shared_buffer_index_consumer - 1
        BY <2>0, <2>1, <2>3 DEF Counters, IInv, UnreadCount
      <3> QED BY <2>3, <3>1 DEF IInv, SearchPlace
    <2> QED BY <2>2, <2>3 DEF NoSlotRace
  <1> QED BY <1>1, Invariant, PTL

\* timingForPacket reads past its buffer in one window only: between the
\* producer's reset of the index and its flip of the flag.
THEOREM OverrunWindow == Spec => OverrunOnlyInWindow
  <1> DEFINE Goal == /\ main_pc = "check_end"
                     /\ main_pc' = "compare"
                     /\ shared_buffer_index_consumer = SHARED_BUFFER_SIZE
                     => loop_pc = "flip_buffer"
  <1>1. IInv /\ [Next]_vars => [Goal]_vars
    <2> SUFFICES ASSUME IInv, Next, main_pc = "check_end",
                        main_pc' = "compare",
                        shared_buffer_index_consumer = SHARED_BUFFER_SIZE
                 PROVE  loop_pc = "flip_buffer"
      OBVIOUS
    <2>1. CheckEnd
      BY DEF Next, LoopStep, SearchStep, StopStep, HandlePacket, RejectPacket,
             CheckConsumer, ResetProducerIndex, FlipProducerBuffer,
             StorePacket, PublishPacket, LeaveLoop, StartLoop,
             TimingForPacket, CheckActive, CheckIndex, SwitchConsumerBuffer,
             FailLoop, mainSide, CompareCandidate, ReadPastEnd, ReturnTiming,
             BreakLoop, SetStopLoop, JoinLoop
    <2>2. active_buffer_producer = active_buffer_consumer
      BY <2>1 DEF CheckEnd, AtEnd
    <2>3. Counters
      BY Numbers DEF IInv
    <2>4. CASE taken < Len(captured)
      <3>1. shared_buffer_index_consumer < ProducerEnd
        <4>1. Len(captured) - taken
                 = ProducerEnd - shared_buffer_index_consumer
          BY <2>2 DEF IInv, UnreadCount
        <4>2. ProducerEnd \in Int
          BY <2>3 DEF Counters, ProducerEnd
        <4> QED BY <2>3, <2>4, <4>1, <4>2 DEF Counters
      <3> QED BY <2>3, <3>1 DEF Counters, ProducerEnd
    <2> QED BY <2>2, <2>4 DEF IInv, SearchPlace
  <1> QED BY <1>1, Invariant, PTL DEF Spec, OverrunOnlyInWindow

-----------------------------------------------------------------------------
(***************************************************************************)
(* The two buffers implement the queue.                                    *)
(***************************************************************************)

\* What the queue sees of a call in progress.
Request == IF main_pc \in SearchPcs THEN <<wanted>> ELSE <<>>

\* The loop thread's steps: only publishing a packet shows.
LEMMA LoopStepMaps == IInv /\ LoopStep => [Queue!Next]_Queue!cqVars
  <1> SUFFICES ASSUME IInv, LoopStep PROVE [Queue!Next]_Queue!cqVars
    OBVIOUS
  <1> USE DEF bufferVars, readVars, searchVars, controlVars,
              loopSide, mainSide
  <1>1. CASE ResetProducerIndex \/ FlipProducerBuffer \/ StorePacket \/ LeaveLoop
    BY <1>1 DEF ResetProducerIndex, FlipProducerBuffer, StorePacket, LeaveLoop,
                Queue!cqVars
  <1>2. CASE PublishPacket
    <2>1. packet \in Queue!Packet
      BY DEF IInv, TypeOK, Packet, Directions, Queue!Packet, Queue!Directions
    <2>2. Queue!Capture(packet) /\ fate = "running"
      BY <1>2 DEF PublishPacket, Queue!Capture
    <2> QED BY <2>1, <2>2 DEF Queue!Next
  <1>3. CASE CheckConsumer
    <2>1. CASE ConsumerDone
      BY <1>3, <2>1 DEF CheckConsumer, Queue!cqVars
    <2>2. CASE ~ConsumerDone
      <3>1. OverflowMeansBehind'
        BY <1>3, SwitchKeepsIInv DEF IInv
      <3>2. Len(captured) - taken >= SHARED_BUFFER_SIZE
        BY <1>3, <2>2, <3>1 DEF CheckConsumer, OverflowMeansBehind
      <3>3. Len(captured) - cursor >= SHARED_BUFFER_SIZE
        <4>1. Counters /\ cursor <= taken
          BY Numbers DEF IInv, SearchProgress
        <4> QED BY <3>2, <4>1 DEF Counters
      <3>4. Queue!Overflow /\ fate = "running"
        BY <1>3, <2>2, <3>3 DEF CheckConsumer, Queue!Overflow
      <3> QED BY <3>4 DEF Queue!Next
    <2> QED BY <2>1, <2>2
  <1> QED BY <1>1, <1>2, <1>3 DEF LoopStep

\* The consumer has taken nothing that was not published.
LEMMA TakenWithin == IInv => taken <= Len(captured)
  <1> SUFFICES ASSUME IInv PROVE taken <= Len(captured)
    OBVIOUS
  <1>1. Counters /\ UnreadCount
    BY Numbers DEF IInv
  <1>2. ProducerEnd \in Int
    BY <1>1 DEF Counters, ProducerEnd
  <1>3. CASE active_buffer_producer = active_buffer_consumer
    BY <1>1, <1>2, <1>3 DEF Counters, UnreadCount
  <1>4. CASE active_buffer_producer # active_buffer_consumer
    BY <1>1, <1>4 DEF Counters, UnreadCount
  <1> QED BY <1>3, <1>4

\* The search: only its return shows, or its leaving the buffer.
LEMMA SearchStepMaps == IInv /\ SearchStep => [Queue!Next]_Queue!cqVars
  <1> SUFFICES ASSUME IInv, SearchStep PROVE [Queue!Next]_Queue!cqVars
    OBVIOUS
  <1> USE DEF bufferVars, readVars, searchVars, controlVars,
              loopSide, mainSide
  <1>0. taken <= Len(captured)
    BY TakenWithin
  <1>1. CASE CheckActive \/ CheckIndex \/ CheckEnd \/ SwitchConsumerBuffer
             \/ CompareCandidate
    BY <1>1 DEF CheckActive, CheckIndex, CheckEnd, SwitchConsumerBuffer,
                CompareCandidate, SearchPcs, Queue!cqVars
  <1>2. CASE ReadPastEnd
    <2>1. Len(captured) >= SHARED_BUFFER_SIZE
      <3>1. Counters
        BY Numbers DEF IInv
      <3>2. /\ shared_buffer_index_consumer >= SHARED_BUFFER_SIZE
            /\ shared_buffer_index_consumer <= taken
        BY <1>2, <3>1 DEF Counters, ReadPastEnd, AtEnd, IInv, SearchProgress
      <3> QED BY <1>0, <3>1, <3>2 DEF Counters
    <2>2. Queue!Stray /\ fate = "running"
      BY <1>2, <2>1 DEF ReadPastEnd, SearchPcs, Queue!Stray
    <2> QED BY <2>2 DEF Queue!Next
  <1>3. CASE ReturnTiming
    <2>1. /\ main_pc = "return_timing" /\ main_pc' = "idle"
          /\ result' = taken /\ cursor' = taken
          /\ captured' = captured /\ fate' = fate /\ fate = "running"
      BY <1>3 DEF ReturnTiming, IInv, SearchPlace
    <2>2. Request = <<wanted>> /\ Request' = <<>>
      BY <2>1 DEF Request, SearchPcs
    <2>3. /\ taken \in Queue!Hits(wanted)
          /\ \A k \in Queue!Hits(wanted) : taken <= k
      <3>1. /\ cursor < taken
            /\ taken <= Len(captured)
            /\ Matches(captured[taken], wanted)
            /\ \A j \in cursor + 1 .. taken - 1 : ~Matches(captured[j], wanted)
        BY <1>0, <2>1 DEF IInv, SearchProgress
      <3>2. Queue!Hits(wanted)
               = {j \in cursor + 1 .. Len(captured) : Matches(captured[j], wanted)}
        BY DEF Queue!Hits, Queue!Matches, Matches
      <3>3. Counters
        BY Numbers DEF IInv
      <3> QED BY <3>1, <3>2, <3>3 DEF Counters
    <2>4. Queue!Answer
      BY <2>1, <2>2, <2>3 DEF Queue!Answer, Request
    <2> QED BY <2>1, <2>4 DEF Queue!Next
  <1> QED BY <1>1, <1>2, <1>3 DEF SearchStep

\* Opening a session, asking, stopping and rejected packets.
LEMMA CallMaps ==
    ASSUME IInv,
           \/ \E p \in Packet : HandlePacket(p)
           \/ RejectPacket
           \/ FailLoop
           \/ StartLoop
           \/ \E w \in Packet : TimingForPacket(w)
           \/ BreakLoop
           \/ StopStep
    PROVE  [Queue!Next]_Queue!cqVars
  <1> USE DEF bufferVars, readVars, searchVars, controlVars,
              loopSide, mainSide
  <1>1. CASE \/ \E p \in Packet : HandlePacket(p)
             \/ FailLoop \/ BreakLoop \/ StopStep
    BY <1>1 DEF HandlePacket, FailLoop, BreakLoop, StopStep, SetStopLoop,
                JoinLoop, SearchPcs, Queue!cqVars
  <1>2. CASE RejectPacket
    <2>1. Queue!Reject /\ fate = "running"
      BY <1>2 DEF RejectPacket, Queue!Reject
    <2> QED BY <2>1 DEF Queue!Next
  <1>3. CASE StartLoop
    <2>1. Queue!Open /\ fate = "running"
      BY <1>3 DEF StartLoop, SearchPcs, Queue!Open
    <2> QED BY <2>1 DEF Queue!Next
  <1>4. ASSUME NEW w \in Packet, TimingForPacket(w)
        PROVE  [Queue!Next]_Queue!cqVars
    <2>1. w \in Queue!Packet
      BY DEF Packet, Directions, Queue!Packet, Queue!Directions
    <2>2. Queue!Ask(w) /\ fate = "running"
      BY <1>4 DEF TimingForPacket, SearchPcs, Queue!Ask
    <2> QED BY <2>1, <2>2 DEF Queue!Next
  <1> QED BY <1>1, <1>2, <1>3, <1>4

\* PcapWrapper implements the unbounded queue: every call of timingForPacket
\* that returns gives the capture time of the earliest matching packet no
\* earlier call has gone past, however the two threads interleave.
THEOREM Refinement == Spec => ImplementsQueue
  <1>1. Init => Queue!Init
    BY DEF Init, SearchPcs, Queue!Init
  <1>2. IInv /\ [Next]_vars => [Queue!Next]_Queue!cqVars
    <2>1. ASSUME UNCHANGED vars PROVE UNCHANGED Queue!cqVars
      BY <2>1 DEF vars, loopSide, mainSide, searchVars, SearchPcs,
                  Queue!cqVars
    <2> QED BY <2>1, LoopStepMaps, SearchStepMaps, CallMaps DEF Next
  <1> QED BY <1>1, <1>2, Invariant, PTL DEF Spec, ImplementsQueue, Queue!Spec

=============================================================================

------------------------- MODULE PcapSessionProofs -------------------------
(***************************************************************************)
(* Proofs about PcapSession, for any number of sessions, requests and      *)
(* incidents: the loop thread and the flag in the handle, and the order of *)
(* the captures.                                                           *)
(***************************************************************************)
EXTENDS PcapSession, SequenceTheorems, TLAPS

LEMMA NextCases ==
    ASSUME [Next]_vars, NEW G,
           Connect => G, ForwardInput => G, Send => G, AskSent => G,
           FindSent => G, ForwardOutput => G, FindReceived => G,
           WriteRecord => G, Close => G, HandlePacket => G, FailLoop => G,
           TakeFlag => G, SendUnit => G, Leave => G, AnswerRequest => G,
           Unasked => G, LateAnswer => G, Retransmit => G, UNCHANGED vars => G
    PROVE  G
BY DEF Next, Main

-----------------------------------------------------------------------------
(***************************************************************************)
(* The loop thread.                                                        *)
(***************************************************************************)

\* pcap_loop has failed in a session from which on all, before session n, were
\* closed without a loop.
FailedBefore(n) ==
    \E s \in failures : s <= n /\ s .. n - 1 \subseteq outages

\* A flag in the handle, like a session without its loop, has this cause.
LoopInv ==
    /\ session \in Nat /\ failures \subseteq Nat
    /\ pc = "closed" => /\ loop = "none"
                        /\ break_loop => FailedBefore(session + 1)
    /\ pc # "closed" =>
          /\ loop \in {"running", "ended"}
          /\ loop = "ended" \/ break_loop => FailedBefore(session)

LEMMA LoopInvInit == Init => LoopInv
BY DEF Init, LoopInv

LEMMA LoopInvStep == LoopInv /\ [Next]_vars => LoopInv'
<1> SUFFICES ASSUME LoopInv, [Next]_vars PROVE LoopInv'
  OBVIOUS
<1>0. session \in Nat /\ failures \subseteq Nat
  BY DEF LoopInv
<1>1. CASE Connect
  <2>1. /\ loop' = "running" /\ pc' = "input" /\ session' = session + 1
        /\ UNCHANGED <<break_loop, failures, outages>>
    BY <1>1 DEF Connect
  <2>2. break_loop => FailedBefore(session + 1)
    BY <1>1 DEF Connect, At, LoopInv
  <2>3. FailedBefore(session)' <=> FailedBefore(session + 1)
    BY <2>1 DEF FailedBefore
  <2>. QED  BY <1>0, <2>1, <2>2, <2>3 DEF LoopInv
<1>2. CASE Close
  <2>1. /\ pc = "close" /\ pc' = "closed" /\ loop' = "none"
        /\ break_loop' = FlagLeft
        /\ outages' = IF loop = "ended" THEN outages \cup {session}
                      ELSE outages
        /\ UNCHANGED <<session, failures>>
    BY <1>2 DEF Close, At, proxyVars
  <2>2. CASE loop = "running"
    BY <1>0, <2>1, <2>2 DEF LoopInv, FlagLeft
  <2>3. CASE loop = "ended"
    <3>1. PICK r \in failures :
             r <= session /\ r .. session - 1 \subseteq outages
      BY <2>1, <2>3 DEF LoopInv, FailedBefore
    <3>2. /\ r \in failures' /\ r <= session' + 1
          /\ r .. (session' + 1) - 1 \subseteq outages'
      BY <1>0, <2>1, <2>3, <3>1
    <3>3. FailedBefore(session + 1)'
      BY <3>2 DEF FailedBefore
    <3>. QED  BY <1>0, <2>1, <3>3 DEF LoopInv
  <2>. QED  BY <2>1, <2>2, <2>3 DEF LoopInv
<1>3. CASE FailLoop
  <2>1. /\ loop = "running" /\ loop' = "ended"
        /\ failures' = failures \cup {session}
        /\ UNCHANGED <<pc, session, outages>>
    BY <1>3 DEF FailLoop, proxyVars
  <2>2. session .. session - 1 = {} /\ session <= session
    BY <1>0
  <2>3. FailedBefore(session)'
    BY <2>1, <2>2 DEF FailedBefore
  <2>4. pc # "closed"
    BY <2>1 DEF LoopInv
  <2>. QED  BY <1>0, <2>1, <2>3, <2>4 DEF LoopInv
<1>4. CASE TakeFlag
  <2>1. /\ loop = "running" /\ break_loop /\ loop' = "ended"
        /\ UNCHANGED <<pc, session, failures, outages>>
    BY <1>4 DEF TakeFlag, proxyVars
  <2>2. pc # "closed"
    BY <2>1 DEF LoopInv
  <2>3. FailedBefore(session)
    BY <2>1, <2>2 DEF LoopInv
  <2>4. FailedBefore(session)'
    BY <2>1, <2>3 DEF FailedBefore
  <2>. QED  BY <1>0, <2>1, <2>2, <2>4 DEF LoopInv
<1> DEFINE Quiet == /\ UNCHANGED <<loop, break_loop, failures, outages,
                                   session>>
                    /\ \/ pc # "closed" /\ pc' # "closed"
                       \/ UNCHANGED pc
<1>5. Quiet => LoopInv'
  <2> SUFFICES ASSUME Quiet PROVE LoopInv'
    OBVIOUS
  <2>1. /\ FailedBefore(session)' <=> FailedBefore(session)
        /\ FailedBefore(session + 1)' <=> FailedBefore(session + 1)
    BY DEF FailedBefore
  <2>. QED  BY <2>1 DEF LoopInv
<1>6. ForwardInput => Quiet
  BY DEF ForwardInput, At, captureVars, loopVars
<1>7. Send => Quiet
  BY DEF Send, At, loopVars
<1>8. AskSent => Quiet
  BY DEF AskSent, At, captureVars, loopVars
<1>9. FindSent => Quiet
  BY DEF FindSent, At, captureVars, loopVars
<1>10. ForwardOutput => Quiet
  BY DEF ForwardOutput, At, captureVars, loopVars
<1>11. FindReceived => Quiet
  BY DEF FindReceived, At, captureVars, loopVars
<1>12. WriteRecord => Quiet
  BY DEF WriteRecord, At, captureVars, loopVars
<1>13. HandlePacket => Quiet
  BY DEF HandlePacket, proxyVars, loopVars
<1>14. SendUnit => Quiet
  BY DEF SendUnit, proxyVars, captureVars, loopVars
<1>15. Leave => Quiet
  BY DEF Leave, proxyVars, captureVars, loopVars
<1>16. AnswerRequest => Quiet
  BY DEF AnswerRequest, Serve, proxyVars, loopVars
<1>17. Unasked => Quiet
  BY DEF Unasked, Serve, proxyVars, loopVars
<1>18. LateAnswer => Quiet
  BY DEF LateAnswer, proxyVars, loopVars
<1>19. Retransmit => Quiet
  BY DEF Retransmit, proxyVars, loopVars
<1>20. UNCHANGED vars => Quiet
  BY DEF vars, proxyVars, captureVars, loopVars
<1>. HIDE DEF Quiet
<1>. QED
  BY <1>1, <1>2, <1>3, <1>4, <1>5, <1>6, <1>7, <1>8, <1>9, <1>10, <1>11,
     <1>12, <1>13, <1>14, <1>15, <1>16, <1>17, <1>18, <1>19, <1>20, NextCases

\* In every behaviour, with any number of sessions, a session is without its
\* loop only after a failure of pcap_loop and an unbroken row of sessions that
\* were closed without one.
THEOREM SessionLoopRuns == Spec => []LoopRuns
<1>1. LoopInv => LoopRuns
  BY DEF LoopInv, LoopRuns, FailedBefore, InSession
<1>. QED  BY <1>1, LoopInvInit, LoopInvStep, PTL DEF Spec

-----------------------------------------------------------------------------
(***************************************************************************)
(* The order of the captures.                                              *)
(***************************************************************************)

Ways     == {"DESTINATION_REMOTE", "SOURCE_REMOTE"}
Chunks   == [first : Int, size : Int]
Segments == [session : Int, way : Ways, first : Int, size : Nat, at : Nat]
Captures == [payload : UNION {[1 .. n -> Int] : n \in Nat}, direction : Ways]
Measured == [session : Int, chunk : Chunks, request : Int, tx : Segments,
             rx : Segments]

\* The type of what the proof follows.
SessionType ==
    /\ session \in Int /\ now \in Nat /\ forwarded \in Int /\ cursor \in Nat
    /\ client \in [sent : Int, ends : Seq(Int), gone : BOOLEAN]
    /\ server \in [answered : Int, sent : Int, read : Int]
    /\ chunk \in Chunks
    /\ calls \in Seq([first : Int, size : Nat \ {0}])
    /\ pc = "send" => calls # <<>>
    /\ owed \in Seq([session : Int, first : Int])
    /\ ring \in Seq(Segments) /\ origins \in Seq(Segments)
    /\ last # <<>> => last[1] \in Segments
    /\ tx_timestamp \in Segments /\ rx_timestamp \in Segments
    /\ captured \in Seq(Captures) /\ Len(captured) = Len(origins)
    /\ records \in Seq(Measured)

Rising(packets) ==
    \A i, j \in 1 .. Len(packets) : i < j => packets[i].at < packets[j].at

\* All of the packets were captured after time, and by now.
Since(packets, time) ==
    \A i \in 1 .. Len(packets) : time < packets[i].at

UpToNow(packets) == \A i \in 1 .. Len(packets) : packets[i].at <= now

\* The loop has the packets in the order of capture, and the transmit stamp
\* was taken before all that the next search may find.
SessionOrder ==
    /\ Rising(ring) /\ UpToNow(ring)
    /\ Rising(origins) /\ UpToNow(origins)
    /\ \A i \in 1 .. Len(origins) : Since(ring, origins[i].at)
    /\ tx_timestamp.at <= now /\ Since(ring, tx_timestamp.at)
    /\ \A i \in 1 .. Len(origins) :
          i > cursor => tx_timestamp.at < origins[i].at
    /\ pc = "record" => tx_timestamp.at < rx_timestamp.at
    /\ fate = "older" => tx_timestamp = NoSegment
    /\ \A k \in 1 .. Len(records) : records[k].tx.at < records[k].rx.at

SessionInv == SessionType /\ SessionOrder

LEMMA SegmentType ==
    ASSUME NEW s \in Int, NEW way \in Ways, NEW first \in Int,
           NEW size \in Nat, NEW at \in Nat
    PROVE  /\ Segment(s, way, first, size, at) \in Segments
           /\ Segment(s, way, first, size, at).at = at
BY DEF Segment, Segments

LEMMA ContentType ==
    ASSUME NEW first \in Int, NEW size \in Nat
    PROVE  Content(first, size) \in UNION {[1 .. n -> Int] : n \in Nat}
<1>1. Content(first, size) \in [1 .. size -> Int]
  BY DEF Content
<1>. QED  BY <1>1

\* Packets that are stamped with the next ticks of the clock.
Fresh(segments) ==
    /\ segments \in Seq(Segments)
    /\ Len(segments) >= 1
    /\ \A i \in 1 .. Len(segments) : segments[i].at = now + i

\* However a chunk is cut, its packets are fresh.
LEMMA CutsFresh ==
    ASSUME NEW s \in Int, NEW way \in Ways, NEW first \in Int,
           NEW size \in Nat \ {0}, now \in Nat,
           NEW segments \in Cuts(s, way, first, size)
    PROVE  Fresh(segments)
<1>1. CASE segments = [i \in 1 .. size |-> Segment(s, way, first + i - 1, 1,
                                                   now + i)]
  <2>1. \A i \in 1 .. size :
           /\ Segment(s, way, first + i - 1, 1, now + i) \in Segments
           /\ Segment(s, way, first + i - 1, 1, now + i).at = now + i
    BY SegmentType
  <2>2. segments \in [1 .. size -> Segments]
    BY <1>1, <2>1
  <2>3. segments \in Seq(Segments)
    BY <2>2, SeqDef
  <2>4. Len(segments) = size
    BY <1>1, <2>3, LenProperties
  <2>5. \A i \in 1 .. size : segments[i].at = now + i
    BY <1>1, <2>1
  <2>. QED  BY <2>3, <2>4, <2>5 DEF Fresh
<1>2. CASE segments = <<Segment(s, way, first, size, now + 1)>>
  <2> DEFINE p == Segment(s, way, first, size, now + 1)
  <2>1. p \in Segments /\ p.at = now + 1
    BY SegmentType
  <2>. HIDE DEF p
  <2>2. segments = <<p>>
    BY <1>2 DEF p
  <2>. QED  BY <2>1, <2>2 DEF Fresh
<1>. QED  BY <1>1, <1>2 DEF Cuts

\* Fresh packets on the ring keep it in order, behind all that is older.
LEMMA EmitOrder ==
    ASSUME NEW segments, Fresh(segments), Emit(segments),
           ring \in Seq(Segments), now \in Nat
    PROVE  /\ ring' \in Seq(Segments) /\ now' \in Nat /\ now <= now'
           /\ last' # <<>> => last'[1] \in Segments
           /\ Rising(ring) /\ UpToNow(ring) => Rising(ring)' /\ UpToNow(ring)'
           /\ \A t \in Nat : t <= now /\ Since(ring, t) => Since(ring', t)
<1>1. /\ ring' = ring \o segments
      /\ ring' \in Seq(Segments)
      /\ Len(ring') = Len(ring) + Len(segments)
      /\ Len(ring) \in Nat /\ Len(segments) \in Nat
      /\ \A i \in 1 .. Len(ring) : ring'[i] = ring[i]
      /\ \A i \in 1 .. Len(ring') :
            i > Len(ring) => ring'[i] = segments[i - Len(ring)]
  BY DEF Emit, Fresh
<1>2. now' = now + Len(segments) /\ now' \in Nat /\ now <= now'
  BY <1>1 DEF Emit
<1>3. last'[1] \in Segments
  <2>1. segments[Len(segments)] \in Segments
    BY <1>1 DEF Fresh
  <2>. QED  BY <2>1 DEF Emit
<1>4. \A i \in 1 .. Len(ring') :
         i > Len(ring) => /\ ring'[i].at = now + (i - Len(ring))
                          /\ i - Len(ring) <= Len(segments)
  BY <1>1 DEF Fresh
<1>5. \A i \in 1 .. Len(ring) : ring[i].at \in Nat
  <2>1. \A i \in 1 .. Len(ring) : ring[i] \in Segments
    BY ElementOfSeq
  <2>. QED  BY <2>1 DEF Segments
<1>6. ASSUME Rising(ring), UpToNow(ring)
      PROVE  Rising(ring)' /\ UpToNow(ring)'
  <2>1. \A i \in 1 .. Len(ring) : ring'[i].at <= now
    BY <1>1, <1>6 DEF UpToNow
  <2>2. UpToNow(ring)'
    <3>1. ASSUME NEW i \in 1 .. Len(ring') PROVE ring'[i].at <= now'
      <4>1. CASE i <= Len(ring)
        BY <1>1, <1>2, <1>5, <2>1, <4>1
      <4>2. CASE i > Len(ring)
        BY <1>1, <1>2, <1>4, <4>2
      <4>. QED  BY <1>1, <4>1, <4>2
    <3>. QED  BY <3>1 DEF UpToNow
  <2>3. ASSUME NEW i \in 1 .. Len(ring'), NEW j \in 1 .. Len(ring'), i < j
        PROVE  ring'[i].at < ring'[j].at
    <3>1. CASE j <= Len(ring)
      BY <1>1, <1>6, <2>3, <3>1 DEF Rising
    <3>2. CASE j > Len(ring) /\ i <= Len(ring)
      BY <1>1, <1>4, <1>5, <2>1, <2>3, <3>2
    <3>3. CASE j > Len(ring) /\ i > Len(ring)
      BY <1>1, <1>4, <2>3, <3>3
    <3>. QED  BY <1>1, <2>3, <3>1, <3>2, <3>3
  <2>. QED  BY <2>2, <2>3 DEF Rising
<1>7. ASSUME NEW t \in Nat, t <= now, Since(ring, t)
      PROVE  Since(ring', t)
  <2>1. ASSUME NEW i \in 1 .. Len(ring') PROVE t < ring'[i].at
    <3>1. CASE i <= Len(ring)
      <4>1. i \in 1 .. Len(ring) /\ ring'[i] = ring[i]
        BY <1>1, <3>1
      <4>. QED  BY <1>7, <4>1 DEF Since
    <3>2. CASE i > Len(ring)
      BY <1>1, <1>4, <1>7, <3>2
    <3>. QED  BY <1>1, <3>1, <3>2
  <2>. QED  BY <2>1 DEF Since
<1>. QED  BY <1>1, <1>2, <1>3, <1>6, <1>7

LEMMA SessionInvInit == Init => SessionInv
<1> SUFFICES ASSUME Init PROVE SessionInv
  OBVIOUS
<1>1. NoSegment \in Segments /\ NoSegment.at = 0
  BY SegmentType DEF NoSegment, Ways
<1>2. \A S : <<>> \in Seq(S) /\ Len(<<>>) = 0
  BY EmptySeq
<1>3. SessionType
  BY <1>1, <1>2 DEF Init, SessionType, Chunks, NewClient, NewServer, Q!Init
<1>4. SessionOrder
  BY <1>1, <1>2 DEF Init, SessionOrder, Rising, UpToNow, Since, Q!Init
<1>. QED  BY <1>3, <1>4 DEF SessionInv

\* The variables that SessionOrder is about, but for pc, fate and the ring.
takenVars == <<captured, cursor, origins, tx_timestamp, rx_timestamp, records>>

\* No step to the record, and no difference to an older stamp.
SameStage == /\ pc' = "record" => pc = "record"
             /\ fate' = "older" => fate = "older"

LEMMA OrderKept ==
    ASSUME SessionOrder, UNCHANGED <<takenVars, ring, now>>, SameStage
    PROVE  SessionOrder'
BY DEF SessionOrder, Rising, UpToNow, Since, takenVars, SameStage

LEMMA OrderOfEmission ==
    ASSUME SessionInv, UNCHANGED takenVars, SameStage,
           NEW segments, Fresh(segments), Emit(segments)
    PROVE  /\ SessionOrder'
           /\ ring' \in Seq(Segments) /\ now' \in Nat
           /\ last' # <<>> => last'[1] \in Segments
<1>1. /\ ring \in Seq(Segments) /\ origins \in Seq(Segments) /\ now \in Nat
      /\ tx_timestamp \in Segments
  BY DEF SessionInv, SessionType
<1>2. /\ ring' \in Seq(Segments) /\ now' \in Nat /\ now <= now'
      /\ last' # <<>> => last'[1] \in Segments
      /\ Rising(ring) /\ UpToNow(ring) => Rising(ring)' /\ UpToNow(ring)'
      /\ \A t \in Nat : t <= now /\ Since(ring, t) => Since(ring', t)
  BY <1>1, EmitOrder
<1>3. tx_timestamp.at \in Nat
  BY <1>1 DEF Segments
<1>4. \A i \in 1 .. Len(origins) : origins[i] \in Segments
  BY <1>1, ElementOfSeq
<1>5. \A i \in 1 .. Len(origins) : origins[i].at \in Nat
  BY <1>4 DEF Segments
<1>6. UNCHANGED <<captured, cursor, origins, tx_timestamp, rx_timestamp,
                  records>>
  BY DEF takenVars
<1>7. Rising(ring)' /\ UpToNow(ring)'
  BY <1>2 DEF SessionInv, SessionOrder
<1>8. Rising(origins)'
  BY <1>6 DEF SessionInv, SessionOrder, Rising
<1>9. UpToNow(origins)'
  BY <1>1, <1>2, <1>5, <1>6 DEF SessionInv, SessionOrder, UpToNow
<1>10. \A i \in 1 .. Len(origins) : Since(ring', origins[i].at)
  BY <1>2, <1>5 DEF SessionInv, SessionOrder, UpToNow
<1>11. tx_timestamp.at <= now' /\ Since(ring', tx_timestamp.at)
  BY <1>1, <1>2, <1>3 DEF SessionInv, SessionOrder
<1>12. Since(ring', tx_timestamp.at) = Since(ring, tx_timestamp.at)'
  BY <1>6 DEF Since
<1>13. \A i \in 1 .. Len(origins) :
          Since(ring', origins[i].at) = Since(ring, origins[i].at)'
  BY <1>6 DEF Since
<1>14. SessionOrder'
  BY <1>6, <1>7, <1>8, <1>9, <1>10, <1>11
     DEF SessionInv, SessionOrder, SameStage, Since
<1>. QED  BY <1>2, <1>14

-----------------------------------------------------------------------------
(***************************************************************************)
(* Each action preserves the invariant.                                    *)
(***************************************************************************)

LEMMA StepConnect == SessionInv /\ Connect => SessionInv'
<1> SUFFICES ASSUME SessionInv, Connect PROVE SessionInv'
  OBVIOUS
<1>1. \A S : <<>> \in Seq(S) /\ Len(<<>>) = 0
  BY EmptySeq
<1>2. SessionType'
  BY <1>1 DEF Connect, At, Q!Open, SessionInv, SessionType, NewClient,
              NewServer
<1>3. SessionOrder'
  BY <1>1 DEF Connect, At, Q!Open, SessionInv, SessionOrder, Rising, UpToNow,
              Since
<1>. QED  BY <1>2, <1>3 DEF SessionInv

\* What a read takes is an integer, and positive when it takes anything.
LEMMA TakenType == ASSUME NEW w \in Int PROVE Taken(w) \in Int
BY DEF Taken, BUFSIZE

LEMMA StepForwardInput == SessionInv /\ ForwardInput => SessionInv'
<1> SUFFICES ASSUME SessionInv, ForwardInput PROVE SessionInv'
  OBVIOUS
<1> DEFINE n == Taken(client.sent - forwarded)
<1>1. client.sent \in Int /\ forwarded \in Int
  BY DEF SessionInv, SessionType
<1>2. n \in Int
  BY <1>1, TakenType
<1>. HIDE DEF n
<1>3. calls' \in Seq([first : Int, size : Nat \ {0}])
      /\ (pc' = "send" => calls' # <<>>)
  <2>1. CASE n > 0
    <3>1. calls' = <<[first |-> forwarded + 1, size |-> n]>>
      BY <2>1 DEF ForwardInput, n
    <3>2. [first |-> forwarded + 1, size |-> n] \in
             [first : Int, size : Nat \ {0}]
      BY <1>1, <1>2, <2>1
    <3>. QED  BY <3>1, <3>2
  <2>2. CASE ~(n > 0)
    BY <2>2 DEF ForwardInput, n, At, SessionInv, SessionType
  <2>. QED  BY <2>1, <2>2
<1>4. forwarded' \in Int
  BY <1>1, <1>2 DEF ForwardInput, n
<1>5. SessionType'
  BY <1>3, <1>4 DEF ForwardInput, SessionInv, SessionType, queueVars,
                    captureVars
<1>6. SameStage
  BY DEF ForwardInput, At, SameStage
<1>7. SessionOrder'
  BY <1>6, OrderKept
     DEF ForwardInput, SessionInv, queueVars, captureVars, takenVars
<1>. QED  BY <1>5, <1>7 DEF SessionInv

LEMMA StepSend == SessionInv /\ Send => SessionInv'
<1> SUFFICES ASSUME SessionInv, Send PROVE SessionInv'
  OBVIOUS
<1> DEFINE Calls == [first : Int, size : Nat \ {0}]
<1>1. /\ calls \in Seq(Calls) /\ calls # <<>> /\ session \in Int
      /\ now \in Nat
  BY DEF Send, At, SessionInv, SessionType
<1>2. Head(calls) \in Calls
  BY <1>1, HeadTailProperties
<1>3. "DESTINATION_REMOTE" \in Ways
  BY DEF Ways
<1>4. /\ Head(calls).first \in Int /\ Head(calls).first + 1 \in Int
      /\ Head(calls).size \in Nat \ {0}
  BY <1>2
<1>5. PICK segments :
         Fresh(segments) /\ Emit(segments)
  <2>1. CASE \E segments \in Cuts(session, "DESTINATION_REMOTE",
                                 Head(calls).first, Head(calls).size) :
                Emit(segments)
    BY <1>1, <1>3, <1>4, <2>1, CutsFresh
  <2>2. CASE Emit(<<Segment(session, "DESTINATION_REMOTE",
                            Head(calls).first, 1, now + 1)>>)
    <3>1. <<Segment(session, "DESTINATION_REMOTE", Head(calls).first, 1,
                    now + 1)>> \in
             Cuts(session, "DESTINATION_REMOTE", Head(calls).first, 1)
      BY DEF Cuts
    <3>2. 1 \in Nat \ {0}
      OBVIOUS
    <3>. QED  BY <1>1, <1>3, <1>4, <2>2, <3>1, <3>2, CutsFresh
  <2>. QED  BY <2>1, <2>2 DEF Send
<1>6. calls' \in Seq(Calls) /\ calls' # <<>>
  <2>1. CASE UNCHANGED calls
    BY <1>1, <2>1
  <2>2. CASE /\ Head(calls).size > 1
             /\ calls' = <<[first |-> Head(calls).first + 1,
                            size  |-> Head(calls).size - 1]>> \o calls
    <3> DEFINE rest == [first |-> Head(calls).first + 1,
                        size  |-> Head(calls).size - 1]
    <3>1. rest \in Calls
      BY <1>4, <2>2
    <3>. HIDE DEF rest
    <3>2. <<rest>> \in Seq(Calls) /\ Len(<<rest>>) = 1
      BY <3>1
    <3>3. calls' = <<rest>> \o calls
      BY <2>2 DEF rest
    <3>. HIDE DEF Calls
    <3>4. calls' \in Seq(Calls) /\ Len(calls') = 1 + Len(calls)
      BY <1>1, <3>2, <3>3, ConcatProperties
    <3>. QED  BY <1>1, <3>4, EmptySeq, LenProperties
  <2>. QED  BY <2>1, <2>2 DEF Send
<1>7. UNCHANGED takenVars
  BY DEF Send, queueVars, takenVars
<1>8. SameStage
  BY DEF Send, At, SameStage
<1>9. /\ SessionOrder' /\ ring' \in Seq(Segments) /\ now' \in Nat
      /\ last' # <<>> => last'[1] \in Segments
  BY <1>5, <1>7, <1>8, OrderOfEmission
<1>10. SessionType'
  BY <1>6, <1>9 DEF Send, SessionInv, SessionType, queueVars, peerVars
<1>. QED  BY <1>9, <1>10 DEF SessionInv

LEMMA StepAskSent == SessionInv /\ AskSent => SessionInv'
<1> SUFFICES ASSUME SessionInv, AskSent PROVE SessionInv'
  OBVIOUS
<1>1. SessionType'
  BY DEF AskSent, Q!Ask, SessionInv, SessionType, captureVars, peerVars
<1>2. SameStage
  BY DEF AskSent, Q!Ask, SameStage
<1>3. SessionOrder'
  BY <1>2, OrderKept
     DEF AskSent, Q!Ask, SessionInv, captureVars, takenVars
<1>. QED  BY <1>1, <1>3 DEF SessionInv

\* A search ends at a capture of the session, after those that are spent.
LEMMA AnswerFound ==
    ASSUME SessionInv, Q!Answer
    PROVE  /\ result' \in 1 .. Len(origins) /\ result' > cursor
           /\ cursor' = result'
           /\ origins[result'] \in Segments
           /\ tx_timestamp.at < origins[result'].at
           /\ origins[result'].at <= now
           /\ Since(ring, origins[result'].at)
           /\ \A i \in 1 .. Len(origins) :
                 i > result' => origins[result'].at < origins[i].at
           /\ UNCHANGED <<captured, fate>>
<1>1. /\ origins \in Seq(Segments) /\ cursor \in Nat
      /\ Len(captured) = Len(origins)
  BY DEF SessionInv, SessionType
<1>2. Len(origins) \in Nat
  BY <1>1, LenProperties
<1>3. /\ result' \in cursor + 1 .. Len(captured)
      /\ cursor' = result' /\ UNCHANGED <<captured, fate>>
  BY DEF Q!Answer, Q!Hits
<1>4. result' \in 1 .. Len(origins) /\ result' > cursor
  BY <1>1, <1>2, <1>3
<1>5. origins[result'] \in Segments
  BY <1>1, <1>4, ElementOfSeq
<1>. QED
  BY <1>3, <1>4, <1>5 DEF SessionInv, SessionOrder, Rising, UpToNow

LEMMA StepFindSent == SessionInv /\ FindSent => SessionInv'
<1> SUFFICES ASSUME SessionInv, FindSent PROVE SessionInv'
  OBVIOUS
<1>1. /\ Q!Answer
      /\ tx_timestamp' = origins[result']
      /\ UNCHANGED <<origins, ring, now, records, rx_timestamp>>
      /\ pc' # "record" /\ pc' # "send" /\ fate' # "older"
  BY DEF FindSent, At, Q!Answer, captureVars
<1>2. /\ result' \in 1 .. Len(origins)
      /\ cursor' = result'
      /\ origins[result'] \in Segments
      /\ origins[result'].at <= now
      /\ Since(ring, origins[result'].at)
      /\ \A i \in 1 .. Len(origins) :
            i > result' => origins[result'].at < origins[i].at
      /\ UNCHANGED captured
  BY <1>1, AnswerFound
<1> DEFINE Calls == [first : Int, size : Nat \ {0}]
<1>3. Tail(calls) \in Seq(Calls) \/ calls = <<>>
  <2>1. calls \in Seq(Calls)
    BY DEF SessionInv, SessionType
  <2>. HIDE DEF Calls
  <2>. QED  BY <2>1, HeadTailProperties
<1>4. calls' \in Seq(Calls)
  <2>1. CASE calls # <<>>
    BY <1>3, <2>1 DEF FindSent
  <2>2. CASE calls = <<>>
    <3>1. Tail(<<>>) = <<>>
      OBVIOUS
    <3>. QED  BY <2>2, <3>1, EmptySeq DEF FindSent
  <2>. QED  BY <2>1, <2>2
<1>5. SessionType'
  BY <1>1, <1>2, <1>4
     DEF FindSent, SessionInv, SessionType, captureVars, peerVars
<1>6. SessionOrder'
  BY <1>1, <1>2
     DEF SessionInv, SessionOrder, Rising, UpToNow, Since
<1>. QED  BY <1>5, <1>6 DEF SessionInv

LEMMA StepForwardOutput == SessionInv /\ ForwardOutput => SessionInv'
<1> SUFFICES ASSUME SessionInv, ForwardOutput PROVE SessionInv'
  OBVIOUS
<1> DEFINE n == Taken(server.sent - server.read)
<1>1. /\ server \in [answered : Int, sent : Int, read : Int]
      /\ chunk \in Chunks
  BY DEF SessionInv, SessionType
<1>2. n \in Int
  BY <1>1, TakenType
<1>. HIDE DEF n
<1>3. /\ chunk' \in Chunks
      /\ server' \in [answered : Int, sent : Int, read : Int]
  <2>1. CASE n > 0
    <3>1. /\ chunk' = [first |-> server.read + 1, size |-> n]
          /\ server' = [server EXCEPT !.read = @ + n]
      BY <2>1 DEF ForwardOutput, n
    <3>. QED  BY <1>1, <1>2, <3>1 DEF Chunks
  <2>2. CASE ~(n > 0)
    BY <1>1, <2>2 DEF ForwardOutput, n
  <2>. QED  BY <2>1, <2>2
<1>4. UNCHANGED <<captured, cursor, fate>> /\ pc' \in {"search_received",
                                                      "input"}
  BY DEF ForwardOutput, Q!Ask, queueVars
<1>5. SessionType'
  BY <1>3, <1>4 DEF ForwardOutput, SessionInv, SessionType, captureVars
<1>6. SameStage
  BY <1>4 DEF SameStage
<1>7. SessionOrder'
  BY <1>4, <1>6, OrderKept
     DEF ForwardOutput, SessionInv, captureVars, takenVars
<1>. QED  BY <1>5, <1>7 DEF SessionInv

LEMMA StepFindReceived == SessionInv /\ FindReceived => SessionInv'
<1> SUFFICES ASSUME SessionInv, FindReceived PROVE SessionInv'
  OBVIOUS
<1>1. /\ Q!Answer
      /\ rx_timestamp' = origins[result']
      /\ UNCHANGED <<origins, ring, now, records, tx_timestamp>>
      /\ pc' # "send" /\ fate' # "older"
  BY DEF FindReceived, At, Q!Answer, captureVars
<1>2. /\ result' \in 1 .. Len(origins) /\ result' > cursor
      /\ cursor' = result'
      /\ origins[result'] \in Segments
      /\ tx_timestamp.at < origins[result'].at
      /\ UNCHANGED captured
  BY <1>1, AnswerFound
<1>3. SessionType'
  BY <1>1, <1>2 DEF FindReceived, SessionInv, SessionType, captureVars,
                    peerVars
<1>4. cursor \in Nat
  BY DEF SessionInv, SessionType
<1>5. \A i \in 1 .. Len(origins) :
         i > cursor' => tx_timestamp.at < origins[i].at
  BY <1>2, <1>4 DEF SessionInv, SessionOrder
<1>6. SessionOrder'
  BY <1>1, <1>2, <1>5
     DEF SessionInv, SessionOrder, Rising, UpToNow, Since
<1>. QED  BY <1>3, <1>6 DEF SessionInv

LEMMA StepWriteRecord == SessionInv /\ WriteRecord => SessionInv'
<1> SUFFICES ASSUME SessionInv, WriteRecord PROVE SessionInv'
  OBVIOUS
<1> DEFINE record == [session |-> session, chunk |-> chunk,
                      request |-> forwarded,
                      tx |-> tx_timestamp, rx |-> rx_timestamp]
<1>1. /\ tx_timestamp \in Segments /\ rx_timestamp \in Segments
      /\ records \in Seq(Measured) /\ record \in Measured
  BY DEF SessionInv, SessionType, Measured
<1>2. record.tx.at < record.rx.at
  BY DEF WriteRecord, At, SessionInv, SessionOrder
<1>3. tx_timestamp.at \in Nat /\ rx_timestamp.at \in Nat
  BY <1>1 DEF Segments
<1>4. ASSUME NEW older \in AnswerOlder, older
      PROVE  tx_timestamp = NoSegment
  <2>1. ~ (rx_timestamp.at < tx_timestamp.at)
    BY <1>2, <1>3
  <2>2. CASE tx_timestamp # NoSegment
    <3>1. older \in {rx_timestamp.at < tx_timestamp.at}
      BY <2>2 DEF AnswerOlder
    <3>. HIDE DEF record
    <3>. QED  BY <1>4, <2>1, <3>1, Zenon
  <2>. QED  BY <2>2
<1>5. fate' = "older" => tx_timestamp = NoSegment
  BY <1>4 DEF WriteRecord, At
<1>6. records' = records \/ records' = Append(records, record)
  BY DEF WriteRecord
<1>. HIDE DEF record
<1>7. /\ records' \in Seq(Measured)
      /\ \A k \in 1 .. Len(records') : records'[k].tx.at < records'[k].rx.at
  <2>1. CASE records' = records
    BY <1>1, <2>1 DEF SessionInv, SessionOrder
  <2>2. CASE records' = Append(records, record)
    <3>1. /\ records' \in Seq(Measured)
          /\ Len(records') = Len(records) + 1
          /\ \A k \in 1 .. Len(records) : records'[k] = records[k]
          /\ records'[Len(records) + 1] = record
      BY <1>1, <2>2, AppendProperties
    <3>2. Len(records) \in Nat
      BY <1>1, LenProperties
    <3>. QED  BY <1>2, <3>1, <3>2 DEF SessionInv, SessionOrder
  <2>. QED  BY <1>6, <2>1, <2>2
<1>8. SessionType'
  BY <1>7 DEF WriteRecord, SessionInv, SessionType, queueVars, captureVars,
              peerVars
<1>9. SessionOrder'
  BY <1>5, <1>7 DEF WriteRecord, SessionInv, SessionOrder, queueVars,
                    captureVars, Rising, UpToNow, Since
<1>. QED  BY <1>8, <1>9 DEF SessionInv

\* What remains of the ring without its first k packets.
LEMMA RingSuffix ==
    ASSUME ring \in Seq(Segments), NEW k \in 0 .. Len(ring),
           NEW rest, rest = SubSeq(ring, k + 1, Len(ring))
    PROVE  /\ rest \in Seq(Segments) /\ Len(rest) = Len(ring) - k
           /\ \A i \in 1 .. Len(rest) : rest[i] = ring[k + i]
           /\ Rising(ring) => Rising(rest)
           /\ UpToNow(ring) => UpToNow(rest)
           /\ \A t : Since(ring, t) => Since(rest, t)
<1>1. Len(ring) \in Nat /\ k \in Nat
  BY LenProperties
<1>2. /\ rest \in Seq(Segments) /\ Len(rest) = Len(ring) - k
      /\ \A i \in 1 .. Len(rest) : rest[i] = ring[k + i]
  BY <1>1
<1>3. \A i \in 1 .. Len(rest) : k + i \in 1 .. Len(ring)
  BY <1>1, <1>2
<1>4. ASSUME Rising(ring) PROVE Rising(rest)
  <2>1. ASSUME NEW i \in 1 .. Len(rest), NEW j \in 1 .. Len(rest), i < j
        PROVE  rest[i].at < rest[j].at
    <3>1. k + i < k + j
      BY <1>1, <2>1
    <3>2. ring[k + i].at < ring[k + j].at
      BY <1>3, <1>4, <3>1 DEF Rising
    <3>. QED  BY <1>2, <3>2
  <2>. QED  BY <2>1 DEF Rising
<1>5. ASSUME UpToNow(ring) PROVE UpToNow(rest)
  BY <1>2, <1>3, <1>5 DEF UpToNow
<1>6. ASSUME NEW t, Since(ring, t) PROVE Since(rest, t)
  BY <1>2, <1>3, <1>6 DEF Since
<1>. QED  BY <1>2, <1>4, <1>5, <1>6

LEMMA StepClose == SessionInv /\ Close => SessionInv'
<1> SUFFICES ASSUME SessionInv, Close PROVE SessionInv'
  OBVIOUS
<1>1. PICK k \in 0 .. Len(ring) : ring' = SubSeq(ring, k + 1, Len(ring))
  BY DEF Close
<1>2. ring \in Seq(Segments)
  BY DEF SessionInv, SessionType
<1>3. /\ ring' \in Seq(Segments)
      /\ Rising(ring) => Rising(ring')
      /\ UpToNow(ring) => UpToNow(ring')
      /\ \A t : Since(ring, t) => Since(ring', t)
  BY <1>1, <1>2, RingSuffix
<1>4. /\ UNCHANGED <<queueVars, fate, calls, chunk, tx_timestamp,
                     rx_timestamp, records, origins, last, now, session,
                     client, forwarded, server>>
      /\ pc' = "closed"
  BY DEF Close
<1>5. owed' \in Seq([session : Int, first : Int])
  <2> DEFINE O == [session : Int, first : Int]
             debt == [session |-> session, first |-> server.sent + 1]
  <2>1. owed \in Seq(O) /\ debt \in O
    BY DEF SessionInv, SessionType
  <2>2. owed' = Append(owed, debt) \/ owed' = owed
    BY DEF Close
  <2>. HIDE DEF O, debt
  <2>3. owed' \in Seq(O)
    BY <2>1, <2>2, AppendProperties
  <2>. QED  BY <2>3 DEF O
<1>6. SessionType'
  BY <1>3, <1>4, <1>5 DEF SessionInv, SessionType, queueVars
<1>7. SessionOrder'
  BY <1>3, <1>4 DEF SessionInv, SessionOrder, queueVars, Rising, UpToNow,
                    Since
<1>. QED  BY <1>6, <1>7 DEF SessionInv

\* The loop thread moves the head of the ring to the captures.
LEMMA StepHandlePacket == SessionInv /\ HandlePacket => SessionInv'
<1> SUFFICES ASSUME SessionInv, HandlePacket PROVE SessionInv'
  OBVIOUS
<1> DEFINE p == Head(ring)
<1>1. /\ ring \in Seq(Segments) /\ ring # <<>> /\ origins \in Seq(Segments)
      /\ captured \in Seq(Captures) /\ Len(captured) = Len(origins)
      /\ tx_timestamp \in Segments /\ cursor \in Nat
  BY DEF HandlePacket, SessionInv, SessionType
<1>2. /\ Len(ring) \in Nat \ {0} /\ p = ring[1] /\ p \in Segments
      /\ Len(origins) \in Nat
  BY <1>1, EmptySeq, HeadTailProperties, LenProperties
<1>3. /\ ring' \in Seq(Segments) /\ Len(ring') = Len(ring) - 1
      /\ \A i \in 1 .. Len(ring') : ring'[i] = ring[1 + i]
      /\ Rising(ring) => Rising(ring')
      /\ UpToNow(ring) => UpToNow(ring')
      /\ \A t : Since(ring, t) => Since(ring', t)
  <2>1. ring' = SubSeq(ring, 1 + 1, Len(ring))
    BY <1>1, <1>2, TailIsSubSeq DEF HandlePacket
  <2>2. 1 \in 0 .. Len(ring)
    BY <1>2
  <2>. QED  BY <1>1, <2>1, <2>2, RingSuffix
<1>4. /\ UNCHANGED <<cursor, proxyVars, last, now, peerVars>>
      /\ fate' \in {"running", "rejected"}
  BY DEF HandlePacket, Q!Capture, Q!Reject
<1>5. Rising(ring') /\ UpToNow(ring') /\ Since(ring', p.at)
  <2>1. Rising(ring')  /\ UpToNow(ring')
    BY <1>3 DEF SessionInv, SessionOrder
  <2>2. ASSUME NEW i \in 1 .. Len(ring')
        PROVE  p.at < ring'[i].at
    <3>1. 1 + i \in 1 .. Len(ring) /\ 1 \in 1 .. Len(ring) /\ 1 < 1 + i
      BY <1>2, <1>3
    <3>2. ring[1].at < ring[1 + i].at
      BY <3>1 DEF SessionInv, SessionOrder, Rising
    <3>. QED  BY <1>2, <1>3, <3>2
  <2>. QED  BY <2>1, <2>2 DEF Since
<1>6. p.at <= now /\ tx_timestamp.at < p.at
      /\ \A i \in 1 .. Len(origins) : origins[i].at < p.at
  BY <1>2 DEF SessionInv, SessionOrder, UpToNow, Since
<1>7. /\ Since(ring', tx_timestamp.at)
      /\ \A i \in 1 .. Len(origins) : Since(ring', origins[i].at)
  BY <1>3 DEF SessionInv, SessionOrder
<1>. HIDE DEF p
<1>8. CASE UNCHANGED <<origins, captured>>
  <2>1. SessionType'
    BY <1>3, <1>4, <1>8
       DEF SessionInv, SessionType, proxyVars, peerVars
  <2>2. SessionOrder'
    BY <1>4, <1>5, <1>7, <1>8
       DEF SessionInv, SessionOrder, proxyVars, Rising, UpToNow, Since
  <2>. QED  BY <2>1, <2>2 DEF SessionInv
<1>9. CASE /\ origins' = Append(origins, p)
           /\ \E d \in Ways : captured' = Append(captured,
                 [payload |-> Content(p.first, p.size), direction |-> d])
  <2>1. /\ origins' \in Seq(Segments) /\ Len(origins') = Len(origins) + 1
        /\ \A i \in 1 .. Len(origins) : origins'[i] = origins[i]
        /\ origins'[Len(origins) + 1] = p
    BY <1>1, <1>2, <1>9, AppendProperties
  <2>2. PICK d \in Ways : captured' = Append(captured,
                 [payload |-> Content(p.first, p.size), direction |-> d])
    BY <1>9
  <2>3. [payload |-> Content(p.first, p.size), direction |-> d] \in Captures
    BY <1>2, ContentType DEF Segments, Captures
  <2>4. captured' \in Seq(Captures) /\ Len(captured') = Len(captured) + 1
    BY <1>1, <2>2, <2>3, AppendProperties
  <2>5. SessionType'
    BY <1>1, <1>3, <1>4, <2>1, <2>4
       DEF SessionInv, SessionType, proxyVars, peerVars
  <2>6. Rising(origins')
    <3>1. ASSUME NEW i \in 1 .. Len(origins'), NEW j \in 1 .. Len(origins'),
                 i < j
          PROVE  origins'[i].at < origins'[j].at
      <4>1. i \in 1 .. Len(origins)
        BY <1>2, <2>1, <3>1
      <4>2. CASE j = Len(origins) + 1
        BY <1>6, <2>1, <4>1, <4>2
      <4>3. CASE j \in 1 .. Len(origins)
        BY <2>1, <3>1, <4>1, <4>3 DEF SessionInv, SessionOrder, Rising
      <4>. QED  BY <1>2, <2>1, <4>2, <4>3
    <3>. QED  BY <3>1 DEF Rising
  <2>7. \A i \in 1 .. Len(origins') :
           /\ origins'[i].at <= now /\ Since(ring', origins'[i].at)
           /\ i > cursor => tx_timestamp.at < origins'[i].at
    <3>1. ASSUME NEW i \in 1 .. Len(origins')
          PROVE  /\ origins'[i].at <= now /\ Since(ring', origins'[i].at)
                 /\ i > cursor => tx_timestamp.at < origins'[i].at
      <4>1. CASE i = Len(origins) + 1
        BY <1>5, <1>6, <2>1, <4>1
      <4>2. CASE i \in 1 .. Len(origins)
        BY <1>7, <2>1, <4>2 DEF SessionInv, SessionOrder, UpToNow
      <4>. QED  BY <1>2, <2>1, <4>1, <4>2
    <3>. QED  BY <3>1
  <2>8. SessionOrder'
    BY <1>4, <1>5, <1>7, <2>6, <2>7
       DEF SessionInv, SessionOrder, proxyVars, Rising, UpToNow, Since
  <2>. QED  BY <2>5, <2>8 DEF SessionInv
<1>10. \/ UNCHANGED <<origins, captured>>
       \/ /\ origins' = Append(origins, p)
          /\ \E d \in Ways : captured' = Append(captured,
                [payload |-> Content(p.first, p.size), direction |-> d])
  <2>1. p.way \in Ways /\ "SOURCE_REMOTE" \in Ways
    BY <1>2 DEF Segments, Ways
  <2>. QED  BY <2>1 DEF HandlePacket, Q!Capture, Q!Reject, p
<1>. QED  BY <1>8, <1>9, <1>10

LEMMA StepLoopEnds == SessionInv /\ (FailLoop \/ TakeFlag) => SessionInv'
<1> SUFFICES ASSUME SessionInv, FailLoop \/ TakeFlag PROVE SessionInv'
  OBVIOUS
<1>1. UNCHANGED <<queueVars, fate, proxyVars, peerVars, ring, origins, last,
                  now>>
  BY DEF FailLoop, TakeFlag
<1>2. SessionType'
  BY <1>1 DEF SessionInv, SessionType, queueVars, proxyVars, peerVars
<1>3. SameStage
  BY <1>1 DEF proxyVars, SameStage
<1>4. SessionOrder'
  BY <1>1, <1>3, OrderKept DEF SessionInv, queueVars, proxyVars, takenVars
<1>. QED  BY <1>2, <1>4 DEF SessionInv

LEMMA StepClient == SessionInv /\ (SendUnit \/ Leave) => SessionInv'
<1> SUFFICES ASSUME SessionInv, SendUnit \/ Leave PROVE SessionInv'
  OBVIOUS
<1>1. client \in [sent : Int, ends : Seq(Int), gone : BOOLEAN]
  BY DEF SessionInv, SessionType
<1>2. ASSUME NEW end \in Int
      PROVE  Beginning(end) \in [sent : Int, ends : Seq(Int), gone : BOOLEAN]
  <2> DEFINE E == Seq(Int)
  <2>1. /\ client \in [sent : Int, ends : E, gone : BOOLEAN]
        /\ Append(client.ends, end) \in E /\ client.sent + 1 \in Int
    BY <1>1, AppendProperties
  <2>. HIDE DEF E
  <2>2. [client EXCEPT !.sent = client.sent + 1,
                       !.ends = Append(client.ends, end)]
          \in [sent : Int, ends : E, gone : BOOLEAN]
    BY <2>1
  <2>3. Beginning(end) \in [sent : Int, ends : E, gone : BOOLEAN]
    BY <2>2 DEF Beginning
  <2>. QED  BY <2>3 DEF E
<1>3. client.sent + 1 \in Int /\ client.sent + 2 \in Int
  BY <1>1
<1>4. client' \in [sent : Int, ends : Seq(Int), gone : BOOLEAN]
  <2>1. CASE client' = [client EXCEPT !.sent = @ + 1]
    BY <1>1, <2>1
  <2>2. CASE \/ client' = Beginning(client.sent + 1)
             \/ client' = Beginning(client.sent + 2)
    BY <1>2, <1>3, <2>2
  <2>3. CASE client' = [client EXCEPT !.gone = TRUE]
    BY <1>1, <2>3
  <2>. QED  BY <2>1, <2>2, <2>3 DEF SendUnit, Leave
<1>5. UNCHANGED <<queueVars, fate, worldVars, proxyVars, captureVars,
                  forwarded, server, owed>>
  BY DEF SendUnit, Leave
<1>6. SessionType'
  BY <1>4, <1>5
     DEF SessionInv, SessionType, queueVars, proxyVars, captureVars
<1>7. SameStage
  BY <1>5 DEF proxyVars, SameStage
<1>8. SessionOrder'
  BY <1>5, <1>7, OrderKept
     DEF SessionInv, queueVars, proxyVars, captureVars, takenVars
<1>. QED  BY <1>6, <1>8 DEF SessionInv

\* Packets of the server or of the network reach nothing but the ring.
LEMMA StepWire ==
    ASSUME SessionInv,
           NEW s \in Int, NEW way \in Ways, NEW first \in Int,
           NEW size \in Nat \ {0}, NEW segments \in Cuts(s, way, first, size),
           Emit(segments),
           UNCHANGED <<queueVars, fate, proxyVars, origins, client, forwarded>>,
           server' \in [answered : Int, sent : Int, read : Int],
           owed' \in Seq([session : Int, first : Int])
    PROVE  SessionInv'
<1>1. now \in Nat
  BY DEF SessionInv, SessionType
<1>2. Fresh(segments)
  BY <1>1, CutsFresh
<1>3. UNCHANGED takenVars /\ SameStage
  BY DEF queueVars, proxyVars, takenVars, SameStage
<1>4. /\ SessionOrder' /\ ring' \in Seq(Segments) /\ now' \in Nat
      /\ last' # <<>> => last'[1] \in Segments
  BY <1>2, <1>3, OrderOfEmission
<1>5. SessionType'
  BY <1>4 DEF SessionInv, SessionType, queueVars, proxyVars
<1>. QED  BY <1>4, <1>5 DEF SessionInv

LEMMA StepServer == SessionInv /\ (AnswerRequest \/ Unasked) => SessionInv'
<1> SUFFICES ASSUME SessionInv, AnswerRequest \/ Unasked PROVE SessionInv'
  OBVIOUS
<1>1. /\ server \in [answered : Int, sent : Int, read : Int]
      /\ owed \in Seq([session : Int, first : Int]) /\ session \in Int
  BY DEF SessionInv, SessionType
<1>2. PICK size \in 1 .. 2 :
         /\ Serve(size)
         /\ \/ server' = [server EXCEPT !.answered = @ + 1, !.sent = @ + size]
            \/ server' = [server EXCEPT !.sent = @ + 1]
  BY DEF AnswerRequest, Unasked
<1>3. /\ size \in Nat \ {0} /\ server.sent + 1 \in Int
      /\ "SOURCE_REMOTE" \in Ways
  BY <1>1 DEF Ways
<1>4. server' \in [answered : Int, sent : Int, read : Int]
  <2>1. /\ size \in Int /\ server.sent + 1 \in Int
        /\ server.answered + 1 \in Int /\ server.sent + size \in Int
    BY <1>1
  <2>2. CASE server' = [server EXCEPT !.answered = @ + 1, !.sent = @ + size]
    BY <1>1, <2>1, <2>2
  <2>3. CASE server' = [server EXCEPT !.sent = @ + 1]
    BY <1>1, <2>1, <2>3
  <2>. QED  BY <1>2, <2>2, <2>3
<1>5. PICK segments \in Cuts(session, "SOURCE_REMOTE", server.sent + 1, size) :
         Emit(segments)
  BY <1>2 DEF Serve
<1>6. /\ UNCHANGED <<queueVars, fate, proxyVars, origins, client, forwarded>>
      /\ owed' \in Seq([session : Int, first : Int])
  BY <1>1, <1>2 DEF Serve
<1>. QED  BY <1>1, <1>3, <1>4, <1>5, <1>6, StepWire

\* One packet is one way to cut its units.
LEMMA OneCut ==
    ASSUME NEW s, NEW way, NEW first, NEW size
    PROVE  <<Segment(s, way, first, size, now + 1)>> \in
              Cuts(s, way, first, size)
BY DEF Cuts

LEMMA StepLateAnswer == SessionInv /\ LateAnswer => SessionInv'
<1> SUFFICES ASSUME SessionInv, LateAnswer PROVE SessionInv'
  OBVIOUS
<1> DEFINE O == [session : Int, first : Int]
<1>1. /\ server \in [answered : Int, sent : Int, read : Int]
      /\ owed \in Seq(O) /\ owed # <<>>
  BY DEF LateAnswer, SessionInv, SessionType
<1>2. Head(owed) \in O /\ Tail(owed) \in Seq(O)
  <2>. HIDE DEF O
  <2>. QED  BY <1>1, HeadTailProperties
<1>3. /\ Head(owed).session \in Int /\ Head(owed).first \in Int
      /\ 1 \in Nat \ {0} /\ "SOURCE_REMOTE" \in Ways
  BY <1>2 DEF Ways
<1>4. /\ UNCHANGED <<queueVars, fate, proxyVars, origins, client, forwarded>>
      /\ server' \in [answered : Int, sent : Int, read : Int]
      /\ owed' \in Seq(O)
  BY <1>1, <1>2 DEF LateAnswer
<1> DEFINE one == <<Segment(Head(owed).session, "SOURCE_REMOTE",
                           Head(owed).first, 1, now + 1)>>
<1>5. Emit(one)
  BY DEF LateAnswer
<1>6. one \in Cuts(Head(owed).session, "SOURCE_REMOTE", Head(owed).first, 1)
  BY OneCut
<1>. HIDE DEF one
<1>. QED  BY <1>3, <1>4, <1>5, <1>6, StepWire

LEMMA StepRetransmit == SessionInv /\ Retransmit => SessionInv'
<1> SUFFICES ASSUME SessionInv, Retransmit PROVE SessionInv'
  OBVIOUS
<1> DEFINE again == [last[1] EXCEPT !.at = now + 1]
<1>1. last[1] \in Segments /\ now \in Nat
  BY DEF Retransmit, SessionInv, SessionType
<1>2. again \in Segments /\ again.at = now + 1
  BY <1>1 DEF Segments
<1>3. Emit(<<again>>)
  BY DEF Retransmit
<1>. HIDE DEF again
<1>4. Fresh(<<again>>)
  BY <1>2 DEF Fresh
<1>5. /\ UNCHANGED takenVars /\ SameStage
      /\ UNCHANGED <<queueVars, fate, proxyVars, origins, peerVars>>
  BY DEF Retransmit, queueVars, proxyVars, takenVars, SameStage
<1>6. /\ SessionOrder' /\ ring' \in Seq(Segments) /\ now' \in Nat
      /\ last' # <<>> => last'[1] \in Segments
  BY <1>3, <1>4, <1>5, OrderOfEmission
<1>7. SessionType'
  BY <1>5, <1>6 DEF SessionInv, SessionType, queueVars, proxyVars, peerVars
<1>. QED  BY <1>6, <1>7 DEF SessionInv

LEMMA StepStutter == SessionInv /\ UNCHANGED vars => SessionInv'
<1> SUFFICES ASSUME SessionInv, UNCHANGED vars PROVE SessionInv'
  OBVIOUS
<1>1. SessionType'
  BY DEF SessionInv, SessionType, vars, queueVars, proxyVars, captureVars,
         peerVars
<1>2. SameStage
  BY DEF vars, proxyVars, SameStage
<1>3. SessionOrder'
  BY <1>2, OrderKept
     DEF SessionInv, vars, queueVars, proxyVars, captureVars, takenVars
<1>. QED  BY <1>1, <1>3 DEF SessionInv

LEMMA SessionInvStep == SessionInv /\ [Next]_vars => SessionInv'
BY NextCases, StepConnect, StepForwardInput, StepSend, StepAskSent,
   StepFindSent, StepForwardOutput, StepFindReceived, StepWriteRecord,
   StepClose, StepHandlePacket, StepLoopEnds, StepClient, StepServer,
   StepLateAnswer, StepRetransmit, StepStutter

-----------------------------------------------------------------------------
\* In every behaviour the two stamps of a measurement are of packets in the
\* order of their capture, whatever is repeated, cut or left over, and the
\* process ends on a negative difference only to a stamp nothing has written.
THEOREM SessionForward == Spec => []MeasuredForward
<1>1. SessionInv => MeasuredForward
  <2>1. SessionInv => DOMAIN records = 1 .. Len(records)
    BY LenProperties DEF SessionInv, SessionType
  <2>. QED  BY <2>1 DEF SessionInv, SessionOrder, MeasuredForward
<1>. QED  BY <1>1, SessionInvInit, SessionInvStep, PTL DEF Spec

-----------------------------------------------------------------------------
(***************************************************************************)
(* The types.                                                              *)
(***************************************************************************)

\* Where the proxy is says whether it searches, and whether its session is
\* one of those that may have left an answer behind.
PlaceInv ==
    /\ request # <<>> <=> pc \in {"search_sent", "search_received"}
    /\ forwarded <= client.sent /\ server.read <= server.sent
    /\ Len(owed) <= session - (IF pc = "closed" THEN 0 ELSE 1)

LEMMA PlaceInvInit == Init => PlaceInv
BY DEF Init, PlaceInv, Q!Init, NewClient, NewServer

\* A read takes no more than what waits.
LEMMA TakenBound ==
    ASSUME NEW a \in Int, NEW b \in Int, a <= b
    PROVE  a + Taken(b - a) <= b /\ Taken(b - a) \in Nat
BY DEF Taken, BUFSIZE

LEMMA PlaceInvStep == SessionType /\ PlaceInv /\ [Next]_vars => PlaceInv'
<1> SUFFICES ASSUME SessionType, PlaceInv, [Next]_vars PROVE PlaceInv'
  OBVIOUS
<1> USE DEF At
<1>a. /\ session \in Int /\ forwarded \in Int
      /\ client \in [sent : Int, ends : Seq(Int), gone : BOOLEAN]
      /\ server \in [answered : Int, sent : Int, read : Int]
      /\ owed \in Seq([session : Int, first : Int])
      /\ Len(owed) \in Nat
  BY LenProperties DEF SessionType
<1> DEFINE Quiet == /\ UNCHANGED <<request, forwarded, session, owed>>
                    /\ client'.sent >= client.sent
                    /\ server'.read = server.read
                    /\ server'.sent >= server.sent
                    /\ client'.sent \in Int /\ server'.sent \in Int
                    /\ \/ UNCHANGED pc
                       \/ {pc, pc'} \subseteq {"input", "output", "send",
                                               "ask", "record"}
<1>b. Quiet => PlaceInv'
  <2> SUFFICES ASSUME Quiet PROVE PlaceInv'
    OBVIOUS
  <2>1. /\ (pc' = "closed") = (pc = "closed")
        /\ (pc' \in {"search_sent", "search_received"})
              = (pc \in {"search_sent", "search_received"})
    OBVIOUS
  <2>2. forwarded' <= client'.sent /\ server'.read <= server'.sent
    <3>1. /\ client.sent \in Int /\ server.sent \in Int
          /\ server.read \in Int
      BY <1>a
    <3>. QED  BY <1>a, <3>1 DEF PlaceInv
  <2>. QED  BY <2>1, <2>2 DEF PlaceInv
<1>1. CASE Connect
  <2>1. /\ request = <<>> /\ pc = "closed" /\ pc' = "input"
        /\ UNCHANGED <<request, owed>> /\ session' = session + 1
        /\ forwarded' = 0 /\ client' = NewClient /\ server' = NewServer
    BY <1>1 DEF Connect, Q!Open
  <2>2. forwarded' <= client'.sent /\ server'.read <= server'.sent
    BY <2>1 DEF NewClient, NewServer
  <2>. QED  BY <1>a, <2>1, <2>2 DEF PlaceInv
<1>2. CASE ForwardInput
  <2> DEFINE n == Taken(client.sent - forwarded)
  <2>1. /\ pc = "input" /\ pc' \in {"send", "close", "output"}
        /\ UNCHANGED <<request, client, server, session, owed>>
        /\ forwarded' \in {forwarded + n, forwarded}
    BY <1>2 DEF ForwardInput, queueVars
  <2>2. forwarded <= client.sent /\ forwarded + n <= client.sent
    BY <1>a, TakenBound DEF PlaceInv
  <2>. HIDE DEF n
  <2>. QED  BY <2>1, <2>2 DEF PlaceInv
<1>3. CASE Send
  <2>1. Quiet
    BY <1>a, <1>3 DEF Send, queueVars, peerVars
  <2>. QED  BY <1>b, <2>1
<1>4. CASE AskSent
  BY <1>4 DEF AskSent, Q!Ask, PlaceInv, peerVars
<1>5. CASE FindSent
  BY <1>5 DEF FindSent, Q!Answer, PlaceInv, peerVars
<1>6. CASE ForwardOutput
  <2> DEFINE n == Taken(server.sent - server.read)
  <2>1. CASE n > 0
    <3>1. /\ pc = "output" /\ pc' = "search_received" /\ request' # <<>>
          /\ UNCHANGED <<client, forwarded, session, owed>>
          /\ server' = [server EXCEPT !.read = @ + n]
      BY <1>6, <2>1 DEF ForwardOutput, Q!Ask
    <3>2. server.read + n <= server.sent
      BY <1>a, TakenBound DEF PlaceInv
    <3>. HIDE DEF n
    <3>3. server'.read = server.read + n /\ server'.sent = server.sent
      BY <1>a, <3>1
    <3>. QED  BY <3>1, <3>2, <3>3 DEF PlaceInv
  <2>2. CASE ~(n > 0)
    <3>1. Quiet
      BY <1>a, <1>6, <2>2 DEF ForwardOutput, queueVars
    <3>. QED  BY <1>b, <3>1
  <2>. QED  BY <2>1, <2>2
<1>7. CASE FindReceived
  BY <1>7 DEF FindReceived, Q!Answer, PlaceInv, peerVars
<1>8. CASE WriteRecord
  <2>1. Quiet
    BY <1>a, <1>8 DEF WriteRecord, queueVars, peerVars
  <2>. QED  BY <1>b, <2>1
<1>9. CASE Close
  <2>1. /\ pc = "close" /\ pc' = "closed"
        /\ UNCHANGED <<request, client, forwarded, server, session>>
        /\ \/ owed' = owed
           \/ owed' = Append(owed, [session |-> session,
                                    first   |-> server.sent + 1])
    BY <1>9 DEF Close, queueVars
  <2>2. Len(owed') <= Len(owed) + 1 /\ Len(owed') \in Nat
    BY <1>a, <2>1
  <2>. QED  BY <1>a, <2>1, <2>2 DEF PlaceInv
<1>10. CASE HandlePacket
  <2>1. Quiet
    BY <1>a, <1>10
       DEF HandlePacket, Q!Reject, Q!Capture, proxyVars, peerVars
  <2>. QED  BY <1>b, <2>1
<1>11. CASE FailLoop \/ TakeFlag
  <2>1. Quiet
    BY <1>a, <1>11 DEF FailLoop, TakeFlag, queueVars, proxyVars, peerVars
  <2>. QED  BY <1>b, <2>1
<1>12. CASE SendUnit
  <2>1. /\ UNCHANGED <<request, forwarded, session, owed, server, pc>>
        /\ client'.sent \in {client.sent + 1, client.sent + 2}
    BY <1>a, <1>12 DEF SendUnit, Beginning, queueVars, proxyVars
  <2>2. Quiet
    BY <1>a, <2>1
  <2>. QED  BY <1>b, <2>2
<1>13. CASE Leave
  <2>1. Quiet
    BY <1>a, <1>13 DEF Leave, queueVars, proxyVars
  <2>. QED  BY <1>b, <2>1
<1>14. CASE AnswerRequest
  <2>1. /\ UNCHANGED <<request, forwarded, session, owed, client, pc>>
        /\ \E size \in 1 .. 2 :
              server' = [server EXCEPT !.answered = @ + 1, !.sent = @ + size]
    BY <1>14 DEF AnswerRequest, Serve, queueVars, proxyVars
  <2>2. Quiet
    BY <1>a, <2>1
  <2>. QED  BY <1>b, <2>2
<1>15. CASE Unasked
  <2>1. Quiet
    BY <1>a, <1>15 DEF Unasked, Serve, queueVars, proxyVars
  <2>. QED  BY <1>b, <2>1
<1>16. CASE LateAnswer
  <2>1. /\ UNCHANGED <<request, forwarded, session, client, server, pc>>
        /\ owed # <<>> /\ owed' = Tail(owed)
    BY <1>16 DEF LateAnswer, queueVars, proxyVars
  <2>2. Len(owed') <= Len(owed) /\ Len(owed') \in Nat
    BY <1>a, <2>1, HeadTailProperties
  <2>3. Len(owed') <= session' - (IF pc' = "closed" THEN 0 ELSE 1)
    BY <1>a, <2>1, <2>2 DEF PlaceInv
  <2>. QED  BY <2>1, <2>3 DEF PlaceInv
<1>17. CASE Retransmit
  <2>1. Quiet
    BY <1>a, <1>17 DEF Retransmit, queueVars, proxyVars, peerVars
  <2>. QED  BY <1>b, <2>1
<1>18. CASE UNCHANGED vars
  <2>1. Quiet
    BY <1>a, <1>18 DEF vars, queueVars, proxyVars, peerVars
  <2>. QED  BY <1>b, <2>1
<1>. HIDE DEF Quiet
<1>. QED
  BY <1>1, <1>2, <1>3, <1>4, <1>5, <1>6, <1>7, <1>8, <1>9, <1>10, <1>11,
     <1>12, <1>13, <1>14, <1>15, <1>16, <1>17, <1>18, NextCases

\* In every behaviour the loop thread belongs to a session, a call is under
\* way exactly where the proxy searches, every capture has its packet, and
\* neither stream is read beyond its end.
THEOREM SessionTypes == Spec => []TypeOK
<1> DEFINE Inv == LoopInv /\ SessionInv /\ PlaceInv
<1>1. Init => Inv
  BY LoopInvInit, SessionInvInit, PlaceInvInit
<1>2. Inv /\ [Next]_vars => Inv'
  BY LoopInvStep, SessionInvStep, PlaceInvStep DEF SessionInv
<1>3. Inv => TypeOK
  <2> SUFFICES ASSUME Inv PROVE TypeOK
    OBVIOUS
  <2>1. /\ loop \in {"none", "running", "ended"}
        /\ (loop = "none") = (pc = "closed")
    BY DEF LoopInv
  <2>2. Len(owed) <= session
    <3>1. session \in Int /\ Len(owed) \in Nat
      BY LenProperties DEF SessionInv, SessionType
    <3>. QED  BY <3>1 DEF PlaceInv
  <2>3. (request # <<>>) = (pc \in {"search_sent", "search_received"})
    BY DEF PlaceInv
  <2>. QED  BY <2>1, <2>2, <2>3 DEF SessionInv, SessionType, PlaceInv, TypeOK
<1>. QED  BY <1>1, <1>2, <1>3, PTL DEF Spec

=============================================================================

------------------------- MODULE PcapStampsProofs --------------------------
(***************************************************************************)
(* Proof about PcapSession, for any number of sessions, requests and       *)
(* incidents: whose packets the stamps of a measurement are.               *)
(*                                                                         *)
(* A search finds some packet that it has not passed and that looks like   *)
(* its chunk, so the proof follows the packets that are still unseen: of   *)
(* which session, way and units they are, and in what order.               *)
(***************************************************************************)
EXTENDS PcapSessionProofs

Destination(u) == u.way = "DESTINATION_REMOTE"

\* The proxy is in a write.
Writing == pc \in {"send", "ask", "search_sent"}

\* The packets that a search may still find.
Unseen == {origins[i] : i \in {j \in 1 .. Len(origins) : j > cursor}}
             \cup {ring[i] : i \in 1 .. Len(ring)}

\* The chunk of a write, whose last unit is the last that was forwarded.
Whole == calls[Len(calls)]

Never(kinds) == ~Some(kinds)

\* What the loop thread has taken from each packet.
LinkInv ==
    \A i \in 1 .. Len(origins) :
       captured[i] = [payload   |-> Content(origins[i].first,
                                            origins[i].size),
                      direction |-> IF canonical THEN origins[i].way
                                    ELSE "SOURCE_REMOTE"]

\* What a search wants.
WantInv ==
    /\ pc = "search_sent" =>
          request = <<Wanted(Head(calls), "DESTINATION_REMOTE")>>
    /\ pc = "search_received" => request = <<Wanted(chunk, "SOURCE_REMOTE")>>

\* A write sends its chunk, or, after a partial send, its second unit.
CallsInv ==
    Writing =>
       /\ Len(calls) \in {1, 2} /\ Whole.size \in {1, 2}
       /\ Whole.first + Whole.size - 1 = forwarded
       /\ Len(calls) = 2 => /\ Whole.size = 2
                            /\ Head(calls) = [first |-> forwarded, size |-> 1]

\* A chunk that has been read ends with the last unit that has been.
ChunkInv ==
    pc \in {"search_received", "record"} =>
       /\ chunk.size \in {1, 2}
       /\ chunk.first + chunk.size - 1 = server.read

\* No packet is of a session to come.
AgeInv ==
    /\ \A u \in Unseen : u.session <= session
    /\ last # <<>> => last[1].session <= session
    /\ tx_timestamp.session <= session
    /\ \A i \in 1 .. Len(owed) :
          IF pc = "closed" THEN owed[i].session <= session
                           ELSE owed[i].session < session

\* No packet of a request is left behind by the writes that have returned.
NoRequests == \A u \in Unseen : ~Destination(u)

\* All packets of the chunk are of one unit, and so it is not found whole.
InPieces ==
    /\ Whole.size = 2
    /\ \A u \in Unseen : Destination(u) => u.size = 1

\* The packets of requests are one, which is the chunk of this write.
OnlyWhole ==
    /\ \A u \in Unseen : Destination(u) =>
          /\ u.session = session /\ u.first + u.size - 1 = forwarded
    /\ \A u, v \in Unseen : Destination(u) /\ Destination(v) => u = v

RequestsInv ==
    /\ ~Writing /\ (~canonical \/ Never({"retransmit"})) => NoRequests
    /\ ~Writing /\ ~canonical /\ last # <<>> => ~Destination(last[1])
    /\ pc = "send" /\ Never({"retransmit"}) =>
          IF Len(calls) = 1 THEN NoRequests ELSE InPieces
    /\ pc \in {"ask", "search_sent"} /\ Never({"retransmit"}) =>
          InPieces \/ (OnlyWhole /\ Len(calls) = 1)

\* The transmit stamp is that of the last write.
OwnTx ==
    /\ tx_timestamp.session = session /\ Destination(tx_timestamp)
    /\ tx_timestamp.first + tx_timestamp.size - 1 = forwarded

TxInv ==
    pc # "closed" /\ ~Writing =>
       /\ Never({"retransmit"}) =>
             OwnTx \/ (forwarded = 0 /\ tx_timestamp.session # session)
       /\ ~alike => OwnTx \/ tx_timestamp.session # session

\* The packets of answers in this session.
Answers == {u \in Unseen : ~Destination(u) /\ u.session = session}

\* The last unit before the chunk that is looked for.
Base == IF pc = "search_received" THEN server.read - chunk.size
                                  ELSE server.read

AnswersInv ==
    pc # "closed" /\ Never({"retransmit"}) =>
       \A u \in Answers : /\ u.first <= server.sent
                         /\ u.first + u.size - 1 <= server.sent

\* The answers are of this session, after those that have been read, and in
\* the order of their units.
OnlyOwn ==
    /\ \A u \in Unseen :
          ~Destination(u) => u.session = session /\ u.first > Base
    /\ \A u, v \in Answers : u.at < v.at => u.first + u.size <= v.first

\* A client leaves when it has all its answers.
Departed ==
    /\ pc = "close" => client.gone
    /\ client.gone => Answered
    /\ server.answered <= Len(client.ends)

\* Nothing is left behind by the sessions that have ended.
LeftInv ==
    Never({"retransmit", "unasked", "early_leave"}) =>
       /\ owed = <<>>
       /\ pc = "closed" => \A u \in Unseen : Destination(u)
       /\ pc # "closed" => OnlyOwn /\ Departed

\* The server may answer, or its answer has not been read.
Replying ==
    \/ /\ server.answered < Len(client.ends)
       /\ client.ends[server.answered + 1] <= Arrived
    \/ server.read < server.sent \/ pc = "search_received"

\* Requests and answers come in turn.
InTurn ==
    /\ Len(client.ends) \in {server.answered, server.answered + 1}
    /\ server.answered < Len(client.ends) =>
          /\ server.read = server.sent
          /\ pc \notin {"search_received", "record"}
    /\ server.sent <= server.read + BUFSIZE
    /\ pc \in {"search_received", "record"} => server.read = server.sent

\* What an answer leaves behind is passed over by the next write.
Passed ==
    \A u \in Answers : u.first <= Base =>
       IF Writing THEN \A v \in Unseen : Destination(v) => u.at < v.at
                  ELSE ~Replying

TurnInv ==
    pc # "closed" /\ Never({"retransmit", "unasked", "pipelined"}) =>
       InTurn /\ Passed

\* The receive stamp is that of the chunk that was read.
RxInv ==
    pc = "record" =>
       /\ ~Destination(rx_timestamp)
       /\ (~alike \/ Never({"retransmit", "unasked", "pipelined"}))
             /\ rx_timestamp.session = session =>
          rx_timestamp.first = chunk.first /\ rx_timestamp.size = chunk.size
       /\ Never({"retransmit", "unasked", "early_leave"}) =>
          rx_timestamp.session = session

\* What is kept by every step.
StampsInv ==
    /\ SessionInv /\ PlaceInv
    /\ LinkInv /\ WantInv /\ CallsInv /\ ChunkInv /\ AgeInv /\ RequestsInv
    /\ TxInv /\ AnswersInv /\ LeftInv /\ TurnInv /\ RxInv

-----------------------------------------------------------------------------
(***************************************************************************)
(* The incidents, and the contents.                                        *)
(***************************************************************************)

Grown == incidents.kinds \subseteq incidents'.kinds

LEMMA IncidentGrows ==
    ASSUME NEW kind, Incident(kind)
    PROVE  Grown /\ kind \in incidents'.kinds
BY DEF Incident, Grown

LEMMA OrdinaryGrows ==
    ASSUME NEW usual, NEW kind, Ordinary(usual, kind)
    PROVE  Grown /\ (usual \/ kind \in incidents'.kinds)
BY IncidentGrows DEF Ordinary, Grown

\* What has not happened by the end of a step had not happened before it.
LEMMA NeverBefore ==
    ASSUME NEW kinds, Grown, Never(kinds)'
    PROVE  Never(kinds)
BY DEF Grown, Never, Some

LEMMA NeverKind ==
    ASSUME NEW kinds, NEW kind \in kinds, kind \in incidents'.kinds
    PROVE  ~Never(kinds)'
BY DEF Never, Some

LEMMA GrownWorld == [Next]_vars => Grown /\ UNCHANGED worldVars
<1> SUFFICES ASSUME [Next]_vars PROVE Grown /\ UNCHANGED worldVars
  OBVIOUS
<1> DEFINE G == Grown /\ UNCHANGED worldVars
<1>a. incidents' = incidents => Grown
  BY DEF Grown
<1>1. Connect => G
  BY <1>a DEF Connect
<1>2. ForwardInput => G
  BY <1>a DEF ForwardInput
<1>3. Send => G
  BY IncidentGrows, OrdinaryGrows DEF Send
<1>4. AskSent => G
  BY <1>a DEF AskSent
<1>5. FindSent => G
  BY <1>a DEF FindSent
<1>6. ForwardOutput => G
  BY <1>a DEF ForwardOutput
<1>7. FindReceived => G
  BY <1>a DEF FindReceived
<1>8. WriteRecord => G
  BY <1>a DEF WriteRecord
<1>9. Close => G
  BY <1>a DEF Close
<1>10. HandlePacket => G
  BY <1>a DEF HandlePacket
<1>11. FailLoop => G
  BY IncidentGrows DEF FailLoop
<1>12. SendUnit => G
  BY <1>a, IncidentGrows, OrdinaryGrows DEF SendUnit
<1>13. Leave => G
  BY OrdinaryGrows DEF Leave
<1>14. AnswerRequest => G
  BY OrdinaryGrows DEF AnswerRequest, Serve
<1>15. Unasked => G
  BY IncidentGrows DEF Unasked, Serve
<1>16. LateAnswer => G
  BY <1>a DEF LateAnswer
<1>17. Retransmit => G
  BY IncidentGrows DEF Retransmit
<1>18. TakeFlag => G
  BY <1>a DEF TakeFlag
<1>19. UNCHANGED vars => G
  BY <1>a DEF vars
<1>. HIDE DEF G
<1>. QED
  <2>1. G
    BY <1>1, <1>2, <1>3, <1>4, <1>5, <1>6, <1>7, <1>8, <1>9, <1>10, <1>11,
       <1>12, <1>13, <1>14, <1>15, <1>16, <1>17, <1>18, <1>19, NextCases
  <2>. QED  BY <2>1 DEF G

\* Chunks that look the same are of one size, and are the same chunk, unless
\* all units look the same.
LEMMA SameContent ==
    ASSUME NEW f \in Int, NEW s \in Nat, NEW g \in Int, NEW t \in Nat,
           Content(f, s) = Content(g, t)
    PROVE  s = t /\ (~alike /\ s > 0 => f = g)
<1>1. DOMAIN Content(f, s) = 1 .. s /\ DOMAIN Content(g, t) = 1 .. t
  BY DEF Content
<1>2. s = t
  BY <1>1
<1>3. ASSUME ~alike, s > 0 PROVE f = g
  <2>1. Content(f, s)[1] = f /\ Content(g, t)[1] = g
    BY <1>2, <1>3 DEF Content
  <2>. QED  BY <2>1
<1>. QED  BY <1>2, <1>3

-----------------------------------------------------------------------------
(***************************************************************************)
(* What becomes of the packets that a search may find.                     *)
(***************************************************************************)

LEMMA UnseenType == SessionInv => \A u \in Unseen : u \in Segments
<1> SUFFICES ASSUME SessionInv PROVE \A u \in Unseen : u \in Segments
  OBVIOUS
<1>1. ring \in Seq(Segments) /\ origins \in Seq(Segments)
  BY DEF SessionInv, SessionType
<1>2. /\ \A i \in 1 .. Len(ring) : ring[i] \in Segments
      /\ \A i \in 1 .. Len(origins) : origins[i] \in Segments
  BY <1>1, ElementOfSeq
<1>. QED  BY <1>2 DEF Unseen

\* The clock has passed them.
LEMMA UnseenPast == SessionInv => \A u \in Unseen : u.at <= now
BY DEF SessionInv, SessionOrder, UpToNow, Unseen

\* Packets of the wire come later than all that were there before.
LEMMA UnseenOfEmission ==
    ASSUME SessionInv, NEW segments, Fresh(segments), Emit(segments),
           UNCHANGED <<origins, cursor>>
    PROVE  \A u \in Unseen' :
              u \in Unseen \/ \E i \in 1 .. Len(segments) : u = segments[i]
<1>1. ring \in Seq(Segments) /\ segments \in Seq(Segments)
  BY DEF SessionInv, SessionType, Fresh
<1>2. /\ Len(ring) \in Nat /\ Len(segments) \in Nat
      /\ ring' = ring \o segments
      /\ Len(ring') = Len(ring) + Len(segments)
  BY <1>1, LenProperties DEF Emit
<1>3. \A i \in 1 .. Len(ring') :
         IF i <= Len(ring) THEN ring'[i] = ring[i]
                           ELSE ring'[i] = segments[i - Len(ring)]
  BY <1>1, <1>2
<1>4. ASSUME NEW i \in 1 .. Len(ring')
      PROVE  \/ ring'[i] \in Unseen
             \/ \E k \in 1 .. Len(segments) : ring'[i] = segments[k]
  <2>1. CASE i <= Len(ring)
    <3>1. i \in 1 .. Len(ring) /\ ring'[i] = ring[i]
      BY <1>2, <1>3, <2>1
    <3>. QED  BY <3>1 DEF Unseen
  <2>2. CASE ~(i <= Len(ring))
    <3>1. i - Len(ring) \in 1 .. Len(segments)
          /\ ring'[i] = segments[i - Len(ring)]
      BY <1>2, <1>3, <2>2
    <3>. QED  BY <3>1
  <2>. QED  BY <2>1, <2>2
<1>5. \A i \in {j \in 1 .. Len(origins) : j > cursor} : origins[i] \in Unseen
  BY DEF Unseen
<1>. QED  BY <1>4, <1>5 DEF Unseen

\* The loop thread makes none of those that it hands over unseen.
LEMMA UnseenOfLoop ==
    ASSUME SessionInv, HandlePacket
    PROVE  \A u \in Unseen' : u \in Unseen
<1>1. /\ ring \in Seq(Segments) /\ ring # <<>> /\ origins \in Seq(Segments)
      /\ ring' = Tail(ring) /\ cursor' = cursor
      /\ origins' = origins \/ origins' = Append(origins, Head(ring))
  BY DEF SessionInv, SessionType, HandlePacket, Q!Capture, Q!Reject
<1>2. /\ Len(ring) \in Nat \ {0} /\ Head(ring) = ring[1]
      /\ Len(origins) \in Nat
  BY <1>1, EmptySeq, HeadTailProperties, LenProperties
<1>3. Head(ring) \in Unseen
  <2>1. 1 \in 1 .. Len(ring)
    BY <1>2
  <2>. QED  BY <1>2, <2>1 DEF Unseen
<1>4. \A i \in 1 .. Len(ring') : ring'[i] \in Unseen
  <2>1. /\ Len(ring') = Len(ring) - 1
        /\ \A i \in 1 .. Len(ring') : ring'[i] = ring[i + 1]
    BY <1>1, HeadTailProperties
  <2>2. \A i \in 1 .. Len(ring') : i + 1 \in 1 .. Len(ring)
    BY <1>2, <2>1
  <2>. QED  BY <2>1, <2>2 DEF Unseen
<1>5. \A i \in 1 .. Len(origins) : i > cursor => origins[i] \in Unseen
  BY DEF Unseen
<1>6. \A i \in 1 .. Len(origins') : i > cursor => origins'[i] \in Unseen
  <2>1. CASE origins' = origins
    BY <1>5, <2>1
  <2>2. CASE origins' = Append(origins, Head(ring))
    <3>1. Head(ring) \in Segments
      BY <1>1, HeadTailProperties
    <3>2. /\ Len(origins') = Len(origins) + 1
          /\ \A i \in 1 .. Len(origins) : origins'[i] = origins[i]
          /\ origins'[Len(origins) + 1] = Head(ring)
      BY <1>1, <2>2, <3>1, AppendProperties
    <3>3. ASSUME NEW i \in 1 .. Len(origins'), i > cursor
          PROVE  origins'[i] \in Unseen
      <4>1. i \in 1 .. Len(origins) \/ i = Len(origins) + 1
        BY <1>2, <3>2
      <4>. QED  BY <1>3, <1>5, <3>2, <3>3, <4>1
    <3>. QED  BY <3>3
  <2>. QED  BY <1>1, <2>1, <2>2
<1>7. cursor' = cursor
  BY <1>1
<1>. QED  BY <1>4, <1>6, <1>7 DEF Unseen

\* stopLoop drops some, and startLoop all that were captured.
LEMMA UnseenOfStop ==
    ASSUME SessionInv, Connect \/ Close
    PROVE  \A u \in Unseen' : u \in Unseen
<1>1. CASE Connect
  <2>1. origins' = <<>> /\ Len(<<>>) = 0 /\ ring' = ring
    BY <1>1 DEF Connect
  <2>. QED  BY <2>1 DEF Unseen
<1>2. CASE Close
  <2>1. PICK k \in 0 .. Len(ring) : ring' = SubSeq(ring, k + 1, Len(ring))
    BY <1>2 DEF Close
  <2>2. ring \in Seq(Segments) /\ UNCHANGED <<origins, cursor>>
    BY <1>2 DEF SessionInv, SessionType, Close, queueVars
  <2>3. Len(ring') = Len(ring) - k
        /\ \A i \in 1 .. Len(ring') : ring'[i] = ring[k + i]
    BY <2>1, <2>2, RingSuffix
  <2>4. Len(ring) \in Nat
    BY <2>2, LenProperties
  <2>5. \A i \in 1 .. Len(ring') : k + i \in 1 .. Len(ring)
    BY <2>3, <2>4
  <2>. QED  BY <2>2, <2>3, <2>5 DEF Unseen
<1>. QED  BY <1>1, <1>2

\* The packet that a search has found.
Found == origins[result']

\* A search finds one of them, and passes all that came before it.
LEMMA UnseenOfSearch ==
    ASSUME SessionInv, Q!Answer, UNCHANGED <<origins, ring>>
    PROVE  /\ Found \in Unseen /\ Found \in Segments
           /\ \A u \in Unseen' : u \in Unseen /\ Found.at < u.at
<1>1. /\ result' \in 1 .. Len(origins) /\ result' > cursor
      /\ cursor' = result'
      /\ Found \in Segments
      /\ Since(ring, Found.at)
      /\ \A i \in 1 .. Len(origins) :
            i > result' => Found.at < origins[i].at
  BY AnswerFound DEF Found
<1>2. Found \in Unseen
  BY <1>1 DEF Found, Unseen
<1>3. cursor \in Nat
  BY DEF SessionInv, SessionType
<1>4. ASSUME NEW u \in Unseen' PROVE u \in Unseen /\ Found.at < u.at
  <2>1. \/ \E i \in 1 .. Len(origins) : i > result' /\ u = origins[i]
        \/ \E i \in 1 .. Len(ring) : u = ring[i]
    BY <1>1 DEF Unseen
  <2>2. ASSUME NEW i \in 1 .. Len(origins), i > result', u = origins[i]
        PROVE  u \in Unseen /\ Found.at < u.at
    <3>1. i > cursor
      BY <1>1, <1>3, <2>2
    <3>. QED  BY <1>1, <2>2, <3>1 DEF Unseen
  <2>3. ASSUME NEW i \in 1 .. Len(ring), u = ring[i]
        PROVE  u \in Unseen /\ Found.at < u.at
    BY <1>1, <2>3 DEF Unseen, Since
  <2>. QED  BY <2>1, <2>2, <2>3
<1>. QED  BY <1>1, <1>2, <1>4

\* It looks like what is wanted.
LEMMA SearchFinds ==
    ASSUME SessionInv, LinkInv, Q!Answer
    PROVE  /\ Content(Found.first, Found.size) = request[1].payload
           /\ (IF canonical THEN Found.way ELSE "SOURCE_REMOTE")
                 = request[1].direction
<1>1. result' \in 1 .. Len(origins)
  BY AnswerFound
<1>2. /\ captured[result'].payload = request[1].payload
      /\ captured[result'].direction = request[1].direction
  BY DEF Q!Answer, Q!Hits, Q!Matches
<1>3. captured[result'] = [payload   |-> Content(Found.first, Found.size),
                           direction |-> IF canonical THEN Found.way
                                         ELSE "SOURCE_REMOTE"]
  BY <1>1 DEF LinkInv, Found
<1>. HIDE DEF Found
<1>. QED  BY <1>2, <1>3

-----------------------------------------------------------------------------
(***************************************************************************)
(* What the steps do to what the invariant is about.                       *)
(***************************************************************************)

Calls == [first : Int, size : Nat \ {0}]

\* The types that the steps below need.
LEMMA Types ==
    ASSUME SessionInv
    PROVE  /\ session \in Int /\ now \in Nat /\ forwarded \in Int
           /\ client \in [sent : Int, ends : Seq(Int), gone : BOOLEAN]
           /\ Len(client.ends) \in Nat
           /\ server \in [answered : Int, sent : Int, read : Int]
           /\ chunk \in Chunks /\ calls \in Seq(Calls) /\ Len(calls) \in Nat
           /\ owed \in Seq([session : Int, first : Int])
           /\ Len(owed) \in Nat
           /\ tx_timestamp \in Segments /\ rx_timestamp \in Segments
           /\ last # <<>> => last[1] \in Segments
BY LenProperties DEF SessionInv, SessionType, Calls

\* Nothing is captured, and the proxy and the server have sent and read
\* nothing.
Quiet ==
    /\ \A u \in Unseen' : u \in Unseen
    /\ UNCHANGED <<session, calls, chunk, tx_timestamp, rx_timestamp,
                   forwarded, server, owed, last>>
    /\ \/ UNCHANGED pc
       \/ pc = "ask" /\ pc' = "search_sent"
       \/ pc = "record" /\ pc' = "input"

LEMMA UnseenSame ==
    ASSUME UNCHANGED <<origins, cursor, ring>>
    PROVE  \A u \in Unseen' : u \in Unseen
BY DEF Unseen

LEMMA QuietSteps ==
    ASSUME SessionInv,
           \/ AskSent \/ WriteRecord \/ HandlePacket \/ FailLoop
           \/ TakeFlag \/ SendUnit \/ Leave \/ UNCHANGED vars
    PROVE  Quiet
<1>1. CASE AskSent
  <2>1. UNCHANGED <<origins, cursor, ring>>
    BY <1>1 DEF AskSent, Q!Ask, captureVars
  <2>. QED
    BY <1>1, <2>1, UnseenSame DEF AskSent, At, Quiet, captureVars, peerVars
<1>2. CASE WriteRecord
  <2>1. UNCHANGED <<origins, cursor, ring>>
    BY <1>2 DEF WriteRecord, captureVars, queueVars
  <2>. QED
    BY <1>2, <2>1, UnseenSame
       DEF WriteRecord, At, Quiet, captureVars, peerVars
<1>3. CASE HandlePacket
  BY <1>3, UnseenOfLoop DEF HandlePacket, Quiet, proxyVars, peerVars
<1>4. CASE FailLoop \/ TakeFlag
  <2>1. UNCHANGED <<origins, cursor, ring>>
    BY <1>4 DEF FailLoop, TakeFlag, queueVars
  <2>. QED
    BY <1>4, <2>1, UnseenSame
       DEF FailLoop, TakeFlag, Quiet, proxyVars, peerVars
<1>5. CASE SendUnit \/ Leave
  <2>1. UNCHANGED <<origins, cursor, ring>>
    BY <1>5 DEF SendUnit, Leave, captureVars, queueVars
  <2>. QED
    BY <1>5, <2>1, UnseenSame
       DEF SendUnit, Leave, Quiet, proxyVars, captureVars
<1>6. CASE UNCHANGED vars
  <2>1. UNCHANGED <<origins, cursor, ring>>
    BY <1>6 DEF vars, captureVars, queueVars
  <2>. QED
    BY <1>6, <2>1, UnseenSame
       DEF vars, Quiet, proxyVars, captureVars, peerVars
<1>. QED  BY <1>1, <1>2, <1>3, <1>4, <1>5, <1>6

LEMMA SegmentFields ==
    ASSUME NEW s, NEW way, NEW first, NEW size, NEW at
    PROVE  LET q == Segment(s, way, first, size, at)
           IN  /\ q.session = s /\ q.way = way /\ q.first = first
               /\ q.size = size /\ q.at = at
BY DEF Segment

\* What is captured is on the way of the answers, for this session, and comes
\* after all that the server has sent.
LEMMA ServerSends ==
    ASSUME SessionInv, AnswerRequest \/ Unasked
    PROVE  /\ \A u \in Unseen' :
                 \/ u \in Unseen
                 \/ /\ ~Destination(u) /\ u.session = session
                    /\ server.sent < u.first /\ u.first <= server'.sent
                    /\ u.first + u.size - 1 <= server'.sent /\ now < u.at
           /\ \A u, v \in Unseen' :
                 \/ u \in Unseen \/ v \in Unseen
                 \/ u.at < v.at => u.first + u.size <= v.first
           /\ last' # <<>> /\ last'[1].session = session
           /\ ~Destination(last'[1])
           /\ server'.read = server.read /\ server.sent < server'.sent
           /\ server'.sent <= server.sent + 2
           /\ server'.sent \in Int
           /\ UNCHANGED <<proxyVars, client, forwarded, owed>>
           /\ pc # "closed"
<1>t. /\ session \in Int /\ now \in Nat /\ server.sent \in Int
      /\ server \in [answered : Int, sent : Int, read : Int]
  BY Types
<1>1. PICK size \in 1 .. 2 :
         /\ Serve(size)
         /\ \/ server' = [server EXCEPT !.answered = @ + 1, !.sent = @ + size]
            \/ server' = [server EXCEPT !.sent = @ + 1] /\ size = 1
  BY DEF AnswerRequest, Unasked
<1>2. /\ server'.sent = server.sent + size /\ server'.read = server.read
      /\ size \in {1, 2}
  <2>1. /\ size \in {1, 2} /\ size \in Int
        /\ server.sent + size \in Int /\ server.answered + 1 \in Int
    BY <1>t
  <2>2. CASE server' = [server EXCEPT !.answered = @ + 1, !.sent = @ + size]
    BY <1>t, <2>1, <2>2
  <2>3. CASE server' = [server EXCEPT !.sent = @ + 1] /\ size = 1
    BY <1>t, <2>1, <2>3
  <2>. QED  BY <1>1, <2>1, <2>2, <2>3
<1>3. PICK segments \in Cuts(session, "SOURCE_REMOTE", server.sent + 1, size) :
         Emit(segments)
  BY <1>1 DEF Serve
<1>4. Fresh(segments)
  <2>1. size \in Nat \ {0} /\ server.sent + 1 \in Int
        /\ "SOURCE_REMOTE" \in Ways
    BY <1>t, <1>2 DEF Ways
  <2>. QED  BY <1>t, <1>3, <2>1, CutsFresh
<1>5. /\ Len(segments) \in 1 .. size
      /\ \A i \in 1 .. Len(segments) :
            /\ segments[i].session = session
            /\ segments[i].way = "SOURCE_REMOTE"
            /\ segments[i].at = now + i
            /\ segments[i].first = server.sent + i
            /\ segments[i].size = IF Len(segments) = 1 THEN size ELSE 1
  <2>1. CASE segments = [i \in 1 .. size |->
                Segment(session, "SOURCE_REMOTE", server.sent + 1 + i - 1, 1,
                        now + i)]
    <3>1. Len(segments) = size
      <4>1. segments \in Seq(Segments) /\ DOMAIN segments = 1 .. size
        BY <1>4, <2>1 DEF Fresh
      <4>. QED  BY <1>2, <4>1, LenProperties
    <3>2. \A i \in 1 .. size : segments[i] =
             Segment(session, "SOURCE_REMOTE", server.sent + 1 + i - 1, 1,
                     now + i)
      BY <2>1
    <3>3. ASSUME NEW i \in 1 .. Len(segments)
          PROVE  segments[i] = Segment(session, "SOURCE_REMOTE",
                                       server.sent + i, 1, now + i)
      <4>1. i \in 1 .. size /\ server.sent + 1 + i - 1 = server.sent + i
        BY <1>t, <3>1
      <4>. QED  BY <3>2, <4>1
    <3>4. Len(segments) = 1 => size = 1
      BY <3>1
    <3>5. Len(segments) \in 1 .. size
      BY <1>2, <3>1
    <3>6. ASSUME NEW i \in 1 .. Len(segments)
          PROVE  /\ segments[i].session = session
                 /\ segments[i].way = "SOURCE_REMOTE"
                 /\ segments[i].at = now + i
                 /\ segments[i].first = server.sent + i
                 /\ segments[i].size = 1
      <4>1. segments[i] = Segment(session, "SOURCE_REMOTE", server.sent + i,
                                  1, now + i)
        BY <3>3
      <4>. QED  BY <4>1, SegmentFields
    <3>. QED  BY <3>4, <3>5, <3>6
  <2>2. CASE segments = <<Segment(session, "SOURCE_REMOTE", server.sent + 1,
                                  size, now + 1)>>
    BY <1>t, <1>2, <2>2 DEF Segment
  <2>. QED  BY <1>3, <2>1, <2>2 DEF Cuts
<1>6. UNCHANGED <<queueVars, origins, proxyVars, client, forwarded, owed>>
      /\ pc # "closed"
  BY <1>1, Types DEF Serve, AnswerRequest, Unasked
<1>7. \A u \in Unseen' :
         u \in Unseen \/ \E i \in 1 .. Len(segments) : u = segments[i]
  BY <1>3, <1>4, <1>6, UnseenOfEmission DEF queueVars
<1>8. ASSUME NEW i \in 1 .. Len(segments)
      PROVE  /\ ~Destination(segments[i]) /\ segments[i].session = session
             /\ server.sent < segments[i].first
             /\ segments[i].first <= server'.sent
             /\ segments[i].first + segments[i].size - 1 <= server'.sent
             /\ now < segments[i].at
  <2>1. /\ segments[i].session = session
        /\ segments[i].way = "SOURCE_REMOTE"
        /\ segments[i].at = now + i
        /\ segments[i].first = server.sent + i
        /\ segments[i].size = IF Len(segments) = 1 THEN size ELSE 1
    BY <1>5
  <2>2. i \in 1 .. size /\ (Len(segments) = 1 => i = 1)
    BY <1>2, <1>5
  <2>3. /\ server.sent < server.sent + i
        /\ server.sent + i <= server'.sent /\ now < now + i
        /\ server.sent + i + segments[i].size - 1 <= server'.sent
    BY <1>t, <1>2, <2>1, <2>2
  <2>. QED  BY <2>1, <2>3 DEF Destination
<1>9. ASSUME NEW i \in 1 .. Len(segments), NEW j \in 1 .. Len(segments),
             segments[i].at < segments[j].at
      PROVE  segments[i].first + segments[i].size <= segments[j].first
  <2>1. /\ segments[i].at = now + i /\ segments[j].at = now + j
        /\ segments[i].first = server.sent + i
        /\ segments[j].first = server.sent + j
        /\ segments[i].size = IF Len(segments) = 1 THEN size ELSE 1
    BY <1>5
  <2>2. i \in Int /\ j \in Int /\ i < j
    BY <1>t, <1>9, <2>1
  <2>3. segments[i].size = 1
    <3>1. Len(segments) = 1 => i = 1 /\ j = 1
      OBVIOUS
    <3>. QED  BY <2>1, <2>2, <3>1
  <2>4. server.sent + i + 1 <= server.sent + j
    BY <1>t, <2>2
  <2>. QED  BY <2>1, <2>3, <2>4
<1>10. last' # <<>> /\ last'[1].session = session /\ ~Destination(last'[1])
  <2>1. last' = <<segments[Len(segments)]>>
    BY <1>3 DEF Emit
  <2>2. Len(segments) \in 1 .. Len(segments)
    BY <1>2, <1>5
  <2>. QED  BY <1>8, <2>1, <2>2
<1>11. /\ server.sent < server'.sent /\ server'.sent <= server.sent + 2
       /\ server'.sent \in Int
  BY <1>t, <1>2
<1>. HIDE DEF Destination
<1>. QED  BY <1>2, <1>6, <1>7, <1>8, <1>9, <1>10, <1>11

\* One packet more.
LEMMA OneSent ==
    ASSUME SessionInv, NEW p, Fresh(<<p>>), Emit(<<p>>),
           UNCHANGED <<origins, cursor>>
    PROVE  /\ \A u \in Unseen' : u \in Unseen \/ u = p
           /\ last' # <<>> /\ last'[1] = p /\ now < p.at
<1>1. \A u \in Unseen' :
         u \in Unseen \/ \E i \in 1 .. Len(<<p>>) : u = <<p>>[i]
  BY UnseenOfEmission
<1>2. last' = <<p>>
  BY DEF Emit
<1>3. p.at = now + 1 /\ now \in Nat
  BY Types DEF Fresh
<1>. QED  BY <1>1, <1>2, <1>3

\* An answer of a session that has ended.
LEMMA LateSends ==
    ASSUME SessionInv, LateAnswer
    PROVE  /\ owed # <<>> /\ owed' = Tail(owed)
           /\ \A u \in Unseen' :
                 \/ u \in Unseen
                 \/ ~Destination(u) /\ u.session = Head(owed).session
           /\ last' # <<>> /\ last'[1].session = Head(owed).session
           /\ ~Destination(last'[1])
           /\ UNCHANGED <<proxyVars, client, forwarded, server>>
<1> DEFINE p == Segment(Head(owed).session, "SOURCE_REMOTE",
                        Head(owed).first, 1, now + 1)
           O == [session : Int, first : Int]
<1>1. /\ owed # <<>> /\ owed' = Tail(owed)
      /\ UNCHANGED <<queueVars, origins, proxyVars, client, forwarded,
                     server>>
      /\ Emit(<<p>>)
  BY DEF LateAnswer
<1>2. owed \in Seq(O) /\ now \in Nat
  BY Types
<1>3. Head(owed) \in O
  <2>. HIDE DEF O
  <2>. QED  BY <1>1, <1>2, HeadTailProperties
<1>4. /\ p.session = Head(owed).session /\ p.way = "SOURCE_REMOTE"
      /\ Fresh(<<p>>)
  <2>1. Head(owed).session \in Int /\ Head(owed).first \in Int
    BY <1>3
  <2>2. ASSUME NEW s \in Int, NEW first \in Int
        PROVE  LET q == Segment(s, "SOURCE_REMOTE", first, 1, now + 1)
               IN  q \in Segments /\ q.at = now + 1
    <3>1. "SOURCE_REMOTE" \in Ways /\ 1 \in Nat /\ now + 1 \in Nat
      BY <1>2 DEF Ways
    <3>. QED  BY <3>1, SegmentType
  <2>3. p \in Segments /\ p.at = now + 1
    BY <2>1, <2>2, Zenon
  <2>4. p.session = Head(owed).session /\ p.way = "SOURCE_REMOTE"
    BY DEF Segment
  <2>. HIDE DEF p
  <2>. QED  BY <2>3, <2>4 DEF Fresh
<1>. HIDE DEF p
<1>5. /\ \A u \in Unseen' : u \in Unseen \/ u = p
      /\ last' # <<>> /\ last'[1] = p
  BY <1>1, <1>4, OneSent DEF queueVars
<1>6. ~Destination(p)
  BY <1>4 DEF Destination
<1>. QED  BY <1>1, <1>4, <1>5, <1>6

\* The last packet again.
LEMMA NetworkSends ==
    ASSUME SessionInv, Retransmit
    PROVE  /\ last # <<>>
           /\ \A u \in Unseen' :
                 \/ u \in Unseen
                 \/ /\ Destination(u) => Destination(last[1])
                    /\ u.session = last[1].session
           /\ last' # <<>> /\ last'[1].session = last[1].session
           /\ Destination(last'[1]) => Destination(last[1])
           /\ UNCHANGED <<proxyVars, peerVars>>
           /\ "retransmit" \in incidents'.kinds
<1> DEFINE p == [last[1] EXCEPT !.at = now + 1]
<1>1. /\ last # <<>> /\ UNCHANGED <<queueVars, origins, proxyVars, peerVars>>
      /\ Emit(<<p>>) /\ "retransmit" \in incidents'.kinds
  BY IncidentGrows DEF Retransmit
<1>2. last[1] \in Segments /\ now \in Nat
  BY <1>1, Types
<1>3. /\ p \in Segments /\ p.at = now + 1
      /\ p.session = last[1].session /\ p.way = last[1].way
  BY <1>2 DEF Segments
<1>. HIDE DEF p
<1>4. Fresh(<<p>>)
  BY <1>3 DEF Fresh
<1>5. /\ \A u \in Unseen' : u \in Unseen \/ u = p
      /\ last' # <<>> /\ last'[1] = p
  BY <1>1, <1>4, OneSent DEF queueVars
<1>6. Destination(p) => Destination(last[1])
  BY <1>3 DEF Destination
<1>. QED  BY <1>1, <1>3, <1>5, <1>6

-----------------------------------------------------------------------------
(***************************************************************************)
(* The chunks, and what is wanted.                                         *)
(***************************************************************************)

LEMMA TailOfOne ==
    ASSUME NEW S, NEW s \in Seq(S), Len(s) = 1
    PROVE  s # <<>> /\ Tail(s) = <<>>
<1>1. s # <<>>
  BY EmptySeq
<1>2. Tail(s) \in Seq(S) /\ Len(Tail(s)) = 0
  BY <1>1, HeadTailProperties
<1>. QED  BY <1>1, <1>2, EmptySeq

LEMMA TailOfTwo ==
    ASSUME NEW S, NEW s \in Seq(S), Len(s) = 2
    PROVE  s # <<>> /\ Tail(s) = <<s[2]>>
<1>1. s # <<>>
  BY EmptySeq
<1>2. /\ Tail(s) \in Seq(S) /\ Len(Tail(s)) = 1
      /\ \A i \in 1 .. Len(Tail(s)) : Tail(s)[i] = s[i + 1]
  BY <1>1, HeadTailProperties
<1>3. Tail(s)[1] = s[2]
  BY <1>2
<1>4. s[2] \in S
  BY ElementOfSeq
<1>5. /\ <<s[2]>> \in Seq(S) /\ Len(<<s[2]>>) = 1
      /\ <<s[2]>>[1] = s[2]
  BY <1>4
<1>6. \A i \in 1 .. Len(Tail(s)) : Tail(s)[i] = <<s[2]>>[i]
  <2>1. \A i \in 1 .. 1 : i = 1
    OBVIOUS
  <2>. QED  BY <1>2, <1>3, <1>5, <2>1, Zenon
<1>7. Tail(s) = <<s[2]>>
  BY <1>2, <1>5, <1>6, SeqEqual
<1>. QED  BY <1>1, <1>7

LEMMA OneBefore ==
    ASSUME NEW S, NEW e \in S, NEW s \in Seq(S), Len(s) = 1
    PROVE  LET t == <<e>> \o s
           IN  t \in Seq(S) /\ Len(t) = 2 /\ t[1] = e /\ t[2] = s[1]
<1> DEFINE t == <<e>> \o s
<1>1. <<e>> \in Seq(S) /\ Len(<<e>>) = 1 /\ <<e>>[1] = e
  OBVIOUS
<1> DEFINE u == <<e>>
<1>. HIDE DEF u
<1>2. /\ u \o s \in Seq(S) /\ Len(u \o s) = Len(u) + Len(s)
      /\ \A i \in 1 .. Len(u) + Len(s) :
            (u \o s)[i] = IF i <= Len(u) THEN u[i] ELSE s[i - Len(u)]
  BY <1>1, ConcatProperties DEF u
<1>3. Len(u) = 1 /\ u[1] = e
  BY <1>1 DEF u
<1>4. Len(u \o s) = 2 /\ (u \o s)[1] = e /\ (u \o s)[2] = s[1]
  BY <1>2, <1>3
<1>. QED  BY <1>2, <1>4 DEF u

\* A write that has one call left sends its whole chunk.
LEMMA Pieces ==
    ASSUME SessionInv, CallsInv, Writing
    PROVE  /\ Head(calls) \in Calls /\ Whole \in Calls
           /\ Len(calls) = 1 => Head(calls) = Whole /\ Tail(calls) = <<>>
           /\ Len(calls) # 1 => Tail(calls) = <<Whole>>
<1>1. calls \in Seq(Calls) /\ Len(calls) \in {1, 2}
  BY Types DEF CallsInv
<1>2. Whole \in Calls
  <2>1. Len(calls) \in 1 .. Len(calls)
    BY <1>1
  <2>. QED  BY <1>1, <2>1, ElementOfSeq DEF Whole
<1>3. Head(calls) = calls[1] /\ Head(calls) \in Calls
  <2>1. calls # <<>>
    BY <1>1
  <2>. HIDE DEF Calls
  <2>. QED  BY <1>1, <2>1, HeadTailProperties
<1>4. Len(calls) = 1 => Tail(calls) = <<>>
  BY <1>1, TailOfOne
<1>5. Len(calls) = 2 => Tail(calls) = <<calls[2]>>
  BY <1>1, TailOfTwo
<1>. QED  BY <1>1, <1>2, <1>3, <1>4, <1>5 DEF Whole

LEMMA TakenSize ==
    ASSUME NEW w \in Int, Taken(w) > 0
    PROVE  /\ Taken(w) \in {1, 2} /\ Taken(w) <= w
           /\ w <= BUFSIZE => Taken(w) = w
BY DEF Taken, BUFSIZE

\* The rest of a partial send is the second unit of two.
LEMMA PartialSend ==
    ASSUME SessionInv, CallsInv, Writing, Head(calls).size > 1,
           NEW rest, rest = [first |-> Head(calls).first + 1,
                             size  |-> Head(calls).size - 1],
           calls' = <<rest>> \o calls, forwarded' = forwarded
    PROVE  /\ Len(calls) = 1 /\ Len(calls') = 2
           /\ Whole' = Whole /\ Whole.size = 2
           /\ Head(calls') = [first |-> forwarded, size |-> 1]
<1>1. /\ Head(calls) \in Calls /\ calls \in Seq(Calls)
      /\ Len(calls) \in {1, 2} /\ Whole.size \in {1, 2}
      /\ Whole.first + Whole.size - 1 = forwarded
      /\ Whole \in Calls /\ forwarded \in Int
  BY Pieces, Types DEF CallsInv
<1>2. Len(calls) = 1 /\ Head(calls) = Whole
  <2>1. Len(calls) = 2 => Head(calls).size = 1
    BY DEF CallsInv
  <2>. QED  BY <1>1, <2>1, Pieces
<1>3. Whole.size = 2
  BY <1>1, <1>2
<1>4. Len(calls') = 2 /\ calls'[2] = calls[1] /\ Head(calls') = rest
  <2>1. rest \in Calls
    <3>1. Head(calls).first + 1 \in Int /\ Head(calls).size - 1 \in Nat \ {0}
      <4>1. Head(calls).first \in Int /\ Head(calls).size \in Nat
        BY <1>1 DEF Calls
      <4>. HIDE DEF Calls
      <4>. QED  BY <4>1
    <3>. QED  BY <3>1 DEF Calls
  <2>2. /\ calls' \in Seq(Calls) /\ Len(calls') = 2
        /\ calls'[1] = rest /\ calls'[2] = calls[1]
    BY <1>1, <1>2, <2>1, OneBefore
  <2>. QED  BY <2>2
<1>5. Whole' = Whole
  BY <1>2, <1>4 DEF Whole
<1>6. rest = [first |-> forwarded, size |-> 1]
  <2>1. Whole.first + 1 = forwarded /\ Whole.size - 1 = 1
    BY <1>1, <1>3 DEF Calls
  <2>. QED  BY <1>2, <2>1
<1>. QED  BY <1>2, <1>3, <1>4, <1>5, <1>6

\* What a send puts on the wire: the chunk of its call as one packet, or in
\* single units, of which a partial send is the first.
Sending(news) ==
    /\ \A u \in Unseen' : u \in Unseen \/ u \in news
    /\ \A u \in news : Destination(u) /\ u.session = session /\ now < u.at
    /\ last' # <<>> /\ last'[1] \in news
    /\ \/ /\ UNCHANGED calls /\ pc' = "ask"
          /\ \A u, v \in news : u = v
          /\ \A u \in news : /\ u.first = Head(calls).first
                              /\ u.size = Head(calls).size
       \/ /\ UNCHANGED calls /\ pc' = "ask"
          /\ Head(calls).size = 2 /\ \A u \in news : u.size = 1
       \/ /\ pc' = "send" /\ Head(calls).size > 1
          /\ calls' = <<[first |-> Head(calls).first + 1,
                         size  |-> Head(calls).size - 1]>> \o calls
          /\ \A u \in news : u.size = 1

LEMMA ProxySends ==
    ASSUME SessionInv, CallsInv, Send
    PROVE  \E news : Sending(news)
<1> DEFINE c == Head(calls)
           p(n) == Segment(session, "DESTINATION_REMOTE", c.first, n, now + 1)
<1>t. /\ session \in Int /\ now \in Nat /\ c.first \in Int
      /\ c.size \in {1, 2} /\ "DESTINATION_REMOTE" \in Ways
      /\ UNCHANGED <<origins, cursor>>
  <2>1. Writing /\ UNCHANGED <<origins, cursor>>
    BY DEF Send, At, Writing, queueVars
  <2>2. c \in Calls /\ Len(calls) \in {1, 2} /\ Whole.size \in {1, 2}
    BY <2>1, Pieces DEF CallsInv
  <2>3. c.size \in {1, 2}
    <3>1. Len(calls) = 2 => c.size = 1
      BY <2>1 DEF CallsInv
    <3>. QED  BY <2>1, <2>2, <3>1, Pieces
  <2>. QED  BY <2>1, <2>2, <2>3, Types DEF Calls, Ways
<1>. HIDE DEF c
<1>p. ASSUME NEW n \in {1, 2}, Emit(<<p(n)>>)
      PROVE  /\ \A u \in Unseen' : u \in Unseen \/ u \in {p(n)}
             /\ Destination(p(n)) /\ p(n).session = session /\ now < p(n).at
             /\ last' # <<>> /\ last'[1] \in {p(n)}
             /\ p(n).first = c.first /\ p(n).size = n
  <2>1. p(n) \in Segments /\ p(n).at = now + 1
    BY <1>t, SegmentType
  <2>2. /\ Destination(p(n)) /\ p(n).session = session
        /\ p(n).first = c.first /\ p(n).size = n
    BY DEF Segment, Destination
  <2>. HIDE DEF p
  <2>3. Fresh(<<p(n)>>)
    BY <2>1 DEF Fresh
  <2>. QED  BY <1>p, <1>t, <2>2, <2>3, OneSent
<1>1. CASE /\ Emit(<<p(c.size)>>) /\ UNCHANGED calls /\ pc' = "ask"
  <2>1. /\ \A u \in {p(c.size)} :
              /\ Destination(u) /\ u.session = session /\ now < u.at
              /\ u.first = c.first /\ u.size = c.size
        /\ \A u \in Unseen' : u \in Unseen \/ u \in {p(c.size)}
        /\ last' # <<>> /\ last'[1] \in {p(c.size)}
    BY <1>1, <1>p, <1>t
  <2>2. \A u, v \in {p(c.size)} : u = v
    OBVIOUS
  <2>3. Sending({p(c.size)})
    <3>. HIDE DEF p
    <3>. QED  BY <1>1, <2>1, <2>2 DEF c, Sending
  <2>. QED  BY <2>3
<1>2. CASE /\ Emit(<<p(1)>>) /\ pc' = "send" /\ c.size > 1
           /\ calls' = <<[first |-> c.first + 1,
                          size  |-> c.size - 1]>> \o calls
  <2>1. /\ \A u \in {p(1)} :
              /\ Destination(u) /\ u.session = session /\ now < u.at
              /\ u.size = 1
        /\ \A u \in Unseen' : u \in Unseen \/ u \in {p(1)}
        /\ last' # <<>> /\ last'[1] \in {p(1)}
    BY <1>2, <1>p
  <2>2. Sending({p(1)})
    <3>. HIDE DEF p
    <3>. QED  BY <1>2, <2>1 DEF c, Sending
  <2>. QED  BY <2>2
<1> DEFINE units == [i \in 1 .. c.size |->
                       Segment(session, "DESTINATION_REMOTE", c.first + i - 1,
                               1, now + i)]
<1>3. CASE Emit(units) /\ UNCHANGED calls /\ pc' = "ask" /\ c.size = 2
  <2> DEFINE news == {units[i] : i \in 1 .. 2}
  <2>1. Fresh(units)
    <3>1. units \in Cuts(session, "DESTINATION_REMOTE", c.first, c.size)
      BY DEF Cuts
    <3>. HIDE DEF units
    <3>. QED  BY <1>t, <3>1, CutsFresh
  <2>2. \A i \in 1 .. 2 :
           /\ Destination(units[i]) /\ units[i].session = session
           /\ units[i].at = now + i /\ units[i].size = 1
    BY <1>3 DEF Segment, Destination
  <2>3. Len(units) = 2
    <3>1. units \in Seq(Segments) /\ DOMAIN units = 1 .. 2
      BY <1>3, <2>1 DEF Fresh
    <3>. HIDE DEF units
    <3>. QED  BY <3>1, LenProperties
  <2>. HIDE DEF units
  <2>4. \A u \in Unseen' : u \in Unseen \/ u \in news
    BY <1>3, <1>t, <2>1, <2>3, UnseenOfEmission
  <2>5. \A u \in news : /\ Destination(u) /\ u.session = session
                        /\ now < u.at /\ u.size = 1
    BY <1>t, <2>2
  <2>6. last' # <<>> /\ last'[1] \in news
    BY <1>3, <2>3 DEF Emit
  <2>. HIDE DEF news
  <2>7. Sending(news)
    BY <1>3, <2>4, <2>5, <2>6 DEF c, Sending
  <2>. QED  BY <2>7
<1>4. CASE Emit(units) /\ UNCHANGED calls /\ pc' = "ask" /\ c.size = 1
  <2>1. units = <<p(c.size)>>
    BY <1>4, <1>t DEF Segment
  <2>. HIDE DEF units, p
  <2>. QED  BY <1>1, <1>4, <2>1
<1>5. \/ (Emit(units) \/ Emit(<<p(c.size)>>)) /\ UNCHANGED calls /\ pc' = "ask"
      \/ /\ Emit(<<p(1)>>) /\ pc' = "send" /\ c.size > 1
         /\ calls' = <<[first |-> c.first + 1,
                        size  |-> c.size - 1]>> \o calls
  BY DEF Send, At, Cuts, c
<1>. HIDE DEF units, p
<1>. QED  BY <1>t, <1>1, <1>2, <1>3, <1>4, <1>5

LEMMA StepCalls ==
    ASSUME SessionInv, PlaceInv, CallsInv, [Next]_vars
    PROVE  CallsInv'
<1> DEFINE G == CallsInv'
<1> SUFFICES G
  OBVIOUS
<1>0. Quiet => G
  BY DEF Quiet, CallsInv, Writing, Whole
<1>1. CASE \/ Connect \/ ForwardOutput \/ FindReceived \/ Close
  <2>1. ~Writing'
    BY <1>1 DEF Connect, ForwardOutput, FindReceived, Close, Writing
  <2>. QED  BY <2>1 DEF CallsInv
<1>2. CASE ForwardInput
  <2> DEFINE n == Taken(client.sent - forwarded)
             c == [first |-> forwarded + 1, size |-> n]
  <2>1. CASE n > 0
    <3>1. n \in {1, 2} /\ forwarded \in Int
      <4>1. client.sent - forwarded \in Int
        BY Types
      <4>. QED  BY <2>1, <4>1, TakenSize, Types
    <3>2. calls' = <<c>> /\ forwarded' = forwarded + n
      BY <1>2, <2>1 DEF ForwardInput
    <3>. HIDE DEF n
    <3>3. c.first + c.size - 1 = forwarded + n /\ c.size \in {1, 2}
      BY <3>1
    <3>. HIDE DEF c
    <3>. QED  BY <3>2, <3>3 DEF CallsInv, Whole
  <2>2. CASE ~(n > 0)
    <3>1. ~Writing'
      BY <1>2, <2>2 DEF ForwardInput, Writing
    <3>. QED  BY <3>1 DEF CallsInv
  <2>. QED  BY <2>1, <2>2
<1>3. CASE Send
  <2>1. pc = "send" /\ Writing /\ UNCHANGED forwarded
    BY <1>3 DEF Send, At, Writing, peerVars
  <2>2. CASE UNCHANGED calls
    BY <2>1, <2>2 DEF CallsInv, Whole
  <2>3. CASE /\ Head(calls).size > 1
             /\ calls' = <<[first |-> Head(calls).first + 1,
                            size  |-> Head(calls).size - 1]>> \o calls
    <3>1. /\ Len(calls') = 2 /\ Whole' = Whole /\ Whole.size = 2
          /\ Head(calls') = [first |-> forwarded, size |-> 1]
      BY <2>1, <2>3, PartialSend
    <3>2. Whole'.first + Whole'.size - 1 = forwarded'
      BY <2>1, <3>1 DEF CallsInv
    <3>. QED  BY <2>1, <3>1, <3>2 DEF CallsInv
  <2>. QED  BY <1>3, <2>2, <2>3 DEF Send
<1>4. CASE FindSent
  <2>1. /\ pc = "search_sent" /\ Writing /\ UNCHANGED forwarded
        /\ calls' = Tail(calls)
        /\ pc' = IF calls' = <<>> THEN "output" ELSE "ask"
    BY <1>4 DEF FindSent, At, Writing, peerVars
  <2>2. CASE Len(calls) = 1
    <3>1. calls' = <<>>
      BY <2>1, <2>2, Pieces
    <3>. QED  BY <2>1, <3>1 DEF CallsInv, Writing
  <2>3. CASE Len(calls) # 1
    <3>1. calls' = <<Whole>>
      BY <2>1, <2>3, Pieces
    <3>2. Len(calls') = 1 /\ Whole' = Whole
      BY <3>1 DEF Whole
    <3>3. Whole.size \in {1, 2} /\ Whole.first + Whole.size - 1 = forwarded
      BY <2>1 DEF CallsInv
    <3>4. Whole'.size \in {1, 2} /\ Whole'.first + Whole'.size - 1 = forwarded'
      BY <2>1, <3>2, <3>3
    <3>. QED  BY <3>2, <3>4 DEF CallsInv
  <2>. QED  BY <2>2, <2>3
<1>5. CASE AnswerRequest \/ Unasked \/ LateAnswer \/ Retransmit
  <2>1. UNCHANGED <<pc, calls, forwarded>>
    BY <1>5, ServerSends, LateSends, NetworkSends DEF proxyVars, peerVars
  <2>. QED  BY <2>1 DEF CallsInv, Writing, Whole
<1>. HIDE DEF G
<1>. QED
  BY <1>0, <1>1, <1>2, <1>3, <1>4, <1>5, QuietSteps, NextCases

LEMMA StepChunk ==
    ASSUME SessionInv, PlaceInv, ChunkInv, [Next]_vars
    PROVE  ChunkInv'
<1> DEFINE G == ChunkInv'
<1> SUFFICES G
  OBVIOUS
<1>0. Quiet => G
  BY DEF Quiet, ChunkInv
<1>1. CASE Connect \/ ForwardInput \/ Send \/ FindSent \/ Close
  <2>1. pc' \notin {"search_received", "record"}
    BY <1>1 DEF Connect, ForwardInput, Send, At, FindSent, Close
  <2>. QED  BY <2>1 DEF ChunkInv
<1>2. CASE ForwardOutput
  <2> DEFINE n == Taken(server.sent - server.read)
  <2>t. server \in [answered : Int, sent : Int, read : Int]
    BY Types
  <2>1. CASE n > 0
    <3>1. n \in {1, 2}
      BY <2>1, <2>t, TakenSize
    <3>2. /\ chunk' = [first |-> server.read + 1, size |-> n]
          /\ server' = [server EXCEPT !.read = @ + n]
      BY <1>2, <2>1 DEF ForwardOutput
    <3>. HIDE DEF n
    <3>3. /\ chunk'.first = server.read + 1 /\ chunk'.size = n
          /\ server'.read = server.read + n /\ server.read \in Int
      BY <2>t, <3>2
    <3>. QED  BY <3>1, <3>3 DEF ChunkInv
  <2>2. CASE ~(n > 0)
    BY <1>2, <2>2 DEF ForwardOutput, ChunkInv
  <2>. QED  BY <2>1, <2>2
<1>3. CASE FindReceived
  BY <1>3 DEF FindReceived, At, ChunkInv, peerVars
<1>4. CASE AnswerRequest \/ Unasked \/ LateAnswer \/ Retransmit
  <2>1. UNCHANGED <<pc, chunk>> /\ server'.read = server.read
    BY <1>4, ServerSends, LateSends, NetworkSends DEF proxyVars, peerVars
  <2>. QED  BY <2>1 DEF ChunkInv
<1>. HIDE DEF G
<1>. QED
  BY <1>0, <1>1, <1>2, <1>3, <1>4, QuietSteps, NextCases

LEMMA StepLink ==
    ASSUME SessionInv, LinkInv, [Next]_vars
    PROVE  LinkInv'
<1> DEFINE G == LinkInv'
<1> SUFFICES G
  OBVIOUS
<1>w. UNCHANGED <<canonical, alike>>
  BY GrownWorld DEF worldVars
<1>0. ASSUME UNCHANGED <<captured, origins>> PROVE G
  BY <1>w, <1>0 DEF LinkInv, Content
<1>1. CASE Connect
  BY <1>1 DEF Connect, LinkInv
<1>2. CASE HandlePacket
  <2> DEFINE p == Head(ring)
             c == [payload   |-> Content(p.first, p.size),
                   direction |-> IF canonical THEN p.way
                                 ELSE "SOURCE_REMOTE"]
  <2>1. CASE origins' = origins /\ captured' = captured
    BY <1>0, <2>1
  <2>2. CASE origins' = Append(origins, p) /\ captured' = Append(captured, c)
    <3>1. /\ origins \in Seq(Segments) /\ captured \in Seq(Captures)
          /\ Len(captured) = Len(origins) /\ Len(origins) \in Nat
          /\ ring \in Seq(Segments) /\ ring # <<>>
      BY <1>2, LenProperties DEF SessionInv, SessionType, HandlePacket
    <3>2. p \in Segments
      BY <3>1, HeadTailProperties
    <3>3. c \in Captures
      <4>1. /\ p.first \in Int /\ p.size \in Nat /\ p.way \in Ways
            /\ "SOURCE_REMOTE" \in Ways
        BY <3>2 DEF Segments, Ways
      <4>2. Content(p.first, p.size) \in UNION {[1 .. n -> Int] : n \in Nat}
        BY <4>1, ContentType
      <4>. HIDE DEF p
      <4>. QED  BY <4>1, <4>2 DEF Captures
    <3>4. /\ c.payload = Content(p.first, p.size)
          /\ c.direction = IF canonical THEN p.way ELSE "SOURCE_REMOTE"
      OBVIOUS
    <3>5. c = [payload   |-> Content(p.first, p.size),
               direction |-> IF canonical THEN p.way ELSE "SOURCE_REMOTE"]
      OBVIOUS
    <3>. HIDE DEF p, c
    <3>6. /\ Len(origins') = Len(origins) + 1
          /\ \A i \in 1 .. Len(origins) : origins'[i] = origins[i]
          /\ origins'[Len(origins) + 1] = p
      BY <2>2, <3>1, <3>2, AppendProperties
    <3>7. /\ \A i \in 1 .. Len(origins) : captured'[i] = captured[i]
          /\ captured'[Len(origins) + 1] = c
      BY <2>2, <3>1, <3>3, AppendProperties
    <3>8. \A f, s : Content(f, s)' = Content(f, s)
      BY <1>w DEF Content
    <3>9. ASSUME NEW i \in 1 .. Len(origins')
          PROVE  captured'[i] =
                   [payload   |-> Content(origins'[i].first,
                                          origins'[i].size),
                    direction |-> IF canonical THEN origins'[i].way
                                  ELSE "SOURCE_REMOTE"]
      <4>1. CASE i \in 1 .. Len(origins)
        BY <3>6, <3>7, <4>1 DEF LinkInv
      <4>2. CASE i = Len(origins) + 1
        BY <3>5, <3>6, <3>7, <4>2
      <4>. QED  BY <3>1, <3>6, <4>1, <4>2
    <3>. QED  BY <1>w, <3>9 DEF LinkInv, Content
  <2>. QED  BY <1>2, <2>1, <2>2 DEF HandlePacket, Q!Capture, Q!Reject
<1>3. CASE \/ ForwardInput \/ Send \/ WriteRecord \/ Close \/ FailLoop
           \/ TakeFlag
  BY <1>0, <1>3 DEF ForwardInput, Send, WriteRecord, Close, FailLoop,
                    TakeFlag, queueVars, captureVars
<1>4. CASE AskSent \/ FindSent \/ ForwardOutput \/ FindReceived
  BY <1>0, <1>4 DEF AskSent, FindSent, ForwardOutput, FindReceived, Q!Ask,
                    Q!Answer, queueVars, captureVars
<1>5. CASE \/ SendUnit \/ Leave \/ AnswerRequest \/ Unasked \/ LateAnswer
           \/ Retransmit \/ UNCHANGED vars
  BY <1>0, <1>5 DEF SendUnit, Leave, AnswerRequest, Unasked, Serve,
                    LateAnswer, Retransmit, vars, queueVars, captureVars
<1>. HIDE DEF G
<1>. QED  BY <1>1, <1>2, <1>3, <1>4, <1>5, NextCases

LEMMA StepWant ==
    ASSUME SessionInv, WantInv, [Next]_vars
    PROVE  WantInv'
<1> DEFINE G == WantInv'
<1> SUFFICES G
  OBVIOUS
<1>w. UNCHANGED <<canonical, alike>>
  BY GrownWorld DEF worldVars
<1>x. \A c, way : Wanted(c, way)' = Wanted(c, way)
  BY <1>w DEF Wanted, Content
<1>0. ASSUME UNCHANGED <<pc, calls, chunk, request>> PROVE G
  BY <1>w, <1>0 DEF WantInv, Wanted, Content
<1>1. CASE \/ Connect \/ ForwardInput \/ Send \/ FindSent \/ FindReceived
           \/ WriteRecord \/ Close
  <2>1. pc' \notin {"search_sent", "search_received"}
    BY <1>1 DEF Connect, ForwardInput, Send, At, FindSent, FindReceived,
                WriteRecord, Close
  <2>. QED  BY <2>1 DEF WantInv
<1>2. CASE AskSent
  <2>1. /\ pc' = "search_sent" /\ UNCHANGED calls
        /\ request' = <<Wanted(Head(calls), "DESTINATION_REMOTE")>>
    BY <1>2 DEF AskSent, Q!Ask
  <2>. QED  BY <1>w, <2>1 DEF WantInv, Wanted, Content
<1>3. CASE ForwardOutput
  <2>1. \/ pc' = "input"
        \/ /\ pc' = "search_received"
           /\ request' = <<Wanted(chunk', "SOURCE_REMOTE")>>
    BY <1>3 DEF ForwardOutput, Q!Ask
  <2>. QED  BY <1>w, <2>1 DEF WantInv, Wanted, Content
<1>4. CASE HandlePacket \/ FailLoop \/ TakeFlag \/ SendUnit \/ Leave
  BY <1>0, <1>4 DEF HandlePacket, Q!Capture, Q!Reject, FailLoop, TakeFlag,
                    SendUnit, Leave, proxyVars, queueVars
<1>5. CASE AnswerRequest \/ Unasked \/ LateAnswer \/ Retransmit
           \/ UNCHANGED vars
  BY <1>0, <1>5 DEF AnswerRequest, Unasked, Serve, LateAnswer, Retransmit,
                    vars, proxyVars, queueVars
<1>. HIDE DEF G
<1>. QED  BY <1>1, <1>2, <1>3, <1>4, <1>5, NextCases

LEMMA StepAge ==
    ASSUME SessionInv, CallsInv, AgeInv, [Next]_vars
    PROVE  AgeInv'
<1> DEFINE G == AgeInv'
<1> SUFFICES G
  OBVIOUS
<1>t. /\ session \in Int /\ tx_timestamp.session \in Int
      /\ owed \in Seq([session : Int, first : Int]) /\ Len(owed) \in Nat
      /\ \A u \in Unseen : u.session \in Int
      /\ last # <<>> => last[1].session \in Int
      /\ \A i \in 1 .. Len(owed) : owed[i].session \in Int
  <2>1. \A i \in 1 .. Len(owed) : owed[i] \in [session : Int, first : Int]
    BY Types, ElementOfSeq
  <2>. QED  BY <2>1, Types, UnseenType DEF Segments
<1>0. ASSUME \A u \in Unseen' : u \in Unseen,
             UNCHANGED <<session, last, tx_timestamp, owed>>,
             (pc # "closed" /\ pc' # "closed") \/ UNCHANGED pc
      PROVE  G
  BY <1>0 DEF AgeInv
<1>1. Quiet => G
  BY <1>0 DEF Quiet
<1>2. CASE Connect
  <2>1. /\ pc = "closed" /\ pc' = "input" /\ session' = session + 1
        /\ UNCHANGED <<last, tx_timestamp, owed>>
    BY <1>2 DEF Connect, At
  <2>2. \A u \in Unseen' : u \in Unseen
    BY <1>2, UnseenOfStop
  <2>. QED  BY <1>t, <2>1, <2>2 DEF AgeInv
<1>3. CASE ForwardInput \/ ForwardOutput
  <2>1. UNCHANGED <<session, last, tx_timestamp, owed, origins, cursor, ring>>
    BY <1>3 DEF ForwardInput, ForwardOutput, Q!Ask, queueVars, captureVars
  <2>2. pc # "closed" /\ pc' # "closed"
    BY <1>3 DEF ForwardInput, ForwardOutput, At
  <2>. QED  BY <1>0, <2>1, <2>2, UnseenSame
<1>4. CASE FindSent \/ FindReceived
  <2>1. /\ Q!Answer /\ UNCHANGED <<session, last, owed, origins, ring>>
        /\ tx_timestamp' \in {tx_timestamp, Found}
        /\ pc # "closed" /\ pc' # "closed"
    BY <1>4 DEF FindSent, FindReceived, At, Found, captureVars, peerVars
  <2>2. Found \in Unseen /\ \A u \in Unseen' : u \in Unseen
    BY <2>1, UnseenOfSearch
  <2>. QED  BY <2>1, <2>2 DEF AgeInv
<1>5. CASE Close
  <2> DEFINE debt == [session |-> session, first |-> server.sent + 1]
  <2>1. /\ pc = "close" /\ pc' = "closed"
        /\ UNCHANGED <<session, last, tx_timestamp>>
        /\ owed' = owed \/ owed' = Append(owed, debt)
    BY <1>5 DEF Close, At
  <2>2. \A u \in Unseen' : u \in Unseen
    BY <1>5, UnseenOfStop
  <2>3. \A i \in 1 .. Len(owed') : owed'[i].session <= session
    <3>1. \A i \in 1 .. Len(owed) : owed[i].session <= session
      <4>1. ASSUME NEW i \in 1 .. Len(owed) PROVE owed[i].session <= session
        <5>1. owed[i].session < session
          BY <2>1 DEF AgeInv
        <5>. QED  BY <1>t, <5>1
      <4>. QED  BY <4>1
    <3>2. CASE owed' = owed
      BY <3>1, <3>2
    <3>3. CASE owed' = Append(owed, debt)
      <4>1. debt \in [session : Int, first : Int] /\ debt.session = session
        BY <1>t, Types
      <4>. HIDE DEF debt
      <4>2. /\ Len(owed') = Len(owed) + 1
            /\ \A i \in 1 .. Len(owed) : owed'[i] = owed[i]
            /\ owed'[Len(owed) + 1] = debt
        BY <1>t, <3>3, <4>1, AppendProperties
      <4>3. ASSUME NEW i \in 1 .. Len(owed')
            PROVE  owed'[i].session <= session
        <5>1. i \in 1 .. Len(owed) \/ i = Len(owed) + 1
          BY <1>t, <4>2
        <5>2. CASE i \in 1 .. Len(owed)
          BY <3>1, <4>2, <5>2
        <5>3. CASE i = Len(owed) + 1
          BY <1>t, <4>1, <4>2, <5>3
        <5>. QED  BY <5>1, <5>2, <5>3
      <4>. QED  BY <4>3
    <3>. QED  BY <2>1, <3>2, <3>3
  <2>. QED  BY <2>1, <2>2, <2>3 DEF AgeInv
<1>6. CASE AnswerRequest \/ Unasked
  <2>1. /\ \A u \in Unseen' : u \in Unseen \/ u.session = session
        /\ last' # <<>> /\ last'[1].session = session
        /\ UNCHANGED <<proxyVars, owed>>
    BY <1>6, ServerSends
  <2>. QED  BY <1>t, <2>1 DEF AgeInv, proxyVars
<1>7. CASE LateAnswer
  <2>1. /\ owed # <<>> /\ owed' = Tail(owed)
        /\ \A u \in Unseen' : u \in Unseen \/ u.session = Head(owed).session
        /\ last' # <<>> /\ last'[1].session = Head(owed).session
        /\ UNCHANGED proxyVars
    BY <1>7, LateSends
  <2>2. /\ Len(owed) \in Nat \ {0} /\ Head(owed) = owed[1]
        /\ Len(owed') = Len(owed) - 1
        /\ \A i \in 1 .. Len(owed') : owed'[i] = owed[i + 1]
    BY <1>t, <2>1, EmptySeq, HeadTailProperties
  <2>3. Head(owed).session <= session
    <3>1. 1 \in 1 .. Len(owed)
      BY <2>2
    <3>. QED  BY <1>t, <2>2, <3>1 DEF AgeInv
  <2>4. \A i \in 1 .. Len(owed') : IF pc' = "closed"
                                   THEN owed'[i].session <= session'
                                   ELSE owed'[i].session < session'
    <3>1. \A i \in 1 .. Len(owed') : i + 1 \in 1 .. Len(owed)
      BY <2>2
    <3>. QED  BY <2>1, <2>2, <3>1 DEF AgeInv, proxyVars
  <2>. QED  BY <2>1, <2>3, <2>4 DEF AgeInv, proxyVars
<1>8. CASE Retransmit
  <2>1. /\ last # <<>>
        /\ \A u \in Unseen' : u \in Unseen \/ u.session = last[1].session
        /\ last' # <<>> /\ last'[1].session = last[1].session
        /\ UNCHANGED <<proxyVars, peerVars>>
    BY <1>8, NetworkSends
  <2>. QED  BY <2>1 DEF AgeInv, proxyVars, peerVars
<1>9. CASE Send
  <2>1. /\ \A u \in Unseen' : u \in Unseen \/ u.session = session
        /\ last' # <<>> /\ last'[1].session = session
    BY <1>9, ProxySends DEF Sending
  <2>2. /\ UNCHANGED <<session, tx_timestamp, owed>>
        /\ pc # "closed" /\ pc' # "closed"
    BY <1>9 DEF Send, At, peerVars
  <2>. QED  BY <1>t, <2>1, <2>2 DEF AgeInv
<1>. HIDE DEF G
<1>. QED
  BY <1>1, <1>2, <1>3, <1>4, <1>5, <1>6, <1>7, <1>8, <1>9, QuietSteps,
     NextCases

-----------------------------------------------------------------------------
(***************************************************************************)
(* The packets of requests, and the transmit stamp.                        *)
(***************************************************************************)

\* The search of a write finds a packet of a request that looks like its call.
LEMMA SentFound ==
    ASSUME SessionInv, LinkInv, WantInv, CallsInv, FindSent
    PROVE  /\ canonical /\ Found \in Unseen /\ Found \in Segments
           /\ Destination(Found)
           /\ Found.size = Head(calls).size
           /\ ~alike => Found.first = Head(calls).first
           /\ \A u \in Unseen' : u \in Unseen /\ Found.at < u.at
<1>1. /\ pc = "search_sent" /\ Writing
      /\ Q!Answer /\ UNCHANGED <<origins, ring>>
  BY DEF FindSent, At, Writing, captureVars
<1>2. /\ Found \in Unseen /\ Found \in Segments
      /\ \A u \in Unseen' : u \in Unseen /\ Found.at < u.at
  BY <1>1, UnseenOfSearch
<1>3. request[1] = Wanted(Head(calls), "DESTINATION_REMOTE")
  BY <1>1 DEF WantInv
<1>4. /\ request[1].payload = Content(Head(calls).first, Head(calls).size)
      /\ request[1].direction = "DESTINATION_REMOTE"
  BY <1>3 DEF Wanted
<1>5. /\ Content(Found.first, Found.size)
            = Content(Head(calls).first, Head(calls).size)
      /\ (IF canonical THEN Found.way ELSE "SOURCE_REMOTE")
            = "DESTINATION_REMOTE"
  BY <1>1, <1>4, SearchFinds
<1>6. canonical /\ Destination(Found)
  BY <1>5 DEF Destination
<1>7. /\ Found.first \in Int /\ Found.size \in Nat
      /\ Head(calls).first \in Int /\ Head(calls).size \in Nat \ {0}
  BY <1>1, <1>2, Pieces DEF Segments, Calls
<1>8. /\ Found.size = Head(calls).size
      /\ ~alike => Found.first = Head(calls).first
  BY <1>5, <1>7, SameContent
<1>. QED  BY <1>2, <1>6, <1>8

\* That of a read finds a packet of an answer that looks like its chunk.
LEMMA ReceivedFound ==
    ASSUME SessionInv, LinkInv, WantInv, ChunkInv, RequestsInv, FindReceived
    PROVE  /\ Found \in Unseen /\ Found \in Segments
           /\ ~Destination(Found)
           /\ Found.size = chunk.size
           /\ ~alike => Found.first = chunk.first
           /\ \A u \in Unseen' : u \in Unseen /\ Found.at < u.at
<1>1. /\ pc = "search_received" /\ ~Writing
      /\ Q!Answer /\ UNCHANGED <<origins, ring>>
  BY DEF FindReceived, At, Writing, captureVars
<1>2. /\ Found \in Unseen /\ Found \in Segments
      /\ \A u \in Unseen' : u \in Unseen /\ Found.at < u.at
  BY <1>1, UnseenOfSearch
<1>3. request[1] = Wanted(chunk, "SOURCE_REMOTE")
  BY <1>1 DEF WantInv
<1>4. /\ request[1].payload = Content(chunk.first, chunk.size)
      /\ request[1].direction = "SOURCE_REMOTE"
  BY <1>3 DEF Wanted
<1>5. /\ Content(Found.first, Found.size) = Content(chunk.first, chunk.size)
      /\ (IF canonical THEN Found.way ELSE "SOURCE_REMOTE") = "SOURCE_REMOTE"
  BY <1>1, <1>4, SearchFinds
<1>6. ~Destination(Found)
  <2>1. CASE canonical
    BY <1>5, <2>1 DEF Destination
  <2>2. CASE ~canonical
    BY <1>1, <1>2, <2>2 DEF RequestsInv, NoRequests
  <2>. QED  BY <2>1, <2>2
<1>7. /\ Found.first \in Int /\ Found.size \in Nat
      /\ chunk.first \in Int /\ chunk.size \in Nat \ {0}
  <2>1. chunk.size \in {1, 2}
    BY <1>1 DEF ChunkInv
  <2>2. chunk.first \in Int /\ chunk.size \in Nat \ {0}
    <3>1. chunk \in Chunks
      BY Types
    <3>. QED  BY <2>1, <3>1 DEF Chunks
  <2>. QED  BY <1>2, <2>2 DEF Segments
<1>8. /\ Found.size = chunk.size
      /\ ~alike => Found.first = chunk.first
  BY <1>5, <1>7, SameContent
<1>. QED  BY <1>2, <1>6, <1>8

\* No packet of a request is captured, and no write begins or returns.
NoneSent ==
    /\ \A u \in Unseen' : Destination(u) => u \in Unseen
    /\ last' # <<>> /\ Destination(last'[1]) =>
          last # <<>> /\ Destination(last[1])
    /\ \/ ~Writing /\ ~Writing'
       \/ /\ UNCHANGED <<session, calls, forwarded>>
          /\ UNCHANGED pc \/ (pc = "ask" /\ pc' = "search_sent")

LEMMA NoneSentKeeps ==
    ASSUME RequestsInv, NoneSent, Grown, UNCHANGED worldVars
    PROVE  RequestsInv'
<1>1. Never({"retransmit"})' => Never({"retransmit"})
  BY NeverBefore
<1>2. UNCHANGED canonical
  BY DEF worldVars
<1>3. NoRequests => NoRequests'
  BY DEF NoneSent, NoRequests
<1>4. CASE ~Writing /\ ~Writing'
  <2>1. pc' \notin {"send", "ask", "search_sent"}
    BY <1>4 DEF Writing
  <2>. QED  BY <1>1, <1>2, <1>3, <1>4, <2>1 DEF RequestsInv, NoneSent
<1>5. CASE /\ UNCHANGED <<session, calls, forwarded>>
           /\ UNCHANGED pc \/ (pc = "ask" /\ pc' = "search_sent")
  <2>1. InPieces => InPieces'
    BY <1>5 DEF NoneSent, InPieces, Whole
  <2>2. OnlyWhole => OnlyWhole'
    BY <1>5 DEF NoneSent, OnlyWhole
  <2>3. Writing' = Writing
    BY <1>5 DEF Writing
  <2>4. (pc' \in {"ask", "search_sent"}) = (pc \in {"ask", "search_sent"})
        /\ (pc' = "send") = (pc = "send")
    BY <1>5
  <2>. QED
    BY <1>1, <1>2, <1>3, <1>5, <2>1, <2>2, <2>3, <2>4
       DEF RequestsInv, NoneSent
<1>. QED  BY <1>4, <1>5 DEF NoneSent

LEMMA RequestsOfSend ==
    ASSUME SessionInv, CallsInv, RequestsInv, Grown, Send
    PROVE  RequestsInv'
<1>1. /\ pc = "send" /\ Writing /\ UNCHANGED <<session, forwarded>>
      /\ pc' \in {"send", "ask"}
  BY DEF Send, At, Writing, peerVars
<1>2. Writing'
  BY <1>1 DEF Writing
<1>3. PICK news : Sending(news)
  BY ProxySends
<1> SUFFICES ASSUME Never({"retransmit"})'
             PROVE  /\ pc' = "send" => IF Len(calls') = 1 THEN NoRequests'
                                                         ELSE InPieces'
                    /\ pc' = "ask" => \/ InPieces'
                                      \/ OnlyWhole' /\ Len(calls') = 1
  BY <1>1, <1>2 DEF RequestsInv
<1>4. Never({"retransmit"})
  BY NeverBefore
<1>5. IF Len(calls) = 1 THEN NoRequests ELSE InPieces
  BY <1>1, <1>4 DEF RequestsInv
<1>6. /\ Len(calls) \in {1, 2} /\ Whole.first + Whole.size - 1 = forwarded
      /\ Len(calls) = 1 => Head(calls) = Whole
      /\ Len(calls) = 2 => Head(calls).size = 1
  BY <1>1, Pieces DEF CallsInv
<1>7. \A u \in Unseen' : u \in Unseen \/ u \in news
  BY <1>3 DEF Sending
<1>8. ASSUME Whole' = Whole, Whole.size = 2,
             \A u \in news : u.size = 1
      PROVE  InPieces'
  <2>1. \A u \in Unseen : Destination(u) => u.size = 1
    BY <1>5, <1>6 DEF NoRequests, InPieces
  <2>. QED  BY <1>7, <1>8, <2>1 DEF InPieces
<1>9. CASE /\ pc' = "send" /\ Head(calls).size > 1
           /\ calls' = <<[first |-> Head(calls).first + 1,
                          size  |-> Head(calls).size - 1]>> \o calls
           /\ \A u \in news : u.size = 1
  <2>1. Len(calls') = 2 /\ Whole' = Whole /\ Whole.size = 2
    BY <1>1, <1>9, PartialSend
  <2>. QED  BY <1>8, <1>9, <2>1
<1>10. CASE UNCHANGED calls /\ pc' = "ask" /\ Len(calls) = 2
            /\ \A u \in news : u.size = 1
  <2>1. Whole' = Whole /\ Whole.size = 2
    BY <1>1, <1>10 DEF Whole, CallsInv
  <2>. QED  BY <1>8, <1>10, <2>1
<1>11. CASE UNCHANGED calls /\ pc' = "ask" /\ Len(calls) = 1
            /\ Head(calls).size = 2 /\ \A u \in news : u.size = 1
  <2>1. Whole' = Whole /\ Whole.size = 2
    BY <1>6, <1>11 DEF Whole
  <2>. QED  BY <1>8, <1>11, <2>1
<1>12. CASE UNCHANGED calls /\ pc' = "ask" /\ Len(calls) = 1
            /\ (\A u, v \in news : u = v)
            /\ \A u \in news : /\ u.first = Head(calls).first
                               /\ u.size = Head(calls).size
  <2>1. \A u \in Unseen' : Destination(u) => u \in news
    BY <1>5, <1>7, <1>12 DEF NoRequests
  <2>2. \A u \in news : u.session = session
    BY <1>3 DEF Sending
  <2>3. \A u \in news : u.first + u.size - 1 = forwarded
    BY <1>6, <1>12
  <2>4. OnlyWhole'
    BY <1>1, <1>12, <2>1, <2>2, <2>3 DEF OnlyWhole
  <2>. QED  BY <1>12, <2>4
<1>. QED
  <2>1. \A u \in news : Len(calls) = 2 /\ u.size = Head(calls).size
                           => u.size = 1
    BY <1>6
  <2>. QED  BY <1>3, <1>6, <1>9, <1>10, <1>11, <1>12, <2>1 DEF Sending

LEMMA RequestsOfFind ==
    ASSUME SessionInv, LinkInv, WantInv, CallsInv, RequestsInv, Grown,
           UNCHANGED worldVars, FindSent
    PROVE  RequestsInv'
<1>1. /\ pc = "search_sent" /\ Writing /\ UNCHANGED <<session, forwarded>>
      /\ calls' = Tail(calls)
      /\ pc' = IF calls' = <<>> THEN "output" ELSE "ask"
  BY DEF FindSent, At, Writing, peerVars
<1>2. /\ canonical /\ Found \in Unseen /\ Destination(Found)
      /\ Found \in Segments /\ Found.size = Head(calls).size
      /\ \A u \in Unseen' : u \in Unseen /\ Found.at < u.at
  BY SentFound
<1>3. canonical'
  BY <1>2 DEF worldVars
<1>4. Len(calls) \in {1, 2} /\ Len(calls) = 1 => Head(calls) = Whole
  BY <1>1, Pieces DEF CallsInv
<1> SUFFICES ASSUME Never({"retransmit"})'
             PROVE  /\ pc' = "output" => NoRequests'
                    /\ pc' = "ask" => InPieces'
  BY <1>1, <1>3 DEF RequestsInv, Writing
<1>5. InPieces \/ (OnlyWhole /\ Len(calls) = 1)
  BY <1>1, NeverBefore DEF RequestsInv
<1>6. CASE Len(calls) = 1
  <2>1. pc' = "output"
    BY <1>1, <1>6, Pieces
  <2>2. ~InPieces
    <3>1. Whole.size = 2 /\ Found.size = 1 => FALSE
      BY <1>2, <1>4, <1>6
    <3>. QED  BY <1>2, <3>1 DEF InPieces
  <2>3. \A u \in Unseen : Destination(u) => u = Found
    BY <1>2, <1>5, <2>2 DEF OnlyWhole
  <2>4. NoRequests'
    <3>1. ~(Found.at < Found.at)
      BY <1>2 DEF Segments
    <3>. QED  BY <1>2, <2>3, <3>1 DEF NoRequests
  <2>. QED  BY <2>1, <2>4
<1>7. CASE Len(calls) # 1
  <2>1. calls' = <<Whole>>
    BY <1>1, <1>7, Pieces
  <2>2. pc' = "ask" /\ Whole' = Whole
    <3>1. Len(calls') = 1 /\ calls'[1] = Whole /\ calls' # <<>>
      BY <2>1
    <3>2. Whole' = calls'[Len(calls')]
      BY DEF Whole
    <3>. QED  BY <1>1, <3>1, <3>2
  <2>3. InPieces'
    BY <1>2, <1>5, <1>7, <2>2 DEF InPieces
  <2>. QED  BY <2>2, <2>3
<1>. QED  BY <1>6, <1>7

LEMMA StepRequests ==
    ASSUME SessionInv, LinkInv, WantInv, CallsInv, ChunkInv, RequestsInv,
           [Next]_vars
    PROVE  RequestsInv'
<1> DEFINE G == RequestsInv'
<1> SUFFICES G
  OBVIOUS
<1>w. Grown /\ UNCHANGED worldVars
  BY GrownWorld
<1>0. NoneSent => G
  BY <1>w, NoneSentKeeps
<1>1. Quiet => G
  <2>1. Quiet => NoneSent
    BY DEF Quiet, NoneSent, Writing
  <2>. QED  BY <1>0, <2>1
<1>2. CASE Connect \/ Close
  <2>1. \A u \in Unseen' : u \in Unseen
    BY <1>2, UnseenOfStop
  <2>2. ~Writing /\ ~Writing' /\ UNCHANGED last
    BY <1>2 DEF Connect, Close, At, Writing
  <2>. QED  BY <1>0, <2>1, <2>2 DEF NoneSent
<1>3. CASE ForwardInput
  <2>1. \A u \in Unseen' : u \in Unseen
    <3>1. UNCHANGED <<origins, cursor, ring>>
      BY <1>3 DEF ForwardInput, queueVars, captureVars
    <3>. QED  BY <3>1, UnseenSame
  <2>2. ~Writing /\ UNCHANGED last
    BY <1>3 DEF ForwardInput, At, Writing, captureVars
  <2>3. CASE ~Writing'
    BY <1>0, <2>1, <2>2, <2>3 DEF NoneSent
  <2>4. CASE Writing'
    <3>1. pc' = "send" /\ \E c : calls' = <<c>>
      BY <1>3, <2>4 DEF ForwardInput, Writing
    <3>2. Len(calls') = 1
      BY <3>1
    <3>3. Never({"retransmit"})' => NoRequests
      BY <1>w, <2>2, NeverBefore DEF RequestsInv
    <3>4. NoRequests => NoRequests'
      BY <2>1 DEF NoRequests
    <3>. QED  BY <2>4, <3>1, <3>2, <3>3, <3>4 DEF RequestsInv
  <2>. QED  BY <2>3, <2>4
<1>4. CASE ForwardOutput \/ FindReceived
  <2>1. \A u \in Unseen' : u \in Unseen
    <3>1. CASE ForwardOutput
      <4>1. UNCHANGED <<origins, cursor, ring>>
        BY <3>1 DEF ForwardOutput, Q!Ask, queueVars, captureVars
      <4>. QED  BY <4>1, UnseenSame
    <3>2. CASE FindReceived
      BY <3>2, ReceivedFound
    <3>. QED  BY <1>4, <3>1, <3>2
  <2>2. ~Writing /\ ~Writing' /\ UNCHANGED last
    BY <1>4 DEF ForwardOutput, FindReceived, At, Writing, captureVars
  <2>. QED  BY <1>0, <2>1, <2>2 DEF NoneSent
<1>5. CASE Send
  BY <1>5, <1>w, RequestsOfSend
<1>6. CASE FindSent
  BY <1>6, <1>w, RequestsOfFind
<1>7. CASE AnswerRequest \/ Unasked \/ LateAnswer
  <2>1. /\ \A u \in Unseen' : u \in Unseen \/ ~Destination(u)
        /\ last' # <<>> /\ ~Destination(last'[1])
        /\ UNCHANGED <<proxyVars, forwarded>>
    BY <1>7, ServerSends, LateSends
  <2>. QED  BY <1>0, <2>1 DEF NoneSent, proxyVars
<1>8. CASE Retransmit
  <2>1. /\ last # <<>>
        /\ \A u \in Unseen' :
              u \in Unseen \/ (Destination(u) => Destination(last[1]))
        /\ Destination(last'[1]) => Destination(last[1])
        /\ UNCHANGED <<proxyVars, peerVars>>
        /\ "retransmit" \in incidents'.kinds
    BY <1>8, NetworkSends
  <2>2. ~Never({"retransmit"})'
    BY <2>1, NeverKind
  <2>3. (~Writing)' /\ ~canonical' =>
           NoRequests' /\ (last' # <<>> => ~Destination(last'[1]))
    <3> SUFFICES ASSUME (~Writing)', ~canonical'
                 PROVE  NoRequests' /\ ~Destination(last'[1])
      OBVIOUS
    <3>1. ~Writing /\ ~canonical
      BY <1>w, <2>1 DEF proxyVars, worldVars, Writing
    <3>2. NoRequests /\ ~Destination(last[1])
      BY <2>1, <3>1 DEF RequestsInv
    <3>. QED  BY <2>1, <3>2 DEF NoRequests
  <2>. QED  BY <2>2, <2>3 DEF RequestsInv
<1>. HIDE DEF G
<1>. QED
  BY <1>1, <1>2, <1>3, <1>4, <1>5, <1>6, <1>7, <1>8, QuietSteps, NextCases

LEMMA StepTx ==
    ASSUME SessionInv, LinkInv, WantInv, CallsInv, AgeInv, RequestsInv, TxInv,
           [Next]_vars
    PROVE  TxInv'
<1> DEFINE G == TxInv'
<1> SUFFICES G
  OBVIOUS
<1>w. /\ Never({"retransmit"})' => Never({"retransmit"})
      /\ UNCHANGED alike
  BY GrownWorld, NeverBefore DEF worldVars
<1>0. ASSUME UNCHANGED <<session, forwarded, tx_timestamp>>,
             pc # "closed" /\ ~Writing
      PROVE  G
  BY <1>w, <1>0 DEF TxInv, OwnTx, Destination
<1>1. ASSUME pc' = "closed" \/ Writing' PROVE G
  BY <1>1 DEF TxInv
<1>2. ASSUME UNCHANGED <<session, forwarded, tx_timestamp>>,
             UNCHANGED pc \/ (pc = "ask" /\ pc' = "search_sent")
             \/ (pc = "record" /\ pc' = "input")
      PROVE  G
  BY <1>0, <1>1, <1>2 DEF Writing
<1>3. Quiet => G
  BY <1>2 DEF Quiet
<1>4. CASE Connect
  <2>1. /\ session' = session + 1 /\ forwarded' = 0
        /\ UNCHANGED tx_timestamp
    BY <1>4 DEF Connect
  <2>2. tx_timestamp.session # session'
    <3>1. session \in Int /\ tx_timestamp.session \in Int
      BY Types DEF Segments
    <3>2. tx_timestamp.session <= session
      BY DEF AgeInv
    <3>. QED  BY <2>1, <3>1, <3>2
  <2>3. tx_timestamp'.session # session'
    BY <2>1, <2>2
  <2>. QED  BY <2>1, <2>3 DEF TxInv
<1>5. CASE ForwardInput
  <2>1. pc = "input" /\ UNCHANGED <<session, tx_timestamp>>
        /\ (UNCHANGED forwarded \/ pc' = "send")
    BY <1>5 DEF ForwardInput, At
  <2>. QED  BY <1>0, <1>1, <2>1 DEF Writing
<1>6. CASE Send
  BY <1>1, <1>6 DEF Send, At, Writing
<1>7. CASE FindSent
  <2>1. /\ pc = "search_sent" /\ Writing /\ UNCHANGED <<session, forwarded>>
        /\ calls' = Tail(calls) /\ tx_timestamp' = Found
        /\ pc' = IF calls' = <<>> THEN "output" ELSE "ask"
    BY <1>7 DEF FindSent, At, Found, Writing, peerVars
  <2>2. /\ Found \in Unseen /\ Destination(Found)
        /\ Found.size = Head(calls).size
        /\ ~alike => Found.first = Head(calls).first
    BY <1>7, SentFound
  <2>3. CASE Len(calls) # 1
    <3>1. calls' = <<Whole>>
      BY <2>1, <2>3, Pieces
    <3>2. pc' = "ask"
      <4>1. \A c : <<c>> # <<>>
        OBVIOUS
      <4>. QED  BY <2>1, <3>1, <4>1
    <3>. QED  BY <1>1, <3>2 DEF Writing
  <2>4. CASE Len(calls) = 1
    <3>1. /\ Head(calls) = Whole /\ Whole.first + Whole.size - 1 = forwarded
      BY <2>1, <2>4, Pieces DEF CallsInv
    <3>2. ASSUME ~alike
          PROVE  /\ Destination(Found)
                 /\ Found.first + Found.size - 1 = forwarded
      BY <2>2, <3>1, <3>2
    <3>3. ASSUME Never({"retransmit"})
          PROVE  /\ Found.session = session /\ Destination(Found)
                 /\ Found.first + Found.size - 1 = forwarded
      <4>1. InPieces \/ OnlyWhole
        BY <2>1, <3>3 DEF RequestsInv
      <4>2. ~InPieces
        <5>1. Whole.size = 2 /\ Found.size = 1 => FALSE
          BY <2>2, <3>1
        <5>. QED  BY <2>2, <5>1 DEF InPieces
      <4>. QED  BY <2>2, <4>1, <4>2 DEF OnlyWhole
    <3>4. OwnTx' = /\ Found.session = session /\ Destination(Found)
                   /\ Found.first + Found.size - 1 = forwarded
      BY <2>1 DEF OwnTx, Destination
    <3>5. tx_timestamp'.session = Found.session
      BY <2>1
    <3>6. Never({"retransmit"})' => OwnTx'
      BY <1>w, <3>3, <3>4
    <3>7. ~alike' => OwnTx' \/ tx_timestamp'.session # session'
      BY <1>w, <2>1, <3>2, <3>4, <3>5
    <3>. QED  BY <3>6, <3>7 DEF TxInv
  <2>. QED  BY <2>3, <2>4
<1>8. CASE ForwardOutput \/ FindReceived
  BY <1>0, <1>8 DEF ForwardOutput, FindReceived, At, Writing, peerVars
<1>9. CASE Close
  BY <1>1, <1>9 DEF Close
<1>10. CASE AnswerRequest \/ Unasked \/ LateAnswer \/ Retransmit
  <2>1. UNCHANGED <<proxyVars, forwarded>>
    BY <1>10, ServerSends, LateSends, NetworkSends DEF peerVars
  <2>. QED  BY <1>2, <2>1 DEF proxyVars
<1>. HIDE DEF G
<1>. QED
  BY <1>3, <1>4, <1>5, <1>6, <1>7, <1>8, <1>9, <1>10, QuietSteps, NextCases

-----------------------------------------------------------------------------
(***************************************************************************)
(* The packets of answers.                                                 *)
(***************************************************************************)

LEMMA AnswersType ==
    ASSUME SessionInv
    PROVE  \A u \in Answers : /\ u \in Unseen /\ u \in Segments
                              /\ u.first \in Int /\ u.size \in Int
                              /\ u.at \in Nat
BY UnseenType DEF Answers, Segments

\* A new session finds no answer of its own.
LEMMA NewSession ==
    ASSUME SessionInv, AgeInv, Connect
    PROVE  Answers' = {}
<1>1. session \in Int /\ session' = session + 1
  BY Types DEF Connect
<1>2. \A u \in Unseen' : u \in Unseen
  BY UnseenOfStop
<1>3. \A u \in Unseen : u.session # session'
  <2>1. ASSUME NEW u \in Unseen PROVE u.session # session'
    <3>1. u.session \in Int /\ u.session <= session
      BY UnseenType DEF AgeInv, Segments
    <3>. QED  BY <1>1, <3>1
  <2>. QED  BY <2>1
<1>. QED  BY <1>2, <1>3 DEF Answers

\* An answer that is late is of an earlier session.
LEMMA LateOlder ==
    ASSUME SessionInv, AgeInv, LateAnswer, pc # "closed"
    PROVE  \A u \in Answers' : u \in Answers
<1>1. /\ owed # <<>>
      /\ \A u \in Unseen' : u \in Unseen \/ u.session = Head(owed).session
      /\ UNCHANGED session
  BY LateSends DEF proxyVars
<1>2. Head(owed).session < session
  <2>1. owed \in Seq([session : Int, first : Int])
    BY Types
  <2>2. 1 \in 1 .. Len(owed) /\ Head(owed) = owed[1]
    BY <1>1, <2>1, EmptySeq, LenProperties
  <2>. QED  BY <2>2 DEF AgeInv
<1>3. Head(owed).session # session
  <2>1. session \in Int
    BY Types
  <2>. QED  BY <1>2, <2>1
<1>. QED  BY <1>1, <1>3 DEF Answers

LEMMA StepAnswers ==
    ASSUME SessionInv, LinkInv, WantInv, CallsInv, ChunkInv, AgeInv,
           RequestsInv, AnswersInv, [Next]_vars
    PROVE  AnswersInv'
<1> DEFINE G == AnswersInv'
<1> SUFFICES G
  OBVIOUS
<1>w. Never({"retransmit"})' => Never({"retransmit"})
  BY GrownWorld, NeverBefore
<1>0. ASSUME \A u \in Unseen' : ~Destination(u) => u \in Unseen,
             pc # "closed", UNCHANGED session, server'.sent = server.sent
      PROVE  G
  <2>1. \A u \in Answers' : u \in Answers
    BY <1>0 DEF Answers
  <2>. QED  BY <1>w, <1>0, <2>1 DEF AnswersInv
<1>1. CASE pc' = "closed"
  BY <1>1 DEF AnswersInv
<1>2. CASE pc = "closed" /\ UNCHANGED pc
  BY <1>1, <1>2
<1>3. Quiet => G
  <2> SUFFICES ASSUME Quiet PROVE G
    OBVIOUS
  <2>1. CASE pc # "closed"
    BY <1>0, <2>1 DEF Quiet
  <2>2. CASE pc = "closed"
    <3>1. UNCHANGED pc
      BY <2>2 DEF Quiet
    <3>. QED  BY <1>2, <2>2, <3>1
  <2>. QED  BY <2>1, <2>2
<1>4. CASE Connect
  <2>1. Answers' = {}
    BY <1>4, NewSession
  <2>. QED  BY <2>1 DEF AnswersInv
<1>5. CASE ForwardInput \/ ForwardOutput
  <2>1. /\ UNCHANGED <<origins, cursor, ring, session>> /\ pc # "closed"
    BY <1>5 DEF ForwardInput, ForwardOutput, At, Q!Ask, queueVars, captureVars
  <2>2. server'.sent = server.sent
    <3>1. server \in [answered : Int, sent : Int, read : Int]
      BY Types
    <3>. QED  BY <1>5, <3>1 DEF ForwardInput, ForwardOutput
  <2>. QED  BY <1>0, <2>1, <2>2, UnseenSame
<1>6. CASE Send
  <2>1. \A u \in Unseen' : ~Destination(u) => u \in Unseen
    BY <1>6, ProxySends DEF Sending
  <2>. QED  BY <1>0, <1>6, <2>1 DEF Send, At, peerVars
<1>7. CASE FindSent \/ FindReceived
  <2>1. \A u \in Unseen' : u \in Unseen
    BY <1>7, SentFound, ReceivedFound
  <2>. QED  BY <1>0, <1>7, <2>1 DEF FindSent, FindReceived, At, peerVars
<1>8. CASE Close
  BY <1>1, <1>8 DEF Close
<1>9. CASE AnswerRequest \/ Unasked
  <2>1. /\ \A u \in Unseen' :
              \/ u \in Unseen
              \/ /\ u.first <= server'.sent
                 /\ u.first + u.size - 1 <= server'.sent
        /\ server.sent < server'.sent /\ server'.sent \in Int
        /\ UNCHANGED session /\ pc # "closed"
    BY <1>9, ServerSends DEF proxyVars
  <2>2. server.sent \in Int
    BY Types
  <2>3. ASSUME Never({"retransmit"}), NEW u \in Answers'
        PROVE  /\ u.first <= server'.sent
               /\ u.first + u.size - 1 <= server'.sent
    <3>1. CASE u \in Unseen
      <4>1. u \in Answers
        BY <2>1, <2>3, <3>1 DEF Answers
      <4>2. u.first <= server.sent /\ u.first + u.size - 1 <= server.sent
        BY <2>1, <2>3, <4>1 DEF AnswersInv
      <4>. QED  BY <2>1, <2>2, <4>1, <4>2, AnswersType
    <3>2. CASE u \notin Unseen
      BY <2>1, <2>3, <3>2 DEF Answers
    <3>. QED  BY <3>1, <3>2
  <2>. QED  BY <1>w, <2>3 DEF AnswersInv
<1>10. CASE LateAnswer
  <2>1. CASE pc = "closed"
    BY <1>2, <1>10, <2>1, LateSends DEF proxyVars
  <2>2. CASE pc # "closed"
    <3>1. \A u \in Answers' : u \in Answers
      BY <1>10, <2>2, LateOlder
    <3>2. UNCHANGED server
      BY <1>10, LateSends
    <3>. QED  BY <1>w, <2>2, <3>1, <3>2 DEF AnswersInv
  <2>. QED  BY <2>1, <2>2
<1>11. CASE Retransmit
  <2>1. ~Never({"retransmit"})'
    BY <1>11, NetworkSends, NeverKind
  <2>. QED  BY <2>1 DEF AnswersInv
<1>. HIDE DEF G
<1>. QED
  BY <1>3, <1>4, <1>5, <1>6, <1>7, <1>8, <1>9, <1>10, <1>11, QuietSteps,
     NextCases

Leftovers == {"retransmit", "unasked", "early_leave"}

\* Nothing of an answer is captured or read.
NoneReceived ==
    /\ \A u \in Unseen' : ~Destination(u) => u \in Unseen
    /\ pc # "closed" /\ pc' # "closed"
    /\ UNCHANGED <<session, server, chunk>>
    /\ (pc' = "search_received") = (pc = "search_received")

LEMMA OnlyOwnKept == OnlyOwn /\ NoneReceived => OnlyOwn'
<1> SUFFICES ASSUME OnlyOwn, NoneReceived PROVE OnlyOwn'
  OBVIOUS
<1>1. Base' = Base
  BY DEF NoneReceived, Base
<1>2. \A u \in Answers' : u \in Answers
  BY DEF NoneReceived, Answers
<1>. QED  BY <1>1, <1>2 DEF OnlyOwn, NoneReceived

\* The client stays, and where the proxy is matters no more than it did.
LEMMA DepartedKept ==
    ASSUME Departed, UNCHANGED <<client, server>>,
           pc' \in {"close", "search_received", "record"} =>
              pc' = pc \/ (pc' = "close" /\ client.gone)
    PROVE  Departed'
BY DEF Departed, Answered

\* An answer counts as one, of whatever size it is.
LEMMA AnswerCounts ==
    ASSUME SessionInv, AnswerRequest
    PROVE  \E size \in 1 .. 2 : /\ server'.answered = server.answered + 1
                               /\ server'.sent = server.sent + size
<1>1. /\ server \in [answered : Int, sent : Int, read : Int]
  BY Types
<1>2. PICK size \in 1 .. 2 :
         server' = [server EXCEPT !.answered = @ + 1, !.sent = @ + size]
  BY DEF AnswerRequest
<1>3. server.answered + 1 \in Int /\ server.sent + size \in Int
  BY <1>1
<1>. QED  BY <1>1, <1>2, <1>3

LEMMA UnseenTypeStep ==
    ASSUME SessionInv, [Next]_vars
    PROVE  \A u \in Unseen' : u \in Segments
<1>1. SessionInv'
  BY SessionInvStep
<1>2. SessionInv' => (\A u \in Unseen : u \in Segments)'
  BY UnseenType, PTL
<1>. QED  BY <1>1, <1>2

LEMMA StepLeft ==
    ASSUME SessionInv, PlaceInv, LinkInv, WantInv, CallsInv, ChunkInv, AgeInv,
           RequestsInv, AnswersInv, LeftInv, [Next]_vars
    PROVE  LeftInv'
<1> DEFINE G == LeftInv'
<1> SUFFICES G
  OBVIOUS
<1>w. Never(Leftovers)' => Never(Leftovers) /\ Never({"retransmit"})
  <2>1. Never(Leftovers)' => Never(Leftovers)
    BY GrownWorld, NeverBefore
  <2>2. Never(Leftovers) => Never({"retransmit"})
    BY DEF Never, Some, Leftovers
  <2>. QED  BY <2>1, <2>2
<1>v. Never(Leftovers) =>
         /\ owed = <<>>
         /\ pc = "closed" => \A u \in Unseen : Destination(u)
         /\ pc # "closed" => OnlyOwn /\ Departed
  BY DEF LeftInv, Leftovers
<1>t. /\ server \in [answered : Int, sent : Int, read : Int]
      /\ client \in [sent : Int, ends : Seq(Int), gone : BOOLEAN]
      /\ server.read <= server.sent /\ Len(client.ends) \in Nat
  BY Types DEF PlaceInv
<1>0. ASSUME Never(Leftovers)' => /\ owed' = <<>>
                                  /\ pc' # "closed" /\ OnlyOwn' /\ Departed'
      PROVE  G
  BY <1>0 DEF LeftInv, Leftovers
<1>1. ASSUME NoneReceived, UNCHANGED <<client, owed>>,
             pc' \in {"close", "search_received", "record"} =>
                pc' = pc \/ (pc' = "close" /\ client.gone)
      PROVE  G
  <2>1. Departed => Departed'
    BY <1>1, DepartedKept DEF NoneReceived
  <2>2. OnlyOwn => OnlyOwn'
    BY <1>1, OnlyOwnKept
  <2>. QED  BY <1>w, <1>v, <1>1, <2>1, <2>2 DEF LeftInv, Leftovers,
                                                NoneReceived
<1>2. ASSUME pc = "closed", UNCHANGED <<pc, owed>>,
             \A u \in Unseen' : u \in Unseen
      PROVE  G
  BY <1>w, <1>v, <1>2 DEF LeftInv, Leftovers, Destination
<1>q. ASSUME Quiet, UNCHANGED client PROVE G
  <2>1. CASE pc = "closed"
    BY <1>2, <1>q, <2>1 DEF Quiet
  <2>2. CASE pc # "closed"
    BY <1>1, <1>q, <2>2 DEF Quiet, NoneReceived
  <2>. QED  BY <2>1, <2>2
<1>3. CASE AskSent \/ WriteRecord \/ HandlePacket \/ FailLoop
           \/ TakeFlag \/ UNCHANGED vars
  <2>1. Quiet
    BY <1>3, QuietSteps
  <2>2. UNCHANGED client
    BY <1>3 DEF AskSent, WriteRecord, HandlePacket, FailLoop, TakeFlag, vars,
                peerVars
  <2>. QED  BY <1>q, <2>1, <2>2
<1>4. CASE SendUnit \/ Leave
  <2>1. /\ Quiet /\ pc # "closed" /\ UNCHANGED <<pc, server, owed>>
        /\ ~client.gone
    BY <1>4, QuietSteps DEF SendUnit, Leave, Connected, proxyVars
  <2>2. NoneReceived
    BY <2>1 DEF Quiet, NoneReceived
  <2>3. /\ OnlyOwn => OnlyOwn'
    BY <2>2, OnlyOwnKept
  <2>4. CASE SendUnit
    <3>1. ~client'.gone /\ Len(client'.ends) >= Len(client.ends)
      <4>1. CASE client' = [client EXCEPT !.sent = @ + 1]
        BY <1>t, <2>1, <4>1
      <4>2. CASE \E end : client' = Beginning(end)
        <5>1. PICK end : client' = Beginning(end)
          BY <4>2
        <5>2. /\ client'.gone = client.gone
              /\ client'.ends = Append(client.ends, end)
          BY <1>t, <5>1 DEF Beginning
        <5>. QED  BY <1>t, <2>1, <5>2
      <4>. QED  BY <2>4, <4>1, <4>2 DEF SendUnit
    <3>2. Departed => Departed'
      <4>1. Len(client'.ends) \in Nat
        <5>1. SessionInv'
          BY SessionInvStep
        <5>2. client'.ends \in Seq(Int)
          BY <5>1 DEF SessionInv, SessionType
        <5>. QED  BY <5>2, LenProperties
      <4>. QED  BY <1>t, <2>1, <3>1, <4>1 DEF Departed
    <3>. QED  BY <1>0, <1>w, <1>v, <2>1, <2>3, <3>2
  <2>5. CASE Leave
    <3>1. /\ client' = [client EXCEPT !.gone = TRUE]
          /\ Answered \/ "early_leave" \in incidents'.kinds
      BY <2>5, OrdinaryGrows DEF Leave
    <3>2. Never(Leftovers)' => Answered
      BY <3>1, NeverKind DEF Leftovers
    <3>3. client'.ends = client.ends /\ client'.gone = TRUE
      BY <1>t, <3>1
    <3>4. Answered => Answered'
      BY <2>1, <3>3 DEF Answered
    <3>5. Departed /\ Answered => Departed'
      BY <2>1, <3>3, <3>4 DEF Departed
    <3>. QED  BY <1>0, <1>w, <1>v, <2>1, <2>3, <3>2, <3>5
  <2>. QED  BY <1>4, <2>4, <2>5
<1>5. CASE Connect
  <2>1. /\ pc = "closed" /\ pc' = "input" /\ UNCHANGED owed
        /\ client' = NewClient /\ server' = NewServer
    BY <1>5 DEF Connect, At
  <2>2. \A u \in Unseen' : u \in Unseen
    BY <1>5, UnseenOfStop
  <2>3. Departed'
    BY <2>1 DEF Departed, NewClient, NewServer
  <2>4. (\A u \in Unseen : Destination(u)) => OnlyOwn'
    BY <2>2 DEF OnlyOwn, Answers, Destination
  <2>. QED  BY <1>0, <1>w, <1>v, <2>1, <2>3, <2>4
<1>6. CASE ForwardInput
  <2>1. /\ pc = "input" /\ pc' \in {"send", "close", "output"}
        /\ pc' = "close" => client.gone
        /\ UNCHANGED <<session, chunk, server, client, owed, origins, cursor,
                       ring>>
    BY <1>6 DEF ForwardInput, At, queueVars, captureVars
  <2>2. NoneReceived
    BY <2>1, UnseenSame DEF NoneReceived
  <2>. QED  BY <1>1, <2>1, <2>2
<1>7. CASE Send \/ FindSent
  <2>1. /\ pc # "closed" /\ pc \notin {"search_received"}
        /\ pc' \in {"send", "ask", "output"}
        /\ UNCHANGED <<session, chunk, server, client, owed>>
    BY <1>7 DEF Send, FindSent, At, peerVars
  <2>2. \A u \in Unseen' : ~Destination(u) => u \in Unseen
    BY <1>7, ProxySends, SentFound DEF Sending
  <2>3. NoneReceived
    BY <2>1, <2>2 DEF NoneReceived
  <2>. QED  BY <1>1, <2>1, <2>3
<1>8. CASE ForwardOutput
  <2> DEFINE n == Taken(server.sent - server.read)
  <2>1. /\ pc = "output"
        /\ UNCHANGED <<session, client, owed, origins, cursor, ring>>
    BY <1>8 DEF ForwardOutput, At, Q!Ask, queueVars, captureVars
  <2>2. \A u \in Unseen' : u \in Unseen
    BY <2>1, UnseenSame
  <2>3. CASE ~(n > 0)
    <3>1. pc' = "input" /\ UNCHANGED <<chunk, server>>
      BY <1>8, <2>3 DEF ForwardOutput
    <3>. QED  BY <1>1, <2>1, <2>2, <3>1 DEF NoneReceived
  <2>4. CASE n > 0
    <3>1. /\ pc' = "search_received"
          /\ chunk' = [first |-> server.read + 1, size |-> n]
          /\ server' = [server EXCEPT !.read = @ + n]
      BY <1>8, <2>4 DEF ForwardOutput
    <3>2. n \in {1, 2} /\ n <= server.sent - server.read
      BY <1>t, <2>4, TakenSize
    <3>. HIDE DEF n
    <3>3. /\ server'.read - chunk'.size = server.read
          /\ server'.answered = server.answered
      BY <1>t, <3>1, <3>2
    <3>4. Base' = server.read /\ Base = server.read
      BY <2>1, <3>1, <3>3 DEF Base
    <3>5. OnlyOwn => OnlyOwn'
      <4>1. \A u \in Answers' : u \in Answers
        BY <2>1, <2>2 DEF Answers
      <4>. QED  BY <2>1, <2>2, <3>4, <4>1 DEF OnlyOwn
    <3>6. Departed => Departed'
      <4>1. ~Answered
        BY <1>t, <3>2 DEF Answered
      <4>. QED  BY <2>1, <3>1, <3>3, <4>1 DEF Departed
    <3>. QED  BY <1>0, <1>w, <1>v, <2>1, <3>1, <3>5, <3>6
  <2>. QED  BY <2>3, <2>4
<1>9. CASE FindReceived
  <2>1. /\ pc = "search_received" /\ pc' = "record"
        /\ UNCHANGED <<session, chunk, client, server, owed>>
    BY <1>9 DEF FindReceived, At, peerVars
  <2>2. /\ Found \in Unseen /\ ~Destination(Found) /\ Found \in Segments
        /\ Found.size = chunk.size
        /\ \A u \in Unseen' : u \in Unseen /\ Found.at < u.at
    BY <1>9, ReceivedFound
  <2>3. /\ chunk.size \in {1, 2} /\ Base = server.read - chunk.size
        /\ Base' = server.read
    BY <2>1 DEF ChunkInv, Base
  <2>4. OnlyOwn => OnlyOwn'
    <3> SUFFICES ASSUME OnlyOwn PROVE OnlyOwn'
      OBVIOUS
    <3>1. Found \in Answers /\ Found.first > Base
      BY <2>2 DEF OnlyOwn, Answers
    <3>2. \A u \in Answers' : u \in Answers
      BY <2>1, <2>2 DEF Answers
    <3>3. ASSUME NEW u \in Unseen', ~Destination(u)
          PROVE  u.session = session /\ u.first > server.read
      <4>1. u \in Unseen /\ Found.at < u.at
        BY <2>2
      <4>2. u.session = session /\ u \in Answers
        BY <3>3, <4>1 DEF OnlyOwn, Answers
      <4>3. Found.first + Found.size <= u.first
        BY <3>1, <4>1, <4>2 DEF OnlyOwn
      <4>4. u.first \in Int /\ Found.first \in Int
        BY <3>1, <4>2, AnswersType
      <4>. QED  BY <1>t, <2>2, <2>3, <3>1, <4>2, <4>3, <4>4
    <3>. QED  BY <2>1, <2>3, <3>2, <3>3 DEF OnlyOwn
  <2>5. Departed => Departed'
    BY <2>1 DEF Departed, Answered
  <2>. QED  BY <1>0, <1>w, <1>v, <2>1, <2>4, <2>5
<1>10. CASE Close
  <2>1. /\ pc = "close" /\ pc' = "closed"
        /\ server.answered = Len(client.ends) => UNCHANGED owed
    BY <1>10, <1>t DEF Close, At
  <2>2. \A u \in Unseen' : u \in Unseen
    BY <1>10, UnseenOfStop
  <2> SUFFICES ASSUME Never(Leftovers)'
               PROVE  owed' = <<>> /\ \A u \in Unseen' : Destination(u)
    BY <2>1 DEF LeftInv, Leftovers
  <2>3. owed = <<>> /\ OnlyOwn /\ Departed
    BY <1>w, <1>v, <2>1
  <2>4. Answered
    BY <2>1, <2>3 DEF Departed
  <2>5. ASSUME NEW u \in Unseen PROVE Destination(u)
    <3> SUFFICES ASSUME ~Destination(u) PROVE FALSE
      OBVIOUS
    <3>1. u \in Answers /\ u.first > Base
      BY <2>3, <2>5 DEF OnlyOwn, Answers
    <3>2. Base = server.sent
      BY <2>1, <2>4 DEF Base, Answered
    <3>3. u.first <= server.sent
      BY <1>w, <2>1, <3>1 DEF AnswersInv
    <3>4. u.first \in Int
      BY <3>1, AnswersType
    <3>. QED  BY <1>t, <3>1, <3>2, <3>3, <3>4
  <2>. QED  BY <2>1, <2>2, <2>3, <2>4, <2>5 DEF Answered
<1>11. CASE AnswerRequest
  <2>1. /\ \A u \in Unseen' :
              \/ u \in Unseen
              \/ /\ ~Destination(u) /\ u.session = session
                 /\ server.sent < u.first /\ now < u.at
        /\ \A u, v \in Unseen' :
              \/ u \in Unseen \/ v \in Unseen
              \/ u.at < v.at => u.first + u.size <= v.first
        /\ server'.read = server.read
        /\ UNCHANGED <<session, pc, chunk, client, owed>> /\ pc # "closed"
    BY <1>11, ServerSends DEF proxyVars
  <2>2. /\ server.answered < Len(client.ends)
        /\ server'.answered = server.answered + 1
    BY <1>11, <1>t, AnswerCounts DEF AnswerRequest
  <2>3. Base' = Base /\ Base <= server.sent /\ Base \in Int
    <3>1. pc = "search_received" => chunk.size \in {1, 2}
      BY DEF ChunkInv
    <3>. QED  BY <1>t, <2>1, <3>1 DEF Base
  <2>4. OnlyOwn /\ Never({"retransmit"}) => OnlyOwn'
    <3> SUFFICES ASSUME OnlyOwn, Never({"retransmit"}) PROVE OnlyOwn'
      OBVIOUS
    <3>t. \A u \in Unseen' : u \in Segments
      BY UnseenTypeStep
    <3>1. \A u \in Unseen' : ~Destination(u) =>
             u.session = session /\ u.first > Base
      <4>1. ASSUME NEW u \in Unseen', ~Destination(u)
            PROVE  u.session = session /\ u.first > Base
        <5>1. CASE u \in Unseen
          BY <4>1, <5>1 DEF OnlyOwn
        <5>2. CASE u \notin Unseen
          <6>1. server.sent < u.first /\ u.first \in Int
            BY <2>1, <3>t, <5>2 DEF Segments
          <6>. QED  BY <1>t, <2>1, <2>3, <5>2, <6>1
        <5>. QED  BY <5>1, <5>2
      <4>. QED  BY <4>1
    <3>2. ASSUME NEW u \in Answers', NEW v \in Answers', u.at < v.at
          PROVE  u.first + u.size <= v.first
      <4>1. /\ u \in Unseen' /\ v \in Unseen'
            /\ ~Destination(u) /\ ~Destination(v)
            /\ u.session = session /\ v.session = session
        BY <2>1 DEF Answers
      <4>2. /\ u.first \in Int /\ u.size \in Int /\ u.at \in Int
            /\ v.first \in Int /\ v.at \in Int /\ now \in Int
        <5>1. u \in Segments /\ v \in Segments
          BY <3>t, <4>1
        <5>2. now \in Nat
          BY Types
        <5>. QED  BY <5>1, <5>2 DEF Segments
      <4>3. CASE u \in Unseen /\ v \in Unseen
        BY <3>2, <4>1, <4>3 DEF OnlyOwn, Answers
      <4>4. CASE u \in Unseen /\ v \notin Unseen
        <5>1. u.first + u.size - 1 <= server.sent
          BY <2>1, <4>1, <4>4 DEF AnswersInv, Answers
        <5>2. server.sent < v.first
          BY <2>1, <4>1, <4>4
        <5>. QED  BY <1>t, <4>2, <5>1, <5>2
      <4>5. CASE u \notin Unseen /\ v \in Unseen
        <5>1. now < u.at
          BY <2>1, <4>1, <4>5
        <5>2. v.at <= now
          BY <4>5, UnseenPast
        <5>. QED  BY <3>2, <4>2, <5>1, <5>2
      <4>6. CASE u \notin Unseen /\ v \notin Unseen
        BY <2>1, <3>2, <4>1, <4>6
      <4>. QED  BY <4>3, <4>4, <4>5, <4>6
    <3>. QED  BY <2>1, <2>3, <3>1, <3>2 DEF OnlyOwn
  <2>5. Departed => Departed'
    <3>1. Departed => ~client.gone
      BY <1>t, <2>2 DEF Departed, Answered
    <3>. QED  BY <1>t, <2>1, <2>2, <3>1 DEF Departed
  <2>. QED  BY <1>0, <1>w, <1>v, <2>1, <2>4, <2>5
<1>12. CASE Unasked
  <2>1. ~Never(Leftovers)'
    BY <1>12, IncidentGrows, NeverKind DEF Unasked, Leftovers
  <2>. QED  BY <1>0, <2>1
<1>13. CASE Retransmit
  <2>1. ~Never(Leftovers)'
    BY <1>13, NetworkSends, NeverKind DEF Leftovers
  <2>. QED  BY <1>0, <2>1
<1>14. CASE LateAnswer
  <2>1. owed # <<>>
    BY <1>14, LateSends
  <2>. QED  BY <1>0, <1>w, <1>v, <2>1
<1>. HIDE DEF G
<1>. QED
  BY <1>3, <1>4, <1>5, <1>6, <1>7, <1>8, <1>9, <1>10, <1>11, <1>12, <1>13,
     <1>14, NextCases

Early == {"retransmit", "unasked", "pipelined"}

\* No answer is captured, nothing is sent or read, and no request begins.
NothingNew ==
    /\ \A u \in Unseen' : u \in Unseen
    /\ pc # "closed"
    /\ UNCHANGED <<session, server, chunk, calls, forwarded>>
    /\ client'.ends = client.ends
    /\ \/ UNCHANGED pc
       \/ pc = "ask" /\ pc' = "search_sent"
       \/ pc = "record" /\ pc' = "input"

LEMMA TurnKept == InTurn /\ Passed /\ NothingNew => InTurn' /\ Passed'
<1> SUFFICES ASSUME InTurn, Passed, NothingNew PROVE InTurn' /\ Passed'
  OBVIOUS
<1>1. /\ pc' \in {"search_received", "record"} =>
            pc \in {"search_received", "record"}
      /\ (pc' = "search_received") = (pc = "search_received")
      /\ (pc' = "send") = (pc = "send") /\ Writing' = Writing
  BY DEF NothingNew, Writing
<1>2. InTurn'
  BY <1>1 DEF NothingNew, InTurn
<1>3. Replying' = Replying
  BY <1>1 DEF NothingNew, Replying, Arrived
<1>4. Base' = Base
  BY <1>1 DEF NothingNew, Base
<1>5. \A u \in Answers' : u \in Answers
  BY DEF NothingNew, Answers
<1>6. Passed'
  BY <1>1, <1>3, <1>4, <1>5 DEF NothingNew, Passed, Destination
<1>. QED  BY <1>2, <1>6

LEMMA StepTurn ==
    ASSUME SessionInv, PlaceInv, LinkInv, WantInv, CallsInv, ChunkInv, AgeInv,
           RequestsInv, AnswersInv, TurnInv, [Next]_vars
    PROVE  TurnInv'
<1> DEFINE G == TurnInv'
<1> SUFFICES G
  OBVIOUS
<1>w. Never(Early)' => Never(Early) /\ Never({"retransmit"})
  <2>1. Never(Early)' => Never(Early)
    BY GrownWorld, NeverBefore
  <2>2. Never(Early) => Never({"retransmit"})
    BY DEF Never, Some, Early
  <2>. QED  BY <2>1, <2>2
<1>v. Never(Early) /\ pc # "closed" => InTurn /\ Passed
  BY DEF TurnInv, Early
<1>t. /\ server \in [answered : Int, sent : Int, read : Int]
      /\ client \in [sent : Int, ends : Seq(Int), gone : BOOLEAN]
      /\ server.read <= server.sent /\ Len(client.ends) \in Nat
      /\ forwarded \in Int /\ forwarded <= client.sent
  BY Types DEF PlaceInv
<1>0. ASSUME Never(Early)' /\ pc' # "closed" => InTurn' /\ Passed'
      PROVE  G
  BY <1>0 DEF TurnInv, Early
<1>1. NothingNew => G
  BY <1>0, <1>w, <1>v, TurnKept DEF NothingNew
<1>2. ASSUME pc' = "closed" PROVE G
  BY <1>0, <1>2
<1>q. ASSUME Quiet, client'.ends = client.ends PROVE G
  <2>1. CASE pc = "closed"
    <3>1. pc' = "closed"
      BY <1>q, <2>1 DEF Quiet
    <3>. QED  BY <1>2, <3>1
  <2>2. CASE pc # "closed"
    BY <1>1, <1>q, <2>2 DEF Quiet, NothingNew
  <2>. QED  BY <2>1, <2>2
<1>3. CASE AskSent \/ WriteRecord \/ HandlePacket \/ FailLoop
           \/ TakeFlag \/ UNCHANGED vars
  <2>1. Quiet
    BY <1>3, QuietSteps
  <2>2. UNCHANGED client
    BY <1>3 DEF AskSent, WriteRecord, HandlePacket, FailLoop, TakeFlag, vars,
                peerVars
  <2>. QED  BY <1>q, <2>1, <2>2
<1>4. CASE Leave
  <2>1. client' = [client EXCEPT !.gone = TRUE]
    BY <1>4 DEF Leave
  <2>2. client'.ends = client.ends
    BY <1>t, <2>1
  <2>. QED  BY <1>4, <1>q, <2>2, QuietSteps
<1>5. CASE SendUnit
  <2>1. /\ Quiet /\ pc # "closed"
        /\ UNCHANGED <<session, server, chunk, calls, forwarded, pc>>
    BY <1>5, QuietSteps DEF SendUnit, Connected, proxyVars
  <2>2. CASE client' = [client EXCEPT !.sent = @ + 1]
    <3>1. client'.ends = client.ends
      BY <1>t, <2>2
    <3>. QED  BY <1>q, <2>1, <3>1
  <2>3. ASSUME NEW end \in {client.sent + 1, client.sent + 2},
               client' = Beginning(end),
               Answered \/ "pipelined" \in incidents'.kinds
        PROVE  G
    <3>1. /\ client'.ends = Append(client.ends, end) /\ end \in Int
          /\ forwarded < end
      <4>1. client.sent \in Int
        BY <1>t
      <4>2. end \in Int /\ forwarded < end
        BY <1>t, <4>1
      <4>3. client'.ends = Append(client.ends, end)
        BY <1>t, <2>3 DEF Beginning
      <4>. QED  BY <4>2, <4>3
    <3>2. /\ Len(client'.ends) = Len(client.ends) + 1
          /\ client'.ends[Len(client.ends) + 1] = end
      BY <1>t, <3>1
    <3> SUFFICES ASSUME Never(Early)' PROVE InTurn' /\ Passed'
      BY <1>0
    <3>3. Answered
      BY <2>3, NeverKind DEF Early
    <3>4. InTurn /\ Passed
      BY <1>w, <1>v, <2>1
    <3>5. InTurn'
      <4>1. /\ Len(client'.ends) = server.answered + 1
            /\ server.read = server.sent
            /\ pc \notin {"search_received", "record"}
        BY <3>2, <3>3 DEF Answered
      <4>2. server.sent <= server.read + BUFSIZE
        BY <3>4 DEF InTurn
      <4>3. Len(client'.ends) \in {server.answered, server.answered + 1}
        BY <4>1
      <4>. QED  BY <2>1, <4>1, <4>2, <4>3 DEF InTurn
    <3>6. ~Writing => ~Replying'
      <4> SUFFICES ASSUME ~Writing PROVE ~Replying'
        OBVIOUS
      <4>1. Arrived' = forwarded
        BY <2>1 DEF Writing, Arrived
      <4>2. client'.ends[server'.answered + 1] = end
        BY <2>1, <3>2, <3>3 DEF Answered
      <4>3. ~(server'.read < server'.sent) /\ pc' # "search_received"
        BY <1>t, <2>1, <3>3 DEF Answered
      <4>4. ~(end <= forwarded)
        BY <1>t, <3>1
      <4>. QED  BY <4>1, <4>2, <4>3, <4>4 DEF Replying
    <3>7. Base' = Base /\ Writing' = Writing
      BY <2>1 DEF Base, Writing
    <3>8. Passed'
      <4>1. \A u \in Answers' : u \in Answers
        BY <2>1 DEF Quiet, Answers
      <4>. QED
        BY <2>1, <3>4, <3>6, <3>7, <4>1 DEF Quiet, Passed, Destination
    <3>. QED  BY <3>5, <3>8
  <2>. QED
    <3>1. \/ client' = [client EXCEPT !.sent = @ + 1]
          \/ /\ client' = Beginning(client.sent + 1)
             /\ Ordinary(Answered, "pipelined")
          \/ client' = Beginning(client.sent + 2) /\ Answered
      BY <1>5 DEF SendUnit
    <3>2. Ordinary(Answered, "pipelined") =>
             Answered \/ "pipelined" \in incidents'.kinds
      BY OrdinaryGrows
    <3>. HIDE DEF G
    <3>. QED  BY <2>2, <2>3, <3>1, <3>2
<1>6. CASE Connect
  <2>1. pc' = "input" /\ client' = NewClient /\ server' = NewServer
    BY <1>6 DEF Connect
  <2>2. InTurn'
    BY <2>1 DEF InTurn, NewClient, NewServer, BUFSIZE
  <2>3. Passed'
    BY <1>6, NewSession DEF Passed
  <2>. QED  BY <1>0, <2>2, <2>3
<1>7. CASE ForwardInput
  <2>1. /\ pc = "input" /\ pc' \in {"send", "close", "output"}
        /\ UNCHANGED <<session, chunk, server, client, origins, cursor, ring>>
        /\ UNCHANGED forwarded \/ pc' = "send"
    BY <1>7 DEF ForwardInput, At, queueVars, captureVars
  <2> SUFFICES ASSUME Never(Early)' PROVE InTurn' /\ Passed'
    BY <1>0
  <2>2. InTurn /\ Passed /\ NoRequests
    BY <1>w, <1>v, <2>1 DEF RequestsInv, Writing
  <2>3. InTurn'
    BY <2>1, <2>2 DEF InTurn
  <2>4. /\ \A u \in Unseen' : u \in Unseen
        /\ \A u \in Answers' : u \in Answers
    BY <2>1, UnseenSame DEF Answers
  <2>5. Base' = Base
    BY <2>1 DEF Base
  <2>6. CASE pc' = "send"
    <3>1. Writing'
      BY <2>6 DEF Writing
    <3>2. \A v \in Unseen' : ~Destination(v)
      BY <2>2, <2>4 DEF NoRequests
    <3>3. Passed'
      BY <3>1, <3>2 DEF Passed, Destination
    <3>. QED  BY <2>3, <3>3
  <2>7. CASE pc' # "send"
    <3>1. ~Writing /\ (~Writing)'
      BY <2>1, <2>7 DEF Writing
    <3>2. Replying' = Replying
      BY <2>1, <2>7 DEF Replying, Arrived
    <3>3. Passed'
      BY <2>2, <2>4, <2>5, <3>1, <3>2 DEF Passed
    <3>. QED  BY <2>3, <3>3
  <2>. QED  BY <2>3, <2>6, <2>7
<1>8. CASE Send
  <2>1. /\ pc = "send" /\ pc' \in {"send", "ask"}
        /\ UNCHANGED <<session, chunk, server, client>>
    BY <1>8 DEF Send, At, peerVars
  <2> SUFFICES ASSUME Never(Early)' PROVE InTurn' /\ Passed'
    BY <1>0
  <2>2. InTurn /\ Passed
    BY <1>w, <1>v, <2>1
  <2>3. InTurn'
    BY <2>1, <2>2 DEF InTurn
  <2>4. \A u \in Unseen' : u \in Unseen \/ (Destination(u) /\ now < u.at)
    BY <1>8, ProxySends DEF Sending
  <2>5. \A u \in Answers' : u \in Answers
    BY <2>1, <2>4 DEF Answers
  <2>6. Base' = Base /\ Writing /\ Writing'
    BY <2>1 DEF Base, Writing
  <2>7. ASSUME NEW u \in Answers, u.first <= Base,
               NEW v \in Unseen', Destination(v)
        PROVE  u.at < v.at
    <3>1. CASE v \in Unseen
      BY <2>2, <2>6, <2>7, <3>1 DEF Passed
    <3>2. CASE v \notin Unseen
      <4>1. now < v.at /\ u.at <= now
        BY <2>4, <3>2, AnswersType, UnseenPast
      <4>2. u.at \in Int /\ v.at \in Int /\ now \in Int
        <5>1. v \in Segments
          BY UnseenTypeStep
        <5>2. now \in Nat
          BY Types
        <5>. QED  BY <5>1, <5>2, AnswersType DEF Segments
      <4>. QED  BY <4>1, <4>2
    <3>. QED  BY <3>1, <3>2
  <2>8. Passed'
    BY <2>5, <2>6, <2>7 DEF Passed, Destination
  <2>. QED  BY <2>3, <2>8
<1>9. CASE FindSent
  <2>1. /\ pc = "search_sent" /\ pc' \in {"output", "ask"}
        /\ UNCHANGED <<session, chunk, server, client>>
    BY <1>9 DEF FindSent, At, peerVars
  <2> SUFFICES ASSUME Never(Early)' PROVE InTurn' /\ Passed'
    BY <1>0
  <2>2. InTurn /\ Passed
    BY <1>w, <1>v, <2>1
  <2>3. InTurn'
    BY <2>1, <2>2 DEF InTurn
  <2>4. /\ Found \in Unseen /\ Destination(Found) /\ Found \in Segments
        /\ \A u \in Unseen' : u \in Unseen /\ Found.at < u.at
    BY <1>9, SentFound
  <2>5. \A u \in Answers' : u \in Answers /\ Found.at < u.at
    BY <2>1, <2>4 DEF Answers
  <2>6. Base' = Base /\ Writing
    BY <2>1 DEF Base, Writing
  <2>7. ASSUME NEW u \in Answers', u.first <= Base PROVE FALSE
    <3>1. u.at < Found.at /\ Found.at < u.at
      BY <2>2, <2>4, <2>5, <2>6, <2>7 DEF Passed
    <3>2. u.at \in Nat /\ Found.at \in Nat
      BY <2>4, <2>5, AnswersType DEF Segments
    <3>. QED  BY <3>1, <3>2
  <2>8. Passed'
    BY <2>6, <2>7 DEF Passed
  <2>. QED  BY <2>3, <2>8
<1>10. CASE ForwardOutput
  <2> DEFINE n == Taken(server.sent - server.read)
  <2>1. /\ pc = "output"
        /\ UNCHANGED <<session, client, calls, forwarded, origins, cursor,
                       ring>>
    BY <1>10 DEF ForwardOutput, At, Q!Ask, queueVars, captureVars
  <2> SUFFICES ASSUME Never(Early)' PROVE InTurn' /\ Passed'
    BY <1>0
  <2>2. InTurn /\ Passed
    BY <1>w, <1>v, <2>1
  <2>3. \A u \in Answers' : u \in Answers
    BY <2>1, UnseenSame DEF Answers
  <2>4. CASE ~(n > 0)
    <3>1. pc' = "input" /\ UNCHANGED <<chunk, server>>
      BY <1>10, <2>4 DEF ForwardOutput
    <3>2. InTurn'
      BY <2>1, <2>2, <3>1 DEF InTurn
    <3>3. /\ Base' = Base /\ Replying' = Replying
          /\ ~Writing /\ (~Writing)'
      BY <2>1, <3>1 DEF Base, Replying, Arrived, Writing
    <3>4. Passed'
      BY <2>2, <2>3, <3>3 DEF Passed
    <3>. QED  BY <3>2, <3>4
  <2>5. CASE n > 0
    <3>1. /\ pc' = "search_received"
          /\ chunk' = [first |-> server.read + 1, size |-> n]
          /\ server' = [server EXCEPT !.read = @ + n]
      BY <1>10, <2>5 DEF ForwardOutput
    <3>2. n = server.sent - server.read /\ server.read < server.sent
      <4>1. server.sent - server.read <= BUFSIZE
        BY <1>t, <2>2 DEF InTurn, BUFSIZE
      <4>2. n = server.sent - server.read
        BY <1>t, <2>5, <4>1, TakenSize
      <4>. QED  BY <1>t, <2>5, <4>2
    <3>. HIDE DEF n
    <3>3. /\ server'.read = server.sent /\ server'.sent = server.sent
          /\ server'.answered = server.answered
          /\ server'.read - chunk'.size = server.read
      BY <1>t, <3>1, <3>2
    <3>4. server.answered = Len(client.ends)
      BY <1>t, <2>2, <3>2 DEF InTurn
    <3>5. InTurn'
      <4>1. /\ Len(client'.ends) = server'.answered
            /\ server'.answered \in Int /\ server'.read = server'.sent
        BY <1>t, <2>1, <3>3, <3>4
      <4>2. server'.sent <= server'.read + BUFSIZE
        BY <1>t, <3>3 DEF BUFSIZE
      <4>. QED  BY <4>1, <4>2 DEF InTurn
    <3>6. Base' = Base
      BY <2>1, <3>1, <3>3 DEF Base
    <3>7. ~Writing /\ Replying
      BY <2>1, <3>2 DEF Writing, Replying
    <3>8. Passed'
      BY <2>2, <2>3, <3>6, <3>7 DEF Passed
    <3>. QED  BY <3>5, <3>8
  <2>. QED  BY <2>4, <2>5
<1>11. CASE FindReceived
  <2>1. /\ pc = "search_received" /\ pc' = "record"
        /\ UNCHANGED <<session, chunk, client, server>>
    BY <1>11 DEF FindReceived, At, peerVars
  <2> SUFFICES ASSUME Never(Early)' PROVE InTurn' /\ Passed'
    BY <1>0
  <2>2. InTurn
    BY <1>w, <1>v, <2>1
  <2>3. InTurn'
    BY <2>1, <2>2 DEF InTurn
  <2>4. ~Replying'
    BY <1>t, <2>1, <2>2 DEF InTurn, Replying
  <2>5. (~Writing)'
    BY <2>1 DEF Writing
  <2>. QED  BY <2>3, <2>4, <2>5 DEF Passed
<1>12. CASE Close
  BY <1>2, <1>12 DEF Close
<1>13. CASE AnswerRequest
  <2>1. /\ \A u \in Unseen' :
              u \in Unseen \/ (~Destination(u) /\ server.sent < u.first)
        /\ server'.read = server.read
        /\ UNCHANGED <<session, pc, chunk, calls, client, forwarded>>
        /\ pc # "closed"
    BY <1>13, ServerSends DEF proxyVars
  <2>2. /\ server.answered < Len(client.ends)
        /\ client.ends[server.answered + 1] <= Arrived
    BY <1>13 DEF AnswerRequest
  <2>3. PICK size \in 1 .. 2 : /\ server'.answered = server.answered + 1
                               /\ server'.sent = server.sent + size
    BY <1>13, AnswerCounts
  <2> SUFFICES ASSUME Never(Early)' PROVE InTurn' /\ Passed'
    BY <1>0
  <2>4. InTurn /\ Passed
    BY <1>w, <1>v, <2>1
  <2>5. /\ server.read = server.sent
        /\ pc \notin {"search_received", "record"}
        /\ server'.answered = Len(client.ends)
    BY <1>t, <2>2, <2>3, <2>4 DEF InTurn
  <2>6. InTurn'
    <3>1. server'.sent <= server'.read + BUFSIZE
      BY <1>t, <2>1, <2>3, <2>5 DEF BUFSIZE
    <3>2. /\ Len(client'.ends) = server'.answered
          /\ ~(server'.answered < Len(client'.ends))
      BY <1>t, <2>1, <2>5
    <3>. QED  BY <2>1, <2>5, <3>1, <3>2 DEF InTurn
  <2>7. Base' = Base /\ Base = server.sent /\ Writing' = Writing
    BY <2>1, <2>5 DEF Base, Writing
  <2>8. ~Writing => \A u \in Answers : ~(u.first <= Base)
    BY <2>2, <2>4 DEF Passed, Replying
  <2>9. ASSUME NEW u \in Answers', u.first <= Base
        PROVE  u \in Answers
    <3>1. CASE u \in Unseen
      BY <2>1, <3>1 DEF Answers
    <3>2. CASE u \notin Unseen
      <4>1. server.sent < u.first /\ u.first <= server.sent
        BY <2>1, <2>7, <2>9, <3>2 DEF Answers
      <4>2. u.first \in Int
        <5>1. u \in Segments
          BY UnseenTypeStep DEF Answers
        <5>. QED  BY <5>1 DEF Segments
      <4>. QED  BY <1>t, <4>1, <4>2
    <3>. QED  BY <3>1, <3>2
  <2>10. \A v \in Unseen' : Destination(v) => v \in Unseen
    BY <2>1
  <2>11. Passed'
    BY <2>4, <2>7, <2>8, <2>9, <2>10 DEF Passed, Destination
  <2>. QED  BY <2>6, <2>11
<1>14. CASE Unasked
  <2>1. ~Never(Early)'
    BY <1>14, IncidentGrows, NeverKind DEF Unasked, Early
  <2>. QED  BY <1>0, <2>1
<1>15. CASE Retransmit
  <2>1. ~Never(Early)'
    BY <1>15, NetworkSends, NeverKind DEF Early
  <2>. QED  BY <1>0, <2>1
<1>16. CASE LateAnswer
  <2>1. /\ \A u \in Unseen' : u \in Unseen \/ ~Destination(u)
        /\ UNCHANGED <<session, pc, chunk, calls, client, forwarded, server>>
    BY <1>16, LateSends DEF proxyVars
  <2>2. CASE pc = "closed"
    BY <1>2, <2>1, <2>2
  <2>3. CASE pc # "closed"
    <3>1. \A u \in Answers' : u \in Answers
      BY <1>16, <2>3, LateOlder
    <3>2. /\ InTurn' = InTurn /\ Base' = Base /\ Writing' = Writing
          /\ Replying' = Replying
      BY <2>1 DEF InTurn, Base, Writing, Replying, Arrived
    <3>3. Passed => Passed'
      BY <2>1, <3>1, <3>2 DEF Passed, Destination
    <3>. QED  BY <1>0, <1>w, <1>v, <2>3, <3>2, <3>3
  <2>. QED  BY <2>2, <2>3
<1>. HIDE DEF G
<1>. QED
  BY <1>3, <1>4, <1>5, <1>6, <1>7, <1>8, <1>9, <1>10, <1>11, <1>12, <1>13,
     <1>14, <1>15, <1>16, NextCases


-----------------------------------------------------------------------------
(***************************************************************************)
(* The receive stamp, and the measurements.                                *)
(***************************************************************************)

\* When requests and answers come in turn, the packet that the search of a
\* read finds in its session is its chunk.
LEMMA FoundInTurn ==
    ASSUME SessionInv, LinkInv, WantInv, ChunkInv, RequestsInv, AnswersInv,
           TurnInv, FindReceived, Never(Early), Found.session = session
    PROVE  Found.first = chunk.first
<1>1. pc = "search_received" /\ ~Writing /\ Replying
  BY DEF FindReceived, At, Writing, Replying
<1>2. InTurn /\ Passed /\ server.read = server.sent
  BY <1>1 DEF TurnInv, Early, InTurn
<1>3. Never({"retransmit"})
  BY DEF Never, Some, Early
<1>4. Found \in Unseen /\ ~Destination(Found) /\ Found.size = chunk.size
  BY ReceivedFound
<1>. HIDE DEF Found
<1>5. Found \in Answers
  BY <1>4 DEF Answers
<1>6. ~(Found.first <= Base)
  BY <1>1, <1>2, <1>5 DEF Passed
<1>7. Found.first + Found.size - 1 <= server.sent
  BY <1>1, <1>3, <1>5 DEF AnswersInv
<1>8. /\ chunk.size \in {1, 2} /\ Base = server.read - chunk.size
      /\ chunk.first + chunk.size - 1 = server.read
  BY <1>1 DEF ChunkInv, Base
<1>9. Found.first \in Int /\ chunk.first \in Int /\ server.read \in Int
  <2>1. chunk \in Chunks /\ server \in [answered : Int, sent : Int, read : Int]
    BY Types
  <2>. QED  BY <1>5, <2>1, AnswersType DEF Chunks
<1>. QED  BY <1>2, <1>4, <1>6, <1>7, <1>8, <1>9

LEMMA StepRx ==
    ASSUME SessionInv, LinkInv, WantInv, ChunkInv, RequestsInv, AnswersInv,
           LeftInv, TurnInv, RxInv, [Next]_vars
    PROVE  RxInv'
<1> DEFINE G == RxInv'
<1> SUFFICES G
  OBVIOUS
<1>w. /\ Never(Early)' => Never(Early)
      /\ Never(Leftovers)' => Never(Leftovers)
      /\ UNCHANGED alike
  BY GrownWorld, NeverBefore DEF worldVars
<1>1. ASSUME pc' # "record" PROVE G
  BY <1>1 DEF RxInv
<1>2. ASSUME UNCHANGED <<session, chunk, rx_timestamp>>, pc = "record"
      PROVE  G
  BY <1>w, <1>2 DEF RxInv, Destination, Early, Leftovers
<1>3. Quiet => G
  BY <1>1, <1>2 DEF Quiet
<1>4. CASE \/ Connect \/ ForwardInput \/ Send \/ FindSent \/ ForwardOutput
           \/ Close
  <2>1. pc' # "record"
    BY <1>4 DEF Connect, ForwardInput, Send, At, FindSent, ForwardOutput,
                Close
  <2>. QED  BY <1>1, <2>1
<1>5. CASE FindReceived
  <2>1. /\ pc = "search_received" /\ UNCHANGED <<session, chunk>>
        /\ rx_timestamp' = Found
    BY <1>5 DEF FindReceived, At, Found
  <2>2. /\ Found \in Unseen /\ ~Destination(Found)
        /\ Found.size = chunk.size
        /\ ~alike => Found.first = chunk.first
    BY <1>5, ReceivedFound
  <2>3. Never(Early) /\ Found.session = session => Found.first = chunk.first
    BY <1>5, FoundInTurn
  <2>4. Never(Leftovers) => Found.session = session
    BY <2>1, <2>2 DEF LeftInv, Leftovers, OnlyOwn
  <2>. HIDE DEF Found
  <2>. QED
    BY <1>w, <2>1, <2>2, <2>3, <2>4 DEF RxInv, Destination, Early, Leftovers
<1>6. CASE AnswerRequest \/ Unasked \/ LateAnswer \/ Retransmit
  <2>1. UNCHANGED proxyVars
    BY <1>6, ServerSends, LateSends, NetworkSends
  <2>. QED  BY <1>1, <1>2, <2>1 DEF proxyVars
<1>. HIDE DEF G
<1>. QED  BY <1>3, <1>4, <1>5, <1>6, QuietSteps, NextCases

Has(kinds, of) == kinds \cap of # {}

\* What OwnStamps says of one measurement, after incidents of some kinds.
OwnRecord(r, kinds) ==
    /\ OwnSent(r) \/ IF r.tx.session = r.session
                     THEN alike /\ Has(kinds, {"retransmit"})
                     ELSE r.request = 0 \/ Has(kinds, {"retransmit"})
    /\ OwnReceived(r) \/ IF r.rx.session = r.session
                         THEN alike /\ Has(kinds, Early)
                         ELSE Has(kinds, Leftovers)

LEMMA OwnRecords ==
    ASSUME SessionInv
    PROVE  OwnStamps <=> \A k \in 1 .. Len(records) :
                            OwnRecord(records[k], incidents.kinds)
<1>1. DOMAIN records = 1 .. Len(records)
  BY LenProperties DEF SessionInv, SessionType
<1>. QED  BY <1>1 DEF OwnStamps, OwnRecord, Some, Has, Early, Leftovers

\* More incidents take nothing from a measurement.
LEMMA RecordKept ==
    ASSUME NEW r, NEW kinds, NEW more, kinds \subseteq more,
           OwnRecord(r, kinds)
    PROVE  OwnRecord(r, more)
<1>1. \A of : Has(kinds, of) => Has(more, of)
  BY DEF Has
<1>. QED  BY <1>1 DEF OwnRecord

\* The measurement that is sent with the stamps of this write and read.
Measurement ==
    [session |-> session, chunk |-> chunk, request |-> forwarded,
     tx |-> tx_timestamp, rx |-> rx_timestamp]

LEMMA OwnMeasurement ==
    ASSUME SessionInv, TxInv, RxInv, pc = "record"
    PROVE  /\ Measurement \in Measured
           /\ OwnRecord(Measurement, incidents.kinds)
<1> DEFINE r == Measurement
<1>t. /\ session \in Int /\ chunk \in Chunks /\ forwarded \in Int
      /\ tx_timestamp \in Segments /\ rx_timestamp \in Segments
  BY Types
<1>1. /\ r \in Measured
      /\ r.session = session /\ r.chunk = chunk /\ r.request = forwarded
      /\ r.tx = tx_timestamp /\ r.rx = rx_timestamp
  BY <1>t DEF Measurement, Measured
<1>. HIDE DEF r
<1>s. \A of : Has(incidents.kinds, of) <=> ~Never(of)
  BY DEF Has, Never, Some
<1>2. OwnSent(r) <=> OwnTx
  BY <1>1 DEF OwnSent, OwnTx, Destination
<1>3. /\ Never({"retransmit"}) =>
            OwnTx \/ (forwarded = 0 /\ tx_timestamp.session # session)
      /\ ~alike => OwnTx \/ tx_timestamp.session # session
  BY DEF TxInv, Writing
<1>4. OwnSent(r) \/ IF r.tx.session = r.session
                    THEN alike /\ Has(incidents.kinds, {"retransmit"})
                    ELSE \/ r.request = 0
                         \/ Has(incidents.kinds, {"retransmit"})
  BY <1>s, <1>1, <1>2, <1>3
<1>5. rx_timestamp.way = "SOURCE_REMOTE"
  BY <1>t DEF RxInv, Destination, Segments, Ways
<1>6. OwnReceived(r) <=> /\ rx_timestamp.session = session
                         /\ rx_timestamp.first = chunk.first
                         /\ rx_timestamp.size = chunk.size
  BY <1>1, <1>5 DEF OwnReceived
<1>7. /\ (~alike \/ Never(Early)) /\ rx_timestamp.session = session =>
            rx_timestamp.first = chunk.first /\ rx_timestamp.size = chunk.size
      /\ Never(Leftovers) => rx_timestamp.session = session
  BY DEF RxInv, Early, Leftovers
<1>8. OwnReceived(r) \/ IF r.rx.session = r.session
                        THEN alike /\ Has(incidents.kinds, Early)
                        ELSE Has(incidents.kinds, Leftovers)
  BY <1>s, <1>1, <1>6, <1>7
<1>9. OwnRecord(r, incidents.kinds)
  BY <1>4, <1>8 DEF OwnRecord
<1>. QED  BY <1>1, <1>9 DEF r

LEMMA StepRecords ==
    ASSUME SessionInv, TxInv, RxInv, OwnStamps, [Next]_vars
    PROVE  OwnStamps'
<1> DEFINE G == \A k \in 1 .. Len(records') :
                   OwnRecord(records[k], incidents.kinds)'
<1>w. Grown /\ UNCHANGED alike
  BY GrownWorld DEF worldVars
<1>1. SUFFICES G
  <2>1. SessionInv'
    BY SessionInvStep
  <2>2. SessionInv' => (OwnStamps <=> \A k \in 1 .. Len(records) :
                           OwnRecord(records[k], incidents.kinds))'
    BY OwnRecords, PTL
  <2>. QED  BY <2>1, <2>2
<1>2. \A k \in 1 .. Len(records) : OwnRecord(records[k], incidents.kinds)
  BY OwnRecords
<1>3. \A r : OwnRecord(r, incidents.kinds) => OwnRecord(r, incidents.kinds')
  BY <1>w, RecordKept DEF Grown
<1>4. \A k : OwnRecord(records'[k], incidents.kinds') <=>
                OwnRecord(records[k], incidents.kinds)'
  BY <1>w DEF OwnRecord, OwnSent, OwnReceived, Has, Early, Leftovers
<1>5. ASSUME UNCHANGED records PROVE G
  BY <1>2, <1>3, <1>4, <1>5
<1>6. CASE WriteRecord
  <2>1. /\ pc = "record"
        /\ UNCHANGED records \/ records' = Append(records, Measurement)
    BY <1>6 DEF WriteRecord, At, Measurement
  <2>2. Measurement \in Measured /\ OwnRecord(Measurement, incidents.kinds)
    BY <2>1, OwnMeasurement
  <2>. HIDE DEF Measurement
  <2>3. CASE records' = Append(records, Measurement)
    <3>1. records \in Seq(Measured)
      BY DEF SessionInv, SessionType
    <3>2. /\ Len(records') = Len(records) + 1
          /\ \A k \in 1 .. Len(records) : records'[k] = records[k]
          /\ records'[Len(records) + 1] = Measurement
      BY <2>2, <2>3, <3>1, AppendProperties
    <3>3. \A k \in 1 .. Len(records') :
             k \in 1 .. Len(records) \/ k = Len(records) + 1
      BY <3>1, <3>2, LenProperties
    <3>. QED  BY <1>2, <1>3, <1>4, <2>2, <3>2, <3>3
  <2>. QED  BY <1>5, <2>1, <2>3
<1>7. CASE \/ Connect \/ ForwardInput \/ Send \/ AskSent \/ FindSent
           \/ ForwardOutput \/ FindReceived \/ Close
  BY <1>5, <1>7 DEF Connect, ForwardInput, Send, AskSent, FindSent,
                    ForwardOutput, FindReceived, Close
<1>8. CASE \/ HandlePacket \/ FailLoop \/ TakeFlag \/ SendUnit
           \/ Leave \/ AnswerRequest \/ Unasked \/ LateAnswer
           \/ Retransmit \/ UNCHANGED vars
  <2>1. UNCHANGED proxyVars
    BY <1>8 DEF HandlePacket, FailLoop, TakeFlag, SendUnit, Leave,
                AnswerRequest, Unasked, Serve, LateAnswer, Retransmit, vars
  <2>. QED  BY <1>5, <2>1 DEF proxyVars
<1>. HIDE DEF G
<1>. QED  BY <1>6, <1>7, <1>8, NextCases

-----------------------------------------------------------------------------
LEMMA StampsInvInit == Init => StampsInv /\ OwnStamps
<1> SUFFICES ASSUME Init PROVE StampsInv /\ OwnStamps
  OBVIOUS
<1>1. SessionInv /\ PlaceInv
  BY SessionInvInit, PlaceInvInit
<1>2. /\ pc = "closed" /\ session = 0 /\ origins = <<>> /\ ring = <<>>
      /\ last = <<>> /\ owed = <<>> /\ records = <<>>
      /\ tx_timestamp = NoSegment
  BY DEF Init
<1>3. Len(<<>>) = 0 /\ DOMAIN <<>> = {}
  OBVIOUS
<1>4. Unseen = {}
  BY <1>2, <1>3 DEF Unseen
<1>5. ~Writing
  BY <1>2 DEF Writing
<1>6. NoSegment.session = 0
  BY DEF NoSegment, Segment
<1>7. LinkInv /\ WantInv /\ CallsInv /\ ChunkInv
  BY <1>2, <1>3, <1>5 DEF LinkInv, WantInv, CallsInv, ChunkInv
<1>8. AgeInv
  BY <1>2, <1>3, <1>4, <1>6 DEF AgeInv
<1>9. RequestsInv
  BY <1>2, <1>4, <1>5 DEF RequestsInv, NoRequests
<1>10. TxInv /\ AnswersInv /\ LeftInv /\ TurnInv /\ RxInv
  BY <1>2, <1>4 DEF TxInv, AnswersInv, LeftInv, TurnInv, RxInv
<1>11. OwnStamps
  BY <1>2, <1>3 DEF OwnStamps
<1>. QED
  BY <1>1, <1>7, <1>8, <1>9, <1>10, <1>11 DEF StampsInv

LEMMA StampsInvStep ==
    StampsInv /\ OwnStamps /\ [Next]_vars => (StampsInv /\ OwnStamps)'
<1> SUFFICES ASSUME StampsInv, OwnStamps, [Next]_vars
             PROVE  StampsInv' /\ OwnStamps'
  OBVIOUS
<1> USE DEF StampsInv
<1>1. SessionInv' /\ PlaceInv'
  BY SessionInvStep, PlaceInvStep DEF SessionInv
<1>2. LinkInv' /\ WantInv' /\ CallsInv' /\ ChunkInv' /\ AgeInv'
  BY StepLink, StepWant, StepCalls, StepChunk, StepAge
<1>3. RequestsInv' /\ TxInv' /\ AnswersInv'
  BY StepRequests, StepTx, StepAnswers
<1>4. LeftInv' /\ TurnInv' /\ RxInv'
  BY StepLeft, StepTurn, StepRx
<1>5. OwnStamps'
  BY StepRecords
<1>. QED  BY <1>1, <1>2, <1>3, <1>4, <1>5

\* In every behaviour the stamps of a measurement are those of its last write
\* and of the chunk that was read, but for what packets captured twice, early
\* answers among alike contents and leftovers of an earlier session explain.
THEOREM SessionStamps == Spec => []OwnStamps
BY StampsInvInit, StampsInvStep, PTL DEF Spec

=============================================================================

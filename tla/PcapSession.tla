---------------------------- MODULE PcapSession ----------------------------
(***************************************************************************)
(* Sessions of TimingProxy with a PCAPTimingSocket: connect starts the     *)
(* loop thread on a libpcap handle that all sessions share, write and read *)
(* look up the stamp of their chunk among the captures, close stops the    *)
(* thread.  PcapWrapper is the queue of CaptureQueue, of which a session   *)
(* stays below SHARED_BUFFER_SIZE captures.                                *)
(*                                                                         *)
(* Streams are cut into units; a chunk, what one read of the proxy takes,  *)
(* is of one or two.  Units are small, and two of them fit in a packet, or *)
(* are not, and a packet of two is above MAX_PACKET_SIZE.  Unit n of a     *)
(* stream has the same content in all sessions.  Client, server, network   *)
(* and libpcap are external.  Requests and answers are of one unit, and    *)
(* come in turn, but for a few incidents:                                  *)
(*   long_request, long_answer   two units                                 *)
(*   pipelined, unasked          ahead of the answer, of the request       *)
(*   partial_send                send takes a part of the chunk            *)
(*   split, offload              small units are captured one by one,      *)
(*                               others as one packet                      *)
(*   retransmit                  a packet is captured twice                *)
(*   early_leave                 the client does not wait for its answer   *)
(*   loop_fails                  pcap_loop returns an error                *)
(***************************************************************************)
EXTENDS Integers, Sequences

CONSTANTS
    SHARED_BUFFER_SIZE,
    Sessions,      \* bound: sessions
    Requests,      \* bound: requests of a session
    MaxIncidents   \* bound: how often something is not ordinary

ASSUME PcapSessionAssumption ==
    {SHARED_BUFFER_SIZE, Sessions, Requests, MaxIncidents} \subseteq Nat

BUFSIZE == 2

VARIABLES
    captured, cursor, request, result, fate,  \* see CaptureQueue
    canonical,  \* external: the host is spelled as inet_ntop spells it
    alike,      \* external: all units of a stream have the same content
    small,      \* external: two units fit in a packet
    incidents,  \* the kinds that have happened, and how many may still
    pc,         \* where handleClient is
    session,    \* the session of the proxy, from 1
    calls,      \* the chunks of the writes that have not returned
    chunk,      \* what the read of the server has taken
    tx_timestamp, rx_timestamp,  \* the packets whose stamps were taken
    records,    \* the measurements that were sent
    loop,       \* the loop thread: "none", "running" or "ended"
    break_loop, \* libpcap's flag, which lives in the handle
    failures,   \* history: the sessions in which pcap_loop failed
    outages,    \* history: the sessions closed after their loop had ended
    ring,       \* captured by the kernel and not yet seen by the loop
    origins,    \* history: the packets in captured
    last,       \* <<the last packet>>, while it may be captured again
    now,        \* the capture clock
    client,     \* units the client has sent, ends of its requests, gone
    forwarded,  \* units the proxy has taken from the client
    server,     \* requests answered, units sent, units the proxy has read
    owed        \* answers that servers of earlier sessions still send

Payloads == UNION {[1 .. n -> 0 .. 2 * Requests + 2] : n \in 1 .. BUFSIZE}

Q == INSTANCE CaptureQueue

queueVars   == <<captured, cursor, request, result>>
proxyVars   == <<pc, session, calls, chunk, tx_timestamp, rx_timestamp,
                 records>>
loopVars    == <<loop, break_loop, failures, outages>>
captureVars == <<loopVars, ring, origins, last, now>>
peerVars    == <<client, forwarded, server, owed>>
worldVars   == <<canonical, alike, small>>
vars == <<queueVars, fate, worldVars, incidents, proxyVars, captureVars,
          peerVars>>

Incident(kind) ==
    /\ incidents.left > 0
    /\ incidents' = [kinds |-> incidents.kinds \cup {kind},
                     left  |-> incidents.left - 1]

Ordinary(usual, kind) == IF usual THEN UNCHANGED incidents ELSE Incident(kind)

NewClient == [sent |-> 0, ends |-> <<>>, gone |-> FALSE]
NewServer == [answered |-> 0, sent |-> 0, read |-> 0]

\* Mutant: two payloads of one length are taken to be equal.
ContentUnread(first, size) == [i \in 1 .. size |-> 0]

\* Units first .. first + size - 1 of a stream, as the wire shows them.
Content(first, size) == [i \in 1 .. size |-> IF alike THEN 0
                                             ELSE first + i - 1]

\* A packet: its units, its way, the session, and when it was captured.
Segment(s, way, first, size, at) ==
    [session |-> s, way |-> way, first |-> first, size |-> size, at |-> at]

NoSegment == Segment(0, "DESTINATION_REMOTE", 0, 0, 0)

Init ==
    /\ Q!Init
    /\ canonical \in BOOLEAN /\ alike \in BOOLEAN /\ small \in BOOLEAN
    /\ incidents = [kinds |-> {}, left |-> MaxIncidents]
    /\ pc = "closed"
    /\ session = 0
    /\ calls = <<>>
    /\ chunk = [first |-> 0, size |-> 0]
    /\ tx_timestamp = NoSegment /\ rx_timestamp = NoSegment
    /\ records = <<>>
    /\ loop = "none" /\ break_loop = FALSE
    /\ failures = {} /\ outages = {}
    /\ ring = <<>> /\ origins = <<>> /\ last = <<>> /\ now = 0
    /\ client = NewClient /\ forwarded = 0 /\ server = NewServer
    /\ owed = <<>>

At(place) == fate = "running" /\ pc = place

-----------------------------------------------------------------------------
(***************************************************************************)
(* The socket.                                                             *)
(***************************************************************************)

\* setFilter, startLoop and TimingSocket::connect.  A flag left in the handle
\* is still there for the new thread.
Connect ==
    /\ At("closed") /\ session < Sessions
    /\ Q!Open
    /\ origins' = <<>>
    /\ loop' = "running"
    /\ session' = session + 1
    /\ client' = NewClient /\ forwarded' = 0 /\ server' = NewServer
    /\ pc' = "input"
    /\ UNCHANGED <<worldVars, incidents, calls, chunk, tx_timestamp,
                   rx_timestamp, records, break_loop, failures, outages, ring,
                   last, now, owed>>

\* Packets on the wire.
Emit(segments) ==
    /\ ring' = ring \o segments
    /\ last' = <<segments[Len(segments)]>>
    /\ now' = now + Len(segments)

\* size units are captured one by one, or as one packet.
Cuts(s, way, first, size) ==
    {[i \in 1 .. size |-> Segment(s, way, first + i - 1, 1, now + i)],
     <<Segment(s, way, first, size, now + 1)>>}

\* Mutant: the size of the buffer is taken for the size that was read.
TakenAll(waiting) == IF waiting > 0 THEN BUFSIZE ELSE 0
Taken(waiting)    == IF waiting < BUFSIZE THEN waiting ELSE BUFSIZE

\* tryForwardInput up to the write.
ForwardInput ==
    /\ At("input")
    /\ LET n == Taken(client.sent - forwarded)
       IN  IF n > 0
           THEN /\ calls' = <<[first |-> forwarded + 1, size |-> n]>>
                /\ forwarded' = forwarded + n
                /\ pc' = "send"
           ELSE /\ pc' = IF client.gone THEN "close" ELSE "output"
                /\ UNCHANGED <<calls, forwarded>>
    /\ UNCHANGED <<queueVars, fate, worldVars, incidents, session, chunk,
                   tx_timestamp, rx_timestamp, records, captureVars, client,
                   server, owed>>

\* Mutant: the answer is looked for among the requests.
WantedSent(c, way) == [payload   |-> Content(c.first, c.size),
                       direction |-> "DESTINATION_REMOTE"]
Wanted(c, way)     == [payload   |-> Content(c.first, c.size),
                       direction |-> way]

\* TimingSocket::write; the rest of a partial send goes to the virtual write.
Send ==
    /\ At("send")
    /\ \/ /\ \E segments \in Cuts(session, "DESTINATION_REMOTE",
                                 Head(calls).first, Head(calls).size) :
                /\ Emit(segments)
                /\ IF small
                   THEN Ordinary(Len(segments) = 1, "split")
                   ELSE Ordinary(Len(segments) = Head(calls).size, "offload")
          /\ pc' = "ask" /\ UNCHANGED calls
       \/ /\ Head(calls).size > 1 /\ Incident("partial_send")
          /\ Emit(<<Segment(session, "DESTINATION_REMOTE",
                            Head(calls).first, 1, now + 1)>>)
          /\ calls' = <<[first |-> Head(calls).first + 1,
                         size  |-> Head(calls).size - 1]>> \o calls
          /\ UNCHANGED pc
    /\ UNCHANGED <<queueVars, fate, worldVars, session, chunk, tx_timestamp,
                   rx_timestamp, records, loopVars, origins, peerVars>>

\* write's call of timingForPacket, and its return.
AskSent ==
    /\ At("ask")
    /\ Q!Ask(Wanted(Head(calls), "DESTINATION_REMOTE"))
    /\ pc' = "search_sent"
    /\ UNCHANGED <<worldVars, incidents, session, calls, chunk, tx_timestamp,
                   rx_timestamp, records, captureVars, peerVars>>

FindSent ==
    /\ At("search_sent")
    /\ Q!Answer
    /\ tx_timestamp' = origins[result']
    /\ calls' = Tail(calls)
    /\ pc' = IF calls' = <<>> THEN "output" ELSE "ask"
    /\ UNCHANGED <<worldVars, incidents, session, chunk, rx_timestamp,
                   records, captureVars, peerVars>>

\* tryForwardOutput up to read's call of timingForPacket.
ForwardOutput ==
    /\ At("output")
    /\ LET n == Taken(server.sent - server.read)
       IN  IF n > 0
           THEN /\ chunk' = [first |-> server.read + 1, size |-> n]
                /\ server' = [server EXCEPT !.read = @ + n]
                /\ Q!Ask(Wanted(chunk', "SOURCE_REMOTE"))
                /\ pc' = "search_received"
           ELSE /\ pc' = "input"
                /\ UNCHANGED <<chunk, server, queueVars, fate>>
    /\ UNCHANGED <<worldVars, incidents, session, calls, tx_timestamp,
                   rx_timestamp, records, captureVars, client, forwarded,
                   owed>>

FindReceived ==
    /\ At("search_received")
    /\ Q!Answer
    /\ rx_timestamp' = origins[result']
    /\ pc' = "record"
    /\ UNCHANGED <<worldVars, incidents, session, calls, chunk, tx_timestamp,
                   records, captureVars, peerVars>>

\* timevalDeltaToNs ends the process when the answer is older; a stamp that
\* was never written is whatever memory holds.
AnswerOlder == IF tx_timestamp = NoSegment THEN BOOLEAN
               ELSE {rx_timestamp.at < tx_timestamp.at}

WriteRecord ==
    /\ At("record")
    /\ \E older \in AnswerOlder :
          /\ fate' = IF older THEN "older" ELSE fate
          /\ records' = IF older THEN records
                        ELSE Append(records, [session |-> session,
                                chunk |-> chunk, request |-> forwarded,
                                tx |-> tx_timestamp, rx |-> rx_timestamp])
    /\ pc' = "input"
    /\ UNCHANGED <<queueVars, worldVars, incidents, session, calls, chunk,
                   tx_timestamp, rx_timestamp, captureVars, peerVars>>

\* Mutant: the loop that the flag ends does not take it back.
FlagStays == TRUE
FlagLeft  == loop # "running"

\* The units of the client that are on their way to the server.
Arrived == IF pc = "send" THEN Head(calls).first - 1 ELSE forwarded

\* stopLoop and TimingSocket::close.  The flag, which may be set already, ends
\* a running loop, which takes it back, and drops what it reads after stop_loop
\* is set; no loop takes back what is set after its end.  The server may not
\* know yet that nobody reads its answer.
Close ==
    /\ At("close")
    /\ loop' = "none"
    /\ break_loop' = FlagLeft
    /\ outages' = IF loop = "ended" THEN outages \cup {session} ELSE outages
    /\ pc' = "closed"
    /\ \E k \in 0 .. Len(ring) :
          /\ k > 0 => loop = "running"
          /\ ring' = SubSeq(ring, k + 1, Len(ring))
    /\ owed' = IF server.answered < Len(client.ends)
                  /\ client.ends[server.answered + 1] <= forwarded
               THEN Append(owed, [session |-> session,
                                  first   |-> server.sent + 1])
               ELSE owed
    /\ UNCHANGED <<queueVars, fate, worldVars, incidents, session, calls,
                   chunk, tx_timestamp, rx_timestamp, records, failures,
                   origins, last, now, client, forwarded, server>>

Main == \/ Connect \/ ForwardInput \/ Send \/ AskSent \/ FindSent
        \/ ForwardOutput \/ FindReceived \/ WriteRecord \/ Close

-----------------------------------------------------------------------------
(***************************************************************************)
(* The loop thread.                                                        *)
(***************************************************************************)

\* Mutant: payloads of any size are taken.
TooLargeNever(p) == FALSE
TooLarge(p)      == p.size > 1 /\ ~small

\* handlePacket.  The direction is that of a request when the destination is
\* spelled as the host; a payload above MAX_PACKET_SIZE ends the process.
HandlePacket ==
    /\ fate = "running" /\ loop = "running" /\ ring # <<>>
    /\ LET p == Head(ring)
       IN  IF TooLarge(p)
           THEN Q!Reject /\ UNCHANGED origins
           ELSE /\ Q!Capture([payload   |-> Content(p.first, p.size),
                              direction |-> IF canonical THEN p.way
                                            ELSE "SOURCE_REMOTE"])
                /\ origins' = Append(origins, p)
    /\ ring' = Tail(ring)
    /\ UNCHANGED <<worldVars, incidents, proxyVars, loopVars, last, now,
                   peerVars>>

FailLoop ==
    /\ fate = "running" /\ loop = "running" /\ Incident("loop_fails")
    /\ loop' = "ended"
    /\ failures' = failures \cup {session}
    /\ UNCHANGED <<queueVars, fate, worldVars, proxyVars, break_loop, outages,
                   ring, origins, last, now, peerVars>>

\* pcap_loop finds the flag that an earlier stopLoop has left, takes it back
\* and returns.  stopLoop may be there before it, and so may packets.
TakeFlag ==
    /\ fate = "running" /\ loop = "running" /\ break_loop
    /\ loop' = "ended" /\ break_loop' = FALSE
    /\ UNCHANGED <<queueVars, fate, worldVars, incidents, proxyVars, failures,
                   outages, ring, origins, last, now, peerVars>>

-----------------------------------------------------------------------------
(***************************************************************************)
(* Client, server and network.                                             *)
(***************************************************************************)

Connected == fate = "running" /\ pc # "closed" /\ ~client.gone

\* Every request has been answered, and every answer forwarded.
Answered ==
    /\ server.answered = Len(client.ends) /\ server.read = server.sent
    /\ pc \notin {"search_received", "record"}

InRequest ==
    client.ends # <<>> /\ client.sent < client.ends[Len(client.ends)]

\* The client has begun a request that ends with unit end.
Beginning(end) == [client EXCEPT !.sent = @ + 1, !.ends = Append(@, end)]

\* The client sends a unit, of a new request or of the one it is in.
SendUnit ==
    /\ Connected
    /\ \/ /\ InRequest
          /\ client' = [client EXCEPT !.sent = @ + 1]
          /\ UNCHANGED incidents
       \/ /\ ~InRequest /\ Len(client.ends) < Requests
          /\ client' = Beginning(client.sent + 1)
          /\ Ordinary(Answered, "pipelined")
       \/ /\ ~InRequest /\ Len(client.ends) < Requests /\ Answered
          /\ client' = Beginning(client.sent + 2)
          /\ Incident("long_request")
    /\ UNCHANGED <<queueVars, fate, worldVars, proxyVars, captureVars,
                   forwarded, server, owed>>

Leave ==
    /\ Connected /\ ~InRequest
    /\ Ordinary(Answered, "early_leave")
    /\ client' = [client EXCEPT !.gone = TRUE]
    /\ UNCHANGED <<queueVars, fate, worldVars, proxyVars, captureVars,
                   forwarded, server, owed>>

\* The server sends size units.
Serve(size) ==
    /\ fate = "running" /\ pc # "closed"
    /\ \E segments \in Cuts(session, "SOURCE_REMOTE", server.sent + 1, size) :
          Emit(segments)
    /\ UNCHANGED <<queueVars, fate, worldVars, proxyVars, loopVars, origins,
                   client, forwarded, owed>>

\* It answers a request that it has in full.
AnswerRequest ==
    /\ server.answered < Len(client.ends)
    /\ client.ends[server.answered + 1] <= Arrived
    /\ \E size \in 1 .. 2 :
          /\ Serve(size)
          /\ server' = [server EXCEPT !.answered = @ + 1, !.sent = @ + size]
          /\ Ordinary(size = 1, "long_answer")

Unasked ==
    /\ Serve(1) /\ Incident("unasked")
    /\ server' = [server EXCEPT !.sent = @ + 1]

\* An answer to a client that left, captured after its session.
LateAnswer ==
    /\ fate = "running" /\ owed # <<>>
    /\ Emit(<<Segment(Head(owed).session, "SOURCE_REMOTE", Head(owed).first,
                      1, now + 1)>>)
    /\ owed' = Tail(owed)
    /\ UNCHANGED <<queueVars, fate, worldVars, incidents, proxyVars, loopVars,
                   origins, client, forwarded, server>>

\* The last packet is captured a second time.
Retransmit ==
    /\ fate = "running" /\ last # <<>> /\ Incident("retransmit")
    /\ Emit(<<[last[1] EXCEPT !.at = now + 1]>>)
    /\ UNCHANGED <<queueVars, fate, worldVars, proxyVars, loopVars, origins,
                   peerVars>>

Next == \/ Main \/ HandlePacket \/ FailLoop \/ TakeFlag \/ SendUnit
        \/ Leave \/ AnswerRequest \/ Unasked \/ LateAnswer \/ Retransmit

Spec == Init /\ [][Next]_vars
        /\ WF_vars(Main) /\ WF_vars(HandlePacket) /\ WF_vars(AnswerRequest)

-----------------------------------------------------------------------------
(***************************************************************************)
(* Properties.                                                             *)
(***************************************************************************)

InSession == fate = "running" /\ pc # "closed"

TypeOK ==
    /\ loop \in {"none", "running", "ended"}
    /\ (loop = "none") = (pc = "closed")
    /\ (request # <<>>) = (pc \in {"search_sent", "search_received"})
    /\ Len(origins) = Len(captured)
    /\ forwarded <= client.sent /\ server.read <= server.sent
    /\ Len(owed) <= session

\* A session is without its loop only because pcap_loop has failed, in it or
\* in an earlier session from which on every session was closed without a
\* loop: there stopLoop left its flag in the handle.  The first session that
\* is closed before its loop has found the flag ends this.
LoopRuns ==
    InSession /\ loop = "ended" =>
       \E s \in failures : s <= session /\ s .. session - 1 \subseteq outages

Some(kinds) == incidents.kinds \cap kinds # {}

OwnSent(r) ==
    /\ r.tx.session = r.session /\ r.tx.way = "DESTINATION_REMOTE"
    /\ r.tx.first + r.tx.size - 1 = r.request

OwnReceived(r) ==
    /\ r.rx.session = r.session /\ r.rx.way = "SOURCE_REMOTE"
    /\ r.rx.first = r.chunk.first /\ r.rx.size = r.chunk.size

\* The stamps of a measurement are those of the last write and of the chunk
\* that was read, but for these cases.  Before the first write the transmit
\* stamp is that of an earlier session.  A packet captured twice is taken for
\* a later one with the same content.  Contents being alike, an answer that
\* was captured before the request, and so is passed over, is taken for the
\* next one.  What an earlier session left unread is taken for its own.
OwnStamps ==
    \A k \in DOMAIN records :
       LET r == records[k]
       IN  /\ OwnSent(r) \/ IF r.tx.session = r.session
                            THEN alike /\ Some({"retransmit"})
                            ELSE r.request = 0 \/ Some({"retransmit"})
           /\ OwnReceived(r) \/ IF r.rx.session = r.session
                THEN alike /\ Some({"retransmit", "unasked", "pipelined"})
                ELSE Some({"retransmit", "unasked", "early_leave"})

\* The stamps of a measurement are of two packets in the order of capture: a
\* difference is negative only when no write has stored a stamp yet.
MeasuredForward ==
    /\ \A k \in DOMAIN records : records[k].tx.at < records[k].rx.at
    /\ fate = "older" => tx_timestamp = NoSegment

\* What leaves every chunk one packet, captured after the one before it.
Harmless == {"retransmit", "early_leave"} \cup
            IF small THEN {"long_request"} ELSE {}

\* Every call of timingForPacket returns, when the host is spelled as
\* inet_ntop spells it and requests and answers come in turn, each in one
\* packet.  Repeated packets and leftovers of an earlier session delay none.
SearchReturns ==
    request # <<>> ~>
       \/ request = <<>> \/ fate # "running" \/ ~canonical
       \/ incidents.kinds \ Harmless # {}

\* A chunk sent as one packet above MAX_PACKET_SIZE ends the process, by the
\* exception on the loop thread, while the write waits for its stamp.
OffloadEnds ==
    "offload" \in incidents.kinds ~>
       fate = "rejected" \/ "loop_fails" \in incidents.kinds

=============================================================================

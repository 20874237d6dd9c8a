---------------------------- MODULE ProxySession ----------------------------
(***************************************************************************)
(* TimingProxy with its two ServerSockets (control and proxy_input) and a  *)
(* CPUTimingSocket (proxy_output).  One thread serves one client after the *)
(* other: handleClient accepts a control connection, reads the target from *)
(* it, accepts a data connection, connects to the target and then turns in *)
(* a loop that forwards input, forwards output with a measurement record   *)
(* on the control connection, and asks whether a peer has closed.          *)
(*                                                                         *)
(* Clients and target servers are external.  Streams carry units (a unit   *)
(* stands for bytes that arrive together); a read takes what has arrived,  *)
(* up to BUFSIZE.  Connections wait in the listen queues in the order they *)
(* were made.  A connection of a peer that is gone can still be written:   *)
(* the data is lost, send fails, or SIGPIPE ends the process, for no send  *)
(* of the program passes MSG_NOSIGNAL.                                     *)
(*                                                                         *)
(* A time stamp is what had happened when it was taken: start is the units *)
(* written to the server, stop the units that had arrived from it.         *)
(***************************************************************************)
EXTENDS Integers, Sequences, FiniteSetsExt

CONSTANTS
    Clients,       \* every client comes at most once
    NoClient,      \* a ServerSocket without a client
    BUFSIZE,       \* units a read of the proxy takes at most
    Requests,      \* bound: requests of a client
    RequestUnits,  \* units the server waits for before it answers
    ResponseUnits, \* units of an answer, sent one by one
    Unasked,       \* answers the server gives ahead of the requests
    Patient,       \* clients wait for an answer before the next request
    PartialSends,  \* send may take less than it is given
    Stdins         \* what file descriptor 0 may be: see Registered, Poll

ASSUME SessionAssumption ==
    /\ NoClient \notin Clients
    /\ BUFSIZE \in Nat \ {0}
    /\ {RequestUnits, ResponseUnits} \subseteq Nat \ {0}
    /\ {Requests, Unasked} \subseteq Nat
    /\ {Patient, PartialSends} \subseteq BOOLEAN
    /\ Stdins \subseteq {"quiet", "hung_up", "not_pollable"}

VARIABLES
    pc,            \* where handleClient is
    established,   \* connection_established
    control,       \* the client of the control socket
    input,         \* the client of proxy_input
    buf,           \* what was read and is not yet written
    depth,         \* write calls that wait for a nested one (partial sends)
    clock,         \* write_tstamp and read_tstamp of the CPUTimingSocket
    server,        \* the target of the session: see Connect
    client,        \* the clients, by name
    controlQueue,  \* the connections that wait for accept
    inputQueue,
    order,         \* history: the order in which connections were made
    stdin,         \* what descriptor 0 is
    fate           \* "running", or what ended the process

proxyVars == <<pc, established, control, input, buf, depth, clock>>
queueVars == <<controlQueue, inputQueue>>
vars == <<proxyVars, server, client, queueVars, order, stdin, fate>>

ProxyPcs == {"accept_control", "get_target", "accept_input", "connect",
             "forward_input", "write_output", "start_timing", "restart_timing",
             "peek", "forward_output", "write_input", "write_control",
             "poll", "close"}
\* place: which connections the client has made; control: it has not closed
\* the control connection alone; queue: sent and not yet read by the proxy.
NewClient == [place |-> "away", lines |-> 0, control |-> TRUE, sent |-> 0,
              queue |-> <<>>, got |-> <<>>, records |-> <<>>, hung |-> FALSE]

\* got: received from the proxy; sent: sent to it, the first read of it read.
NewServer(s) == [session |-> s, open |-> TRUE, got |-> <<>>, sent |-> <<>>,
                 read |-> 0]

Init ==
    /\ pc = "accept_control"
    /\ established = FALSE
    /\ control = NoClient
    /\ input = NoClient
    /\ buf = <<>>
    /\ depth = 0
    /\ clock = [start |-> [session |-> 0, sent |-> 0],
                stop  |-> [session |-> 0, arrived |-> 0]]
    /\ server = [NewServer(0) EXCEPT !.open = FALSE]
    /\ client = [c \in Clients |-> NewClient]
    /\ controlQueue = <<>>
    /\ inputQueue = <<>>
    /\ order = [control |-> <<>>, input |-> <<>>]
    /\ stdin \in Stdins
    /\ fate = "running"

ControlOpen(c) == client[c].place # "gone" /\ client[c].control
InputOpen(c)   == client[c].place # "gone"

\* What the server has sent and the proxy has not read.
Arrived == SubSeq(server.sent, server.read + 1, Len(server.sent))

At(place) == fate = "running" /\ pc = place

-----------------------------------------------------------------------------
(***************************************************************************)
(* The proxy: handleClient.                                                *)
(***************************************************************************)

\* enableEpollWithEvents registers descriptor 0 for every socket; one that
\* cannot be polled makes epoll_ctl fail, and "throw;" ends the process.
Registered == stdin # "not_pollable"

AcceptOn(queue, socket, next) ==
    /\ queue # <<>>
    /\ socket' = Head(queue)
    /\ IF Registered
       THEN fate' = fate /\ pc' = next
       ELSE fate' = "terminated" /\ pc' = pc

AcceptControl ==
    /\ At("accept_control")
    /\ AcceptOn(controlQueue, control, "get_target")
    /\ controlQueue' = Tail(controlQueue)
    /\ UNCHANGED <<established, input, buf, depth, clock, server, client,
                   inputQueue, order, stdin>>

\* Both lines have come.  A control connection closed before that is read
\* again and again: read returns 0 and getline goes round.
GetProxyTarget ==
    /\ At("get_target")
    /\ client[control].lines = 2
    /\ pc' = "accept_input"
    /\ UNCHANGED <<established, control, input, buf, depth, clock, server,
                   client, queueVars, order, stdin, fate>>

AcceptInput ==
    /\ At("accept_input")
    /\ AcceptOn(inputQueue, input, "connect")
    /\ inputQueue' = Tail(inputQueue)
    /\ UNCHANGED <<established, control, buf, depth, clock, server, client,
                   controlQueue, order, stdin>>

Connect ==
    /\ At("connect")
    /\ server' = NewServer(server.session + 1)
    /\ established' = TRUE
    /\ pc' = "forward_input"
    /\ UNCHANGED <<control, input, buf, depth, clock, client, queueVars,
                   order, stdin, fate>>

\* No name, no port number or no server: std::stoi or connect throws.  So does
\* a read of a control connection that is reset.  Nothing catches it.
TargetFails ==
    /\ \/ At("get_target") /\ client[control].lines = 2
       \/ At("get_target") /\ ~ControlOpen(control)
       \/ At("connect")
    /\ fate' = "terminated"
    /\ UNCHANGED <<proxyVars, server, client, queueVars, order, stdin>>

\* Mutant: an empty read goes on to the write like any other.
HasReadAny(n) == n >= 0
HasRead(n)    == n > 0

\* tryForwardInput up to the write: read what is there without blocking.  A
\* read of 0 is a closed connection; its exception skips the output.
ForwardInput ==
    /\ At("forward_input")
    /\ LET queue == client[input].queue
           n     == Min({BUFSIZE, Len(queue)})
       IN  /\ buf' = SubSeq(queue, 1, n)
           /\ client' = [client EXCEPT ![input].queue =
                                          SubSeq(queue, n + 1, Len(queue))]
           /\ \/ /\ HasRead(n)
                 /\ pc' = "write_output" /\ established' = established
              \/ /\ n = 0 /\ InputOpen(input)
                 /\ pc' = "forward_output" /\ established' = established
              \/ /\ n = 0 /\ ~InputOpen(input)
                 /\ pc' = "poll" /\ established' = FALSE
    /\ UNCHANGED <<control, input, depth, clock, server, queueVars, order,
                   stdin, fate>>

\* What send may take of the buffer.
Taken == IF PartialSends /\ buf # <<>> THEN 1 .. Len(buf) ELSE {Len(buf)}

\* send on a connection whose peer is gone, when next is the statement after
\* the write: the data is lost, send fails and the session ends, or the
\* signal ends the process.
SendInVain(next) ==
    /\ buf' = <<>>
    /\ \/ pc' = next /\ UNCHANGED <<established, depth, fate>>
       \/ pc' = "poll" /\ established' = FALSE /\ depth' = 0 /\ UNCHANGED fate
       \/ fate' = "sigpipe" /\ UNCHANGED <<pc, established, depth>>

\* Mutant: what send did not take is forgotten.
RestForgotten(n) == <<>>
Rest(n)          == SubSeq(buf, n + 1, Len(buf))

\* TimingSocket::write of proxy_output.  The rest of a partial send goes to
\* write again, which is CPUTimingSocket's: a nested call.
WriteOutput ==
    /\ At("write_output")
    /\ \/ /\ server.open
          /\ \E n \in Taken :
                /\ server' = [server EXCEPT !.got = @ \o SubSeq(buf, 1, n)]
                /\ buf' = Rest(n)
                /\ IF n < Len(buf)
                   THEN pc' = pc /\ depth' = depth + 1
                   ELSE pc' = "start_timing" /\ depth' = depth
          /\ UNCHANGED <<established, fate>>
       \/ /\ ~server.open
          /\ SendInVain("start_timing")
          /\ UNCHANGED server
    /\ UNCHANGED <<control, input, clock, client, queueVars, order, stdin>>

\* CPUTimingSocket::write after the send.  When a nested call has returned,
\* the clock is started again, although the answer has been seen by then.
StartTiming ==
    /\ pc \in {"start_timing", "restart_timing"} /\ At(pc)
    /\ clock' = [clock EXCEPT !.start = [session |-> server.session,
                                         sent    |-> Len(server.got)]]
    /\ pc' = "peek"
    /\ UNCHANGED <<established, control, input, buf, depth, server, client,
                   queueVars, order, stdin, fate>>

\* Mutant: the peek does not wait for the server.
AnswerNotAwaited == TRUE
AnswerThere      == Arrived # <<>> \/ ~server.open

\* Mutant: one write call more returns than was made.
ReturnTooFar == depth - 1
Return       == IF depth > 0 THEN depth - 1 ELSE 0

\* recv with MSG_PEEK: wait for the server, however long it takes.
Peek ==
    /\ At("peek")
    /\ AnswerThere
    /\ clock' = [clock EXCEPT !.stop = [session |-> server.session,
                                        arrived |-> Len(server.sent)]]
    /\ pc' = IF depth > 0 THEN "restart_timing" ELSE "forward_output"
    /\ depth' = Return
    /\ UNCHANGED <<established, control, input, buf, server, client,
                   queueVars, order, stdin, fate>>

\* tryForwardOutput up to the write.
ForwardOutput ==
    /\ At("forward_output")
    /\ LET n == Min({BUFSIZE, Len(Arrived)})
       IN  /\ buf' = SubSeq(Arrived, 1, n)
           /\ server' = [server EXCEPT !.read = @ + n]
    /\ \/ /\ Arrived # <<>>
          /\ pc' = "write_input"
          /\ UNCHANGED established
       \/ /\ Arrived = <<>>
          /\ pc' = "poll"
          /\ established' = server.open
    /\ UNCHANGED <<control, input, depth, clock, client, queueVars, order,
                   stdin, fate>>

\* ServerSocket::write of proxy_input; the rest of a partial send follows.
WriteInput ==
    /\ At("write_input")
    /\ \/ /\ InputOpen(input)
          /\ \E n \in Taken :
                /\ client' = [client EXCEPT ![input].got =
                                               @ \o SubSeq(buf, 1, n)]
                /\ buf' = Rest(n)
                /\ pc' = IF n < Len(buf) THEN pc ELSE "write_control"
          /\ UNCHANGED <<established, depth, fate>>
       \/ /\ ~InputOpen(input)
          /\ SendInVain("write_control")
          /\ UNCHANGED client
    /\ UNCHANGED <<control, input, clock, server, queueVars, order, stdin>>

\* The measurement of the chunk that has just been written.
Record == [session |-> server.session, upto |-> server.read,
           start |-> clock.start, stop |-> clock.stop]

\* Mutant: the measurement is sent twice.
RecordTwice(records) == Append(Append(records, Record), Record)

\* Mutant: the measurement is not sent.
NoRecord(records)  == records
AddRecord(records) == Append(records, Record)

WriteControl ==
    /\ At("write_control")
    /\ \/ /\ ControlOpen(control)
          /\ client' = [client EXCEPT ![control].records = AddRecord(@)]
          /\ pc' = "poll"
          /\ UNCHANGED <<established, buf, depth, fate>>
       \/ /\ ~ControlOpen(control)
          /\ SendInVain("poll")
          /\ UNCHANGED client
    /\ UNCHANGED <<control, input, clock, server, queueVars, order, stdin>>

\* Mutant: the end of a stream does not end the loop.
StillPollable    == stdin # "hung_up"
StillEstablished == established /\ stdin # "hung_up"

\* socketPeerClosed of the three sockets: all three ask for descriptor 0.
Poll ==
    /\ At("poll")
    /\ established' = StillEstablished
    /\ pc' = IF established' THEN "forward_input" ELSE "close"
    /\ UNCHANGED <<control, input, buf, depth, clock, server, client,
                   queueVars, order, stdin, fate>>

\* Mutant: the control connection is kept for the next data connection.
CloseInputOnly ==
    /\ At("close")
    /\ client' = [client EXCEPT ![input].hung = TRUE]
    /\ server' = [server EXCEPT !.open = FALSE]
    /\ input' = NoClient
    /\ pc' = "accept_input"
    /\ UNCHANGED <<established, control, buf, depth, clock, queueVars, order,
                   stdin, fate>>

Close ==
    /\ At("close")
    /\ client' = [c \in Clients |->
                    [client[c] EXCEPT !.hung = @ \/ c \in {control, input}]]
    /\ server' = [server EXCEPT !.open = FALSE]
    /\ control' = NoClient
    /\ input' = NoClient
    /\ buf' = <<>>
    /\ pc' = "accept_control"
    /\ UNCHANGED <<established, depth, clock, queueVars, order, stdin, fate>>

-----------------------------------------------------------------------------
(***************************************************************************)
(* The peers.                                                              *)
(***************************************************************************)

ConnectControl(c) ==
    /\ client[c].place = "away"
    /\ client' = [client EXCEPT ![c].place = "control"]
    /\ controlQueue' = Append(controlQueue, c)
    /\ order' = [order EXCEPT !.control = Append(@, c)]
    /\ UNCHANGED <<proxyVars, server, inputQueue, stdin, fate>>

SendLine(c) ==
    /\ client[c].place = "control" /\ client[c].control /\ ~client[c].hung
    /\ client[c].lines < 2
    /\ client' = [client EXCEPT ![c].lines = @ + 1]
    /\ UNCHANGED <<proxyVars, server, queueVars, order, stdin, fate>>

ConnectInput(c) ==
    /\ client[c].place = "control" /\ client[c].lines = 2
    /\ client' = [client EXCEPT ![c].place = "input"]
    /\ inputQueue' = Append(inputQueue, c)
    /\ order' = [order EXCEPT !.input = Append(@, c)]
    /\ UNCHANGED <<proxyVars, server, controlQueue, stdin, fate>>

\* A unit of a request; a patient client has all answers to earlier requests.
SendUnit(c) ==
    /\ client[c].place = "input" /\ ~client[c].hung
    /\ client[c].sent < Requests * RequestUnits
    /\ Patient => Len(client[c].got)
                     >= ResponseUnits * (client[c].sent \div RequestUnits)
    /\ client' = [client EXCEPT
                    ![c].sent  = @ + 1,
                    ![c].queue = Append(@, <<c, client[c].sent + 1>>)]
    /\ UNCHANGED <<proxyVars, server, queueVars, order, stdin, fate>>

CloseControl(c) ==
    /\ client[c].place \in {"control", "input"} /\ client[c].control
    /\ client' = [client EXCEPT ![c].control = FALSE]
    /\ UNCHANGED <<proxyVars, server, queueVars, order, stdin, fate>>

Leave(c) ==
    /\ client[c].place \in {"control", "input"}
    /\ client' = [client EXCEPT ![c].place = "gone"]
    /\ UNCHANGED <<proxyVars, server, queueVars, order, stdin, fate>>

MayAnswer ==
    /\ server.open
    /\ Len(server.sent) < ResponseUnits
                          * (Len(server.got) \div RequestUnits + Unasked)

ServerAnswer ==
    /\ MayAnswer
    /\ server' = [server EXCEPT
                    !.sent = Append(@, <<server.session, Len(@) + 1>>)]
    /\ UNCHANGED <<proxyVars, client, queueVars, order, stdin, fate>>

ServerClose ==
    /\ server.open
    /\ server' = [server EXCEPT !.open = FALSE]
    /\ UNCHANGED <<proxyVars, client, queueVars, order, stdin, fate>>

-----------------------------------------------------------------------------
ProxyStep ==
    \/ AcceptControl \/ GetProxyTarget \/ AcceptInput \/ Connect
    \/ ForwardInput \/ WriteOutput \/ StartTiming \/ Peek
    \/ ForwardOutput \/ WriteInput \/ WriteControl \/ Poll \/ Close

ClientStep(c) ==
    \/ ConnectControl(c) \/ SendLine(c) \/ ConnectInput(c) \/ SendUnit(c)
    \/ CloseControl(c) \/ Leave(c)

Next ==
    \/ ProxyStep
    \/ TargetFails
    \/ \E c \in Clients : ClientStep(c)
    \/ ServerAnswer
    \/ ServerClose

\* The operating system schedules the proxy's only thread.
Spec == Init /\ [][Next]_vars /\ WF_vars(ProxyStep)

-----------------------------------------------------------------------------
(***************************************************************************)
(* Properties.                                                             *)
(***************************************************************************)

InSession == pc \in ProxyPcs \ {"accept_control", "get_target",
                                "accept_input", "connect", "close"}

TypeOK ==
    /\ pc \in ProxyPcs
    /\ established \in BOOLEAN
    /\ {control, input} \subseteq Clients \cup {NoClient}
    /\ Len(buf) <= BUFSIZE
    /\ depth \in Nat
    /\ server.read <= Len(server.sent)
    /\ \A c \in Clients : client[c].lines \in 0 .. 2
    /\ fate \in {"running", "terminated", "sigpipe"}
    /\ InSession => {control, input} \subseteq Clients

\* Nothing is lost, doubled, reordered or taken over from another session
\* between client and server, through partial reads and partial sends, while
\* the receiver is there.
StreamsIntact ==
    InSession =>
       /\ server.open =>
             server.got \o (IF pc = "write_output" THEN buf ELSE <<>>)
                \o client[input].queue
             = [i \in 1 .. client[input].sent |-> <<input, i>>]
       /\ InputOpen(input) =>
             client[input].got \o (IF pc = "write_input" THEN buf ELSE <<>>)
                \o Arrived
             = server.sent

\* The proxy waits for good in its peek only when the server in turn waits
\* for the rest of a request, which the proxy does not read while it waits.
WedgedOnlyMidRequest ==
    /\ At("peek") /\ server.open /\ Arrived = <<>> /\ ~MayAnswer
    => Len(server.got) % RequestUnits # 0

\* The record that comes with the beginning of an answer was measured in this
\* session, from the end of the request it answers to no earlier than its
\* arrival, also when nested write calls have started the clock again.
\* (Of servers that wait to be asked and of patient clients.)
FreshRecord ==
    \A c \in Clients : \A i \in DOMAIN client[c].records :
       LET r     == client[c].records[i]
           first == IF i = 1 THEN 1 ELSE client[c].records[i - 1].upto + 1
           k     == (first - 1) \div ResponseUnits + 1
       IN  (first - 1) % ResponseUnits = 0 =>
              /\ {r.start.session, r.stop.session} = {r.session}
              /\ r.start.sent = k * RequestUnits
              /\ r.stop.arrived >= first

\* A session serves one client when the data connections are made in the
\* order of the control connections; nothing else relates the two.
OrderPairs ==
    (/\ InSession
     /\ \A i \in DOMAIN order.input : order.input[i] = order.control[i])
       => control = input

\* The session ends when its client has gone, unless the proxy waits for good
\* for an answer the server never gives.
InputCloseEndsSession ==
    \A c \in Clients :
       (InSession /\ input = c /\ client[c].place = "gone")
          ~> (fate # "running" \/ input # c \/ [](pc = "peek"))

\* Whatever the server has sent reaches a client that stays, together with a
\* measurement record.
AnswersRecorded ==
    \A i \in 1 .. ResponseUnits * (Requests + Unasked) :
       (InSession /\ Len(server.sent) >= i)
          ~> \/ fate # "running" \/ ~InSession
             \/ ~InputOpen(input) \/ ~ControlOpen(control)
             \/ /\ Len(client[input].got) >= i
                /\ \E n \in DOMAIN client[control].records :
                      client[control].records[n].upto >= i

\* TimingProxy.cpp: "If any side closes the connection, shut down".
ControlCloseEndsSession ==
    \A c \in Clients :
       (InSession /\ control = c /\ ~ControlOpen(c))
          ~> (fate # "running" \/ ~InSession)

\* The proxy implements the relay: sessions hand on both streams unchanged,
\* each chunk of an answer is reported once, after it and before the next, and
\* a session ends only because of a peer that is gone or of descriptor 0.
Relay == INSTANCE SessionRelay WITH
            serving  <- IF pc \in ProxyPcs \ {"accept_control", "get_target",
                                              "accept_input", "connect"}
                        THEN <<control, input>> ELSE <<>>,
            relaying <- pc \in {"write_input", "write_control"},
            received <- [c \in Clients |-> client[c].got],
            records  <- [c \in Clients |-> client[c].records],
            sent     <- [c \in Clients |-> client[c].sent],
            left     <- {c \in Clients : ~InputOpen(c)},
            closed   <- {c \in Clients : ~ControlOpen(c)},
            hung_up  <- stdin = "hung_up"
ImplementsRelay == Relay!Spec

=============================================================================

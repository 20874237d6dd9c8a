# TLA+ models of Timing-Proxy

Timing-Proxy forwards one TCP connection at a time between a client and a
target server and measures how long the server takes to answer. This directory
holds TLA+ modules of its implementation (`src/src`), TLC configurations that
check them, and TLAPS proofs about them. Source references below are relative
to `src/src`.

## 1. Inventory

### Components

| Component | State | Operations | Talks to |
|---|---|---|---|
| `TimingProxy` | connect_host, connect_port, connection_established | run, handleClient, getProxyTarget, getline, tryForwardInput, tryForwardOutput, setInterface | two `ServerSocket`s (control, data), one `TimingSocket` |
| `ServerSocket` | listening socket, client socket, epoll descriptor, has_client | bind, listen, accept, read, write, close_client, close, socketPeerClosed | kernel, clients |
| `Socket` | none | enableEpollWithEvents, socketPeerClosed | epoll |
| `TimingSocket` | state, sock, epfd, host, port | connect (with retries), read, write, close | kernel, target server |
| `CPUTimingSocket` | write_tstamp, read_tstamp | write (blocks in a peek), read, getLastMeasurement | `TimeSources` |
| `KernelTimingSocket` | tx_timestamp, rx_timestamp, device configuration | connect, write with getTxTimestamp, read, getLastMeasurement | socket error queue, ioctl |
| `PCAPTimingSocket` | tx_timestamp, rx_timestamp, a `PcapWrapper` kept over sessions | connect, write, read, close, getLastMeasurement | `PcapWrapper` |
| `PcapWrapper` + `PcapLoopCallback` | two shared buffers, an active flag and an index for each of two threads, stop_loop, libpcap's break flag | startLoop, handlePacket (on the loop thread), timingForPacket, stopLoop | libpcap, `PacketParser` |
| `PacketParser` | none kept | Ethernet, IPv4, IPv6, TCP, UDP decodeUntil | the callback, getTxTimestamp |
| `TimeSources` | the chosen counter | cpu features, best_timesource | `CPUTimingSocket` |
| `TestClient`, `TestServer`, `Benchmark`, `helper`, `main.cpp` | local variables | a measuring bench, the command line | the sockets above |

### How they interact

`handleClient` runs on the only thread of the proxy: it accepts a control
connection and reads the target from it (two lines), accepts a data connection,
connects to the target, and then loops: forward input, forward output with an
8 byte measurement on the control connection, ask three sockets whether a peer
has closed. With the PCAP technique a second thread runs `pcap_loop` from
connect to close; its callback `handlePacket` and the main thread's
`timingForPacket` share a `UserData` object without lock or atomic.

### What is hard, and what would be correct

* **Capture buffer.** Two threads, plain members, a buffer switch in two
  stores, a test over two members. Correct: no packet is lost or overwritten
  before it is searched; no slot is written while it is read; a full buffer is
  reported only to a consumer that is behind; calls return the earliest
  unspent match; calls and stopLoop return.
* **Session.** Blocking peek inside write, partial reads and sends (a partial
  send calls the *virtual* write), peers that leave at any step, two listen
  queues that nothing ties together, exceptions outside the try block, SIGPIPE,
  epoll on the wrong descriptor. Correct: streams arrive intact; a measurement
  belongs to the request it is sent for; a session ends when a side closes; no
  waiting for good but where a peer causes it.
* **Measurement arithmetic.** Borrow at two precisions, times the wrong way
  round. Correct: the exact difference or the end of the process.
* **PCAP session.** The packets of a chunk are found by payload: coalesced,
  split, repeated or early segments have no single packet. Correct: write and
  read return, with the stamps of their own chunk.
* **Kernel session.** Error queue with retries, bytes read and then dropped for
  want of ancillary data. Correct: nothing of the stream is lost, the transmit
  stamp is that of the last write.
* **Parser.** Lengths from the packet, unsigned differences, a chain of
  extension headers. Correct: a payload lies within its packet.

`PROJECT.json` lists the single hazards at their lines.

## 2. Plan

| Order | Module | Contents | State |
|---|---|---|---|
| 1 | `CaptureQueue` | abstract: what timingForPacket promises | done |
| 2 | `PcapCapture`, `PcapCaptureProofs` | the two threads; implements 1 | done, proved |
| 3 | `TimeDeltas`, `TimeDeltasProofs` | the differences of times | done, proved |
| 4 | `ProxySession`, `ProxySessionProofs`, `ProxyTimingProofs` | TimingProxy, ServerSockets, CPUTimingSocket; implements 9 | done; all safety invariants proved |
| 5 | `PcapSession`, `PcapSessionProofs` | sessions with PCAPTimingSocket, over 1 | done; all safety invariants proved, OwnStamps in 8 |
| 6 | `KernelSocket`, `Bench`, `BenchProofs` | KernelTimingSocket; TestClient with TestServer over it | done; all safety invariants proved |
| 7 | `PacketParser`, `PacketParserProofs` | frames to places and sizes, with every throw | done; all invariants proved |
| 8 | `PcapStampsProofs` | OwnStamps, over the invariants of 5 | done |
| 9 | `SessionRelay` | abstract: what TimingProxy promises to clients and servers; implemented by 4 | done, proved |

`PcapSession` composes TimingProxy's loop, PCAPTimingSocket and the queue that
`PcapCapture` implements; `Bench` composes `KernelSocket` with the two test
programs. `ProxySession` implements `SessionRelay`. `PcapSession` is not shown to:
its client receives units without the sockets in between, and what is hard in
it is whose stamps a measurement has, which OwnStamps says with its exceptions.

## 3. Modules and code

### PcapCapture (PcapWrapper.cpp, PcapLoopCallback.cpp)

Variables have the names of the members of `UserData`. `loop_pc` and `main_pc`
say where the two threads are; `packet`, `wanted`, `match` and `result` are
local variables; `captured`, `taken` and `cursor` are histories.

| Action | Code |
|---|---|
| HandlePacket, RejectPacket | entry of handlePacket, decoding, the tests of the payload (54-95) |
| CheckConsumer, ResetProducerIndex, FlipProducerBuffer | the buffer switch (95-104) |
| StorePacket, PublishPacket | copy into the slot, index++ (106-113) |
| LeaveLoop, FailLoop | pcap_loop returns because of the flag, or on an error |
| StartLoop, TimingForPacket | startLoop, entry of timingForPacket |
| CheckActive, CheckIndex, CheckEnd, SwitchConsumerBuffer | the two tests (153-165) |
| CompareCandidate, ReadPastEnd, ReturnTiming | the comparison, index++, copying the timing (167-184) |
| BreakLoop, SetStopLoop, JoinLoop | stopLoop |

Memory: each load or store of a member both threads use is a step, in program
order. The members are plain, so the language promises less; the project sets
no build type, hence no optimisation, and on x86 such code executes its stores
and loads of one thread in this order as other threads see it (a store may be
seen later, never out of order). The model makes a store visible at once; how
much later it may be seen is left out. An optimising build may keep a member in a
register and is outside the model. The copy of a slot is one step; NoSlotRace
says that no reader is at the slot meanwhile. A read of the slot after the last
one has no meaning in the language, so `fate` becomes "overrun" and the model
ends there; "buffer_full" and "rejected" are the throws of the callback.
libpcap is external: a callback may come at any time while the loop runs, the
break flag is seen between packets, and pcap_loop may fail.

### CaptureQueue

The promise of `PcapWrapper` without buffers and threads: a history of
captures, a cursor, and calls answered by the earliest match after the cursor.
It also bounds the ways the process may end: on overflow only with a buffer's
worth of unspent captures, astray only in a call after a buffer's worth of
captures.

### TimeDeltas

`timevalDeltaToNs` (PcapLoopCallback.cpp:19), `timespecDiff`
(KernelTimingSocket.cpp:16) and the subtraction of CPUTimingSocket.cpp:46. The
number of units in a second is a constant. The single step `getLastMeasurement`
is the virtual call of the proxy.

### ProxySession (TimingProxy.cpp, ServerSocket.cpp, TimingSocket.cpp, CPUTimingSocket.cpp, Socket.cpp)

`pc` is the place in handleClient; `depth` counts write calls that wait for a
nested one. `client` and `server` hold the two ends of the connections with
what is in flight. Each action ends where the thread makes a system call
another party can influence.

| Action | Code |
|---|---|
| AcceptControl, AcceptInput | ServerSocket::accept with enableEpollWithEvents |
| GetProxyTarget | both lines have come (getline) |
| Connect, TargetFails | TimingSocket::connect; exceptions nobody catches |
| ForwardInput, WriteOutput | tryForwardInput, TimingSocket::write with partial sends |
| StartTiming, Peek | CPUTimingSocket::write after the send |
| ForwardOutput, WriteInput, WriteControl | tryForwardOutput |
| Poll, Close | the end of the loop's body, the end of handleClient |
| ConnectControl ... ServerClose | clients and servers (external) |

A unit stands for bytes that arrive together. A time stamp is abstracted to
what had happened when it was taken. A connection is closed in order (a read
then returns 0): a reset makes one read return -1 first, which costs the loop
one more turn and is left out. The proxy's descriptor 0 is quiet, hung up or
not pollable from the start, because the epoll sets watch it and nothing else.
A send never blocks: the windows of the peers are not modelled, so a peer that
stops reading for good is not among the ways the proxy can come to wait (no
safety property depends on it).

### SessionRelay

What is left of the proxy without its sockets, buffers, listen queues and
places: sessions that follow each other, each with a control connection and a
data connection nothing has been written to and a new server (Begin); requests
that reach the server in order (ForwardRequest); chunks of the answer that are
taken, delivered and reported, in this order and one after the other
(TakeAnswer, DeliverAnswer, Report), each report with the two stamps of the
last Start and Stop; and an End. It also says what the proxy may leave out, and
why: Lose, the only step that drops part of a chunk or its report, needs a
data or control connection that is gone, and so does End, if the server is
still there and descriptor 0 has not hung up. Three things of the code's design
are visible in it: nothing ties the two connections of Begin together; Stop and
Start may be taken in any order between chunks, so that a report can carry old
stamps; and a chunk whose receiver is gone may be reported like any other.

The refinement mapping is in `ProxySession` (`Relay`): the session is that of
`control` and `input` from the connection to the target to the end of the loop,
a chunk is under way between the read of the server and the write of its
measurement, and received, records and sent are fields of `client`.

### PcapSession (TimingProxy.cpp, PCAPTimingSocket.cpp, TimingSocket.cpp)

Variables: those of `CaptureQueue`, `pc` for the place in handleClient, `calls`
for write calls that wait for a nested one, `chunk` for what the read of the
server has taken; `loop` and `break_loop` for the loop thread and the flag in
libpcap's handle, which all sessions share; `ring` for packets the kernel has
captured and the loop has not seen. `origins` is a history: which packet each
capture is.

| Action | Code |
|---|---|
| Connect | setFilter, startLoop, TimingSocket::connect |
| ForwardInput, Send | tryForwardInput, TimingSocket::write with partial sends |
| AskSent, FindSent | timingForPacket in PCAPTimingSocket::write |
| ForwardOutput, FindReceived, WriteRecord | tryForwardOutput, PCAPTimingSocket::read, getLastMeasurement |
| Close | stopLoop, TimingSocket::close |
| HandlePacket | the callback on the loop thread |
| FailLoop, TakeFlag | pcap_loop returns an error; it finds a flag left by an earlier stopLoop, takes it back and returns |
| SendUnit ... Retransmit | client, server and network (external) |

The flag ends one run of pcap_loop, which takes it back. A stopLoop after
pcap_loop has failed leaves it in the handle. Connect starts the next thread and
leaves the flag alone: the thread finds it at some later time, in TakeFlag,
perhaps after packets it has handled, or the session's own stopLoop comes first,
sets the flag again and waits for the thread, which takes it back once (Close).
There is no fairness on TakeFlag. `failures` and `outages` are histories: the
sessions in which pcap_loop failed, and those that were closed after their loop
had ended.

TimingProxy's own steps are coarser than in `ProxySession`: what the descriptors
and connections do is checked there, and here the loop only alternates between
its two directions. What the packets look like is an initial choice: `alike`
(units of equal content), `small` (whether two units fit in one packet) and
`canonical` (whether the host was given the way inet_ntop prints it, without
which every packet counts as an answer). The transmit stamp of the first session
starts as NoSegment, memory that no write has set.

### KernelSocket (KernelTimingSocket.cpp, TimingSocket.cpp)

`pc` is where the program that owns the socket is; `calls` and `retries` belong
to write. `outgoing`, `errqueue`, `incoming` and `received` are the kernel's. A
stamp names the request or answer of its packet.

| Action | Code |
|---|---|
| Connect, InitializeDevice, InitializeSocket | connect and the two set-ups, with the fallback to software stamps |
| Send | TimingSocket::write, partial sends |
| Search, SearchFails | a turn of getTxTimestamp's loop; the throw after the last |
| Read, ReadReturns | read with its ancillary data, and -1 without |
| Transmit, Retransmit, Arrive | the network (external) |

The retries are a constant (1000 in the code); the time a sleep takes is
abstracted: a stamp that is made comes within the retries (`InTime`) unless the
incident `no_stamp` happens. A turn of getTxTimestamp that fails in another way
than for want of a message (another error of recvmsg, a message that is cut or
not of the error queue) counts as a retry, as it does in the code. Exceptions of
decodeUntil inside a turn are not modelled: the error queue holds packets the
socket itself has sent, which are TCP over IPv4 or IPv6 without extension
headers.

### Bench (TestClient/main.cpp, TestServer/main.cpp)

The client's measuring loop (BeginWrite, Write, ReadAnswer, Measure, Finish) and
the server's loop (ServerRead, ServerWrite, ServerKilled) over `KernelSocket`.
The server ignores the 0 of a closed connection and answers once more, which the
client's side answers with a reset. A sample records whose stamps it took.

### PacketParser (PacketParser/, PcapLoopCallback.cpp:54-95)

A frame is its size and the fields the parsers read; a result is a place and a
size. `EthernetDecode` and the operators below it follow the decodeUntil
functions branch by branch: a test that throws an exception handlePacket
catches is `InvalidArgument`, a throw nothing catches is `Terminates`. Sizes wrap
like size_t. The steps are `decodeUntil` (of any layer, as the parser tests call it) and
`handlePacket`. The reference (`DataAt`, `DataSize`, `Consistent`) is computed
from what the standards say of a frame.

The reference takes the lengths of the extension headers from the standards
and not from the parser: RFC 8200 counts in eight bytes, less one, RFC 4302, for
the authentication header, in four bytes, less two (`HeaderSize`). The walk
(Ipv6Parser.cpp:49-62) takes all lengths in the first unit (`ExtensionSize`), and
`HeaderTypeMap` (Ipv6Parser.h:61) sends it over authentication headers as well. So
DecodesLayer says two things: a consistent frame without an authentication
header is decoded exactly, and of an IPv6 packet with one the payload is never
found. For such a packet the fields of what the walk takes for the next header
are not known; the authentication header is therefore the last of its chain
there, and of a length the standard allows (at least one unit).

A consistent frame ends the process in two cases (`Ends`): an extension header
that starts less than 64 bytes before the end of the payload, and a transport
protocol that HeaderTypeMap has not (std::map::at throws), of which SCTP is the
one libpcap's test of a port lets pass. The comment at `Ipv6Parser.cpp:51`
("extension headers are always multiples of 64 byte in size") is not what line
55 of the walk does; run headers shows it (HeadersOf64).

`usrdata` has the two members of UserData that handlePacket tests before it
takes a result: the link type and `stop_loop`.

## 4. Runs

| Run | Configuration | Shows |
|---|---|---|
| capture | `MCPcapCapture.cfg` | safety of the buffers, the inductive invariant, that they implement `CaptureQueue`, and that calls whose packet was captured and stopLoop return |
| capture_shared | `MCShared.cfg` | violated: "never accessed from more than one thread" (PcapLoopCallback.h:45) |
| capture_switch | `MCSwitch.cfg` | violated: "switch to the other buffer" (PcapWrapper.cpp:159-160) |
| deltas | `MCTimeDeltas.cfg` | the differences agree with the reference |
| streams | `MCStreams.cfg` | streams intact; waiting for good only in the middle of a request |
| records | `MCRecords.cfg` | measurements belong to their request and session; pairing of connections; the proxy implements `SessionRelay` |
| session_live | `MCSessionLive.cfg` | a session ends with its client; answers are recorded |
| parser | `MCPacketParser.cfg` | consistent frames decode to an independent reference, but never behind an authentication header; what handlePacket stores; nothing outside an IPv6 frame |
| headers | `MCHeaders.cfg` | violated: "extension headers are always multiples of 64 byte in size" (Ipv6Parser.cpp:51) |
| bench | `MCBench.cfg` | which stamps a sample can have; client and server end |
| pcap_session | `MCPcapSession.cfg` | which stamps a measurement can have; when a search returns; a session is without its loop thread only because pcap_loop failed in it, or failed earlier and every session since was closed without a loop |
| control_close | `MCControlClose.cfg` | violated: "If any side closes the connection, shut down" (TimingProxy.cpp:71) |

**What the four violations are.** (1) Both threads access the members of
`UserData`. (2) handlePacket resets its index and then flips its flag. A
consumer at the end of its buffer that makes both tests between these two
stores neither waits nor switches and compares the slot after the last one.
OverrunOnlyInWindow shows this is the only way there. (3) epoll_ctl is given
descriptor 0 instead of the socket, so a close of the control connection is
never noticed in an idle session. (4) An extension header of eight bytes is
passed by the walk of Ipv6Parser, whose comment says that all are multiples of
64 bytes; the frames it ends the process on for this reason, although nothing in
them is wrong, are `ShortTail` of DecodesLayer.

**Bounds.** capture: two slots, five packets in a session: the producer fills
a, fills b and comes back to a, which is every relation of the two positions,
twice (two sessions, the second over the slots of the first); one payload with
two directions gives two kinds of packets, all a comparison can tell apart.
A call can be at each of these positions when it starts to wait. deltas: seconds of three units of two nanoseconds; the fractions of
two times can be smaller, equal or larger and their seconds 0, 1 or 2 apart,
which covers each branch. streams: two requests of two units, answers of two
units, one unasked, reads of at most two: requests are read in one piece, in
two, or with part of the next. records: two clients, two requests each,
which is two sessions, of their own or crossed connections, with partial sends,
answers in one piece or two, and peers that leave at every step. The clients are
symmetric there: its three properties are safety properties that treat them
alike. Descriptor 0 is quiet in it, so that a session ends because descriptor 0
hung up (the last disjunct of `End` in SessionRelay) is left to the proof of
RelayRefinement.
session_live and control_close: one client, since what they say concerns one
session. parser: sizes of data below, at and above each limit (0, a header, a
slot), IPv4 options, chains of up to two extension headers, with and without
an authentication header or ESP, padding, length fields that are too short or
too long, frames cut within a header, each of them from both link types and
before and after stop_loop is set; headers: the same frames. bench: four
requests are two measurements of each sample, so an answer can be filed under
the next request and under the next of the same sample; two incidents let a cut
meet a repetition; three retries tell a queue with something foreign in it from
an empty one. pcap_session: two sessions of two requests let stamps and
leftovers of one reach the next (a flag left by a first session and taken
back in the second; how a third recovers is in the proof), chunks have one or two units, and two incidents
combine any two causes; SHARED_BUFFER_SIZE is that of the code, which so few
packets cannot fill (what a full buffer does is the subject of capture).
Incidents are bounded in number and not in order or place. Clients come once. CHECK_DEADLOCK is off because the process may end
and because a proxy without further clients waits in accept.

**Fairness.** PcapCapture: weak fairness of each thread (LoopStep for the loop
thread once it has entered a callback or has been told to leave, SearchStep and
StopStep for the main thread inside a call): the operating system schedules
both, and `yield` does not block. Leaving pcap_loop needs libpcap to look at
its flag: between packets, or when its read returns, for which the handle has a
timeout of one second (PcapWrapper.cpp:223). Where libpcap blocks until the
next packet, StopReturns needs a next packet. There is no fairness on packets,
on failures, or on the calls the main thread makes. ProxySession: weak
fairness of the proxy's thread, none on clients, servers or failures. So
InputCloseEndsSession says what ends a session when nobody else does anything,
and names the exception, a peek nobody answers. PcapSession: weak fairness of
the proxy's thread, of HandlePacket (the loop, while it runs, takes what is in
the ring: libpcap's read returns after at most one second) and of a server that
has a request in full. None on the client, on the network's incidents or on late
answers: a search must not depend on them. Bench: weak fairness of the client, of the server, of delivery
(TCP delivers while both sides live) and of the reset.

**Preconditions.** FreshRecord is about servers that answer when asked and
clients that wait for the answer (`Unasked = 0`, `Patient = TRUE`); a chunk
nobody asked for is sent with the time stamps of an earlier request, and so is
the second half of an answer. OrderPairs assumes connections come in the order
of their control connections; without that the proxy pairs strangers.
SearchReturns (PcapSession) is about traffic in which each chunk is one packet
that is captured after the one before it, and a host in the spelling of
inet_ntop; everything else, as the incidents `split`, `partial_send`,
`pipelined`, `unasked` or `loop_fails`, can leave a search without its packet,
and then the proxy waits for good. DecodesLayer and CapturesExactly are about
consistent frames, StoredInFrame about all.

**What the runs show of the PCAP session.** An error of pcap_loop can cost more
than its own session: stopLoop sets the break flag of a handle whose loop has
gone, and the next pcap_loop ends as soon as it finds it. Such a session leaves
the flag again, so one error may leave a whole row of sessions without a loop
thread. The row ends with the first session that is closed before its loop has
found the flag. LoopRuns says that there is no other cause.
A session can take the stamps of packets that are not its own: those
an earlier session left in the ring, repeated ones, and equal ones (OwnStamps
names each case and excludes all others). Still a difference is never negative
once a write has stored a stamp (MeasuredForward).

## 5. Proofs

`PcapCaptureProofs`, for every SHARED_BUFFER_SIZE in Nat \ {0} and any packets
and sessions (MaxPackets and MaxSessions only strengthen guards; no assumption
is made about them):

* `Invariant`: Spec => []IInv, from InitInv (initial states) and one lemma
  for each group of actions. None of the safety properties is inductive alone:
  UnreadIntact speaks of the packets between the two threads, so the proof needs
  their number (`UnreadCount`, with `ProducerEnd` for the moment between the
  two stores of a switch), what the loop thread's place says of its index
  (`LoopPlace`), what a test of the main thread is still worth when its next
  statement runs (`SearchPlace`: the tests are stable because the loop thread
  only adds packets), and what the call has passed (`SearchProgress`).
* `TypeCorrect`, `NothingLost`, `OverflowJustified`, `SlotsRaceFree`: from
  `Invariant`. SlotsRaceFree rests on UnreadCount: the slots the producer may
  write are outside the unread ones, and it switches to a buffer only when the
  consumer has left it.
* `OverrunWindow`: the step that goes astray, from SearchPlace and LoopPlace.
* `Refinement`: Spec => ImplementsQueue: initial states map to initial
  states and every action to an action or a stutter.

`TimeDeltasProofs`, for all lengths of a second: `TimevalDeltaExact` and
`TimespecDiffExact` (of two normalised times of any size), and, of every
behaviour, `PcapMeasurementsExact` and `KernelMeasurementsExact`.

`PacketParserProofs`, for every set of frames and every slot size:

* `DecodeUntilExact`: DecodesLayer, the exact result of decodeUntil for every
  consistent frame, with any number of extension headers. The walk over them is a
  recursive function, which the prover sees as a CHOOSE. The library's induction
  theorems take an operator and cannot be used; `UpTo` says the same of a set (a
  set with 0 and with each number's successor holds every number, from
  `LeastElement`), and `Recursion` derives from it that a function given by a
  value and a step exists. So the walk satisfies its equation (`WalkExists`),
  whatever takes the same steps has the same end (`WalkIs`), and the walk of a
  frame whose chain fits is `WalkExact`: what is left is the length less the
  chain, or a throw exactly if some header starts within the last 64 bytes.
  `ChainTotals` does the same for the sizes of the reference, and `HeaderSizes`
  relates the units: they agree but for the authentication header. Behind one,
  the walk is too far on and stays so (`WalkMistaken`). `NetworkExact` and
  `TransportExact` carry the value up through the parsers.
* `HandlePacketStaysInFrame`: StoredInFrame, also of inconsistent frames:
  `WalkBound` says that what is left is at most the payload length, and
  `Ipv4Segment`, `Ipv6Segment` and `TransportSegment` carry the bound upwards.
* `HandlePacketExact`: CapturesExactly, by computing both sides for a frame the
  filter admits.

`PcapSessionProofs`, for any number of sessions, requests and incidents:

* `SessionTypes`: TypeOK, from the types of SessionInv and `PlaceInv`, which ties
  the loop thread, the open call and the two streams to the place of the proxy.
* `SessionLoopRuns`: LoopRuns, from `LoopInv`: a flag in the handle has the same
  cause as a session without its loop, a failure and an unbroken row of sessions
  that were closed without one (`FailedBefore`); Connect adds a session to the
  row only when it hands the flag on, Close of a running loop ends it.
* `SessionForward`: MeasuredForward, from `SessionInv`. The property itself speaks
  of two stamps that were taken at different times; it needs that captures rise in
  the ring and in the queue and that every capture that a search may still find is
  younger than the transmit stamp (`SessionOrder`), also after a partial send
  and over the change of sessions.

`PcapStampsProofs`, for any number of sessions, requests and incidents:

* `SessionStamps`: OwnStamps. A search compares contents and finds any packet
  that it has not passed and that looks like its chunk, so the invariant
  (`StampsInv`) is about the packets that are unseen, in the ring or in the
  queue after the cursor. `RequestsInv`: without repeated packets, a write that
  returns leaves no packet of a request behind, because its chunk is captured
  either as one packet, which is the one it finds, or in pieces, which it never
  finds. `TxInv` draws the transmit stamp from this. `LeftInv`: without repeated
  packets, unasked answers and early leaves, all unseen answers are of this
  session, start after what the proxy has read, and lie in the order of their
  units; so a client that has all its answers leaves none of them behind. `TurnInv`:
  without repeated packets, unasked answers and pipelined requests, an answer
  that a read has left unseen is older than every packet of the next request, so
  that FindSent passes over it before an answer is looked for. `RxInv` draws the
  receive stamp from these two. Each of the incidents named in OwnStamps is one of
  the hypotheses, and no other is needed: `long_request`, `long_answer`, `split`,
  `offload`, `partial_send` and `loop_fails` never make a stamp foreign.

`ProxySessionProofs`, for any number of clients, requests and units, any size of
reads and any choice of the constants:

* `TypeCorrect`: TypeOK, the first part of the inductive invariant.
* `StreamsKept`: StreamsIntact. The invariant (`StreamsInv`) is that what the
  receiver has, what is in the proxy's buffer and what is on the way to the
  proxy are, in this order, what the sender has sent, for each of the two
  directions. That a session starts so rests on `OnceInv` (a client is in a
  listen queue at most once, and not while it is served) and `FreshInv` (of a
  connection nobody has read from, everything is still there).
* `ClientsPaired`: OrderPairs, from `PairInv`: each listen queue is the rest of
  the order in which clients connected, and a session has taken equally many
  from both.

`ProxyTimingProofs`, over the same invariant:

* `WedgedMidRequest`: WedgedOnlyMidRequest. `FlowInv` bounds what is in flight by
  what was sent; `WaitInv` says that a proxy that waits for an answer has read
  all answers to what it had written before, so a peek for good means that the
  server still waits for the rest of a request.
* `RecordsFresh`: FreshRecord, under `Patient` and `Unasked = 0`, the conditions
  under which the run checks it: without them it does not hold (section 4,
  Preconditions). `PatientInv` says that a client that sends has the answers to
  all it sent before, `ClockInv` what had happened when each of the two stamps
  was taken, and `RecordInv` keeps this for the records that have been sent.

* `RelayRefinement`: ImplementsRelay. Each action of the proxy and of the peers
  maps to an action of the relay or to none (`ConnectMaps` to `ClientMaps`, put
  together in `RelayStep`). That a write passes on the beginning of what was sent
  is UpIntact or DownIntact *after* the step (`Begins`: the first of three joined
  streams begins the whole); that it does not pass on more than was taken is
  FlowInv; that a report follows all of its chunk is DownIntact at the write of
  the record, where the buffer is empty; that a session has a reason to end is
  `EndInv`, which is inductive because connections that are gone stay gone. The
  step lemmas need no assumption on Patient or Unasked.

`BenchProofs`, for any number of requests, incidents and retries:

* `TypeCorrect`: TypeOK.
* `AnswersOwn`: OwnAnswer. `AnswersInOrder` gives every unit of an answer its
  position in the whole stream: there are positions c for what the client has
  read and ends of the packets on their way, each packet's two ends lie in the
  answer it belongs to, and the last end is twice the number of answers. A
  client whose reads were all whole stands at the end of its own answer. That
  the class is right needs the other direction too: `RequestInv` says that the
  requests the server has read, those that wait for it and the one that has not
  left are all that have been written, in order.
* `RequestsOwn`: OwnRequest. getTxTimestamp compares contents, so a stamp of an
  earlier request can be found only if it is in the error queue when the search
  comes to it and its content begins alike. Two invariants exclude one cause
  each. `SingleInv`: without repeated packets, there are never more sends and
  stamps under way than open write calls, all of this request. `WholeInv`:
  while requests travel whole, the queue has only stamps of the last two
  requests, and these differ in their first byte (`OwnContent`). So a wrong stamp
  needs a repeated packet and a cut request, which is what OwnRequest says. A short
  read, which lets the client run ahead of its answers, is not a cause.

Only model-checked: SearchReturns and StopReturns of PcapCapture, SearchReturns
and OffloadEnds of PcapSession, BothEnd and BenchCompletes of Bench,
InputCloseEndsSession and AnswersRecorded of ProxySession: liveness is beyond
the prover. Every invariant of the runs is proved, and both refinements.

## 6. Not modelled

* `TimeSources`, `Benchmark`, `helper`, the options of the programs: no state a
  property is about, or generated by the compiler (cpuid, rdtsc).
* Opening a capture device and choosing its stamps (PcapWrapper.cpp:13-96):
  configuration calls of libpcap without state of the program.
* PCAPTimingSocket::connect without initPcap (PCAPTimingSocket.cpp:34-37): the
  fallback makes a wrapper and drops it, and goes on with a null pointer. Both
  programs always call initPcap.
* Addresses and ports the parsers copy; no result depends on them.
* KernelTimingSocket under the proxy's non-blocking loop, and TestClient with
  the other two techniques. In `Bench` the server does not close before the
  client does.
* googletest under `src/tests` is vendored; the parser's own tests are frames of
  the kinds the parser run contains.

------------------------------- MODULE Bench -------------------------------
(***************************************************************************)
(* TestClient with a KernelTimingSocket and TestServer, connected directly.*)
(* The client sends requests whose first byte is 0 and 1 in turn, reads    *)
(* once after each, and files the measurement under the byte it sent.  The *)
(* server reads, sleeps for as long as the first byte of its buffer asks,  *)
(* and answers, until a call fails.                                        *)
(*                                                                         *)
(* Requests and answers have BUFSIZE bytes, here two units.  An answer     *)
(* stands for the time the server slept before it: its class.              *)
(***************************************************************************)
EXTENDS KernelSocket

CONSTANT Requests  \* twice the measurements asked for

ASSUME BenchAssumption == Requests \in Nat

BUFSIZE    == 2
SAMPLESIZE == 2

\* The sample request k belongs to, and the chunk that is written for it.
Sample(k)   == (k - 1) % SAMPLESIZE
WriteBuf(k) == <<Sample(k), 0>>

VARIABLES
    samples,    \* what was filed: the request and the answer whose stamps were
                \* taken, and the value read returned
    read_size,  \* what the last read returned
    server,     \* where TestServer is
    arrived,    \* units that wait for the server
    read_buf,   \* the first unit of the server's buffer
    classes,    \* history: the class of each answer
    reset       \* the client's side has answered to a packet with a reset

benchVars  == <<samples, read_size>>
serverVars == <<server, arrived, read_buf, classes, reset>>
vars       == <<kernelVars, benchVars, serverVars>>

Init ==
    /\ KernelInit
    /\ samples = <<>>
    /\ read_size = 0
    /\ server = "read"
    /\ arrived = <<>>
    /\ read_buf = 0
    /\ classes = <<>>
    /\ reset = FALSE

Request    == Len(samples) + 1
ClientGone == pc \in {"done", "terminated"}

-----------------------------------------------------------------------------
(***************************************************************************)
(* TestClient.                                                             *)
(***************************************************************************)

Setup ==
    /\ Connect \/ InitializeDevice \/ InitializeSocket
    /\ UNCHANGED <<benchVars, serverVars>>

BeginWrite ==
    /\ pc = "request" /\ Request <= Requests
    /\ calls' = <<WriteBuf(Request)>>
    /\ pc' = "send"
    /\ UNCHANGED <<incidents, stampVars, retries, tx_timestamp, rx_timestamp,
                   wireVars, benchVars, serverVars>>

Write ==
    /\ Send(Request) \/ Search("read") \/ SearchFails
    /\ UNCHANGED <<benchVars, serverVars>>

\* The return value is not looked at.
ReadAnswer ==
    /\ Read(BUFSIZE)
    /\ read_size' = ReadReturns(BUFSIZE)
    /\ pc' = "measure"
    /\ UNCHANGED <<samples, serverVars>>

Measure ==
    /\ pc = "measure"
    /\ \E older \in AnswerOlder :
          IF older
          THEN pc' = "terminated" /\ UNCHANGED samples
          ELSE /\ samples' = Append(samples, [tx   |-> tx_timestamp.of,
                                              rx   |-> rx_timestamp.of,
                                              size |-> read_size])
               /\ pc' = "request"
    /\ UNCHANGED <<incidents, stampVars, callVars, wireVars, read_size,
                   serverVars>>

\* close, and the file is written.
Finish ==
    /\ pc = "request" /\ Request > Requests
    /\ pc' = "done"
    /\ UNCHANGED <<incidents, stampVars, callVars, wireVars, benchVars,
                   serverVars>>

Client == Setup \/ BeginWrite \/ Write \/ ReadAnswer \/ Measure \/ Finish

-----------------------------------------------------------------------------
(***************************************************************************)
(* TestServer.                                                             *)
(***************************************************************************)

\* Mutant: an empty read is followed by another one.
ReadAgain      == "read"
AfterEmptyRead == "write"

\* A connection reset makes recv fail: the exception leaves the loop.  A read
\* of 0 leaves the buffer as it was, and is followed by an answer.
ServerRead ==
    /\ server = "read"
    /\ \/ /\ arrived # <<>>
          /\ read_buf' = Head(arrived)
          /\ arrived' = SubSeq(arrived, BUFSIZE + 1, Len(arrived))
          /\ server' = "write"
       \/ /\ arrived = <<>> /\ outgoing = <<>> /\ ClientGone /\ ~reset
          /\ server' = AfterEmptyRead
          /\ UNCHANGED <<arrived, read_buf>>
       \/ /\ reset
          /\ server' = "closed"
          /\ UNCHANGED <<arrived, read_buf>>
    /\ UNCHANGED <<kernelVars, benchVars, classes, reset>>

\* Mutant: the server always sleeps as for the first sample.
ClassAlwaysA(buf) == 0
Class(buf)        == buf % 2

\* An answer is one packet, or two.
ServerWrite ==
    /\ server = "write" /\ ~reset
    /\ \/ /\ ~ClientGone
          /\ classes' = Append(classes, Class(read_buf))
          /\ \E sizes \in {<<BUFSIZE>>, <<1, 1>>} :
                /\ Ordinary(sizes = <<BUFSIZE>>, "split_answer")
                /\ incoming' = incoming \o
                      [i \in 1 .. Len(sizes) |->
                         [of |-> Len(classes'), size |-> sizes[i],
                          acks |-> now]]
       \/ /\ ClientGone
          /\ incoming' = <<[of |-> 0, size |-> BUFSIZE, acks |-> now]>>
          /\ UNCHANGED <<incidents, classes>>
    /\ server' = "read"
    /\ UNCHANGED <<stampVars, pc, callVars, outgoing, errqueue,
                   last, received, now, benchVars, arrived, read_buf, reset>>

\* After the reset, send fails with a signal that ends the process.
ServerKilled ==
    /\ server = "write" /\ reset
    /\ server' = "killed"
    /\ UNCHANGED <<kernelVars, benchVars, arrived, read_buf, classes, reset>>

Server == ServerRead \/ ServerWrite \/ ServerKilled

-----------------------------------------------------------------------------
(***************************************************************************)
(* The network.                                                            *)
(***************************************************************************)

Deliver ==
    \/ /\ \E units \in Packets :
             Transmit(units) /\ arrived' = arrived \o units
       /\ UNCHANGED <<benchVars, server, read_buf, classes, reset>>
    \/ /\ ~ClientGone /\ Arrive
       /\ UNCHANGED <<benchVars, serverVars>>

\* A client that has gone answers to a packet, and to data it has left unread,
\* with a reset.
Reset ==
    /\ ClientGone /\ ~reset /\ (incoming # <<>> \/ received # <<>>)
    /\ reset' = TRUE
    /\ UNCHANGED <<kernelVars, benchVars, server, arrived, read_buf, classes>>

SendAgain == Retransmit /\ UNCHANGED <<benchVars, serverVars>>

Next == Client \/ Server \/ Deliver \/ Reset \/ SendAgain

Spec == Init /\ [][Next]_vars
        /\ WF_vars(Client) /\ WF_vars(Server) /\ WF_vars(Deliver)
        /\ WF_vars(Reset)

-----------------------------------------------------------------------------
(***************************************************************************)
(* Properties.                                                             *)
(***************************************************************************)

TypeOK ==
    /\ pc \in {"connect", "device", "socket", "request", "send", "search",
               "read", "measure", "done", "terminated"}
    /\ server \in {"read", "write", "closed", "killed"}
    /\ incidents.kinds \subseteq Incidents /\ incidents.left \in Nat
    /\ retries \in 0 .. MAX_RETRIES
    /\ Len(samples) <= Requests
    /\ calls = <<>> => pc \notin {"send", "search"}
    /\ calls # <<>> => pc \in {"send", "search", "terminated"}

\* A request has left in parts.
InParts == incidents.kinds \cap {"split_request", "partial_send"} # {}

\* The transmit stamp of a sample is that of its own request.  An older one
\* is taken only when packets have been repeated and requests have left in
\* parts: a part is shorter than what it is compared with.
OwnRequest ==
    \A k \in DOMAIN samples :
       samples[k].tx # k =>
          /\ samples[k].tx < k
          /\ "retransmit" \in incidents.kinds
          /\ InParts

\* The receive stamp of a sample is never of a later answer; it is of its own
\* as long as no read was short or without a stamp, and then the answer is of
\* the sample's class, unless a request has reached the server in parts.
OwnAnswer ==
    \A k \in DOMAIN samples :
       /\ samples[k].rx <= k
       /\ (\A j \in 1 .. k : samples[j].size = BUFSIZE) =>
             /\ samples[k].rx = k
             /\ InParts \/ classes[k] = Sample(k)

\* However requests and answers are cut and stamped, both programs end: every
\* search of the client gives up and no read of it waits for good.  The server,
\* which takes no notice of the end of its input, ends after the client has:
\* its superfluous answer is answered with a reset.
BothEnd == <>(ClientGone /\ server \in {"closed", "killed"})

\* Once the socket is set up, with whatever device, the client files all
\* samples if every stamp is made in time and nothing is cut.  A repeated
\* packet does no harm.
BenchCompletes ==
    pc = "request" ~>
          \/ pc = "done" /\ Len(samples) = Requests
          \/ incidents.kinds \ {"retransmit"} # {}

=============================================================================

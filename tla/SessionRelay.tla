---------------------------- MODULE SessionRelay ----------------------------
(***************************************************************************)
(* What TimingProxy promises to clients and target servers, without its    *)
(* sockets, buffers, listen queues and loop.  Sessions follow each other.  *)
(* Each joins a control connection, a data connection and a target server  *)
(* of its own; it hands on requests and answers in order and unchanged,    *)
(* and reports each chunk of an answer with one measurement, after all of  *)
(* the chunk and before the next one.  Only a peer that is gone may miss   *)
(* something, and only such a peer ends a session, unless descriptor 0     *)
(* hangs up.  ProxySession is shown to implement this module.              *)
(***************************************************************************)
EXTENDS Integers, Sequences

CONSTANTS Clients

VARIABLES
    serving,   \* <<control, data>>, the clients of the session, or <<>>
    relaying,  \* a chunk of the answer is taken and not yet reported
    server,    \* the target server: what it got and sent, how much is taken
    received,  \* what each client has got on its data connection
    records,   \* and on its control connection
    sent,      \* the number of units each client has sent
    left,      \* the clients whose data connection is gone
    closed,    \* the clients whose control connection is gone
    clock,     \* when the proxy last started and stopped its measurement
    hung_up    \* whether descriptor 0 is

relayVars == <<serving, relaying, server, received, records, sent, left,
               closed, clock, hung_up>>

Control == serving[1]
Data    == serving[2]

InSession == serving # <<>>

\* The first n units a client sends.
Units(c, n) == [i \in 1 .. n |-> <<c, i>>]

Init ==
    /\ serving = <<>>
    /\ relaying = FALSE
    /\ server = [session |-> 0, open |-> FALSE, got |-> <<>>, sent |-> <<>>,
                 read |-> 0]
    /\ received = [c \in Clients |-> <<>>]
    /\ records = [c \in Clients |-> <<>>]
    /\ sent = [c \in Clients |-> 0]
    /\ left = {}
    /\ closed = {}
    /\ clock = [start |-> [session |-> 0, sent |-> 0],
                stop  |-> [session |-> 0, arrived |-> 0]]
    /\ hung_up \in BOOLEAN

-----------------------------------------------------------------------------
(***************************************************************************)
(* The proxy.                                                              *)
(***************************************************************************)

\* A session begins with connections nothing has been written to.
Begin(control, data) ==
    /\ ~InSession
    /\ received[data] = <<>> /\ records[control] = <<>>
    /\ serving' = <<control, data>>
    /\ server' = [session |-> server.session + 1, open |-> TRUE,
                  got |-> <<>>, sent |-> <<>>, read |-> 0]
    /\ UNCHANGED <<relaying, received, records, sent, left, closed, clock,
                   hung_up>>

ForwardRequest ==
    /\ InSession /\ ~relaying /\ server.open
    /\ \E n \in Len(server.got) + 1 .. sent[Data] :
          server' = [server EXCEPT !.got = Units(Data, n)]
    /\ UNCHANGED <<serving, relaying, received, records, sent, left, closed,
                   clock, hung_up>>

Start ==
    /\ InSession /\ ~relaying
    /\ clock' = [clock EXCEPT !.start = [session |-> server.session,
                                         sent    |-> Len(server.got)]]
    /\ UNCHANGED <<serving, relaying, server, received, records, sent, left,
                   closed, hung_up>>

\* The server has answered something new, or has gone.
Stop ==
    /\ InSession /\ ~relaying
    /\ server.read < Len(server.sent) \/ ~server.open
    /\ clock' = [clock EXCEPT !.stop = [session |-> server.session,
                                        arrived |-> Len(server.sent)]]
    /\ UNCHANGED <<serving, relaying, server, received, records, sent, left,
                   closed, hung_up>>

TakeAnswer ==
    /\ InSession /\ ~relaying
    /\ \E n \in server.read + 1 .. Len(server.sent) :
          server' = [server EXCEPT !.read = n]
    /\ relaying' = TRUE
    /\ UNCHANGED <<serving, received, records, sent, left, closed, clock,
                   hung_up>>

DeliverAnswer ==
    /\ InSession /\ relaying /\ Data \notin left
    /\ \E n \in Len(received[Data]) + 1 .. server.read :
          received' = [received EXCEPT ![Data] = SubSeq(server.sent, 1, n)]
    /\ UNCHANGED <<serving, relaying, server, records, sent, left, closed,
                   clock, hung_up>>

Report ==
    /\ InSession /\ relaying /\ Control \notin closed
    /\ Data \notin left => Len(received[Data]) = server.read
    /\ records' = [records EXCEPT ![Control] =
                     Append(@, [session |-> server.session,
                                upto    |-> server.read,
                                start   |-> clock.start,
                                stop    |-> clock.stop])]
    /\ relaying' = FALSE
    /\ UNCHANGED <<serving, server, received, sent, left, closed, clock,
                   hung_up>>

\* Without its receiver, the rest of a chunk or its measurement is lost.
Lose ==
    /\ InSession /\ relaying
    /\ Data \in left \/ Control \in closed
    /\ relaying' = FALSE
    /\ UNCHANGED <<serving, server, received, records, sent, left, closed,
                   clock, hung_up>>

End ==
    /\ InSession /\ ~relaying
    /\ Data \in left \/ Control \in closed \/ ~server.open \/ hung_up
    /\ serving' = <<>>
    /\ server' = [server EXCEPT !.open = FALSE]
    /\ UNCHANGED <<relaying, received, records, sent, left, closed, clock,
                   hung_up>>

-----------------------------------------------------------------------------
(***************************************************************************)
(* The peers.                                                              *)
(***************************************************************************)

SendUnit(c) ==
    /\ c \notin left
    /\ sent' = [sent EXCEPT ![c] = @ + 1]
    /\ UNCHANGED <<serving, relaying, server, received, records, left, closed,
                   clock, hung_up>>

CloseControl(c) ==
    /\ closed' = closed \cup {c}
    /\ UNCHANGED <<serving, relaying, server, received, records, sent, left,
                   clock, hung_up>>

Leave(c) ==
    /\ left' = left \cup {c}
    /\ closed' = closed \cup {c}
    /\ UNCHANGED <<serving, relaying, server, received, records, sent, clock,
                   hung_up>>

ServerAnswer ==
    /\ server.open
    /\ server' = [server EXCEPT
                    !.sent = Append(@, <<server.session, Len(@) + 1>>)]
    /\ UNCHANGED <<serving, relaying, received, records, sent, left, closed,
                   clock, hung_up>>

ServerClose ==
    /\ server.open
    /\ server' = [server EXCEPT !.open = FALSE]
    /\ UNCHANGED <<serving, relaying, received, records, sent, left, closed,
                   clock, hung_up>>

-----------------------------------------------------------------------------
Next ==
    \/ \E k, c \in Clients : Begin(k, c)
    \/ ForwardRequest \/ Start \/ Stop
    \/ TakeAnswer \/ DeliverAnswer \/ Report \/ Lose \/ End
    \/ \E c \in Clients : SendUnit(c) \/ CloseControl(c) \/ Leave(c)
    \/ ServerAnswer \/ ServerClose

Spec == Init /\ [][Next]_relayVars

=============================================================================

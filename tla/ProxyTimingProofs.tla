------------------------- MODULE ProxyTimingProofs --------------------------
(***************************************************************************)
(* Proofs about what the proxy waits for and what it measures, and that it *)
(* implements SessionRelay, for any number of clients, requests and units. *)
(***************************************************************************)
EXTENDS ProxySessionProofs

(***************************************************************************)
(* Numbers.                                                                *)
(***************************************************************************)

LEMMA DivMod ==
    ASSUME NEW n \in Nat, NEW d \in Nat \ {0}
    PROVE  /\ n \div d \in Nat /\ (n % d) \in 0 .. d - 1
           /\ n = d * (n \div d) + (n % d)
OBVIOUS

LEMMA DivGrows ==
    ASSUME NEW d \in Nat \ {0}, NEW m \in Nat, NEW n \in Nat, m <= n
    PROVE  m \div d <= n \div d
OBVIOUS

LEMMA TimesGrows ==
    ASSUME NEW d \in Nat, NEW m \in Int, NEW n \in Int, m <= n
    PROVE  d * m <= d * n
OBVIOUS

LEMMA TimesLess ==
    ASSUME NEW d \in Nat \ {0}, NEW m \in Int, NEW n \in Int
    PROVE  /\ d * m \in Int /\ d * n \in Int
           /\ d * m < d * n <=> m < n
           /\ d * m <= d * n <=> m <= n
OBVIOUS

\* Where the quotient rises there is no remainder, and nowhere else.
LEMMA DivRises ==
    ASSUME NEW d \in Nat \ {0}, NEW n \in Nat \ {0}
    PROVE  /\ n % d = 0 => (n - 1) \div d = (n \div d) - 1
           /\ n % d # 0 => (n - 1) \div d = n \div d
<1>1. n \div d \in Nat /\ (n % d) \in 0 .. d - 1
      /\ n = d * (n \div d) + (n % d)
  BY DivMod
<1>2. /\ (n - 1) \div d \in Nat /\ ((n - 1) % d) \in 0 .. d - 1
      /\ n - 1 = d * ((n - 1) \div d) + ((n - 1) % d)
  <2>1. n - 1 \in Nat
    OBVIOUS
  <2>. QED  BY <2>1, DivMod
<1> DEFINE p == n \div d
           q == (n - 1) \div d
           r == n % d
           s == (n - 1) % d
<1>3. /\ p \in Nat /\ q \in Nat /\ r \in 0 .. d - 1 /\ s \in 0 .. d - 1
      /\ d * p + r = d * q + s + 1
  BY <1>1, <1>2
<1> HIDE DEF p, q, r, s
<1>4. ASSUME r = 0 PROVE q = p - 1
  <2>1. d * p <= d * (q + 1) /\ d * q < d * p
    BY <1>3, <1>4
  <2>. QED  BY <1>3, <2>1, TimesLess
<1>5. ASSUME r # 0 PROVE q = p
  <2>1. d * p <= d * q + s /\ d * q < d * (p + 1)
    BY <1>3, <1>5
  <2>2. d * p < d * (q + 1)
    BY <1>3, <2>1
  <2>3. p < q + 1 /\ q < p + 1
    BY <1>3, <2>1, <2>2, TimesLess
  <2>. QED  BY <1>3, <2>3
<1>. QED  BY <1>4, <1>5 DEF p, q, r, s

-----------------------------------------------------------------------------
(***************************************************************************)
(* Lengths, and who changes the server.                                    *)
(***************************************************************************)

LEMMA ServerTypes ==
    ASSUME DataType
    PROVE  /\ server \in ServerStates /\ server.session \in Nat
           /\ server.open \in BOOLEAN
           /\ server.got \in Stream /\ Len(server.got) \in Nat
           /\ server.sent \in Stream /\ Len(server.sent) \in Nat
           /\ server.read \in Nat /\ server.read <= Len(server.sent)
           /\ buf \in Stream /\ Len(buf) \in Nat
           /\ server.got # <<>> <=> Len(server.got) > 0
<1>1. server \in ServerStates /\ buf \in Stream
      /\ server.read <= Len(server.sent)
  BY DEF DataType
<1>2. /\ server.session \in Nat /\ server.open \in BOOLEAN
      /\ server.got \in Stream /\ server.sent \in Stream
      /\ server.read \in Nat
  BY <1>1 DEF ServerStates
<1>. QED  BY <1>1, <1>2, Streams

LEMMA ClientTypes ==
    ASSUME DataType, NEW c \in Clients
    PROVE  /\ client[c] \in ClientStates /\ client[c].sent \in Nat
           /\ client[c].queue \in Stream /\ Len(client[c].queue) \in Nat
           /\ client[c].got \in Stream /\ Len(client[c].got) \in Nat
           /\ client[c].records \in Measured
<1>1. client[c] \in ClientStates
  BY DEF DataType
<1>2. /\ client[c].sent \in Nat /\ client[c].queue \in Stream
      /\ client[c].got \in Stream /\ client[c].records \in Measured
  BY <1>1 DEF ClientStates
<1>. QED  BY <1>1, <1>2, Streams

\* Within a session the server keeps what it has, and does not open again.
ServerFrame ==
    /\ server'.session = server.session
    /\ server'.open => server.open
    /\ server'.got = server.got \/ WriteOutput
    /\ server'.sent = server.sent \/ ServerAnswer
    /\ server'.read = server.read \/ ForwardOutput

LEMMA ServerFrames ==
    ASSUME DataType, [Next]_vars
    PROVE  Connect \/ ServerFrame
<1> DEFINE F == Connect \/ ServerFrame
<1>a. server \in ServerStates
  BY DEF DataType
<1>0. ASSUME server' = server PROVE F
  BY <1>0 DEF ServerFrame
<1>1. AcceptControl => F
  BY <1>0 DEF AcceptControl
<1>2. GetProxyTarget => F
  BY <1>0 DEF GetProxyTarget
<1>3. AcceptInput => F
  BY <1>0 DEF AcceptInput
<1>4. Connect => F
  OBVIOUS
<1>5. ForwardInput => F
  BY <1>0 DEF ForwardInput
<1>6. ASSUME WriteOutput PROVE F
  <2>1. server' = server \/ \E g : server' = [server EXCEPT !.got = g]
    BY <1>6 DEF WriteOutput
  <2>. QED  BY <1>a, <1>6, <2>1 DEF ServerStates, ServerFrame
<1>7. StartTiming => F
  BY <1>0 DEF StartTiming
<1>8. Peek => F
  BY <1>0 DEF Peek
<1>9. ASSUME ForwardOutput PROVE F
  <2>1. \E n : server' = [server EXCEPT !.read = n]
    BY <1>9 DEF ForwardOutput
  <2>. QED  BY <1>a, <1>9, <2>1 DEF ServerStates, ServerFrame
<1>10. WriteInput => F
  BY <1>0 DEF WriteInput
<1>11. WriteControl => F
  BY <1>0 DEF WriteControl
<1>12. Poll => F
  BY <1>0 DEF Poll
<1>13. Close => F
  BY <1>a DEF Close, ServerStates, ServerFrame
<1>14. TargetFails => F
  BY <1>0 DEF TargetFails
<1>15. ASSUME ServerAnswer PROVE F
  <2>1. \E s : server' = [server EXCEPT !.sent = s]
    BY <1>15 DEF ServerAnswer
  <2>. QED  BY <1>a, <1>15, <2>1 DEF ServerStates, ServerFrame
<1>16. ServerClose => F
  BY <1>a DEF ServerClose, ServerStates, ServerFrame
<1>17. ASSUME NEW c \in Clients, ClientStep(c) PROVE F
  BY <1>0, <1>17 DEF ClientStep, ConnectControl, SendLine, ConnectInput,
                     SendUnit, CloseControl, Leave
<1>18. UNCHANGED vars => F
  BY <1>0 DEF vars
<1>. QED
  BY <1>1, <1>2, <1>3, <1>4, <1>5, <1>6, <1>7, <1>8, <1>9, <1>10, <1>11,
     <1>12, <1>13, <1>14, <1>15, <1>16, <1>17, <1>18, NextCases

\* What a write hands to the server, if it is there.
LEMMA WriteOutputSplits ==
    ASSUME DataType, WriteOutput
    PROVE  /\ server.open => \E n \in Taken :
                 /\ n \in 0 .. Len(buf)
                 /\ Len(server'.got) = Len(server.got) + n
                 /\ Len(buf') = Len(buf) - n
                 /\ IF n < Len(buf) THEN pc' = pc ELSE pc' = "start_timing"
           /\ ~server.open => /\ server' = server /\ buf' = <<>>
                              /\ pc' \in {pc, "start_timing", "poll"}
                              /\ pc' = "poll" => ~established'
<1>1. ASSUME server.open
      PROVE  \E n \in Taken :
                 /\ n \in 0 .. Len(buf)
                 /\ Len(server'.got) = Len(server.got) + n
                 /\ Len(buf') = Len(buf) - n
                 /\ IF n < Len(buf) THEN pc' = pc ELSE pc' = "start_timing"
  <2>1. PICK n \in Taken :
           /\ server' = [server EXCEPT !.got = @ \o SubSeq(buf, 1, n)]
           /\ buf' = Rest(n)
           /\ IF n < Len(buf) THEN pc' = pc ELSE pc' = "start_timing"
    BY <1>1 DEF WriteOutput
  <2>2. /\ n \in 0 .. Len(buf) /\ Len(Rest(n)) = Len(buf) - n
        /\ SubSeq(buf, 1, n) \in Stream /\ Len(SubSeq(buf, 1, n)) = n
    BY TakenPieces
  <2>3. server'.got = server.got \o SubSeq(buf, 1, n)
    BY <2>1 DEF DataType, ServerStates
  <2>4. Len(server'.got) = Len(server.got) + n
    <3>1. server.got \in Stream
      BY ServerTypes
    <3> DEFINE front == SubSeq(buf, 1, n)
    <3>2. front \in Stream /\ Len(front) = n
      BY <2>2
    <3> HIDE DEF front
    <3>3. Len(server.got \o front) = Len(server.got) + Len(front)
      BY <3>1, <3>2, Streams
    <3>. QED  BY <2>3, <3>2, <3>3 DEF front
  <2>. QED  BY <2>1, <2>2, <2>4
<1>2. ASSUME ~server.open
      PROVE  /\ server' = server /\ buf' = <<>>
             /\ pc' \in {pc, "start_timing", "poll"}
             /\ pc' = "poll" => ~established'
  BY <1>2 DEF WriteOutput, SendInVain, At
<1>. QED  BY <1>1, <1>2

\* What a write hands to the client, if it is there.
LEMMA WriteInputSplits ==
    ASSUME PlaceType, DataType, WriteInput
    PROVE  /\ pc = "write_input" /\ input \in Clients
           /\ pc' \in {"write_input", "write_control", "poll"}
           /\ pc' = "poll" => ~established'
           /\ Len(client'[input].got) + Len(buf')
                <= Len(client[input].got) + Len(buf)
<1>0. pc = "write_input" /\ input \in Clients
  BY DEF WriteInput, At, PlaceType, WithInput, WithControl, ProxyPcs
<1>a. client[input].got \in Stream /\ Len(client[input].got) \in Nat
      /\ buf \in Stream /\ Len(buf) \in Nat
  BY <1>0, ClientTypes, ServerTypes
<1>1. CASE InputOpen(input)
  <2>1. PICK n \in Taken :
           /\ client' = [client EXCEPT ![input].got = @ \o SubSeq(buf, 1, n)]
           /\ buf' = Rest(n)
           /\ pc' = IF n < Len(buf) THEN pc ELSE "write_control"
    BY <1>1 DEF WriteInput
  <2> DEFINE front == SubSeq(buf, 1, n)
  <2>2. /\ n \in 0 .. Len(buf) /\ Len(Rest(n)) = Len(buf) - n
        /\ front \in Stream /\ Len(front) = n
    BY TakenPieces
  <2>3. client'[input].got = client[input].got \o front
    BY <1>0, <2>1 DEF DataType, ClientStates
  <2> HIDE DEF front
  <2>4. Len(client[input].got \o front) = Len(client[input].got) + Len(front)
    BY <1>a, <2>2, Streams
  <2>5. Len(client'[input].got) = Len(client[input].got) + n
        /\ Len(buf') = Len(buf) - n
    BY <2>1, <2>2, <2>3, <2>4
  <2>6. Len(client'[input].got) + Len(buf')
          <= Len(client[input].got) + Len(buf)
    BY <1>a, <2>2, <2>5
  <2>7. pc' \in {"write_input", "write_control"}
    BY <1>0, <2>1
  <2>. QED  BY <1>0, <2>6, <2>7
<1>2. CASE ~InputOpen(input)
  <2>1. /\ client' = client /\ buf' = <<>>
        /\ pc' \in {pc, "write_control", "poll"}
        /\ pc' = "poll" => ~established'
    BY <1>2 DEF WriteInput, SendInVain, At
  <2>2. Len(buf') = 0
    BY <2>1, Streams
  <2>. QED  BY <1>0, <1>a, <2>1, <2>2
<1>. QED  BY <1>1, <1>2

\* What a read takes from the client.
LEMMA ForwardInputSplits ==
    ASSUME PlaceType, DataType, ForwardInput
    PROVE  /\ pc = "forward_input" /\ input \in Clients
           /\ pc' \in {"write_output", "forward_output", "poll"}
           /\ pc' = "poll" => ~established'
           /\ pc' = "write_output" => buf' # <<>>
           /\ Len(buf') + Len(client'[input].queue)
                = Len(client[input].queue)
<1> DEFINE queue == client[input].queue
           n     == Min({BUFSIZE, Len(queue)})
<1>1. /\ pc = "forward_input" /\ input \in Clients
      /\ pc' \in {"write_output", "forward_output", "poll"}
      /\ pc' = "poll" => ~established'
  BY DEF ForwardInput, At, PlaceType, WithInput, WithControl, ProxyPcs
<1>2. /\ buf' = SubSeq(queue, 1, n)
      /\ client' = [client EXCEPT ![input].queue =
                                     SubSeq(queue, n + 1, Len(queue))]
      /\ pc' = "write_output" => n > 0
  BY DEF ForwardInput, HasRead
<1>3. queue \in Stream /\ Len(queue) \in Nat
  BY <1>1, ClientTypes
<1>4. /\ n \in 0 .. Len(queue)
      /\ Len(SubSeq(queue, 1, n)) = n
      /\ Len(SubSeq(queue, n + 1, Len(queue))) = Len(queue) - n
  BY <1>3, ReadPieces
<1> HIDE DEF n
<1>5. client'[input].queue = SubSeq(queue, n + 1, Len(queue))
  BY <1>1, <1>2 DEF DataType, ClientStates
<1>6. Len(buf') + Len(client'[input].queue) = Len(queue)
  <2>1. Len(buf') = n
    BY <1>2, <1>4
  <2>2. Len(client'[input].queue) = Len(queue) - n
    BY <1>4, <1>5
  <2>. QED  BY <1>3, <1>4, <2>1, <2>2
<1>7. pc' = "write_output" => Len(buf') > 0
  BY <1>2, <1>4
<1>8. Len(<<>>) = 0
  BY Streams
<1>. QED  BY <1>1, <1>6, <1>7, <1>8

\* What a read takes from the server.
LEMMA ForwardOutputSplits ==
    ASSUME DataType, ForwardOutput
    PROVE  /\ pc = "forward_output"
           /\ \/ Arrived # <<>> /\ pc' = "write_input"
              \/ /\ Arrived = <<>> /\ pc' = "poll"
                 /\ established' = server.open
           /\ server'.read = server.read + Len(buf')
           /\ Len(buf') \in Nat
           /\ Arrived # <<>> <=> server.read < Len(server.sent)
           /\ Arrived = <<>> => Len(buf') = 0
<1> DEFINE n == Min({BUFSIZE, Len(Arrived)})
<1>1. /\ pc = "forward_output"
      /\ \/ Arrived # <<>> /\ pc' = "write_input"
         \/ Arrived = <<>> /\ pc' = "poll" /\ established' = server.open
      /\ buf' = SubSeq(Arrived, 1, n)
      /\ server' = [server EXCEPT !.read = @ + n]
  BY DEF ForwardOutput, At
<1>2. /\ n \in 0 .. Len(Arrived) /\ (n > 0 <=> Arrived # <<>>)
      /\ Len(SubSeq(Arrived, 1, n)) = n
  BY ArrivedType, ReadPieces
<1> HIDE DEF n
<1>3. server'.read = server.read + n
  BY <1>1 DEF DataType, ServerStates
<1>4. Len(buf') = n
  BY <1>1, <1>2
<1>5. Arrived # <<>> <=> server.read < Len(server.sent)
  <2>1. Len(Arrived) \in Nat /\ (Arrived # <<>> <=> Len(Arrived) > 0)
    BY ArrivedType, Streams
  <2>. QED  BY <2>1, ArrivedType, ServerTypes
<1>6. n \in Nat /\ (Arrived = <<>> => n = 0)
  <2>1. Len(Arrived) \in Nat
    BY ArrivedType, Streams
  <2>. QED  BY <1>2, <2>1
<1>. QED  BY <1>1, <1>3, <1>4, <1>5, <1>6

-----------------------------------------------------------------------------
(***************************************************************************)
(* Units in flight.                                                        *)
(***************************************************************************)

\* Never more than were sent, also when a peer has gone.
FlowInv ==
    InSession =>
       /\ Len(server.got) + Len(Outgoing) + Len(client[input].queue)
             <= client[input].sent
       /\ Len(client[input].got) + Len(Incoming) <= server.read

LEMMA BufferFrames ==
    ASSUME [Next]_vars
    PROVE  /\ Outgoing' = Outgoing \/ ForwardInput \/ WriteOutput
           /\ Incoming' = Incoming \/ ForwardOutput \/ WriteInput
<1> DEFINE F == /\ Outgoing' = Outgoing \/ ForwardInput \/ WriteOutput
                /\ Incoming' = Incoming \/ ForwardOutput \/ WriteInput
<1>0. ASSUME UNCHANGED <<pc, buf>> PROVE F
  BY <1>0 DEF Outgoing, Incoming
<1>00. ASSUME pc \notin {"write_output", "write_input"},
              pc' \notin {"write_output", "write_input"}
       PROVE  F
  BY <1>00 DEF Outgoing, Incoming
<1> USE DEF At
<1>1. AcceptControl => F
  BY <1>00 DEF AcceptControl, AcceptOn
<1>2. GetProxyTarget => F
  BY <1>00 DEF GetProxyTarget
<1>3. AcceptInput => F
  BY <1>00 DEF AcceptInput, AcceptOn
<1>4. Connect => F
  BY <1>00 DEF Connect
<1>5. ForwardInput => F
  BY DEF ForwardInput, Incoming
<1>6. WriteOutput => F
  BY DEF WriteOutput, SendInVain, Incoming
<1>7. StartTiming => F
  BY <1>00 DEF StartTiming
<1>8. Peek => F
  BY <1>00 DEF Peek
<1>9. ForwardOutput => F
  BY DEF ForwardOutput, Outgoing
<1>10. WriteInput => F
  BY DEF WriteInput, SendInVain, Outgoing
<1>11. WriteControl => F
  BY <1>00 DEF WriteControl, SendInVain
<1>12. Poll => F
  BY <1>00 DEF Poll
<1>13. Close => F
  BY <1>00 DEF Close
<1>14. TargetFails => F
  BY <1>0 DEF TargetFails, proxyVars
<1>15. ServerAnswer => F
  BY <1>0 DEF ServerAnswer, proxyVars
<1>16. ServerClose => F
  BY <1>0 DEF ServerClose, proxyVars
<1>17. ASSUME NEW c \in Clients, ClientStep(c) PROVE F
  BY <1>0, <1>17 DEF ClientStep, ConnectControl, SendLine, ConnectInput,
                     SendUnit, CloseControl, Leave, proxyVars
<1>18. UNCHANGED vars => F
  BY <1>0 DEF vars, proxyVars
<1>. QED
  BY <1>1, <1>2, <1>3, <1>4, <1>5, <1>6, <1>7, <1>8, <1>9, <1>10, <1>11,
     <1>12, <1>13, <1>14, <1>15, <1>16, <1>17, <1>18, NextCases

LEMMA FlowStep == Carried /\ Carried' /\ FlowInv /\ [Next]_vars => FlowInv'
<1> SUFFICES ASSUME Carried, Carried', FlowInv, [Next]_vars, InSession'
             PROVE  /\ Len(server'.got) + Len(Outgoing')
                          + Len(client'[input'].queue) <= client'[input'].sent
                    /\ Len(client'[input'].got) + Len(Incoming')
                          <= server'.read
  BY DEF FlowInv
<1>a. PlaceType /\ DataType /\ PlaceType' /\ DataType' /\ FreshInv
  BY DEF Carried
<1>b. Connect \/ (InSession /\ input' = input)
  BY <1>a, SessionStep
<1>c. input' \in Clients
  BY <1>a DEF PlaceType, InSession, WithControl, WithInput
<1>d. Len(Outgoing) \in Nat /\ Len(Incoming) \in Nat
  BY <1>a, ServerTypes, Streams DEF Outgoing, Incoming
<1>e. Len(<<>>) = 0
  BY Streams
<1>1. CASE Connect
  <2>1. /\ pc = "connect" /\ pc' = "forward_input" /\ input' = input
        /\ client' = client /\ server' = NewServer(server.session + 1)
    BY <1>1 DEF Connect, At
  <2>2. server'.got = <<>> /\ server'.read = 0
        /\ Outgoing' = <<>> /\ Incoming' = <<>>
    BY <2>1 DEF NewServer, Outgoing, Incoming
  <2>3. /\ client[input].queue = SentBy(input, client[input].sent)
        /\ client[input].got = <<>>
    BY <1>a, <1>c, <2>1 DEF FreshInv, Unread
  <2>4. client[input].sent \in Nat
    BY <1>a, <1>c, <2>1, ClientTypes
  <2>5. Len(client[input].queue) = client[input].sent
    BY <1>c, <2>1, <2>3, <2>4, SentGrows
  <2>6. /\ Len(server'.got) = 0 /\ Len(Outgoing') = 0
        /\ Len(client'[input'].got) = 0 /\ Len(Incoming') = 0
        /\ Len(client'[input'].queue) = client'[input'].sent
    BY <1>e, <2>1, <2>2, <2>3, <2>5
  <2>. QED  BY <2>1, <2>2, <2>4, <2>6
<1>2. CASE ~Connect
  <2> DEFINE g  == Len(server.got)
             o  == Len(Outgoing)
             q  == Len(client[input].queue)
             s  == client[input].sent
             r  == Len(client[input].got)
             i  == Len(Incoming)
             b  == Len(buf)
             g1 == Len(server'.got)
             o1 == Len(Outgoing')
             q1 == Len(client'[input].queue)
             s1 == client'[input].sent
             r1 == Len(client'[input].got)
             i1 == Len(Incoming')
             b1 == Len(buf')
  <2>0. InSession /\ input' = input /\ input \in Clients
    BY <1>2, <1>b, <1>c
  <2>1. g + o + q <= s /\ r + i <= server.read
    BY <2>0 DEF FlowInv
  <2>2. ServerFrame /\ ClientFrame(input)
    BY <1>2, <1>a, <2>0, ServerFrames, ClientFrames
  <2>3. /\ g \in Nat /\ o \in Nat /\ q \in Nat /\ s \in Nat /\ r \in Nat
        /\ i \in Nat /\ b \in Nat /\ server.read \in Nat
    BY <1>a, <1>d, <2>0, ServerTypes, ClientTypes
  <2>4. /\ q1 \in Nat /\ b1 \in Nat
    <3>1. client'[input].queue \in Stream /\ buf' \in Stream
      BY <1>a, <2>0 DEF DataType, ClientStates
    <3>. QED  BY <3>1, Streams
  <2>5. /\ ForwardInput => pc = "forward_input"
        /\ WriteOutput => pc = "write_output"
        /\ ForwardOutput => pc = "forward_output"
        /\ WriteInput => pc = "write_input"
    BY DEF ForwardInput, WriteOutput, ForwardOutput, WriteInput, At
  <2>6. /\ o = IF pc = "write_output" THEN b ELSE 0
        /\ i = IF pc = "write_input" THEN b ELSE 0
        /\ o1 = IF pc' = "write_output" THEN b1 ELSE 0
        /\ i1 = IF pc' = "write_input" THEN b1 ELSE 0
    BY <1>e DEF Outgoing, Incoming
  <2>7. SendUnit(input) => UNCHANGED <<pc, buf, server>>
    BY DEF SendUnit, proxyVars
  <2>00. /\ Outgoing' = Outgoing \/ ForwardInput \/ WriteOutput
         /\ Incoming' = Incoming \/ ForwardOutput \/ WriteInput
    BY <1>a, BufferFrames
  \* Towards the server.
  <2>8. g1 + o1 + q1 <= s1
    <3>1. CASE ForwardInput
      <4>1. /\ server'.got = server.got
            /\ client'[input].sent = client[input].sent
        BY <2>2, <2>5, <2>7, <3>1 DEF ServerFrame, ClientFrame, ForwardInput
      <4>2. b1 + q1 = q
        BY <1>a, <3>1, ForwardInputSplits
      <4>3. o = 0 /\ (o1 = b1 \/ o1 = 0)
        BY <2>5, <2>6, <3>1
      <4>4. g1 = g /\ s1 = s
        BY <4>1
      <4> HIDE DEF g, o, q, s, g1, o1, q1, s1, b1
      <4>. QED  BY <2>1, <2>3, <2>4, <4>2, <4>3, <4>4
    <3>2. CASE WriteOutput
      <4>1. q1 = q /\ s1 = s
        BY <2>2, <2>5, <2>7, <3>2 DEF WriteOutput
      <4>2. o = b
        BY <2>5, <2>6, <3>2
      <4>3. CASE server.open
        <5>1. PICK n \in 0 .. b : g1 = g + n /\ b1 = b - n
          BY <1>a, <3>2, <4>3, WriteOutputSplits
        <5>2. o1 = b1 \/ o1 = 0
          BY <2>6
        <5> HIDE DEF g, o, q, s, b, g1, o1, q1, s1, b1
        <5>. QED  BY <2>1, <2>3, <4>1, <4>2, <5>1, <5>2
      <4>4. CASE ~server.open
        <5>1. g1 = g /\ b1 = 0
          BY <1>a, <1>e, <3>2, <4>4, WriteOutputSplits
        <5>2. o1 = b1 \/ o1 = 0
          BY <2>6
        <5> HIDE DEF g, o, q, s, b, g1, o1, q1, s1, b1
        <5>. QED  BY <2>1, <2>3, <4>1, <4>2, <5>1, <5>2
      <4>. QED  BY <4>3, <4>4
    <3>3. CASE SendUnit(input)
      <4>1. g1 = g /\ o1 = o
        BY <2>7, <3>3 DEF Outgoing
      <4> DEFINE unit == <<input, client[input].sent + 1>>
      <4>2. /\ client'[input].sent = client[input].sent + 1
            /\ client'[input].queue = Append(client[input].queue, unit)
        <5>1. client' = [client EXCEPT ![input].sent = @ + 1,
                                       ![input].queue = Append(@, unit)]
          BY <3>3 DEF SendUnit
        <5>2. client \in [Clients -> ClientStates]
          BY <1>a DEF DataType
        <5> HIDE DEF unit
        <5>. QED  BY <2>0, <5>1, <5>2 DEF ClientStates
      <4>3. unit \in Units /\ client[input].queue \in Stream
        BY <1>a, <2>0, ClientTypes DEF Units
      <4> HIDE DEF unit
      <4>4. s1 = s + 1 /\ q1 = q + 1
        BY <4>2, <4>3, Streams
      <4> HIDE DEF g, o, q, s, g1, o1, q1, s1
      <4>. QED  BY <2>1, <2>3, <4>1, <4>4
    <3>4. CASE ~ForwardInput /\ ~WriteOutput /\ ~SendUnit(input)
      <4>1. g1 = g /\ o1 = o /\ q1 = q /\ s1 = s
        BY <2>00, <2>2, <3>4 DEF ServerFrame, ClientFrame
      <4> HIDE DEF g, o, q, s, g1, o1, q1, s1
      <4>. QED  BY <2>1, <4>1
    <3>. QED  BY <3>1, <3>2, <3>3, <3>4
  \* Towards the client.
  <2>9. r1 + i1 <= server'.read
    <3>1. CASE ForwardOutput
      <4>1. r1 = r
        BY <2>2, <2>5, <3>1 DEF ClientFrame, WriteInput, ForwardOutput
      <4>2. i = 0 /\ (i1 = b1 \/ i1 = 0)
        BY <2>5, <2>6, <3>1
      <4>3. server'.read = server.read + b1
        BY <1>a, <3>1, ForwardOutputSplits
      <4> HIDE DEF r, i, r1, i1, b1
      <4>. QED  BY <2>1, <2>3, <2>4, <4>1, <4>2, <4>3
    <3>2. CASE WriteInput
      <4>1. server' = server
        BY <3>2 DEF WriteInput
      <4>2. r1 + b1 <= r + b
        BY <1>a, <3>2, WriteInputSplits
      <4>3. i = b /\ (i1 = b1 \/ i1 = 0)
        BY <2>5, <2>6, <3>2
      <4>4. r1 \in Nat
        <5>1. client'[input].got \in Stream
          BY <1>a, <2>0 DEF DataType, ClientStates
        <5>. QED  BY <5>1, Streams
      <4> HIDE DEF r, i, b, r1, i1, b1
      <4>. QED  BY <2>1, <2>3, <2>4, <4>1, <4>2, <4>3, <4>4
    <3>3. CASE ~ForwardOutput /\ ~WriteInput
      <4>1. r1 = r /\ i1 = i /\ server'.read = server.read
        BY <2>00, <2>2, <3>3 DEF ServerFrame, ClientFrame
      <4> HIDE DEF r, i, r1, i1
      <4>. QED  BY <2>1, <4>1
    <3>. QED  BY <3>1, <3>2, <3>3
  <2>. QED  BY <2>0, <2>8, <2>9
<1>. QED  BY <1>1, <1>2

-----------------------------------------------------------------------------
(***************************************************************************)
(* What the proxy waits for.                                               *)
(***************************************************************************)

\* What a server may have sent after n units of requests.
Answers(n) == ResponseUnits * (n \div RequestUnits + Unasked)

\* After a write, until its answer has been seen.
Awaiting == {"start_timing", "restart_timing", "peek"}

\* The answers to what was written before are read before the next write, so
\* a proxy that waits has written since it last read.
WaitInv ==
    /\ Len(server.sent) <= Answers(Len(server.got))
    /\ server.open /\ pc = "write_output" => buf # <<>>
    /\ server.open /\ pc \in Awaiting =>
          /\ server.got # <<>>
          /\ server.read <= Answers(Len(server.got) - 1)

LEMMA AnswersGrow ==
    /\ \A n \in Nat : Answers(n) \in Nat
    /\ \A m, n \in Nat : m <= n => Answers(m) <= Answers(n)
<1>1. /\ RequestUnits \in Nat \ {0} /\ ResponseUnits \in Nat \ {0}
      /\ Unasked \in Nat
  BY SessionAssumption
<1>2. ASSUME NEW n \in Nat PROVE Answers(n) \in Nat
  BY <1>1 DEF Answers
<1>3. ASSUME NEW m \in Nat, NEW n \in Nat, m <= n
      PROVE  Answers(m) <= Answers(n)
  <2>1. m \div RequestUnits <= n \div RequestUnits
    BY <1>1, <1>3, DivGrows
  <2>2. m \div RequestUnits \in Nat /\ n \div RequestUnits \in Nat
    BY <1>1
  <2>3. m \div RequestUnits + Unasked <= n \div RequestUnits + Unasked
    BY <1>1, <2>1, <2>2
  <2>. QED  BY <1>1, <2>2, <2>3, TimesGrows DEF Answers
<1>. QED  BY <1>2, <1>3

LEMMA WaitPlaces ==
    ASSUME [Next]_vars
    PROVE  /\ pc' = "write_output" =>
                 \/ ForwardInput \/ WriteOutput
                 \/ pc = "write_output" /\ buf' = buf
           /\ pc' \in Awaiting =>
                 /\ pc \in Awaiting \/ WriteOutput
                 /\ ~Connect /\ ~ForwardOutput
<1> DEFINE W == /\ pc' = "write_output" =>
                      \/ ForwardInput \/ WriteOutput
                      \/ pc = "write_output" /\ buf' = buf
                /\ pc' \in Awaiting =>
                      /\ pc \in Awaiting \/ WriteOutput
                      /\ ~Connect /\ ~ForwardOutput
<1> USE DEF At, Awaiting
<1>0. Connect \/ ForwardOutput => pc' \notin Awaiting
  BY DEF Connect, ForwardOutput
<1>00. ASSUME UNCHANGED <<pc, buf>> PROVE W
  BY <1>0, <1>00
<1>1. AcceptControl => W
  BY <1>0 DEF AcceptControl, AcceptOn
<1>2. GetProxyTarget => W
  BY <1>0 DEF GetProxyTarget
<1>3. AcceptInput => W
  BY <1>0 DEF AcceptInput, AcceptOn
<1>4. Connect => W
  BY <1>0 DEF Connect
<1>5. ForwardInput => W
  BY DEF ForwardInput
<1>6. WriteOutput => W
  BY <1>0
<1>7. StartTiming => W
  BY <1>0 DEF StartTiming
<1>8. Peek => W
  BY <1>0 DEF Peek
<1>9. ForwardOutput => W
  BY <1>0 DEF ForwardOutput
<1>10. WriteInput => W
  BY <1>0 DEF WriteInput, SendInVain
<1>11. WriteControl => W
  BY <1>0 DEF WriteControl, SendInVain
<1>12. Poll => W
  BY <1>0 DEF Poll
<1>13. Close => W
  BY <1>0 DEF Close
<1>14. TargetFails => W
  BY <1>00 DEF TargetFails, proxyVars
<1>15. ServerAnswer => W
  BY <1>00 DEF ServerAnswer, proxyVars
<1>16. ServerClose => W
  BY <1>00 DEF ServerClose, proxyVars
<1>17. ASSUME NEW c \in Clients, ClientStep(c) PROVE W
  BY <1>00, <1>17 DEF ClientStep, ConnectControl, SendLine, ConnectInput,
                     SendUnit, CloseControl, Leave, proxyVars
<1>18. UNCHANGED vars => W
  BY <1>00 DEF vars, proxyVars
<1>. QED
  BY <1>1, <1>2, <1>3, <1>4, <1>5, <1>6, <1>7, <1>8, <1>9, <1>10, <1>11,
     <1>12, <1>13, <1>14, <1>15, <1>16, <1>17, <1>18, NextCases

LEMMA WaitStep == Carried /\ Carried' /\ WaitInv /\ [Next]_vars => WaitInv'
<1> SUFFICES ASSUME Carried, Carried', WaitInv, [Next]_vars PROVE WaitInv'
  OBVIOUS
<1>a. DataType /\ PlaceType
  BY DEF Carried
<1>b. Connect \/ ServerFrame
  BY <1>a, ServerFrames
<1> DEFINE g  == Len(server.got)
           s  == Len(server.sent)
           r  == server.read
           g1 == Len(server'.got)
           s1 == Len(server'.sent)
           r1 == server'.read
<1>c. g \in Nat /\ s \in Nat /\ r \in Nat /\ r <= s
      /\ (server.got # <<>> <=> g > 0)
  BY <1>a, ServerTypes
<1>d. server'.got \in Stream /\ g1 \in Nat /\ (server'.got # <<>> <=> g1 > 0)
  <2>1. server'.got \in Stream
    BY DEF Carried, DataType, ServerStates
  <2>. QED  BY <2>1, Streams
<1>e. s <= Answers(g)
  BY DEF WaitInv
<1>f. \A n \in Nat : Answers(n) \in Nat
  BY AnswersGrow
<1>0. ASSUME WriteOutput, server.open
      PROVE  /\ g1 > g
             /\ pc' = "write_output" => Len(buf') > 0
             /\ r1 <= Answers(g1 - 1)
             /\ s1 <= Answers(g1)
  <2>1. buf # <<>> /\ pc = "write_output"
    BY <1>0 DEF WaitInv, WriteOutput, At
  <2>2. Len(buf) \in Nat /\ Len(buf) > 0
    BY <1>a, <2>1, ServerTypes, Streams
  <2>3. PICK n \in Taken : /\ g1 = g + n /\ Len(buf') = Len(buf) - n
                           /\ IF n < Len(buf) THEN pc' = pc
                                              ELSE pc' = "start_timing"
    BY <1>a, <1>0, WriteOutputSplits
  <2>4. n \in 1 .. Len(buf)
    BY <2>1, <2>2 DEF Taken
  <2>5. r1 = r /\ s1 = s
    BY <1>0 DEF WriteOutput, Carried, DataType, ServerStates
  <2>6. pc' = "write_output" => n < Len(buf)
    BY <2>3
  <2> HIDE DEF g, s, r, g1, s1, r1
  <2>7. g1 > g /\ g1 - 1 \in Nat /\ g <= g1 - 1 /\ g <= g1
    BY <1>c, <1>d, <2>2, <2>3, <2>4
  <2>8. Answers(g) <= Answers(g1 - 1) /\ Answers(g) <= Answers(g1)
    BY <1>c, <1>d, <2>7, AnswersGrow
  <2>9. /\ Answers(g) \in Nat /\ Answers(g1 - 1) \in Nat
        /\ Answers(g1) \in Nat
    BY <1>c, <1>d, <1>f, <2>7
  <2>10. r1 <= Answers(g1 - 1) /\ s1 <= Answers(g1)
    BY <1>c, <1>e, <2>5, <2>8, <2>9
  <2>11. pc' = "write_output" => Len(buf') > 0
    BY <2>2, <2>3, <2>4, <2>6
  <2>. QED  BY <2>7, <2>10, <2>11
\* What the server has sent.
<1>1. s1 <= Answers(g1)
  <2>1. CASE Connect
    <3>1. s1 = 0 /\ g1 = 0
      BY <2>1, Streams DEF Connect, NewServer
    <3> HIDE DEF s1, g1
    <3>. QED  BY <1>f, <3>1
  <2>2. CASE ServerAnswer
    <3> DEFINE unit == <<server.session, s + 1>>
    <3>1. /\ server.sent \in Stream /\ unit \in Units
          /\ RequestUnits \in Nat \ {0} /\ ResponseUnits \in Nat \ {0}
          /\ Unasked \in Nat
      <4>1. /\ server.sent \in Stream /\ s \in Nat
            /\ server.session \in Nat
        BY <1>a, ServerTypes
      <4>2. unit \in Units
        BY <4>1 DEF Units
      <4>. QED  BY <4>1, <4>2, SessionAssumption
    <3>2. /\ server'.sent = Append(server.sent, unit)
          /\ server'.got = server.got /\ s < Answers(g)
      BY <1>a, <2>2 DEF ServerAnswer, MayAnswer, Answers, DataType,
                        ServerStates
    <3> HIDE DEF unit
    <3>3. s1 = s + 1 /\ g1 = g
      BY <3>1, <3>2, Streams
    <3> HIDE DEF s, g, s1, g1
    <3>4. Answers(g) \in Nat
      BY <1>c, <1>f
    <3>. QED  BY <1>c, <3>2, <3>3, <3>4
  <2>3. CASE WriteOutput
    <3>1. CASE server.open
      BY <1>0, <2>3, <3>1
    <3>2. CASE ~server.open
      BY <1>e, <2>3, <3>2 DEF WriteOutput
    <3>. QED  BY <3>1, <3>2
  <2>4. CASE ~Connect /\ ~ServerAnswer /\ ~WriteOutput
    BY <1>b, <1>e, <2>4 DEF ServerFrame
  <2>. QED  BY <2>1, <2>2, <2>3, <2>4
\* What is there to be written.
<1>2. ASSUME server'.open, pc' = "write_output" PROVE buf' # <<>>
  <2>0. Len(<<>>) = 0
    BY Streams
  <2>1. server.open \/ ForwardInput
    <3>1. ~Connect
      BY <1>2 DEF Connect
    <3>. QED  BY <1>2, <1>b, <3>1 DEF ServerFrame
  <2>2. CASE ForwardInput
    BY <1>a, <1>2, <2>2, ForwardInputSplits
  <2>3. CASE WriteOutput
    <3>1. ~ForwardInput
      BY <2>3 DEF WriteOutput, ForwardInput, At
    <3>2. Len(buf') > 0
      BY <1>0, <1>2, <2>1, <2>3, <3>1
    <3>. QED  BY <2>0, <3>2
  <2>4. CASE ~ForwardInput /\ ~WriteOutput
    BY <1>2, <2>1, <2>4, WaitPlaces DEF WaitInv
  <2>. QED  BY <2>2, <2>3, <2>4
\* What is waited for.
<1>3. ASSUME server'.open, pc' \in Awaiting
      PROVE  server'.got # <<>> /\ r1 <= Answers(g1 - 1)
  <2>1. /\ pc \in Awaiting \/ WriteOutput
        /\ ~Connect /\ ~ForwardOutput /\ server.open
    BY <1>3, <1>b, WaitPlaces DEF ServerFrame
  <2>2. CASE WriteOutput
    <3>1. g1 > g /\ r1 <= Answers(g1 - 1)
      BY <1>0, <2>1, <2>2
    <3>2. g1 > 0
      BY <1>c, <1>d, <3>1
    <3>. QED  BY <1>d, <3>1, <3>2
  <2>3. CASE ~WriteOutput
    <3>1. server'.got = server.got /\ r1 = r
      BY <1>b, <2>1, <2>3 DEF ServerFrame
    <3>. QED  BY <2>1, <2>3, <3>1 DEF WaitInv
  <2>. QED  BY <2>2, <2>3
<1>. QED  BY <1>1, <1>2, <1>3 DEF WaitInv

LEMMA WaitInit == Init => WaitInv
<1> SUFFICES ASSUME Init PROVE WaitInv
  OBVIOUS
<1>1. /\ pc = "accept_control" /\ server.got = <<>> /\ server.sent = <<>>
  BY DEF Init, NewServer
<1>2. Len(<<>>) = 0 /\ Answers(0) \in Nat
  BY AnswersGrow
<1>. QED  BY <1>1, <1>2 DEF WaitInv, Awaiting

\* A proxy that waits for good in its peek waits for a server that in turn
\* waits for the rest of a request: the proxy is never the one to have taken
\* an answer and to wait for it again.
THEOREM WedgedMidRequest == Spec => []WedgedOnlyMidRequest
<1>1. Carried /\ WaitInv => WedgedOnlyMidRequest
  <2> DEFINE g == Len(server.got)
             s == Len(server.sent)
             p == g \div RequestUnits
             q == (g - 1) \div RequestUnits
  <2> SUFFICES ASSUME Carried, WaitInv, At("peek"), server.open,
                      Arrived = <<>>, ~MayAnswer
               PROVE  g % RequestUnits # 0
    BY DEF WedgedOnlyMidRequest
  <2>a. DataType
    BY DEF Carried
  <2>0. /\ RequestUnits \in Nat \ {0} /\ ResponseUnits \in Nat \ {0}
        /\ Unasked \in Nat /\ g \in Nat /\ s \in Nat
        /\ Answers(g) \in Nat
    BY <2>a, SessionAssumption, ServerTypes, AnswersGrow
  <2>1. g > 0 /\ server.read <= Answers(g - 1)
    BY <2>a, ServerTypes DEF WaitInv, Awaiting, At
  <2>2. server.read = s
    <3>1. Len(Arrived) = 0
      BY Streams
    <3>. QED  BY <2>a, <3>1, ArrivedType, ServerTypes
  <2>3. Answers(g) <= s
    <3>1. ~(s < Answers(g))
      BY DEF MayAnswer, Answers
    <3> HIDE DEF g, s
    <3>. QED  BY <2>0, <3>1
  <2> HIDE DEF g, s
  <2>4. Answers(g) <= Answers(g - 1)
    <3>1. Answers(g - 1) \in Nat
      BY <2>0, <2>1, AnswersGrow
    <3>. QED  BY <2>0, <2>1, <2>2, <2>3, <3>1
  <2>5. p \in Nat /\ q \in Nat
    <3>1. g - 1 \in Nat
      BY <2>0, <2>1
    <3>. QED  BY <2>0, <3>1, DivMod
  <2>6. ResponseUnits * (p + Unasked) <= ResponseUnits * (q + Unasked)
    BY <2>4 DEF Answers
  <2>7. g % RequestUnits = 0 => q = p - 1
    <3>1. g \in Nat \ {0}
      BY <2>0, <2>1
    <3>. QED  BY <2>0, <3>1, DivRises
  <2> HIDE DEF p, q
  <2>8. p + Unasked <= q + Unasked
    <3>1. p + Unasked \in Int /\ q + Unasked \in Int
      BY <2>0, <2>5
    <3>. QED  BY <2>0, <2>6, <3>1, TimesLess
  <2>9. q # p - 1
    BY <2>0, <2>5, <2>8
  <2>. QED  BY <2>7, <2>9
<1>. QED  BY <1>1, CarriedAlways, WaitInit, WaitStep, PTL DEF Spec

-----------------------------------------------------------------------------
(***************************************************************************)
(* The measurements, of patient clients and servers that wait to be asked. *)
(***************************************************************************)

\* A client that has sent its n-th unit has all answers to earlier requests.
PatientInv ==
    \A c \in Clients :
       client[c].sent > 0 =>
          Answers(client[c].sent - 1) <= Len(client[c].got)

\* The places after a measurement, until the next request is written.
Forwarding ==
    \/ pc \in {"forward_input", "forward_output", "write_input",
               "write_control"}
    \/ pc = "poll" /\ established

\* The clock was started when all that has been written had been written, and
\* stopped when something new had arrived.
ClockInv ==
    server.got # <<>> =>
       /\ Forwarding \/ pc = "peek" =>
             clock.start = [session |-> server.session,
                            sent    |-> Len(server.got)]
       /\ Forwarding \/ pc = "restart_timing" =>
             /\ clock.stop.session = server.session
             /\ \/ clock.stop.arrived > Answers(Len(server.got) - 1)
                \/ ~server.open /\ server.read = Len(server.sent)

LEMMA GotGrows ==
    ASSUME PlaceType, DataType, [Next]_vars, NEW d \in Clients
    PROVE  Len(client[d].got) <= Len(client'[d].got)
<1>a. client[d].got \in Stream /\ Len(client[d].got) \in Nat
  BY ClientTypes
<1>1. CASE client'[d].got = client[d].got
  BY <1>a, <1>1
<1>2. CASE client'[d].got # client[d].got
  <2>1. WriteInput /\ d = input
    BY <1>2, ClientFrames DEF ClientFrame
  <2>2. client' # client
    BY <1>2
  <2>3. PICK n \in Taken :
           client' = [client EXCEPT ![input].got = @ \o SubSeq(buf, 1, n)]
    BY <2>1, <2>2 DEF WriteInput
  <2> DEFINE front == SubSeq(buf, 1, n)
  <2>4. front \in Stream
    BY TakenPieces
  <2>5. client'[d].got = client[d].got \o front
    BY <2>1, <2>3 DEF DataType, ClientStates
  <2> HIDE DEF front
  <2>6. Len(front) \in Nat
    BY <2>4, Streams
  <2>7. Len(client[d].got \o front) = Len(client[d].got) + Len(front)
    BY <1>a, <2>4, Streams
  <2>. QED  BY <1>a, <2>5, <2>6, <2>7
<1>. QED  BY <1>1, <1>2

LEMMA PatientStep ==
    ASSUME Patient, Unasked = 0
    PROVE  Carried /\ Carried' /\ PatientInv /\ [Next]_vars => PatientInv'
<1> DEFINE g(d)  == Len(client[d].got)
           g1(d) == Len(client'[d].got)
           s(d)  == client[d].sent
           s1(d) == client'[d].sent
<1> SUFFICES ASSUME Carried, Carried', PatientInv, [Next]_vars,
                    NEW d \in Clients, s1(d) > 0
             PROVE  Answers(s1(d) - 1) <= g1(d)
  BY DEF PatientInv
<1>a. PlaceType /\ DataType
  BY DEF Carried
<1>b. g(d) \in Nat /\ s(d) \in Nat
  BY <1>a, ClientTypes
<1>c. g(d) <= g1(d) /\ g1(d) \in Nat
  <2>1. client'[d].got \in Stream
    BY DEF Carried, DataType, ClientStates
  <2>. QED  BY <1>a, <2>1, GotGrows, Streams
<1>1. CASE SendUnit(d)
  <2>1. s1(d) = s(d) + 1
    BY <1>a, <1>1 DEF SendUnit, DataType, ClientStates
  <2>2. g(d) >= ResponseUnits * (s(d) \div RequestUnits)
    BY <1>1 DEF SendUnit
  <2>3. s(d) \div RequestUnits \in Nat
    BY <1>b, DivMod, SessionAssumption
  <2>4. Answers(s(d)) = ResponseUnits * (s(d) \div RequestUnits)
    BY <2>3 DEF Answers
  <2> HIDE DEF g, g1, s, s1
  <2>5. Answers(s(d)) \in Nat /\ s1(d) - 1 = s(d)
    <3>1. s1(d) - 1 = s(d)
      BY <1>b, <2>1
    <3>. QED  BY <1>b, <3>1, AnswersGrow
  <2>6. Answers(s(d)) <= g(d)
    BY <1>b, <2>2, <2>4, <2>5
  <2>. QED  BY <1>b, <1>c, <2>5, <2>6
<1>2. CASE ~SendUnit(d)
  <2>1. s1(d) = s(d)
    BY <1>a, <1>2, ClientFrames DEF ClientFrame
  <2>2. Answers(s(d) - 1) <= g(d)
    BY <2>1 DEF PatientInv
  <2> HIDE DEF g, g1, s, s1
  <2>3. Answers(s(d) - 1) \in Nat
    <3>1. s(d) - 1 \in Nat
      BY <1>b, <2>1
    <3>. QED  BY <3>1, AnswersGrow
  <2>. QED  BY <1>b, <1>c, <2>1, <2>2, <2>3
<1>. QED  BY <1>1, <1>2

\* When something is there to be read from the server, it is an answer to the
\* last request that was written.
LEMMA AnswerIsNew ==
    ASSUME Carried, FlowInv, PatientInv, InSession, server.got # <<>>
    PROVE  /\ Answers(Len(server.got) - 1) <= server.read
           /\ Len(server.got) - 1 \in Nat
<1> DEFINE g == Len(server.got)
           s == client[input].sent
           q == Len(client[input].queue)
           r == Len(client[input].got)
           o == Len(Outgoing)
           i == Len(Incoming)
<1>a. DataType /\ input \in Clients
  BY DEF Carried, PlaceType, InSession, WithInput, WithControl
<1>1. /\ g \in Nat \ {0} /\ s \in Nat /\ q \in Nat /\ r \in Nat
      /\ server.read \in Nat
  BY <1>a, ServerTypes, ClientTypes
<1>2. o \in Nat /\ i \in Nat
  BY <1>a, ServerTypes, Streams DEF Outgoing, Incoming
<1>3. g + o + q <= s /\ r + i <= server.read
  BY DEF FlowInv
<1>4. s > 0 => Answers(s - 1) <= r
  BY <1>a DEF PatientInv
<1> HIDE DEF g, s, q, r, o, i
<1>5. s > 0 /\ g - 1 \in Nat /\ s - 1 \in Nat /\ g - 1 <= s - 1
      /\ r <= server.read
  BY <1>1, <1>2, <1>3
<1>6. /\ Answers(g - 1) \in Nat /\ Answers(s - 1) \in Nat
      /\ Answers(g - 1) <= Answers(s - 1)
  BY <1>5, AnswersGrow
<1>7. Answers(g - 1) <= server.read
  BY <1>1, <1>4, <1>5, <1>6
<1>. QED  BY <1>5, <1>7 DEF g

LEMMA ClockPlaces ==
    ASSUME DataType, [Next]_vars, ~Connect
    PROVE  /\ Forwarding' \/ pc' = "peek" =>
                 /\ ~WriteOutput
                 /\ \/ StartTiming
                    \/ /\ clock'.start = clock.start
                       /\ Forwarding \/ pc = "peek"
           /\ Forwarding' \/ pc' = "restart_timing" =>
                 /\ ~WriteOutput
                 /\ \/ Peek
                    \/ /\ clock'.stop = clock.stop
                       /\ Forwarding \/ pc = "restart_timing"
<1> DEFINE C == /\ Forwarding' \/ pc' = "peek" =>
                      /\ ~WriteOutput
                      /\ \/ StartTiming
                         \/ /\ clock'.start = clock.start
                            /\ Forwarding \/ pc = "peek"
                /\ Forwarding' \/ pc' = "restart_timing" =>
                      /\ ~WriteOutput
                      /\ \/ Peek
                         \/ /\ clock'.stop = clock.stop
                            /\ Forwarding \/ pc = "restart_timing"
<1>a. WriteOutput => pc' \in {"write_output", "start_timing", "poll"}
                     /\ (pc' = "poll" => ~established')
  BY DEF WriteOutput, SendInVain, At
<1> USE DEF At, Forwarding
<1>b. Forwarding' \/ pc' \in {"peek", "restart_timing"} => ~WriteOutput
  BY <1>a
<1>0. ASSUME UNCHANGED <<pc, established, clock>> PROVE C
  BY <1>0, <1>b
<1>1. AcceptControl => C
  BY DEF AcceptControl, AcceptOn
<1>2. GetProxyTarget => C
  BY DEF GetProxyTarget
<1>3. AcceptInput => C
  BY DEF AcceptInput, AcceptOn
<1>4. Connect => C
  OBVIOUS
<1>5. ForwardInput => C
  BY <1>b DEF ForwardInput
<1>6. WriteOutput => C
  BY <1>b
<1>7. StartTiming => C
  BY <1>b DEF StartTiming
<1>8. ASSUME Peek PROVE C
  <2>1. clock'.start = clock.start
    BY <1>8 DEF Peek, DataType
  <2>2. pc = "peek"
    BY <1>8 DEF Peek
  <2>. QED  BY <1>8, <1>b, <2>1, <2>2
<1>9. ForwardOutput => C
  BY <1>b DEF ForwardOutput
<1>10. WriteInput => C
  BY <1>b DEF WriteInput, SendInVain
<1>11. WriteControl => C
  BY <1>b DEF WriteControl, SendInVain
<1>12. Poll => C
  BY <1>b DEF Poll, StillEstablished
<1>13. Close => C
  BY DEF Close
<1>14. TargetFails => C
  BY <1>0 DEF TargetFails, proxyVars
<1>15. ServerAnswer => C
  BY <1>0 DEF ServerAnswer, proxyVars
<1>16. ServerClose => C
  BY <1>0 DEF ServerClose, proxyVars
<1>17. ASSUME NEW c \in Clients, ClientStep(c) PROVE C
  BY <1>0, <1>17 DEF ClientStep, ConnectControl, SendLine, ConnectInput,
                     SendUnit, CloseControl, Leave, proxyVars
<1>18. UNCHANGED vars => C
  BY <1>0 DEF vars, proxyVars
<1>. QED
  BY <1>1, <1>2, <1>3, <1>4, <1>5, <1>6, <1>7, <1>8, <1>9, <1>10, <1>11,
     <1>12, <1>13, <1>14, <1>15, <1>16, <1>17, <1>18, NextCases

LEMMA ClockStep ==
    Carried /\ FlowInv /\ PatientInv /\ ClockInv /\ [Next]_vars => ClockInv'
<1> SUFFICES ASSUME Carried, FlowInv, PatientInv, ClockInv, [Next]_vars,
                    server'.got # <<>>
             PROVE  /\ Forwarding' \/ pc' = "peek" =>
                          clock'.start = [session |-> server'.session,
                                          sent    |-> Len(server'.got)]
                    /\ Forwarding' \/ pc' = "restart_timing" =>
                       /\ clock'.stop.session = server'.session
                       /\ \/ clock'.stop.arrived
                                > Answers(Len(server'.got) - 1)
                          \/ /\ ~server'.open
                             /\ server'.read = Len(server'.sent)
  BY DEF ClockInv
<1>a. PlaceType /\ DataType
  BY DEF Carried
<1>b. ~Connect /\ ServerFrame
  <2>1. ~Connect
    BY DEF Connect, NewServer
  <2>. QED  BY <1>a, <2>1, ServerFrames
<1>1. ASSUME Forwarding' \/ pc' = "peek"
      PROVE  clock'.start = [session |-> server'.session,
                             sent    |-> Len(server'.got)]
  <2>1. CASE StartTiming
    BY <1>a, <2>1 DEF StartTiming, DataType
  <2>2. CASE ~StartTiming
    <3>1. /\ clock'.start = clock.start /\ ~WriteOutput
          /\ Forwarding \/ pc = "peek"
      BY <1>1, <1>a, <1>b, <2>2, ClockPlaces
    <3>2. server'.session = server.session /\ server'.got = server.got
      BY <1>b, <3>1 DEF ServerFrame
    <3>. QED  BY <3>1, <3>2 DEF ClockInv
  <2>. QED  BY <2>1, <2>2
<1>2. ASSUME Forwarding' \/ pc' = "restart_timing"
      PROVE  /\ clock'.stop.session = server'.session
             /\ \/ clock'.stop.arrived > Answers(Len(server'.got) - 1)
                \/ ~server'.open /\ server'.read = Len(server'.sent)
  <2>1. CASE Peek
    <3>1. /\ pc = "peek" /\ InSession /\ server' = server
          /\ clock'.stop = [session |-> server.session,
                            arrived |-> Len(server.sent)]
          /\ Arrived # <<>> \/ ~server.open
      BY <1>a, <2>1 DEF Peek, At, InSession, ProxyPcs, AnswerThere, DataType
    <3>2. CASE Arrived = <<>>
      <4>1. server.read = Len(server.sent)
        <5>1. Len(Arrived) = 0
          BY <3>2, Streams
        <5>. QED  BY <1>a, <5>1, ArrivedType, ServerTypes
      <4>. QED  BY <3>1, <3>2, <4>1
    <3>3. CASE Arrived # <<>>
      <4> DEFINE g == Len(server.got)
                 s == Len(server.sent)
      <4>1. Len(Arrived) > 0 /\ Len(Arrived) \in Nat
        BY <1>a, <3>3, ArrivedType, Streams
      <4>2. server.read < s /\ s \in Nat /\ server.read \in Nat
        BY <1>a, <4>1, ArrivedType, ServerTypes
      <4>3. Answers(g - 1) <= server.read /\ Answers(g - 1) \in Nat
        BY <3>1, AnswerIsNew, AnswersGrow
      <4>4. clock'.stop.arrived = s /\ clock'.stop.session = server.session
        BY <3>1
      <4> HIDE DEF g, s
      <4>5. s > Answers(g - 1)
        BY <4>2, <4>3
      <4>. QED  BY <3>1, <4>4, <4>5 DEF g
    <3>. QED  BY <3>2, <3>3
  <2>2. CASE ~Peek
    <3>1. /\ clock'.stop = clock.stop /\ ~WriteOutput
          /\ Forwarding \/ pc = "restart_timing"
      BY <1>2, <1>a, <1>b, <2>2, ClockPlaces
    <3>2. server'.session = server.session /\ server'.got = server.got
      BY <1>b, <3>1 DEF ServerFrame
    <3>3. ASSUME ~server.open, server.read = Len(server.sent)
          PROVE  ~server'.open /\ server'.read = Len(server'.sent)
      <4>1. ~server'.open /\ server'.sent = server.sent
        BY <1>b, <3>3 DEF ServerFrame, ServerAnswer, MayAnswer
      <4>2. server'.read = server.read
        <5>1. CASE ForwardOutput
          <6>1. server'.read = server.read + Len(buf') /\ Len(buf') = 0
            <7>1. ~(server.read < Len(server.sent))
              BY <1>a, <3>3, ServerTypes
            <7>. QED  BY <1>a, <5>1, <7>1, ForwardOutputSplits
          <6>. QED  BY <1>a, <6>1, ServerTypes
        <5>2. CASE ~ForwardOutput
          BY <1>b, <5>2 DEF ServerFrame
        <5>. QED  BY <5>1, <5>2
      <4>. QED  BY <3>3, <4>1, <4>2
    <3>. QED  BY <3>1, <3>2, <3>3 DEF ClockInv
  <2>. QED  BY <2>1, <2>2
<1>. QED  BY <1>1, <1>2

-----------------------------------------------------------------------------
(***************************************************************************)
(* The records.                                                            *)
(***************************************************************************)

LastUpto(c) ==
    IF client[c].records = <<>> THEN 0
    ELSE client[c].records[Len(client[c].records)].upto

\* What FreshRecord says of a record r after one up to the unit last.
FreshAfter(last, r) ==
    last % ResponseUnits = 0 =>
       /\ r.start.session = r.session /\ r.stop.session = r.session
       /\ r.start.sent = (last \div ResponseUnits + 1) * RequestUnits
       /\ r.stop.arrived >= last + 1

\* The unit a record's measurement begins after.
Before(records, i) == IF i = 1 THEN 0 ELSE records[i - 1].upto

AllFresh(records) ==
    \A i \in 1 .. Len(records) : FreshAfter(Before(records, i), records[i])

\* A chunk is between its read and its record.
Passing == pc \in {"write_input", "write_control"}

Running == InSession /\ (pc = "poll" => established)

\* The records on a control connection go on from unit to unit.
RecordInv ==
    /\ ControlOpen(control) =>
          /\ Passing => FreshAfter(LastUpto(control), Record)
          /\ Running /\ ~Passing => LastUpto(control) = server.read
    /\ \A c \in Clients : AllFresh(client[c].records)

LEMMA PlainAnswers ==
    ASSUME Unasked = 0, NEW n \in Nat
    PROVE  /\ n \div RequestUnits \in Nat
           /\ Answers(n) = ResponseUnits * (n \div RequestUnits)
<1>1. RequestUnits \in Nat \ {0}
  BY SessionAssumption
<1>2. n \div RequestUnits \in Nat
  BY <1>1, DivMod
<1>3. n \div RequestUnits + Unasked = n \div RequestUnits
  BY <1>2
<1>. QED  BY <1>2, <1>3 DEF Answers

\* What is read first of an answer is measured from the end of its request.
LEMMA FreshChunk ==
    ASSUME Unasked = 0, Carried, FlowInv, WaitInv, PatientInv, ClockInv,
           ForwardOutput, Arrived # <<>>
    PROVE  FreshAfter(server.read, Record)
<1> DEFINE g == Len(server.got)
           s == Len(server.sent)
           r == server.read
           p == g \div RequestUnits
           q == (g - 1) \div RequestUnits
           k == r \div ResponseUnits
<1>a. DataType
  BY DEF Carried
<1>b. /\ RequestUnits \in Nat \ {0} /\ ResponseUnits \in Nat \ {0}
      /\ Unasked = 0
  BY SessionAssumption
<1>c. /\ pc = "forward_output" /\ InSession /\ Forwarding
  BY DEF ForwardOutput, At, InSession, ProxyPcs, Forwarding
<1> SUFFICES ASSUME r % ResponseUnits = 0
             PROVE  /\ clock.start.session = server.session
                    /\ clock.stop.session = server.session
                    /\ clock.start.sent = (k + 1) * RequestUnits
                    /\ clock.stop.arrived >= r + 1
  BY DEF FreshAfter, Record
<1>1. /\ g \in Nat /\ s \in Nat /\ r \in Nat /\ r < s
      /\ (server.got # <<>> <=> g > 0)
      /\ clock.stop.arrived \in Nat
  <2>1. clock.stop.arrived \in Nat
    BY <1>a DEF DataType, Stops
  <2>. QED  BY <1>a, <2>1, ServerTypes, ForwardOutputSplits
<1>2. s <= Answers(g)
  BY DEF WaitInv
<1>3. /\ p \in Nat /\ k \in Nat /\ r = ResponseUnits * k
      /\ Answers(g) = ResponseUnits * p
  <2>1. p \in Nat /\ Answers(g) = ResponseUnits * p
    BY <1>1, <1>b, PlainAnswers
  <2>2. k \in Nat /\ r = ResponseUnits * k
    <3>1. r = ResponseUnits * k + (r % ResponseUnits) /\ k \in Nat
      BY <1>1, <1>b, DivMod
    <3>2. ResponseUnits * k \in Nat
      BY <1>b, <3>1
    <3>. QED  BY <3>1, <3>2
  <2>. QED  BY <2>1, <2>2
<1>4. k < p
  <2>1. ResponseUnits * k < ResponseUnits * p
    <3>1. Answers(g) \in Nat
      BY <1>1, AnswersGrow
    <3> HIDE DEF g, s, r, p, k
    <3>. QED  BY <1>1, <1>2, <1>3, <3>1
  <2> HIDE DEF p, k
  <2>. QED  BY <1>b, <1>3, <2>1, TimesLess
<1>5. g \in Nat \ {0}
  <2>1. g = RequestUnits * p + (g % RequestUnits)
        /\ (g % RequestUnits) \in 0 .. RequestUnits - 1
    BY <1>1, <1>b, DivMod
  <2>2. g # 0
    <3>1. g = 0 => p = 0
      BY <1>b
    <3> HIDE DEF g, p, k
    <3>. QED  BY <1>3, <1>4, <3>1
  <2>. QED  BY <1>1, <2>2
<1>6. /\ q \in Nat /\ q <= k
      /\ Answers(g - 1) = ResponseUnits * q
  <2>1. /\ g - 1 \in Nat /\ Answers(g - 1) <= r
    BY <1>1, <1>5, <1>c, AnswerIsNew
  <2>2. q \in Nat /\ Answers(g - 1) = ResponseUnits * q
    BY <1>b, <2>1, PlainAnswers
  <2> HIDE DEF g, r, q, k
  <2>4. ResponseUnits * q <= ResponseUnits * k
    BY <1>3, <2>1, <2>2
  <2>3. q <= k
    BY <1>b, <1>3, <2>2, <2>4, TimesLess
  <2>. QED  BY <2>2, <2>3
<1>7. p = k + 1 /\ q = k /\ g = p * RequestUnits
  <2>1. /\ g % RequestUnits = 0 => q = p - 1
        /\ g % RequestUnits # 0 => q = p
    BY <1>b, <1>5, DivRises
  <2>2. g = RequestUnits * p + (g % RequestUnits)
    BY <1>1, <1>b, DivMod
  <2> HIDE DEF g, p, q, k
  <2>3. g % RequestUnits = 0 /\ p = k + 1 /\ q = k
    BY <1>3, <1>4, <1>6, <2>1
  <2>4. RequestUnits * p = p * RequestUnits /\ RequestUnits * p \in Nat
    BY <1>b, <1>3
  <2>. QED  BY <2>2, <2>3, <2>4
<1>8. /\ clock.start = [session |-> server.session, sent |-> g]
      /\ clock.stop.session = server.session
      /\ \/ clock.stop.arrived > Answers(g - 1)
         \/ ~server.open /\ r = s
  BY <1>1, <1>5, <1>c DEF ClockInv
<1>9. clock.start.session = server.session /\ clock.start.sent = g
  BY <1>8
<1>10. clock.stop.arrived >= r + 1
  <2>1. r # s
    BY <1>1
  <2>2. clock.stop.arrived > Answers(g - 1)
    BY <1>8, <2>1
  <2> DEFINE a == clock.stop.arrived
  <2> HIDE DEF g, s, r, q, k, a
  <2>3. Answers(g - 1) = r
    BY <1>3, <1>6, <1>7
  <2>. QED  BY <1>1, <2>2, <2>3 DEF a
<1>. QED  BY <1>7, <1>8, <1>9, <1>10

LEMMA RecordPlaces ==
    ASSUME PlaceType, [Next]_vars, ~Connect
    PROVE  /\ Passing' =>
                 \/ ForwardOutput /\ Arrived # <<>>
                 \/ Passing /\ clock' = clock /\ ~ForwardOutput
           /\ Running' /\ ~Passing' => WriteControl \/ (Running /\ ~Passing)
<1> DEFINE C == /\ Passing' =>
                      \/ ForwardOutput /\ Arrived # <<>>
                      \/ Passing /\ clock' = clock /\ ~ForwardOutput
                /\ Running' /\ ~Passing' =>
                      WriteControl \/ (Running /\ ~Passing)
<1> USE DEF At, Passing, Running, InSession, ProxyPcs
<1>a. Passing => ~ForwardOutput
  BY DEF ForwardOutput
<1>0. ASSUME UNCHANGED <<pc, established, clock>> PROVE C
  BY <1>0, <1>a
<1>1. AcceptControl => C
  BY DEF AcceptControl, AcceptOn
<1>2. GetProxyTarget => C
  BY DEF GetProxyTarget
<1>3. AcceptInput => C
  BY DEF AcceptInput, AcceptOn
<1>4. Connect => C
  OBVIOUS
<1>5. ForwardInput => C
  BY DEF ForwardInput
<1>6. WriteOutput => C
  BY DEF WriteOutput, SendInVain
<1>7. StartTiming => C
  BY DEF StartTiming
<1>8. Peek => C
  BY DEF Peek
<1>9. ForwardOutput => C
  BY DEF ForwardOutput
<1>10. WriteInput => C
  BY <1>a DEF WriteInput, SendInVain
<1>11. WriteControl => C
  BY <1>a DEF WriteControl, SendInVain
<1>12. Poll => C
  BY DEF Poll, StillEstablished
<1>13. Close => C
  BY DEF Close
<1>14. TargetFails => C
  BY <1>0 DEF TargetFails, proxyVars
<1>15. ServerAnswer => C
  BY <1>0 DEF ServerAnswer, proxyVars
<1>16. ServerClose => C
  BY <1>0 DEF ServerClose, proxyVars
<1>17. ASSUME NEW c \in Clients, ClientStep(c) PROVE C
  BY <1>0, <1>17 DEF ClientStep, ConnectControl, SendLine, ConnectInput,
                     SendUnit, CloseControl, Leave, proxyVars
<1>18. UNCHANGED vars => C
  BY <1>0 DEF vars, proxyVars
<1>. QED
  BY <1>1, <1>2, <1>3, <1>4, <1>5, <1>6, <1>7, <1>8, <1>9, <1>10, <1>11,
     <1>12, <1>13, <1>14, <1>15, <1>16, <1>17, <1>18, NextCases

\* A record that is appended comes after the last.
LEMMA AppendFresh ==
    ASSUME NEW records \in Measured, NEW r \in Records, AllFresh(records),
           FreshAfter(IF records = <<>> THEN 0
                      ELSE records[Len(records)].upto, r)
    PROVE  /\ AllFresh(Append(records, r))
           /\ Append(records, r) # <<>>
           /\ Append(records, r)[Len(Append(records, r))] = r
<1> DEFINE long == Append(records, r)
           n    == Len(records)
<1>1. /\ n \in Nat /\ long \in Seq(Records) /\ Len(long) = n + 1
      /\ \A i \in 1 .. n : long[i] = records[i]
      /\ long[n + 1] = r
      /\ (n = 0 <=> records = <<>>)
  BY AppendProperties, LenProperties, EmptySeq DEF Measured
<1> HIDE DEF long, n
<1>2. ASSUME NEW i \in 1 .. Len(long)
      PROVE  FreshAfter(Before(long, i), long[i])
  <2>1. CASE i \in 1 .. n
    <3>1. long[i] = records[i] /\ Before(long, i) = Before(records, i)
      <4>1. i # 1 => i - 1 \in 1 .. n
        BY <1>1, <2>1
      <4>. QED  BY <1>1, <2>1, <4>1 DEF Before
    <3>2. FreshAfter(Before(records, i), records[i])
      BY <2>1 DEF AllFresh, n
    <3>. QED  BY <3>1, <3>2
  <2>2. CASE i = n + 1
    <3>1. Before(long, i) = IF records = <<>> THEN 0 ELSE records[n].upto
      <4>1. CASE n = 0
        BY <1>1, <2>2, <4>1 DEF Before
      <4>2. CASE n # 0
        <5>1. i # 1 /\ i - 1 = n /\ n \in 1 .. n
          BY <1>1, <2>2, <4>2
        <5>. QED  BY <1>1, <4>2, <5>1 DEF Before
      <4>. QED  BY <4>1, <4>2
    <3>2. long[i] = r
      BY <1>1, <2>2
    <3>. QED  BY <3>1, <3>2 DEF n
  <2>. QED  BY <1>1, <2>1, <2>2
<1>3. long # <<>> /\ long[Len(long)] = r
  <2>1. Len(<<>>) = 0
    OBVIOUS
  <2>. QED  BY <1>1, <2>1
<1>. QED  BY <1>2, <1>3 DEF AllFresh, long

LEMMA RecordStep ==
    ASSUME Unasked = 0
    PROVE  Carried /\ Carried' /\ FlowInv /\ WaitInv /\ PatientInv /\ ClockInv
           /\ RecordInv /\ [Next]_vars => RecordInv'
<1> SUFFICES ASSUME Carried, Carried', FlowInv, WaitInv, PatientInv, ClockInv,
                    RecordInv, [Next]_vars
             PROVE  RecordInv'
  OBVIOUS
<1>a. PlaceType /\ DataType /\ FreshInv
  BY DEF Carried
<1>b. Connect \/ ServerFrame
  BY <1>a, ServerFrames
<1>c. /\ server.read \in Nat /\ Record \in Records
      /\ client \in [Clients -> ClientStates]
  <2>1. server.read \in Nat /\ server.session \in Nat
    BY <1>a, ServerTypes
  <2>. QED  BY <1>a, <2>1 DEF Record, Records, DataType
<1>d. ASSUME NEW c \in Clients
      PROVE  client'[c].records = client[c].records
             \/ (WriteControl /\ c = control)
  BY <1>a, ClientFrames DEF ClientFrame
<1>e. WriteControl => pc = "write_control" /\ control \in Clients
  BY <1>a DEF WriteControl, At, PlaceType, WithControl, ProxyPcs
\* A record is written.
<1>0. ASSUME WriteControl, ControlOpen(control)
      PROVE  /\ AllFresh(client'[control].records)
             /\ LastUpto(control)' = server.read /\ control' = control
             /\ ~Passing'
  <2>1. /\ client' = [client EXCEPT ![control].records = AddRecord(@)]
        /\ pc' = "poll" /\ control' = control
    BY <1>0 DEF WriteControl
  <2> DEFINE records == client[control].records
  <2>2. client'[control].records = Append(records, Record)
    BY <1>c, <1>e, <1>0, <2>1 DEF AddRecord, ClientStates
  <2>3. records \in Measured /\ AllFresh(records)
    BY <1>a, <1>e, <1>0, ClientTypes DEF RecordInv
  <2>4. FreshAfter(IF records = <<>> THEN 0 ELSE records[Len(records)].upto,
                   Record)
    BY <1>e, <1>0 DEF RecordInv, Passing, LastUpto
  <2> HIDE DEF records
  <2>5. /\ AllFresh(Append(records, Record))
        /\ Append(records, Record) # <<>>
        /\ Append(records, Record)[Len(Append(records, Record))] = Record
    BY <1>c, <2>3, <2>4, AppendFresh
  <2>6. Record.upto = server.read
    BY DEF Record
  <2>7. LastUpto(control)' = server.read
    BY <2>1, <2>2, <2>5, <2>6 DEF LastUpto
  <2>. QED  BY <2>1, <2>2, <2>5, <2>7 DEF Passing
<1>1. ASSUME NEW c \in Clients PROVE AllFresh(client'[c].records)
  <2>1. CASE client'[c].records = client[c].records
    BY <2>1 DEF RecordInv
  <2>2. CASE client'[c].records # client[c].records
    <3>1. WriteControl /\ c = control
      BY <1>d, <2>2
    <3>2. CASE ControlOpen(control)
      BY <1>0, <3>1, <3>2
    <3>3. CASE ~ControlOpen(control)
      BY <2>2, <3>1, <3>3 DEF WriteControl
    <3>. QED  BY <3>2, <3>3
  <2>. QED  BY <2>1, <2>2
<1>2. ASSUME ControlOpen(control)', Passing' \/ (Running' /\ ~Passing')
      PROVE  /\ Passing' => FreshAfter(LastUpto(control)', Record')
             /\ Running' /\ ~Passing' => LastUpto(control)' = server'.read
  <2>1. CASE Connect
    <3>1. /\ pc = "connect" /\ pc' = "forward_input" /\ control' = control
          /\ client' = client /\ server'.read = 0
      BY <2>1 DEF Connect, At, NewServer
    <3>2. control \in Clients
      BY <1>a, <3>1 DEF PlaceType, WithControl, ProxyPcs
    <3>3. client[control].records = <<>>
      BY <1>a, <3>1, <3>2 DEF FreshInv, Unwritten
    <3>. QED  BY <3>1, <3>3 DEF LastUpto, Passing
  <2>2. CASE ~Connect
    <3>0. /\ InSession' /\ control' = control /\ control \in Clients
          /\ ServerFrame
      <4>1. InSession'
        BY <1>2 DEF Passing, Running, InSession, ProxyPcs
      <4>. QED  BY <1>a, <1>b, <2>2, <4>1, SessionStep DEF InSession,
                   PlaceType, WithControl
    <3>1. ControlOpen(control)
      BY <1>2, <1>a, <3>0, MadeGrow DEF ControlOpen
    <3>2. CASE WriteControl
      <4>1. server' = server
        BY <3>2 DEF WriteControl
      <4>. QED  BY <1>0, <3>1, <3>2, <4>1
    <3>3. CASE ~WriteControl
      <4>1. LastUpto(control)' = LastUpto(control)
        BY <1>d, <3>0, <3>3 DEF LastUpto
      <4>2. ASSUME Passing' PROVE FreshAfter(LastUpto(control), Record')
        <5>1. CASE ForwardOutput /\ Arrived # <<>>
          <6>1. FreshAfter(server.read, Record)
            BY <5>1, FreshChunk
          <6>2. LastUpto(control) = server.read
            BY <3>1, <5>1 DEF RecordInv, ForwardOutput, At, Running, Passing,
                              InSession, ProxyPcs
          <6>3. /\ clock' = clock /\ server'.session = server.session
            BY <3>0, <5>1 DEF ForwardOutput, ServerFrame
          <6>. QED  BY <6>1, <6>2, <6>3 DEF FreshAfter, Record
        <5>2. CASE ~(ForwardOutput /\ Arrived # <<>>)
          <6>1. Passing /\ clock' = clock /\ ~ForwardOutput
            BY <1>a, <2>2, <4>2, <5>2, RecordPlaces
          <6>2. /\ server'.session = server.session
                /\ server'.read = server.read
            BY <3>0, <6>1 DEF ServerFrame
          <6>3. Record' = Record
            BY <6>1, <6>2 DEF Record
          <6>. QED  BY <3>1, <6>1, <6>3 DEF RecordInv
        <5>. QED  BY <5>1, <5>2
      <4>3. ASSUME Running', ~Passing'
            PROVE  LastUpto(control) = server'.read
        <5>1. Running /\ ~Passing
          BY <1>a, <2>2, <3>3, <4>3, RecordPlaces
        <5>2. server'.read = server.read
          <6>1. CASE ForwardOutput
            <7>1. Arrived = <<>>
              BY <1>a, <4>3, <6>1, ForwardOutputSplits DEF Passing
            <7>2. server'.read = server.read + Len(buf') /\ Len(buf') = 0
              BY <1>a, <6>1, <7>1, ForwardOutputSplits
            <7>. QED  BY <1>c, <7>2
          <6>2. CASE ~ForwardOutput
            BY <3>0, <6>2 DEF ServerFrame
          <6>. QED  BY <6>1, <6>2
        <5>. QED  BY <3>1, <5>1, <5>2 DEF RecordInv
      <4>. QED  BY <4>1, <4>2, <4>3
    <3>. QED  BY <3>2, <3>3
  <2>. QED  BY <2>1, <2>2
<1>. QED  BY <1>1, <1>2 DEF RecordInv

LEMMA TimingInit ==
    Init => FlowInv /\ WaitInv /\ PatientInv /\ ClockInv /\ RecordInv
<1> SUFFICES ASSUME Init
             PROVE  FlowInv /\ WaitInv /\ PatientInv /\ ClockInv /\ RecordInv
  OBVIOUS
<1>1. /\ pc = "accept_control" /\ control = NoClient /\ server.got = <<>>
      /\ \A c \in Clients : client[c].sent = 0 /\ client[c].records = <<>>
      /\ client = [c \in Clients |-> NewClient]
  BY DEF Init, NewServer, NewClient
<1>2. FlowInv /\ ClockInv /\ PatientInv
  BY <1>1 DEF FlowInv, InSession, ClockInv, PatientInv
<1>3. RecordInv
  <2>1. ~Passing /\ ~Running
    BY <1>1 DEF Passing, Running, InSession
  <2>2. AllFresh(<<>>)
    BY DEF AllFresh
  <2>. QED  BY <1>1, <2>1, <2>2 DEF RecordInv
<1>. QED  BY <1>2, <1>3, WaitInit

\* The record that comes with the beginning of an answer was measured in this
\* session, from the end of the request it answers to no earlier than the
\* answer's arrival: of clients that wait for their answers and servers that
\* wait to be asked, for partial reads and sends of any size, and although
\* nested write calls start the clock again.
THEOREM RecordsFresh ==
    ASSUME Patient, Unasked = 0
    PROVE  Spec => []FreshRecord
<1> DEFINE Inv == FlowInv /\ WaitInv /\ PatientInv /\ ClockInv /\ RecordInv
<1>1. Carried /\ RecordInv => FreshRecord
  <2> SUFFICES ASSUME Carried, RecordInv, NEW c \in Clients,
                      NEW i \in DOMAIN client[c].records
               PROVE  LET r     == client[c].records[i]
                          first == IF i = 1 THEN 1
                                   ELSE client[c].records[i - 1].upto + 1
                          k     == (first - 1) \div ResponseUnits + 1
                      IN  (first - 1) % ResponseUnits = 0 =>
                             /\ {r.start.session, r.stop.session}
                                   = {r.session}
                             /\ r.start.sent = k * RequestUnits
                             /\ r.stop.arrived >= first
    BY DEF FreshRecord
  <2> DEFINE records == client[c].records
             r       == records[i]
             last    == Before(records, i)
             first   == IF i = 1 THEN 1 ELSE records[i - 1].upto + 1
  <2>1. records \in Measured /\ i \in 1 .. Len(records)
    <3>1. records \in Measured
      BY ClientTypes DEF Carried
    <3>. QED  BY <3>1, LenProperties DEF Measured
  <2>2. FreshAfter(last, r)
    BY <2>1 DEF RecordInv, AllFresh
  <2>3. last \in Nat
    <3>1. CASE i = 1
      BY <3>1 DEF Before
    <3>2. CASE i # 1
      <4>1. i - 1 \in 1 .. Len(records)
        BY <2>1, <3>2, LenProperties DEF Measured
      <4>2. records[i - 1] \in Records
        BY <2>1, <4>1, ElementOfSeq DEF Measured
      <4>. QED  BY <3>2, <4>2 DEF Before, Records
    <3>. QED  BY <3>1, <3>2
  <2>4. first = last + 1
    BY DEF Before
  <2> HIDE DEF records, r, last, first
  <2>5. first - 1 = last
    BY <2>3, <2>4
  <2>6. (first - 1) % ResponseUnits = 0 =>
           /\ {r.start.session, r.stop.session} = {r.session}
           /\ r.start.sent = ((first - 1) \div ResponseUnits + 1)
                                * RequestUnits
           /\ r.stop.arrived >= first
    BY <2>2, <2>4, <2>5 DEF FreshAfter
  <2>. QED  BY <2>6 DEF records, r, first
<1>2. Init => Inv
  BY TimingInit
<1>3. Carried /\ Carried' /\ Inv /\ [Next]_vars => Inv'
  BY FlowStep, WaitStep, PatientStep, ClockStep, RecordStep
<1>. QED  BY <1>1, <1>2, <1>3, CarriedAlways, PTL DEF Spec

-----------------------------------------------------------------------------
(***************************************************************************)
(* The proxy as a relay of sessions.                                       *)
(***************************************************************************)

\* From the connection to the target to the end of the loop.
Ongoing == pc \in ProxyPcs \ {"accept_control", "get_target",
                              "accept_input", "connect"}

\* What the variables of the relay stand for.
Serving   == IF Ongoing THEN <<control, input>> ELSE <<>>
Relaying  == pc \in {"write_input", "write_control"}
Received  == [c \in Clients |-> client[c].got]
Recorded  == [c \in Clients |-> client[c].records]
SentUnits == [c \in Clients |-> client[c].sent]
Left      == {c \in Clients : ~InputOpen(c)}
Closed    == {c \in Clients : ~ControlOpen(c)}

\* Why a session ends.
Reason ==
    \/ ~InputOpen(input) \/ ~ControlOpen(control)
    \/ ~server.open \/ stdin = "hung_up"

EndInv == (Ongoing /\ ~established) \/ pc = "close" => Reason

LEMMA RelayVars ==
    Relay!relayVars = <<Serving, Relaying, server, Received, Recorded,
                        SentUnits, Left, Closed, clock, stdin = "hung_up">>
BY DEF Relay!relayVars, Serving, Ongoing, Relaying, Received, Recorded,
       SentUnits, Left, Closed

\* What does not change a client does not change what the relay sees of it.
LEMMA ClientViews ==
    /\ (\A d \in Clients : client'[d].got = client[d].got)
          => Received' = Received
    /\ (\A d \in Clients : client'[d].records = client[d].records)
          => Recorded' = Recorded
    /\ (\A d \in Clients : client'[d].sent = client[d].sent)
          => SentUnits' = SentUnits
    /\ (\A d \in Clients : InputOpen(d)' <=> InputOpen(d)) => Left' = Left
    /\ (\A d \in Clients : ControlOpen(d)' <=> ControlOpen(d))
          => Closed' = Closed
<1>1. ASSUME \A d \in Clients : client'[d].got = client[d].got
      PROVE  Received' = Received
  BY <1>1 DEF Received
<1>2. ASSUME \A d \in Clients : client'[d].records = client[d].records
      PROVE  Recorded' = Recorded
  BY <1>2 DEF Recorded
<1>3. ASSUME \A d \in Clients : client'[d].sent = client[d].sent
      PROVE  SentUnits' = SentUnits
  BY <1>3 DEF SentUnits
<1>4. ASSUME \A d \in Clients : InputOpen(d)' <=> InputOpen(d)
      PROVE  Left' = Left
  BY <1>4 DEF Left
<1>5. ASSUME \A d \in Clients : ControlOpen(d)' <=> ControlOpen(d)
      PROVE  Closed' = Closed
  BY <1>5 DEF Closed
<1>. QED  BY <1>1, <1>2, <1>3, <1>4, <1>5

Peers == <<Received, Recorded, SentUnits, Left, Closed>>

LEMMA SamePeers ==
    ASSUME UNCHANGED client
    PROVE  UNCHANGED Peers
BY DEF Peers, Received, Recorded, SentUnits, Left, Closed, InputOpen,
       ControlOpen

LEMMA Quiet ==
    ASSUME UNCHANGED <<server, clock, stdin>>, UNCHANGED <<Serving, Relaying>>,
           UNCHANGED Peers
    PROVE  UNCHANGED Relay!relayVars
<1>1. Relay!relayVars' = <<Serving', Relaying', server', Received', Recorded',
                           SentUnits', Left', Closed', clock',
                           stdin' = "hung_up">>
  BY DEF Relay!relayVars, Serving, Ongoing, Relaying, Received, Recorded,
         SentUnits, Left, Closed
<1>. QED  BY <1>1, RelayVars DEF Peers

\* The session of the relay is that of the proxy.
LEMMA SessionView ==
    /\ Relay!InSession <=> Ongoing
    /\ Ongoing => Relay!Control = control /\ Relay!Data = input
<1>1. <<control, input>> # <<>>
  OBVIOUS
<1>2. Relay!InSession <=> Ongoing
  BY <1>1 DEF Relay!InSession, Ongoing
<1>3. ASSUME Ongoing PROVE Relay!Control = control /\ Relay!Data = input
  BY <1>3 DEF Relay!Control, Relay!Data, Ongoing
<1>. QED  BY <1>2, <1>3

-----------------------------------------------------------------------------
\* The beginning of a stream.
LEMMA Begins ==
    ASSUME NEW g \in Stream, NEW a \in Stream, NEW b \in Stream
    PROVE  LET s == g \o a \o b
           IN  Len(g) <= Len(s) /\ SubSeq(s, 1, Len(g)) = g
<1> DEFINE ga == g \o a
           s  == g \o a \o b
<1>1. ga \in Seq(Units) /\ Len(ga) = Len(g) + Len(a)
  BY ConcatProperties DEF Stream
<1>2. s \in Seq(Units) /\ Len(s) = Len(ga) + Len(b)
  BY <1>1, ConcatProperties DEF Stream
<1>3. Len(g) \in Nat /\ Len(a) \in Nat /\ Len(b) \in Nat
  BY Streams
<1>4. \A i \in 1 .. Len(g) : s[i] = g[i]
  <2>1. \A i \in 1 .. Len(g) : ga[i] = g[i]
    BY <1>3, ConcatProperties DEF Stream
  <2> HIDE DEF ga
  <2>2. \A i \in 1 .. Len(ga) : (ga \o b)[i] = ga[i]
    BY <1>1, <1>3, ConcatProperties DEF Stream
  <2>. QED  BY <1>1, <1>3, <2>1, <2>2 DEF ga
<1> HIDE DEF ga, s
<1>5. Len(g) \in 0 .. Len(s)
  BY <1>1, <1>2, <1>3
<1> DEFINE p == SubSeq(s, 1, Len(g))
<1>6. p \in Seq(Units) /\ Len(p) = Len(g)
  BY <1>2, <1>5, Piece
<1>7. \A i \in 1 .. Len(g) : p[i] = s[i]
  <2>1. \A i \in 1 .. Len(g) : s[i] \in Units
    BY <1>2, <1>3, <1>5, ElementOfSeq
  <2>2. \A i \in 1 .. Len(g) - 1 + 1 : p[i] = s[1 + i - 1]
    BY <1>3, <2>1, SubSeqProperties
  <2>. QED  BY <1>3, <2>2
<1> HIDE DEF p
<1>8. p = g
  <2>1. g \in Seq(Units)
    BY DEF Stream
  <2>. QED  BY <1>4, <1>6, <1>7, <2>1, SeqEqual
<1>. QED  BY <1>3, <1>5, <1>8 DEF s, p

LEMMA SentFirst ==
    ASSUME NEW c \in Clients, NEW n \in Nat, NEW m \in 0 .. n
    PROVE  SubSeq(SentBy(c, n), 1, m) = SentBy(c, m)
<1> DEFINE p == SubSeq(SentBy(c, n), 1, m)
<1>1. /\ SentBy(c, n) \in Seq(Units) /\ Len(SentBy(c, n)) = n
      /\ SentBy(c, m) \in Seq(Units) /\ Len(SentBy(c, m)) = m
  BY SentGrows DEF Stream
<1>2. p \in Seq(Units) /\ Len(p) = m
  BY <1>1, Piece
<1>3. \A i \in 1 .. m : p[i] = SentBy(c, n)[i]
  <2>1. \A i \in 1 .. m : SentBy(c, n)[i] \in Units
    BY <1>1, ElementOfSeq
  <2>2. \A i \in 1 .. m - 1 + 1 : p[i] = SentBy(c, n)[1 + i - 1]
    BY <2>1, SubSeqProperties
  <2>. QED  BY <2>2
<1>4. \A i \in 1 .. m : SentBy(c, n)[i] = SentBy(c, m)[i]
  BY DEF SentBy
<1> HIDE DEF p
<1>. QED  BY <1>1, <1>2, <1>3, <1>4, SeqEqual DEF p

-----------------------------------------------------------------------------
\* A session ends only because of a peer that is gone or of descriptor 0.
LEMMA EndStep == Carried /\ EndInv /\ [Next]_vars => EndInv'
<1> SUFFICES ASSUME Carried, EndInv, [Next]_vars
             PROVE  EndInv'
  OBVIOUS
<1> DEFINE E == EndInv'
<1>a. PlaceType /\ DataType
  BY DEF Carried
<1>b. Ongoing => control \in Clients /\ input \in Clients
  BY <1>a DEF PlaceType, WithInput, WithControl, Ongoing
<1>0. ASSUME Ongoing, ~Connect, UNCHANGED <<control, input, stdin>>, Reason
      PROVE  E
  <2>1. ServerFrame
    BY <1>a, <1>0, ServerFrames
  <2>2. /\ InputOpen(input)' => InputOpen(input)
        /\ ControlOpen(control)' => ControlOpen(control)
    <3>1. \A d \in Clients : /\ InputOpen(d)' => InputOpen(d)
                             /\ ControlOpen(d)' => ControlOpen(d)
      BY <1>a, MadeGrow
    <3>2. /\ input \in Clients /\ control \in Clients
          /\ input' = input /\ control' = control
      BY <1>b, <1>0
    <3>. QED  BY <3>1, <3>2 DEF InputOpen, ControlOpen
  <2>. QED  BY <1>0, <2>1, <2>2 DEF EndInv, Reason, ServerFrame
<1>00. ASSUME Ongoing, ~Connect, UNCHANGED <<control, input, stdin>>,
              ~established' => ~established \/ Reason,
              pc' = "close" => pc = "close" \/ Reason \/ ~established
       PROVE  E
  <2>1. CASE Reason
    BY <1>0, <1>00, <2>1
  <2>2. CASE ~Reason
    <3>1. established /\ pc # "close"
      BY <1>00, <2>2 DEF EndInv
    <3>. QED  BY <1>00, <2>2, <3>1 DEF EndInv
  <2>. QED  BY <2>1, <2>2
<1>000. ASSUME pc' \notin {"close"}, ~Ongoing' PROVE E
  BY <1>000 DEF EndInv
<1> USE DEF At
<1>1. AcceptControl => E
  BY DEF AcceptControl, AcceptOn, EndInv, Ongoing
<1>2. GetProxyTarget => E
  BY DEF GetProxyTarget, EndInv, Ongoing
<1>3. AcceptInput => E
  BY DEF AcceptInput, AcceptOn, EndInv, Ongoing
<1>4. Connect => E
  BY DEF Connect, EndInv
<1>5. ASSUME ForwardInput PROVE E
  BY <1>00, <1>5 DEF ForwardInput, Connect, Ongoing, ProxyPcs, Reason
<1>6. ASSUME WriteOutput PROVE E
  BY <1>00, <1>6 DEF WriteOutput, SendInVain, Connect, Ongoing, ProxyPcs,
                     Reason
<1>7. ASSUME StartTiming PROVE E
  BY <1>00, <1>7 DEF StartTiming, Connect, Ongoing, ProxyPcs
<1>8. ASSUME Peek PROVE E
  BY <1>00, <1>8 DEF Peek, Connect, Ongoing, ProxyPcs
<1>9. ASSUME ForwardOutput PROVE E
  BY <1>00, <1>9 DEF ForwardOutput, Connect, Ongoing, ProxyPcs, Reason
<1>10. ASSUME WriteInput PROVE E
  BY <1>00, <1>10 DEF WriteInput, SendInVain, Connect, Ongoing, ProxyPcs,
                      Reason
<1>11. ASSUME WriteControl PROVE E
  BY <1>00, <1>11 DEF WriteControl, SendInVain, Connect, Ongoing, ProxyPcs,
                      Reason
<1>12. ASSUME Poll PROVE E
  BY <1>00, <1>12 DEF Poll, StillEstablished, Connect, Ongoing, ProxyPcs,
                      Reason
<1>13. Close => E
  BY DEF Close, EndInv, Ongoing
<1>19. ASSUME UNCHANGED <<proxyVars, stdin>> PROVE E
  <2>1. UNCHANGED <<pc, established, control, input, stdin>>
    BY <1>19 DEF proxyVars
  <2>2. CASE Ongoing
    <3>1. ~Connect
      BY <2>2 DEF Connect, Ongoing
    <3>. QED  BY <1>00, <2>1, <2>2, <3>1
  <2>3. CASE ~Ongoing
    BY <2>1, <2>3 DEF EndInv, Ongoing, ProxyPcs
  <2>. QED  BY <2>2, <2>3
<1>14. TargetFails => E
  BY <1>19 DEF TargetFails
<1>15. ServerAnswer => E
  BY <1>19 DEF ServerAnswer
<1>16. ServerClose => E
  BY <1>19 DEF ServerClose
<1>17. ASSUME NEW c \in Clients, ClientStep(c) PROVE E
  BY <1>17, <1>19 DEF ClientStep, ConnectControl, SendLine, ConnectInput,
                      SendUnit, CloseControl, Leave
<1>18. UNCHANGED vars => E
  BY <1>19 DEF vars, proxyVars
<1>. QED
  BY <1>1, <1>2, <1>3, <1>4, <1>5, <1>6, <1>7, <1>8, <1>9, <1>10, <1>11,
     <1>12, <1>13, <1>14, <1>15, <1>16, <1>17, <1>18, NextCases

-----------------------------------------------------------------------------
\* Steps outside the session and steps the relay does not tell apart.
LEMMA QuietSteps ==
    ASSUME Carried, [Next]_vars,
           \/ AcceptControl \/ GetProxyTarget \/ AcceptInput \/ Poll
           \/ TargetFails \/ UNCHANGED vars
    PROVE  UNCHANGED Relay!relayVars
<1>1. UNCHANGED <<server, client, clock, stdin>>
  BY DEF AcceptControl, GetProxyTarget, AcceptInput, Poll, TargetFails,
         proxyVars, vars
<1>2. UNCHANGED <<Serving, Relaying>>
  <2>1. CASE AcceptControl \/ AcceptInput
    BY <2>1 DEF AcceptControl, AcceptInput, AcceptOn, At, Serving, Ongoing,
                Relaying
  <2>2. CASE GetProxyTarget
    BY <2>2 DEF GetProxyTarget, At, Serving, Ongoing, Relaying
  <2>3. CASE Poll
    BY <2>3 DEF Poll, At, Serving, Ongoing, Relaying, ProxyPcs
  <2>4. CASE TargetFails \/ UNCHANGED vars
    BY <2>4 DEF TargetFails, proxyVars, vars, Serving, Ongoing, Relaying
  <2>. QED  BY <2>1, <2>2, <2>3, <2>4
<1>3. UNCHANGED Peers
  BY <1>1, SamePeers
<1>. QED  BY <1>1, <1>2, <1>3, Quiet

LEMMA ForwardInputMaps ==
    ASSUME Carried, [Next]_vars, ForwardInput
    PROVE  UNCHANGED Relay!relayVars
<1>a. PlaceType /\ DataType /\ client \in [Clients -> ClientStates]
  BY DEF Carried, DataType
<1>1. UNCHANGED <<server, clock, stdin, control, input>>
  BY DEF ForwardInput
<1>2. /\ pc = "forward_input"
      /\ pc' \in {"write_output", "forward_output", "poll"}
  BY DEF ForwardInput, At
<1>3. UNCHANGED <<Serving, Relaying>>
  BY <1>1, <1>2 DEF Serving, Ongoing, Relaying, ProxyPcs
<1>4. ASSUME NEW d \in Clients
      PROVE  /\ client'[d].got = client[d].got
             /\ client'[d].records = client[d].records
             /\ client'[d].sent = client[d].sent
             /\ InputOpen(d)' <=> InputOpen(d)
             /\ ControlOpen(d)' <=> ControlOpen(d)
  <2>1. PICK q : client' = [client EXCEPT ![input].queue = q]
    BY DEF ForwardInput
  <2>2. client'[d] = IF d = input THEN [client[d] EXCEPT !.queue = q]
                     ELSE client[d]
    BY <1>a, <2>1
  <2>. QED  BY <1>a, <2>2 DEF ClientStates, InputOpen, ControlOpen
<1>5. UNCHANGED Peers
  BY <1>4, ClientViews DEF Peers
<1>. QED  BY <1>1, <1>3, <1>5, Quiet

LEMMA ConnectMaps ==
    ASSUME Carried, Connect
    PROVE  \E k, c \in Clients : Relay!Begin(k, c)
<1>a. PlaceType /\ DataType /\ OnceInv /\ FreshInv
  BY DEF Carried
<1>1. /\ pc = "connect" /\ pc' = "forward_input"
      /\ UNCHANGED <<control, input, client, clock, stdin>>
      /\ server' = NewServer(server.session + 1)
  BY DEF Connect, At
<1>2. control \in Clients /\ input \in Clients
  BY <1>a, <1>1 DEF PlaceType, WithInput, WithControl, ProxyPcs
<1>3. Received[input] = <<>> /\ Recorded[control] = <<>>
  BY <1>a, <1>1, <1>2 DEF FreshInv, Unread, Unwritten, Received, Recorded
<1>4. /\ ~Relay!InSession /\ Serving' = <<control, input>>
      /\ Relaying' = Relaying
  BY <1>1, SessionView DEF Serving, Ongoing, Relaying, ProxyPcs
<1>5. UNCHANGED Peers
  BY <1>1, SamePeers
<1>6. server' = [session |-> server.session + 1, open |-> TRUE,
                 got |-> <<>>, sent |-> <<>>, read |-> 0]
  BY <1>1 DEF NewServer
<1>7. Relay!Begin(control, input)
  BY <1>1, <1>3, <1>4, <1>5, <1>6
     DEF Relay!Begin, Peers, Serving, Ongoing, Relaying, Received, Recorded,
         SentUnits, Left, Closed
<1>. QED  BY <1>2, <1>7

LEMMA WriteOutputMaps ==
    ASSUME Carried, Carried', StreamsInv', WriteOutput
    PROVE  Relay!ForwardRequest \/ UNCHANGED Relay!relayVars
<1>a. PlaceType /\ DataType /\ DataType' /\ server \in ServerStates
  BY DEF Carried, DataType
<1>1. /\ pc = "write_output"
      /\ pc' \in {"write_output", "start_timing", "poll"}
      /\ UNCHANGED <<control, input, clock, client, stdin>>
  BY DEF WriteOutput, SendInVain, At
<1>2. UNCHANGED Peers
  BY <1>1, SamePeers
<1>3. UNCHANGED <<Serving, Relaying>> /\ ~Relaying /\ Ongoing
      /\ Relay!InSession /\ Relay!Data = input
  BY <1>1, SessionView DEF Serving, Ongoing, Relaying, ProxyPcs
<1>4. CASE server' = server
  BY <1>1, <1>2, <1>3, <1>4, Quiet
<1>5. CASE server' # server
  <2>1. server.open
    BY <1>5 DEF WriteOutput
  <2>2. PICK n \in Taken :
           /\ server' = [server EXCEPT !.got = @ \o SubSeq(buf, 1, n)]
           /\ buf' = Rest(n)
           /\ IF n < Len(buf) THEN pc' = pc ELSE pc' = "start_timing"
    BY <2>1 DEF WriteOutput
  <2> DEFINE front == SubSeq(buf, 1, n)
  <2>3. /\ n \in 0 .. Len(buf) /\ front \in Stream /\ Len(front) = n
        /\ Rest(n) \in Stream
    BY <1>a, TakenPieces
  <2>4. server'.got = server.got \o front
    BY <1>a, <2>2 DEF ServerStates
  <2>5. server.got \in Stream /\ server'.got \in Stream
    BY <1>a DEF ServerStates, DataType
  <2>6. server'.open = server.open
    BY <1>a, <2>2 DEF ServerStates
  <2> HIDE DEF front
  <2>7. n # 0
    <3>1. SUFFICES ASSUME n = 0 PROVE FALSE
      OBVIOUS
    <3>2. front = <<>>
      BY <2>3, <3>1, Streams
    <3>3. server.got \o front = server.got
      BY <2>5, <3>2, ConcatEmptySeq DEF Stream
    <3>4. server' = [server EXCEPT !.got = server.got]
      BY <2>2, <3>3 DEF front
    <3>. QED  BY <1>5, <1>a, <3>4 DEF ServerStates
  <2>8. Len(server'.got) = Len(server.got) + n
    <3>1. Len(server.got \o front) = Len(server.got) + Len(front)
      BY <2>3, <2>5, Streams
    <3>. QED  BY <2>3, <2>4, <3>1
  <2> DEFINE m == Len(server'.got)
  <2>9. input \in Clients /\ client[input].sent \in Nat
        /\ client[input].queue \in Stream
    <3>1. input \in Clients
      BY <1>a, <1>1 DEF PlaceType, WithInput, WithControl, ProxyPcs
    <3>. QED  BY <1>a, <3>1, ClientTypes
  <2>10. server'.got \o Outgoing' \o client[input].queue
           = SentBy(input, client[input].sent)
    <3>1. InSession'
      BY <1>1, <2>2 DEF InSession, ProxyPcs
    <3>2. UpIntact'
      BY <3>1 DEF StreamsInv
    <3>. QED  BY <1>1, <2>1, <2>6, <3>2 DEF UpIntact
  <2>11. Outgoing' \in Stream
    <3>1. buf' \in Stream
      BY <2>2, <2>3
    <3>. QED  BY <3>1, Streams DEF Outgoing
  <2>12. m <= client[input].sent /\ server'.got = SentBy(input, m)
    <3> DEFINE all == SentBy(input, client[input].sent)
    <3>1. Len(server'.got) <= Len(all)
          /\ SubSeq(all, 1, Len(server'.got)) = server'.got
      <4> DEFINE g == server'.got
                 a == Outgoing'
                 b == client[input].queue
      <4>1. g \in Stream /\ a \in Stream /\ b \in Stream
        BY <2>5, <2>9, <2>11
      <4>2. g \o a \o b = all
        BY <2>10
      <4> HIDE DEF g, a, b, all
      <4>3. Len(g) <= Len(all) /\ SubSeq(all, 1, Len(g)) = g
        BY <4>1, <4>2, Begins
      <4>. QED  BY <4>3 DEF g
    <3>2. Len(all) = client[input].sent
      BY <2>9, SentGrows
    <3>3. m \in 0 .. client[input].sent
      BY <2>5, <2>9, <3>1, <3>2, Streams
    <3> HIDE DEF all, m
    <3>4. SubSeq(all, 1, m) = SentBy(input, m)
      BY <2>9, <3>3, SentFirst DEF all
    <3>. QED  BY <3>1, <3>3, <3>4 DEF m
  <2>13. m \in Len(server.got) + 1 .. client[input].sent
    <3>1. Len(server.got) \in Nat /\ Len(buf) \in Nat
      BY <1>a, ServerTypes
    <3> HIDE DEF m
    <3>2. m = Len(server.got) + n
      BY <2>8 DEF m
    <3>. QED  BY <2>3, <2>7, <2>9, <2>12, <3>1, <3>2
  <2>14. SentUnits[input] = client[input].sent
    BY <2>9 DEF SentUnits
  <2>15. server' = [server EXCEPT !.got = Relay!Units(input, m)]
    <3>1. Relay!Units(input, m) = server'.got
      BY <2>12 DEF Relay!Units, SentBy
    <3>2. server' = [server EXCEPT !.got = server.got \o front]
      BY <2>2 DEF front
    <3>. QED  BY <2>4, <3>1, <3>2
  <2> HIDE DEF m
  <2>16. Relay!ForwardRequest
    BY <1>1, <1>2, <1>3, <2>1, <2>13, <2>14, <2>15
       DEF Relay!ForwardRequest, Peers, Serving, Ongoing, Relaying, Received,
           Recorded, SentUnits, Left, Closed
  <2>. QED  BY <2>16
<1>. QED  BY <1>4, <1>5

LEMMA StartTimingMaps ==
    ASSUME Carried, StartTiming
    PROVE  Relay!Start
<1>1. /\ pc \in {"start_timing", "restart_timing"} /\ pc' = "peek"
      /\ UNCHANGED <<control, input, server, client, stdin>>
      /\ clock' = [clock EXCEPT !.start = [session |-> server.session,
                                           sent    |-> Len(server.got)]]
  BY DEF StartTiming
<1>2. UNCHANGED Peers
  BY <1>1, SamePeers
<1>3. UNCHANGED <<Serving, Relaying>> /\ ~Relaying /\ Relay!InSession
  BY <1>1, SessionView DEF Serving, Ongoing, Relaying, ProxyPcs
<1>. QED
  BY <1>1, <1>2, <1>3
     DEF Relay!Start, Peers, Serving, Ongoing, Relaying, Received, Recorded,
         SentUnits, Left, Closed

LEMMA PeekMaps ==
    ASSUME Carried, Peek
    PROVE  Relay!Stop
<1>1. /\ pc = "peek" /\ pc' \in {"restart_timing", "forward_output"}
      /\ UNCHANGED <<control, input, server, client, stdin>>
      /\ clock' = [clock EXCEPT !.stop = [session |-> server.session,
                                          arrived |-> Len(server.sent)]]
      /\ Arrived # <<>> \/ ~server.open
  BY DEF Peek, At, AnswerThere
<1>2. UNCHANGED Peers
  BY <1>1, SamePeers
<1>3. UNCHANGED <<Serving, Relaying>> /\ ~Relaying /\ Relay!InSession
  BY <1>1, SessionView DEF Serving, Ongoing, Relaying, ProxyPcs
<1>4. server.read < Len(server.sent) \/ ~server.open
  <2>1. ASSUME Arrived # <<>> PROVE server.read < Len(server.sent)
    <3>1. Arrived \in Stream /\ Len(Arrived) = Len(server.sent) - server.read
          /\ server.read \in 0 .. Len(server.sent)
      BY ArrivedType DEF Carried
    <3>2. Len(Arrived) # 0 /\ Len(server.sent) \in Nat
      BY <2>1, <3>1, Streams, ServerTypes DEF Carried
    <3>. QED  BY <3>1, <3>2
  <2>. QED  BY <1>1, <2>1
<1>. QED
  BY <1>1, <1>2, <1>3, <1>4
     DEF Relay!Stop, Peers, Serving, Ongoing, Relaying, Received, Recorded,
         SentUnits, Left, Closed

LEMMA ForwardOutputMaps ==
    ASSUME Carried, ForwardOutput
    PROVE  Relay!TakeAnswer \/ UNCHANGED Relay!relayVars
<1> DEFINE n == Min({BUFSIZE, Len(Arrived)})
<1>a. DataType /\ server \in ServerStates
  BY DEF Carried, DataType
<1>1. /\ pc = "forward_output" /\ pc' \in {"write_input", "poll"}
      /\ UNCHANGED <<control, input, client, clock, stdin>>
      /\ server' = [server EXCEPT !.read = @ + n]
      /\ pc' = "write_input" <=> Arrived # <<>>
  BY DEF ForwardOutput, At
<1>2. UNCHANGED Peers
  BY <1>1, SamePeers
<1>3. Serving' = Serving /\ ~Relaying /\ Relay!InSession
      /\ (Relaying' <=> Arrived # <<>>)
  BY <1>1, SessionView DEF Serving, Ongoing, Relaying, ProxyPcs
<1>4. /\ n \in 0 .. Len(Arrived) /\ (n > 0 <=> Arrived # <<>>)
      /\ Len(Arrived) = Len(server.sent) - server.read
      /\ server.read \in Nat /\ Len(server.sent) \in Nat
  BY <1>a, ArrivedType, ReadPieces, ServerTypes
<1> HIDE DEF n
<1>5. CASE Arrived = <<>>
  <2>1. n = 0
    <3>1. Len(Arrived) \in Nat
      BY <1>4, <1>a, ArrivedType, Streams
    <3>. QED  BY <1>4, <1>5, <3>1
  <2>2. server' = server
    BY <1>1, <1>4, <1>a, <2>1 DEF ServerStates
  <2>3. Relaying' = Relaying
    BY <1>3, <1>5 DEF Relaying
  <2>. QED  BY <1>1, <1>2, <1>3, <2>2, <2>3, Quiet
<1>6. CASE Arrived # <<>>
  <2>1. server.read + n \in server.read + 1 .. Len(server.sent)
    BY <1>4, <1>6
  <2>2. server' = [server EXCEPT !.read = server.read + n]
    BY <1>1
  <2>3. Relaying' = TRUE
    BY <1>3, <1>6 DEF Relaying
  <2>4. Relay!TakeAnswer
    BY <1>1, <1>2, <1>3, <2>1, <2>2, <2>3
       DEF Relay!TakeAnswer, Peers, Serving, Ongoing, Relaying, Received,
           Recorded, SentUnits, Left, Closed
  <2>. QED  BY <2>4
<1>. QED  BY <1>5, <1>6

\* A send in vain: the session goes on, or the data is lost.
LEMMA LostMaps ==
    ASSUME Carried, pc \in {"write_input", "write_control"},
           pc' \in {"write_input", "write_control", "poll"},
           UNCHANGED <<control, input, server, client, clock, stdin>>,
           ~InputOpen(input) \/ ~ControlOpen(control)
    PROVE  Relay!Lose \/ UNCHANGED Relay!relayVars
<1>1. UNCHANGED Peers
  BY SamePeers
<1>2. Serving' = Serving /\ Relaying /\ Ongoing /\ Relay!InSession
      /\ Relay!Data = input /\ Relay!Control = control
      /\ (Relaying' <=> pc' # "poll")
  BY SessionView DEF Serving, Ongoing, Relaying, ProxyPcs
<1>3. CASE pc' # "poll"
  <2>1. Relaying' = Relaying
    BY <1>2, <1>3 DEF Relaying
  <2>. QED  BY <1>1, <1>2, <2>1, Quiet
<1>4. CASE pc' = "poll"
  <2>1. Relaying' = FALSE
    BY <1>4 DEF Relaying
  <2>2. control \in Clients /\ input \in Clients
    BY DEF Carried, PlaceType, WithInput, WithControl, ProxyPcs
  <2>3. input \in Left \/ control \in Closed
    BY <2>2 DEF Left, Closed
  <2>4. Relay!Lose
    BY <1>1, <1>2, <2>1, <2>3
       DEF Relay!Lose, Peers, Serving, Ongoing, Relaying, Received, Recorded,
           SentUnits, Left, Closed
  <2>. QED  BY <2>4
<1>. QED  BY <1>3, <1>4

LEMMA WriteInputMaps ==
    ASSUME Carried, Carried', StreamsInv', FlowInv', [Next]_vars, WriteInput
    PROVE  Relay!DeliverAnswer \/ Relay!Lose \/ UNCHANGED Relay!relayVars
<1>a. /\ PlaceType /\ DataType /\ DataType'
      /\ client \in [Clients -> ClientStates]
  BY DEF Carried, DataType
<1>1. /\ pc = "write_input"
      /\ pc' \in {"write_input", "write_control", "poll"}
      /\ UNCHANGED <<control, input, server, clock, stdin>>
  BY DEF WriteInput, SendInVain, At
<1>2. input \in Clients
  BY <1>a, <1>1 DEF PlaceType, WithInput, WithControl, ProxyPcs
<1>3. CASE ~InputOpen(input)
  <2>1. UNCHANGED client
    BY <1>3 DEF WriteInput
  <2>. QED  BY <1>1, <1>3, <2>1, LostMaps
<1>4. CASE InputOpen(input)
  <2>1. PICK n \in Taken :
           /\ client' = [client EXCEPT ![input].got = @ \o SubSeq(buf, 1, n)]
           /\ buf' = Rest(n)
           /\ pc' = IF n < Len(buf) THEN pc ELSE "write_control"
    BY <1>4 DEF WriteInput
  <2> DEFINE front == SubSeq(buf, 1, n)
             old   == client[input].got
             new   == old \o front
  <2>2. /\ n \in 0 .. Len(buf) /\ front \in Stream /\ Len(front) = n
        /\ Rest(n) \in Stream /\ old \in Stream
    BY <1>a, <1>2, TakenPieces, ClientTypes
  <2>3. ASSUME NEW d \in Clients
        PROVE  client'[d] = IF d = input THEN [client[d] EXCEPT !.got = new]
                            ELSE client[d]
    BY <1>a, <2>1
  <2> HIDE DEF front
  <2>4. new \in Stream /\ Len(new) = Len(old) + n
    BY <2>2, Streams
  <2> HIDE DEF new
  <2>5. ASSUME NEW d \in Clients
        PROVE  /\ client'[d].got = IF d = input THEN new ELSE client[d].got
               /\ client'[d].records = client[d].records
               /\ client'[d].sent = client[d].sent
               /\ InputOpen(d)' <=> InputOpen(d)
               /\ ControlOpen(d)' <=> ControlOpen(d)
    <3>1. CASE d # input
      BY <2>3, <3>1 DEF InputOpen, ControlOpen
    <3>2. CASE d = input
      <4>1. client'[d] = [client[d] EXCEPT !.got = new]
        BY <2>3, <3>2
      <4>2. client[d] \in ClientStates
        BY <1>a
      <4>. QED
        BY <3>2, <4>1, <4>2 DEF ClientStates, InputOpen, ControlOpen
    <3>. QED  BY <3>1, <3>2
  <2>6. UNCHANGED <<Recorded, SentUnits, Left, Closed>>
    BY <2>5, ClientViews
  <2>7. /\ UNCHANGED <<Serving, Relaying>> /\ Relaying /\ Ongoing
        /\ Relay!InSession /\ Relay!Data = input
    BY <1>1, <2>1, SessionView DEF Serving, Ongoing, Relaying, ProxyPcs
  <2>8. CASE n = 0
    <3>1. front = <<>>
      BY <2>2, <2>8, Streams
    <3>2. new = old
      BY <2>2, <3>1, ConcatEmptySeq DEF Stream, new
    <3>3. \A d \in Clients : client'[d].got = client[d].got
      BY <2>5, <3>2
    <3>4. UNCHANGED Peers
      BY <2>6, <3>3, ClientViews DEF Peers
    <3>. QED  BY <1>1, <2>7, <3>4, Quiet
  <2>9. CASE n # 0
    <3> DEFINE m == Len(new)
    <3>1. client'[input].got = new /\ InputOpen(input)'
      BY <1>1, <1>2, <1>4, <2>5 DEF InputOpen
    <3>2. InSession' /\ Incoming' \in Stream /\ Arrived' \in Stream
      <4>1. InSession'
        BY <1>1, <2>1 DEF InSession, ProxyPcs
      <4>2. buf' \in Stream
        BY <2>1, <2>2
      <4>3. Incoming' \in Stream
        BY <4>2, Streams DEF Incoming
      <4>4. Arrived' = Arrived
        BY <1>1 DEF Arrived
      <4>5. Arrived \in Stream
        BY <1>a, ArrivedType
      <4>. QED  BY <4>1, <4>3, <4>4, <4>5
    <3>3. new \o Incoming' \o Arrived' = server.sent
      <4>1. DownIntact'
        BY <3>2 DEF StreamsInv
      <4>2. client'[input].got \o Incoming' \o Arrived' = server'.sent
        BY <1>1, <3>1, <4>1 DEF DownIntact, InputOpen
      <4>. QED  BY <1>1, <3>1, <4>2
    <3>4. SubSeq(server.sent, 1, m) = new
      <4> DEFINE a == Incoming'
                 b == Arrived'
      <4>1. a \in Stream /\ b \in Stream /\ new \o a \o b = server.sent
        BY <3>2, <3>3
      <4> DEFINE s == server.sent
      <4>2. new \o a \o b = s /\ new \in Stream
        BY <2>4, <4>1
      <4> HIDE DEF a, b, s, m
      <4>3. SubSeq(s, 1, Len(new)) = new
        BY <4>1, <4>2, Begins
      <4>. QED  BY <4>3 DEF s, m
    <3>5. m <= server.read
      <4>1. Len(client'[input'].got) + Len(Incoming') <= server'.read
        BY <3>2 DEF FlowInv
      <4>2. Len(Incoming') \in Nat
        BY <3>2, Streams
      <4> DEFINE k == Len(Incoming')
      <4>3. m + k <= server.read /\ k \in Nat
        BY <1>1, <3>1, <4>1, <4>2
      <4>4. server.read \in Nat /\ m \in Nat
        BY <1>a, <2>4, ServerTypes, Streams
      <4> HIDE DEF k, m
      <4>. QED  BY <4>3, <4>4
    <3>6. m \in Len(old) + 1 .. server.read
      <4>1. Len(old) \in Nat /\ Len(buf) \in Nat /\ server.read \in Nat
        BY <1>a, <2>2, ServerTypes, Streams
      <4>. QED  BY <2>2, <2>4, <2>9, <3>5, <4>1
    <3>7. Received' = [Received EXCEPT ![input] = SubSeq(server.sent, 1, m)]
      BY <1>2, <2>5, <3>4 DEF Received
    <3>8. Len(Received[input]) = Len(old)
      BY <1>2 DEF Received
    <3>9. input \notin Left
      BY <1>2, <1>4 DEF Left
    <3> HIDE DEF m
    <3>10. Relay!DeliverAnswer
      <4>1. m \in Len(Received[input]) + 1 .. server.read
        BY <3>6, <3>8
      <4>. QED
        BY <1>1, <2>6, <2>7, <3>7, <3>9, <4>1
           DEF Relay!DeliverAnswer, Serving, Ongoing, Relaying, Received,
               Recorded, SentUnits, Left, Closed
    <3>. QED  BY <3>10
  <2>. QED  BY <2>8, <2>9
<1>. QED  BY <1>3, <1>4

\* The client has all of the chunk when its measurement is sent.
LEMMA WriteControlMaps ==
    ASSUME Carried, StreamsInv, WriteControl
    PROVE  Relay!Report \/ Relay!Lose \/ UNCHANGED Relay!relayVars
<1>a. /\ PlaceType /\ DataType /\ client \in [Clients -> ClientStates]
  BY DEF Carried, DataType
<1>1. /\ pc = "write_control" /\ pc' \in {"write_control", "poll"}
      /\ UNCHANGED <<control, input, server, clock, stdin>>
  BY DEF WriteControl, SendInVain, At
<1>2. control \in Clients /\ input \in Clients
  BY <1>a, <1>1 DEF PlaceType, WithInput, WithControl, ProxyPcs
<1>3. CASE ~ControlOpen(control)
  <2>1. UNCHANGED client
    BY <1>3 DEF WriteControl
  <2>. QED  BY <1>1, <1>3, <2>1, LostMaps
<1>4. CASE ControlOpen(control)
  <2>1. /\ client' = [client EXCEPT ![control].records = AddRecord(@)]
        /\ pc' = "poll"
    BY <1>4 DEF WriteControl
  <2> DEFINE new == Append(client[control].records, Record)
  <2>2. ASSUME NEW d \in Clients
        PROVE  client'[d] = IF d = control
                            THEN [client[d] EXCEPT !.records = new]
                            ELSE client[d]
    BY <1>a, <2>1 DEF AddRecord
  <2> HIDE DEF new
  <2>3. ASSUME NEW d \in Clients
        PROVE  /\ client'[d].records = IF d = control THEN new
                                       ELSE client[d].records
               /\ client'[d].got = client[d].got
               /\ client'[d].sent = client[d].sent
               /\ InputOpen(d)' <=> InputOpen(d)
               /\ ControlOpen(d)' <=> ControlOpen(d)
    <3>1. CASE d # control
      BY <2>2, <3>1 DEF InputOpen, ControlOpen
    <3>2. CASE d = control
      <4>1. client'[d] = [client[d] EXCEPT !.records = new]
        BY <2>2, <3>2
      <4>2. client[d] \in ClientStates
        BY <1>a
      <4>. QED
        BY <3>2, <4>1, <4>2 DEF ClientStates, InputOpen, ControlOpen
    <3>. QED  BY <3>1, <3>2
  <2>4. UNCHANGED <<Received, SentUnits, Left, Closed>>
    BY <2>3, ClientViews
  <2>5. /\ Serving' = Serving /\ Relaying /\ Relaying' = FALSE
        /\ Relay!InSession /\ Relay!Data = input /\ Relay!Control = control
    BY <1>1, <2>1, SessionView DEF Serving, Ongoing, Relaying, ProxyPcs
  <2>6. control \notin Closed
    BY <1>2, <1>4 DEF Closed
  <2>7. input \notin Left => Len(Received[input]) = server.read
    <3>1. SUFFICES ASSUME input \notin Left
                   PROVE  Len(client[input].got) = server.read
      BY <1>2 DEF Received
    <3> DEFINE g == client[input].got
    <3>2. g \in Stream /\ Len(g) \in Nat /\ server.read \in Nat
          /\ Len(server.sent) \in Nat
      BY <1>a, <1>2, ClientTypes, ServerTypes
    <3>3. g \o <<>> \o Arrived = server.sent
      <4>1. InSession /\ InputOpen(input)
        BY <1>1, <1>2, <3>1 DEF InSession, ProxyPcs, Left
      <4>. QED  BY <1>1, <4>1 DEF StreamsInv, DownIntact, Incoming
    <3>4. g \o <<>> = g
      BY <3>2, ConcatEmptySeq DEF Stream
    <3>5. Arrived \in Stream
          /\ Len(Arrived) = Len(server.sent) - server.read
      BY <1>a, ArrivedType
    <3> HIDE DEF g
    <3>6. Len(g \o Arrived) = Len(g) + Len(Arrived)
      <4>1. g \in Stream /\ Arrived \in Stream
        BY <3>2, <3>5
      <4>2. \A s, t \in Stream : Len(s \o t) = Len(s) + Len(t)
        BY Streams
      <4>. QED  BY <4>1, <4>2, Zenon
    <3>7. g \o Arrived = server.sent
      BY <3>3, <3>4
    <3> DEFINE a == Len(Arrived)
               k == Len(g)
    <3>8. k + a = Len(server.sent) /\ a = Len(server.sent) - server.read
      BY <3>5, <3>6, <3>7
    <3>9. k \in Nat
      BY <3>2
    <3> HIDE DEF a, k
    <3>10. k = server.read
      BY <3>2, <3>8, <3>9
    <3>. QED  BY <3>10 DEF k, g
  <2>8. Recorded' = [Recorded EXCEPT ![control] = new]
    BY <1>2, <2>3 DEF Recorded
  <2>9. Recorded[control] = client[control].records
    BY <1>2 DEF Recorded
  <2>10. Recorded' = [Recorded EXCEPT ![control] =
                        Append(@, [session |-> server.session,
                                   upto    |-> server.read,
                                   start   |-> clock.start,
                                   stop    |-> clock.stop])]
    BY <2>8, <2>9 DEF new, Record
  <2>11. Relay!Report
    BY <1>1, <2>4, <2>5, <2>6, <2>7, <2>10
       DEF Relay!Report, Serving, Ongoing, Relaying, Received, Recorded,
           SentUnits, Left, Closed
  <2>. QED  BY <2>11
<1>. QED  BY <1>3, <1>4

LEMMA CloseMaps ==
    ASSUME Carried, EndInv, Close
    PROVE  Relay!End
<1>a. /\ PlaceType /\ DataType /\ client \in [Clients -> ClientStates]
  BY DEF Carried, DataType
<1>1. /\ pc = "close" /\ pc' = "accept_control"
      /\ UNCHANGED <<clock, stdin>>
      /\ server' = [server EXCEPT !.open = FALSE]
      /\ client' = [c \in Clients |->
                      [client[c] EXCEPT !.hung = @ \/ c \in {control, input}]]
  BY DEF Close, At
<1>2. control \in Clients /\ input \in Clients
  BY <1>a, <1>1 DEF PlaceType, WithInput, WithControl, ProxyPcs
<1>3. ASSUME NEW d \in Clients
      PROVE  /\ client'[d].got = client[d].got
             /\ client'[d].records = client[d].records
             /\ client'[d].sent = client[d].sent
             /\ InputOpen(d)' <=> InputOpen(d)
             /\ ControlOpen(d)' <=> ControlOpen(d)
  <2>1. PICK h : client'[d] = [client[d] EXCEPT !.hung = h]
    BY <1>1
  <2>. QED  BY <1>a, <2>1 DEF ClientStates, InputOpen, ControlOpen
<1>4. UNCHANGED Peers
  BY <1>3, ClientViews DEF Peers
<1>5. /\ Serving' = <<>> /\ ~Relaying /\ Relaying' = Relaying
      /\ Relay!InSession /\ Relay!Data = input /\ Relay!Control = control
  BY <1>1, SessionView DEF Serving, Ongoing, Relaying, ProxyPcs
<1>6. input \in Left \/ control \in Closed \/ ~server.open
      \/ stdin = "hung_up"
  BY <1>1, <1>2 DEF EndInv, Reason, Left, Closed
<1>. QED
  BY <1>1, <1>4, <1>5, <1>6
     DEF Relay!End, Peers, Serving, Ongoing, Relaying, Received, Recorded,
         SentUnits, Left, Closed

\* What the peers do, with the session left as it is.
LEMMA ServerMaps ==
    ASSUME Carried, ServerAnswer \/ ServerClose
    PROVE  Relay!ServerAnswer \/ Relay!ServerClose
<1>1. UNCHANGED <<pc, control, input, client, clock, stdin>>
  BY DEF ServerAnswer, ServerClose, proxyVars
<1>2. UNCHANGED Peers
  BY <1>1, SamePeers
<1>3. UNCHANGED <<Serving, Relaying>>
  BY <1>1 DEF Serving, Ongoing, Relaying
<1>4. CASE ServerAnswer
  BY <1>1, <1>2, <1>3, <1>4
     DEF ServerAnswer, MayAnswer, Relay!ServerAnswer, Peers, Serving, Ongoing,
         Relaying, Received, Recorded, SentUnits, Left, Closed
<1>5. CASE ServerClose
  BY <1>1, <1>2, <1>3, <1>5
     DEF ServerClose, Relay!ServerClose, Peers, Serving, Ongoing, Relaying,
         Received, Recorded, SentUnits, Left, Closed
<1>. QED  BY <1>4, <1>5

LEMMA ClientMaps ==
    ASSUME Carried, [Next]_vars, NEW c \in Clients, ClientStep(c)
    PROVE  \/ Relay!SendUnit(c) \/ Relay!CloseControl(c) \/ Relay!Leave(c)
           \/ UNCHANGED Relay!relayVars
<1>a. /\ PlaceType /\ DataType /\ client \in [Clients -> ClientStates]
      /\ client[c] \in ClientStates
  BY DEF Carried, DataType
<1>1. UNCHANGED <<pc, control, input, server, clock, stdin>>
  BY DEF ClientStep, ConnectControl, SendLine, ConnectInput, SendUnit,
         CloseControl, Leave, proxyVars
<1>2. UNCHANGED <<Serving, Relaying>>
  BY <1>1 DEF Serving, Ongoing, Relaying
<1>3. UNCHANGED <<Received, Recorded>>
  BY <1>a, ClientReceives, ClientViews
<1>b. ASSUME NEW d \in Clients, d # c PROVE client'[d] = client[d]
  BY <1>a, <1>b DEF ClientStep, ConnectControl, SendLine, ConnectInput,
                    SendUnit, CloseControl, Leave
<1>c. ASSUME NEW d \in Clients, d # c
      PROVE  /\ client'[d].sent = client[d].sent
             /\ InputOpen(d)' <=> InputOpen(d)
             /\ ControlOpen(d)' <=> ControlOpen(d)
  BY <1>b, <1>c DEF InputOpen, ControlOpen
<1>4. CASE ConnectControl(c) \/ ConnectInput(c) \/ SendLine(c)
  <2>1. /\ client'[c].sent = client[c].sent
        /\ client'[c].control = client[c].control
        /\ client'[c].place # "gone" /\ client[c].place # "gone"
    <3>1. CASE ConnectControl(c)
      <4>1. client'[c] = [client[c] EXCEPT !.place = "control"]
        BY <1>a, <3>1 DEF ConnectControl
      <4>. QED  BY <1>a, <3>1, <4>1 DEF ConnectControl, ClientStates
    <3>2. CASE ConnectInput(c)
      <4>1. client'[c] = [client[c] EXCEPT !.place = "input"]
        BY <1>a, <3>2 DEF ConnectInput
      <4>. QED  BY <1>a, <3>2, <4>1 DEF ConnectInput, ClientStates
    <3>3. CASE SendLine(c)
      <4>1. client'[c] = [client[c] EXCEPT !.lines = @ + 1]
        BY <1>a, <3>3 DEF SendLine
      <4>. QED  BY <1>a, <3>3, <4>1 DEF SendLine, ClientStates
    <3>. QED  BY <1>4, <3>1, <3>2, <3>3
  <2>2. \A d \in Clients : /\ client'[d].sent = client[d].sent
                           /\ InputOpen(d)' <=> InputOpen(d)
                           /\ ControlOpen(d)' <=> ControlOpen(d)
    BY <1>c, <2>1 DEF InputOpen, ControlOpen
  <2>3. UNCHANGED Peers
    BY <1>3, <2>2, ClientViews DEF Peers
  <2>. QED  BY <1>1, <1>2, <2>3, Quiet
<1>5. CASE SendUnit(c)
  <2>1. PICK q : client'[c] = [client[c] EXCEPT !.sent = client[c].sent + 1,
                                                !.queue = q]
    BY <1>a, <1>5 DEF SendUnit
  <2>2. /\ client'[c].sent = client[c].sent + 1
        /\ InputOpen(c)' <=> InputOpen(c)
        /\ ControlOpen(c)' <=> ControlOpen(c)
    BY <1>a, <2>1 DEF ClientStates, InputOpen, ControlOpen
  <2>3. UNCHANGED <<Left, Closed>>
    BY <1>c, <2>2, ClientViews
  <2>4. SentUnits' = [SentUnits EXCEPT ![c] = @ + 1]
    BY <1>c, <2>2 DEF SentUnits
  <2>5. c \notin Left
    BY <1>5 DEF SendUnit, Left, InputOpen
  <2>6. Relay!SendUnit(c)
    BY <1>1, <1>2, <1>3, <2>3, <2>4, <2>5
       DEF Relay!SendUnit, Serving, Ongoing, Relaying, Received, Recorded,
           SentUnits, Left, Closed
  <2>. QED  BY <2>6
<1>6. CASE CloseControl(c)
  <2>1. client'[c] = [client[c] EXCEPT !.control = FALSE]
    BY <1>a, <1>6 DEF CloseControl
  <2>2. /\ client'[c].sent = client[c].sent
        /\ InputOpen(c)' <=> InputOpen(c)
        /\ ~ControlOpen(c)'
    BY <1>a, <2>1 DEF ClientStates, InputOpen, ControlOpen
  <2>3. UNCHANGED <<SentUnits, Left>>
    BY <1>c, <2>2, ClientViews
  <2>4. Closed' = Closed \cup {c}
    BY <1>c, <2>2 DEF Closed
  <2>5. Relay!CloseControl(c)
    BY <1>1, <1>2, <1>3, <2>3, <2>4
       DEF Relay!CloseControl, Serving, Ongoing, Relaying, Received, Recorded,
           SentUnits, Left, Closed
  <2>. QED  BY <2>5
<1>7. CASE Leave(c)
  <2>1. client'[c] = [client[c] EXCEPT !.place = "gone"]
    BY <1>a, <1>7 DEF Leave
  <2>2. /\ client'[c].sent = client[c].sent
        /\ ~InputOpen(c)' /\ ~ControlOpen(c)'
    BY <1>a, <2>1 DEF ClientStates, InputOpen, ControlOpen
  <2>3. SentUnits' = SentUnits
    BY <1>c, <2>2, ClientViews
  <2>4. Left' = Left \cup {c} /\ Closed' = Closed \cup {c}
    BY <1>c, <2>2 DEF Left, Closed
  <2>5. Relay!Leave(c)
    BY <1>1, <1>2, <1>3, <2>3, <2>4
       DEF Relay!Leave, Serving, Ongoing, Relaying, Received, Recorded,
           SentUnits, Left, Closed
  <2>. QED  BY <2>5
<1>. QED  BY <1>4, <1>5, <1>6, <1>7 DEF ClientStep

RelayInv == StreamsInv /\ FlowInv /\ EndInv

LEMMA RelayStep ==
    Carried /\ Carried' /\ RelayInv /\ RelayInv' /\ [Next]_vars
       => [Relay!Next]_Relay!relayVars
<1> SUFFICES ASSUME Carried, Carried', RelayInv, RelayInv', [Next]_vars
             PROVE  [Relay!Next]_Relay!relayVars
  OBVIOUS
<1> DEFINE G == [Relay!Next]_Relay!relayVars
<1>a. StreamsInv /\ StreamsInv' /\ FlowInv' /\ EndInv
  BY DEF RelayInv
<1>b. Relay!Next \/ UNCHANGED Relay!relayVars => G
  OBVIOUS
<1> HIDE DEF G
<1>1. AcceptControl => G
  BY <1>b, QuietSteps
<1>2. GetProxyTarget => G
  BY <1>b, QuietSteps
<1>3. AcceptInput => G
  BY <1>b, QuietSteps
<1>4. Connect => G
  BY <1>b, ConnectMaps DEF Relay!Next
<1>5. ForwardInput => G
  BY <1>b, ForwardInputMaps
<1>6. WriteOutput => G
  BY <1>a, <1>b, WriteOutputMaps DEF Relay!Next
<1>7. StartTiming => G
  BY <1>b, StartTimingMaps DEF Relay!Next
<1>8. Peek => G
  BY <1>b, PeekMaps DEF Relay!Next
<1>9. ForwardOutput => G
  BY <1>b, ForwardOutputMaps DEF Relay!Next
<1>10. WriteInput => G
  BY <1>a, <1>b, WriteInputMaps DEF Relay!Next
<1>11. WriteControl => G
  BY <1>a, <1>b, WriteControlMaps DEF Relay!Next
<1>12. Poll => G
  BY <1>b, QuietSteps
<1>13. Close => G
  BY <1>a, <1>b, CloseMaps DEF Relay!Next
<1>14. TargetFails => G
  BY <1>b, QuietSteps
<1>15. ServerAnswer => G
  BY <1>b, ServerMaps DEF Relay!Next
<1>16. ServerClose => G
  BY <1>b, ServerMaps DEF Relay!Next
<1>17. ASSUME NEW c \in Clients, ClientStep(c) PROVE G
  BY <1>17, <1>b, ClientMaps DEF Relay!Next
<1>18. UNCHANGED vars => G
  BY <1>b, QuietSteps
<1>. QED
  <2>1. G
    BY <1>1, <1>2, <1>3, <1>4, <1>5, <1>6, <1>7, <1>8, <1>9, <1>10, <1>11,
       <1>12, <1>13, <1>14, <1>15, <1>16, <1>17, <1>18, NextCases
  <2>. QED  BY <2>1 DEF G

LEMMA RelayInit == Init => RelayInv /\ Relay!Init
<1> SUFFICES ASSUME Init PROVE RelayInv /\ Relay!Init
  OBVIOUS
<1>1. pc = "accept_control" /\ ~Ongoing /\ ~InSession
  BY DEF Init, Ongoing, InSession
<1>2. RelayInv
  BY <1>1 DEF RelayInv, StreamsInv, FlowInv, EndInv
<1>3. /\ Received = [c \in Clients |-> <<>>]
      /\ Recorded = [c \in Clients |-> <<>>]
      /\ SentUnits = [c \in Clients |-> 0]
      /\ Left = {} /\ Closed = {}
  BY DEF Init, NewClient, Received, Recorded, SentUnits, Left, Closed,
         InputOpen, ControlOpen
<1>4. Serving = <<>> /\ Relaying = FALSE
  BY <1>1 DEF Serving, Relaying
<1>5. server = [session |-> 0, open |-> FALSE, got |-> <<>>, sent |-> <<>>,
                read |-> 0]
  BY DEF Init, NewServer
<1>6. clock = [start |-> [session |-> 0, sent |-> 0],
               stop  |-> [session |-> 0, arrived |-> 0]]
  BY DEF Init
<1>7. Relay!Init
  BY <1>3, <1>4, <1>5, <1>6
     DEF Relay!Init, Serving, Ongoing, Relaying, Received, Recorded,
         SentUnits, Left, Closed
<1>. QED  BY <1>2, <1>7

\* The proxy implements the relay: in sessions that follow each other it hands
\* on requests and answers in order and unchanged, reports every chunk of an
\* answer once, after all of it and before the next, and ends a session only
\* because a peer is gone or descriptor 0 hung up; for reads and sends of any
\* size, and whatever clients and servers do.
THEOREM RelayRefinement == Spec => ImplementsRelay
<1>1. Init => RelayInv /\ Relay!Init
  BY RelayInit
<1>2. Carried /\ Carried' /\ RelayInv /\ [Next]_vars => RelayInv'
  BY StreamsStep, FlowStep, EndStep DEF RelayInv
<1>3. Carried /\ Carried' /\ RelayInv /\ RelayInv' /\ [Next]_vars
         => [Relay!Next]_Relay!relayVars
  BY RelayStep
<1>. QED
  BY <1>1, <1>2, <1>3, CarriedAlways, PTL DEF Spec, ImplementsRelay, Relay!Spec

=============================================================================

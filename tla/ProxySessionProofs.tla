------------------------- MODULE ProxySessionProofs -------------------------
(***************************************************************************)
(* Proofs about ProxySession, for any number of clients, requests and      *)
(* units: its types, the streams, and which connections a session pairs.   *)
(***************************************************************************)
EXTENDS ProxySession, SequenceTheorems, TLAPS

LEMMA NextCases ==
    ASSUME [Next]_vars, NEW G,
           AcceptControl => G, GetProxyTarget => G, AcceptInput => G,
           Connect => G, ForwardInput => G, WriteOutput => G,
           StartTiming => G, Peek => G, ForwardOutput => G, WriteInput => G,
           WriteControl => G, Poll => G, Close => G, TargetFails => G,
           ServerAnswer => G, ServerClose => G, UNCHANGED vars => G,
           \A c \in Clients : ClientStep(c) => G
    PROVE  G
BY DEF Next, ProxyStep

-----------------------------------------------------------------------------
(***************************************************************************)
(* Sequences.                                                              *)
(***************************************************************************)

LEMMA MinOfTwo ==
    ASSUME NEW a \in Nat, NEW b \in Nat
    PROVE  /\ Min({a, b}) \in Nat
           /\ Min({a, b}) <= a /\ Min({a, b}) <= b
           /\ Min({a, b}) \in {a, b}
<1>1. \E x \in {a, b} : \A y \in {a, b} : x =< y
  OBVIOUS
<1>2. Min({a, b}) \in {a, b} /\ \A y \in {a, b} : Min({a, b}) =< y
  BY <1>1 DEF Min
<1>. QED  BY <1>2

LEMMA Piece ==
    ASSUME NEW S, NEW s \in Seq(S), NEW n \in 0 .. Len(s)
    PROVE  /\ SubSeq(s, 1, n) \in Seq(S) /\ Len(SubSeq(s, 1, n)) = n
           /\ SubSeq(s, n + 1, Len(s)) \in Seq(S)
           /\ Len(SubSeq(s, n + 1, Len(s))) = Len(s) - n
<1>1. Len(s) \in Nat /\ \A i \in 1 .. Len(s) : s[i] \in S
  BY ElementOfSeq, LenProperties
<1>2. /\ SubSeq(s, 1, n) \in Seq(S)
      /\ Len(SubSeq(s, 1, n)) = IF 1 <= n THEN n - 1 + 1 ELSE 0
  BY <1>1, SubSeqProperties
<1>3. /\ SubSeq(s, n + 1, Len(s)) \in Seq(S)
      /\ Len(SubSeq(s, n + 1, Len(s)))
           = IF n + 1 <= Len(s) THEN Len(s) - (n + 1) + 1 ELSE 0
  <2>1. \A i \in n + 1 .. Len(s) : s[i] \in S
    BY <1>1
  <2>. QED  BY <1>1, <2>1, SubSeqProperties
<1>. QED  BY <1>1, <1>2, <1>3

\* The pieces after a read of one that is the end of a longer stream.
LEMMA PieceOfPiece ==
    ASSUME NEW S, NEW s \in Seq(S), NEW r \in 0 .. Len(s),
           NEW n \in 0 .. Len(s) - r
    PROVE  LET t == SubSeq(s, r + 1, Len(s))
           IN  SubSeq(t, n + 1, Len(t)) = SubSeq(s, r + n + 1, Len(s))
<1> DEFINE t == SubSeq(s, r + 1, Len(s))
           a == SubSeq(t, n + 1, Len(t))
           b == SubSeq(s, r + n + 1, Len(s))
<1>1. /\ Len(s) \in Nat /\ r + n \in 0 .. Len(s)
      /\ \A i \in 1 .. Len(s) : s[i] \in S
  BY ElementOfSeq, LenProperties
<1>2. t \in Seq(S) /\ Len(t) = Len(s) - r
  BY Piece
<1>3. \A i \in 1 .. Len(t) : t[i] = s[r + i]
  <2>1. \A i \in r + 1 .. Len(s) : s[i] \in S
    BY <1>1
  <2>2. \A i \in 1 .. Len(s) - (r + 1) + 1 : t[i] = s[r + 1 + i - 1]
    BY <1>1, <2>1, SubSeqProperties
  <2>. QED  BY <1>1, <1>2, <2>2
<1> HIDE DEF t
<1>4. a \in Seq(S) /\ Len(a) = Len(t) - n
  <2>1. n \in 0 .. Len(t)
    BY <1>1, <1>2
  <2>. QED  BY <1>2, <2>1, Piece
<1>5. \A i \in 1 .. Len(a) : a[i] = t[n + i]
  <2>1. \A i \in n + 1 .. Len(t) : t[i] \in S
    BY <1>1, <1>2, ElementOfSeq
  <2>2. \A i \in 1 .. Len(t) - (n + 1) + 1 : a[i] = t[n + 1 + i - 1]
    BY <1>1, <1>2, <2>1, SubSeqProperties
  <2>. QED  BY <1>1, <1>2, <1>4, <2>2
<1>6. b \in Seq(S) /\ Len(b) = Len(s) - (r + n)
  BY <1>1, Piece
<1>7. \A i \in 1 .. Len(b) : b[i] = s[r + n + i]
  <2>1. \A i \in r + n + 1 .. Len(s) : s[i] \in S
    BY <1>1
  <2>2. \A i \in 1 .. Len(s) - (r + n + 1) + 1 : b[i] = s[r + n + 1 + i - 1]
    BY <1>1, <2>1, SubSeqProperties
  <2>. QED  BY <1>1, <1>6, <2>2
<1> HIDE DEF a, b
<1>8. Len(a) = Len(b)
  BY <1>1, <1>2, <1>4, <1>6
<1>10. ASSUME NEW i \in 1 .. Len(a) PROVE a[i] = b[i]
  <2>1. n + i \in 1 .. Len(t) /\ i \in 1 .. Len(b)
    BY <1>1, <1>2, <1>4, <1>8
  <2>2. a[i] = t[n + i] /\ t[n + i] = s[r + (n + i)] /\ b[i] = s[r + n + i]
    BY <2>1, <1>3, <1>5, <1>7
  <2>3. r + (n + i) = r + n + i
    BY <1>1
  <2>. QED  BY <2>2, <2>3
<1>9. a = b
  BY <1>4, <1>6, <1>8, <1>10, SeqEqual
<1>. QED  BY <1>9 DEF a, b, t

\* What is appended to a stream is appended to its end.
LEMMA PieceOfAppend ==
    ASSUME NEW S, NEW s \in Seq(S), NEW e \in S, NEW r \in 0 .. Len(s)
    PROVE  SubSeq(Append(s, e), r + 1, Len(Append(s, e)))
             = Append(SubSeq(s, r + 1, Len(s)), e)
<1> DEFINE long == Append(s, e)
           a    == SubSeq(long, r + 1, Len(long))
           t    == SubSeq(s, r + 1, Len(s))
           b    == Append(t, e)
<1>1. /\ Len(s) \in Nat
      /\ \A i \in 1 .. Len(s) : s[i] \in S
  BY ElementOfSeq, LenProperties
<1>2. /\ long \in Seq(S) /\ Len(long) = Len(s) + 1
      /\ \A i \in 1 .. Len(s) : long[i] = s[i]
      /\ long[Len(s) + 1] = e
  BY AppendProperties
<1>3. t \in Seq(S) /\ Len(t) = Len(s) - r
  BY Piece
<1>4. \A i \in 1 .. Len(t) : t[i] = s[r + i]
  <2>1. \A i \in r + 1 .. Len(s) : s[i] \in S
    BY <1>1
  <2>2. \A i \in 1 .. Len(s) - (r + 1) + 1 : t[i] = s[r + 1 + i - 1]
    BY <1>1, <2>1, SubSeqProperties
  <2>. QED  BY <1>1, <1>3, <2>2
<1> HIDE DEF long, t
<1>5. a \in Seq(S) /\ Len(a) = Len(long) - r
  <2>1. r \in 0 .. Len(long)
    BY <1>1, <1>2
  <2>. QED  BY <1>2, <2>1, Piece
<1>6. \A i \in 1 .. Len(a) : a[i] = long[r + i]
  <2>1. \A i \in r + 1 .. Len(long) : long[i] \in S
    BY <1>1, <1>2, ElementOfSeq
  <2>2. \A i \in 1 .. Len(long) - (r + 1) + 1 : a[i] = long[r + 1 + i - 1]
    BY <1>1, <1>2, <2>1, SubSeqProperties
  <2>. QED  BY <1>1, <1>2, <1>5, <2>2
<1>7. /\ b \in Seq(S) /\ Len(b) = Len(t) + 1
      /\ \A i \in 1 .. Len(t) : b[i] = t[i]
      /\ b[Len(t) + 1] = e
  BY <1>3, AppendProperties
<1> HIDE DEF a, b
<1>8. Len(a) = Len(b)
  BY <1>1, <1>2, <1>3, <1>5, <1>7
<1>10. ASSUME NEW i \in 1 .. Len(a) PROVE a[i] = b[i]
  <2>1. a[i] = long[r + i]
    BY <1>6
  <2>2. CASE i \in 1 .. Len(t)
    <3>1. r + i \in 1 .. Len(s)
      BY <1>1, <1>3, <2>2
    <3>2. long[r + i] = s[r + i] /\ t[i] = s[r + i] /\ b[i] = t[i]
      BY <1>2, <1>4, <1>7, <2>2, <3>1
    <3>. QED  BY <2>1, <3>2
  <2>3. CASE i = Len(t) + 1
    <3>1. r + i = Len(s) + 1
      BY <1>1, <1>3, <2>3
    <3>. QED  BY <1>2, <1>7, <2>1, <2>3, <3>1
  <2>. QED  BY <1>1, <1>2, <1>3, <1>5, <2>2, <2>3
<1>9. a = b
  BY <1>5, <1>7, <1>8, <1>10, SeqEqual
<1>. QED  BY <1>9 DEF a, b, t, long

LEMMA AppendToConcat ==
    ASSUME NEW S, NEW s \in Seq(S), NEW t \in Seq(S), NEW e \in S
    PROVE  s \o Append(t, e) = Append(s \o t, e)
<1>1. <<e>> \in Seq(S)
  OBVIOUS
<1>2. Append(t, e) = t \o <<e>>
  BY AppendIsConcat
<1>3. s \o t \in Seq(S)
  BY ConcatProperties
<1>4. Append(s \o t, e) = (s \o t) \o <<e>>
  BY <1>3, AppendIsConcat
<1>. QED  BY <1>1, <1>2, <1>4, ConcatAssociative

\* What is taken from the front of a stream joins what went before.
LEMMA PassOn ==
    ASSUME NEW S, NEW g \in Seq(S), NEW s \in Seq(S), NEW n \in 0 .. Len(s)
    PROVE  (g \o SubSeq(s, 1, n)) \o SubSeq(s, n + 1, Len(s)) = g \o s
<1>1. SubSeq(s, 1, n) \o SubSeq(s, n + 1, Len(s)) = SubSeq(s, 1, Len(s))
  <2>1. 1 \in 1 .. Len(s) + 1 /\ n \in 1 - 1 .. Len(s)
        /\ Len(s) \in n .. Len(s)
    BY LenProperties
  <2>. QED  BY <2>1, ConcatAdjacentSubSeq
<1>2. SubSeq(s, 1, Len(s)) = s
  BY SubSeqFull
<1>3. SubSeq(s, 1, n) \in Seq(S) /\ SubSeq(s, n + 1, Len(s)) \in Seq(S)
  BY Piece
<1> DEFINE front == SubSeq(s, 1, n)
           back  == SubSeq(s, n + 1, Len(s))
<1> HIDE DEF front, back
<1>4. front \in Seq(S) /\ back \in Seq(S)
  BY <1>3 DEF front, back
<1>5. (g \o front) \o back = g \o (front \o back)
  BY <1>4, ConcatAssociative
<1>. QED  BY <1>1, <1>2, <1>5 DEF front, back

-----------------------------------------------------------------------------
(***************************************************************************)
(* The inductive invariant.                                                *)
(***************************************************************************)

Units   == (Clients \X Nat) \cup (Nat \X Nat)
Stream  == Seq(Units)
Starts  == [session : Nat, sent : Nat]
Stops   == [session : Nat, arrived : Nat]
Records == [session : Nat, upto : Nat, start : Starts, stop : Stops]
Measured == Seq(Records)
ClientStates ==
    [place : {"away", "control", "input", "gone"}, lines : 0 .. 2,
     control : BOOLEAN, sent : Nat, queue : Stream, got : Stream,
     records : Measured, hung : BOOLEAN]
ServerStates ==
    [session : Nat, open : BOOLEAN, got : Stream, sent : Stream,
     read : Nat]

\* The places at which the control socket, and proxy_input, have a client.
WithControl == ProxyPcs \ {"accept_control"}
WithInput   == WithControl \ {"get_target", "accept_input"}

PlaceType ==
    /\ pc \in ProxyPcs /\ established \in BOOLEAN /\ depth \in Nat
    /\ control \in Clients \cup {NoClient} /\ input \in Clients \cup {NoClient}
    /\ fate \in {"running", "terminated", "sigpipe"}
    /\ pc \in WithControl => control \in Clients
    /\ pc \in WithInput => input \in Clients
    /\ pc \in {"accept_control", "get_target"} => input = NoClient

DataType ==
    /\ buf \in Stream /\ Len(buf) <= BUFSIZE
    /\ clock \in [start : Starts, stop : Stops]
    /\ server \in ServerStates /\ server.read <= Len(server.sent)
    /\ client \in [Clients -> ClientStates]
    /\ controlQueue \in Seq(Clients) /\ inputQueue \in Seq(Clients)
    /\ order \in [control : Seq(Clients), input : Seq(Clients)]

\* The clients that have made a control connection, and both connections.
Made   == {c \in Clients : client[c].place # "away"}
Paired == {c \in Clients : client[c].place \in {"input", "gone"}}

\* A client is in a listen queue at most once, and not while it is served.
Once(queue, served, made) ==
    /\ \A i, j \in 1 .. Len(queue) : i # j => queue[i] # queue[j]
    /\ \A i \in 1 .. Len(queue) : queue[i] # served /\ queue[i] \in made
    /\ served \in Clients => served \in made

OnceInv ==
    /\ Once(controlQueue, control, Made)
    /\ Once(inputQueue, input, Paired)

In(c, queue) == \E i \in 1 .. Len(queue) : queue[i] = c

\* No session has read from the client's data connection yet.
Unread(c) ==
    \/ c \notin Paired
    \/ In(c, inputQueue)
    \/ c = input /\ pc \in {"accept_input", "connect"}

\* No session has written to the client's control connection yet.
Unwritten(c) ==
    \/ c \notin Made
    \/ In(c, controlQueue)
    \/ c = control /\ pc \notin WithInput \ {"connect"}

SentBy(c, n) == [i \in 1 .. n |-> <<c, i>>]

FreshInv ==
    \A c \in Clients :
       /\ Unread(c) => /\ client[c].queue = SentBy(c, client[c].sent)
                       /\ client[c].got = <<>>
       /\ Unwritten(c) => client[c].records = <<>>

-----------------------------------------------------------------------------
(***************************************************************************)
(* Types.                                                                  *)
(***************************************************************************)

LEMMA Streams ==
    /\ <<>> \in Stream /\ Len(<<>>) = 0
    /\ \A s \in Stream : Len(s) \in Nat /\ (Len(s) = 0 => s = <<>>)
    /\ \A s, t \in Stream : /\ s \o t \in Stream
                            /\ Len(s \o t) = Len(s) + Len(t)
    /\ \A s \in Stream : \A u \in Units : /\ Append(s, u) \in Stream
                                          /\ Len(Append(s, u)) = Len(s) + 1
<1>1. <<>> \in Stream /\ Len(<<>>) = 0
  BY EmptySeq DEF Stream
<1>2. \A s \in Stream : Len(s) \in Nat /\ (Len(s) = 0 => s = <<>>)
  BY EmptySeq, LenProperties DEF Stream
<1>3. \A s, t \in Stream : /\ s \o t \in Stream
                           /\ Len(s \o t) = Len(s) + Len(t)
  BY ConcatProperties DEF Stream
<1>4. \A s \in Stream : \A u \in Units : /\ Append(s, u) \in Stream
                                         /\ Len(Append(s, u)) = Len(s) + 1
  BY AppendProperties DEF Stream
<1>. QED  BY <1>1, <1>2, <1>3, <1>4

LEMMA StreamPiece ==
    ASSUME NEW s \in Stream, NEW n \in 0 .. Len(s)
    PROVE  /\ SubSeq(s, 1, n) \in Stream /\ Len(SubSeq(s, 1, n)) = n
           /\ SubSeq(s, n + 1, Len(s)) \in Stream
           /\ Len(SubSeq(s, n + 1, Len(s))) = Len(s) - n
BY Piece DEF Stream

LEMMA PlaceInit == Init => PlaceType
<1> SUFFICES ASSUME Init PROVE PlaceType
  OBVIOUS
<1>1. /\ pc = "accept_control" /\ established = FALSE /\ depth = 0
      /\ control = NoClient /\ input = NoClient /\ fate = "running"
  BY DEF Init
<1>2. "accept_control" \in ProxyPcs \ WithControl
  BY DEF ProxyPcs, WithControl
<1>. QED  BY <1>1, <1>2 DEF PlaceType, WithInput

LEMMA PlaceStep == PlaceType /\ DataType /\ [Next]_vars => PlaceType'
<1> SUFFICES ASSUME PlaceType, DataType, [Next]_vars PROVE PlaceType'
  OBVIOUS
<1> DEFINE P == PlaceType'
<1> USE DEF ProxyPcs, WithControl, WithInput, At
<1>1. ASSUME AcceptControl PROVE P
  <2>1. Head(controlQueue) \in Clients
    BY <1>1, HeadTailProperties DEF AcceptControl, AcceptOn, DataType
  <2>. QED  BY <1>1, <2>1 DEF AcceptControl, AcceptOn, PlaceType
<1>2. ASSUME GetProxyTarget PROVE P
  BY <1>2 DEF GetProxyTarget, PlaceType
<1>3. ASSUME AcceptInput PROVE P
  <2>1. Head(inputQueue) \in Clients
    BY <1>3, HeadTailProperties DEF AcceptInput, AcceptOn, DataType
  <2>. QED  BY <1>3, <2>1 DEF AcceptInput, AcceptOn, PlaceType
<1>4. ASSUME Connect PROVE P
  BY <1>4 DEF Connect, PlaceType
<1>5. ASSUME ForwardInput PROVE P
  <2>1. /\ pc = "forward_input"
        /\ pc' \in {"write_output", "forward_output", "poll"}
        /\ established' \in BOOLEAN
        /\ UNCHANGED <<control, input, depth, fate>>
    BY <1>5 DEF ForwardInput, PlaceType
  <2>. QED  BY <2>1 DEF PlaceType
<1> DEFINE Vain(next) ==
             /\ pc' \in {pc, next, "poll"} /\ established' \in BOOLEAN
             /\ depth' \in Nat /\ fate' \in {fate, "sigpipe"}
<1>0. ASSUME NEW next, SendInVain(next) PROVE Vain(next)
  <2>1. established \in BOOLEAN /\ depth \in Nat
    BY DEF PlaceType
  <2>2. pc' \in {pc, next, "poll"} /\ fate' \in {fate, "sigpipe"}
    BY <1>0 DEF SendInVain
  <2>3. (established' = established \/ established' = FALSE)
        /\ (depth' = depth \/ depth' = 0)
    BY <1>0 DEF SendInVain
  <2>4. established' \in BOOLEAN
    BY <2>1, <2>3
  <2>5. depth' \in Nat
    BY <2>1, <2>3
  <2>. QED  BY <2>2, <2>4, <2>5
<1>6. ASSUME WriteOutput PROVE P
  <2>1. Vain("start_timing")
    <3>1. CASE ~server.open
      BY <1>0, <1>6, <3>1 DEF WriteOutput
    <3>2. CASE server.open
      BY <1>6, <3>2 DEF WriteOutput, PlaceType
    <3>. QED  BY <3>1, <3>2
  <2>. QED  BY <1>6, <2>1 DEF WriteOutput, PlaceType
<1>7. ASSUME StartTiming PROVE P
  BY <1>7 DEF StartTiming, PlaceType
<1>8. ASSUME Peek PROVE P
  BY <1>8 DEF Peek, Return, PlaceType
<1>9. ASSUME ForwardOutput PROVE P
  <2>1. /\ pc = "forward_output" /\ pc' \in {"write_input", "poll"}
        /\ established' \in {established, server.open}
        /\ UNCHANGED <<control, input, depth, fate>>
    BY <1>9 DEF ForwardOutput
  <2>2. server.open \in BOOLEAN
    BY DEF DataType, ServerStates
  <2>. QED  BY <2>1, <2>2 DEF PlaceType
<1>10. ASSUME WriteInput PROVE P
  <2>1. Vain("write_control")
    <3>1. CASE ~InputOpen(input)
      BY <1>0, <1>10, <3>1 DEF WriteInput
    <3>2. CASE InputOpen(input)
      BY <1>10, <3>2 DEF WriteInput, PlaceType
    <3>. QED  BY <3>1, <3>2
  <2>. QED  BY <1>10, <2>1 DEF WriteInput, PlaceType
<1>11. ASSUME WriteControl PROVE P
  <2>1. Vain("poll")
    <3>1. CASE ~ControlOpen(control)
      BY <1>0, <1>11, <3>1 DEF WriteControl
    <3>2. CASE ControlOpen(control)
      BY <1>11, <3>2 DEF WriteControl, PlaceType
    <3>. QED  BY <3>1, <3>2
  <2>. QED  BY <1>11, <2>1 DEF WriteControl, PlaceType
<1>12. ASSUME Poll PROVE P
  BY <1>12 DEF Poll, StillEstablished, PlaceType
<1>13. ASSUME Close PROVE P
  BY <1>13 DEF Close, PlaceType
<1>14. ASSUME TargetFails PROVE P
  BY <1>14 DEF TargetFails, proxyVars, PlaceType
<1>15. ASSUME ServerAnswer PROVE P
  BY <1>15 DEF ServerAnswer, proxyVars, PlaceType
<1>16. ASSUME ServerClose PROVE P
  BY <1>16 DEF ServerClose, proxyVars, PlaceType
<1>17. ASSUME NEW c \in Clients, ClientStep(c) PROVE P
  <2>1. UNCHANGED <<proxyVars, fate>>
    BY <1>17 DEF ClientStep, ConnectControl, SendLine, ConnectInput, SendUnit,
                 CloseControl, Leave
  <2>. QED  BY <2>1 DEF proxyVars, PlaceType
<1>18. ASSUME UNCHANGED vars PROVE P
  BY <1>18 DEF vars, proxyVars, PlaceType
<1>. QED
  BY <1>1, <1>2, <1>3, <1>4, <1>5, <1>6, <1>7, <1>8, <1>9, <1>10, <1>11,
     <1>12, <1>13, <1>14, <1>15, <1>16, <1>17, <1>18, NextCases

LEMMA DataInit == Init => DataType
<1> SUFFICES ASSUME Init PROVE DataType
  OBVIOUS
<1>1. <<>> \in Stream /\ <<>> \in Measured /\ <<>> \in Seq(Clients)
      /\ Len(<<>>) = 0
  BY EmptySeq DEF Stream, Measured
<1>2. NewClient \in ClientStates
  BY <1>1 DEF NewClient, ClientStates
<1>3. client \in [Clients -> ClientStates]
  BY <1>2 DEF Init
<1>4. server \in ServerStates
  BY <1>1 DEF Init, NewServer, ServerStates
<1>6. server.read <= Len(server.sent)
  BY <1>1 DEF Init, NewServer
<1>5. clock \in [start : Starts, stop : Stops]
  BY DEF Init, Starts, Stops
<1>. QED
  BY <1>1, <1>3, <1>4, <1>5, <1>6, SessionAssumption DEF Init, DataType

LEMMA ArrivedType ==
    ASSUME DataType
    PROVE  /\ Arrived \in Stream
           /\ Len(Arrived) = Len(server.sent) - server.read
           /\ server.read \in 0 .. Len(server.sent)
<1>1. server.sent \in Stream /\ server.read \in Nat
      /\ server.read <= Len(server.sent)
  BY DEF DataType, ServerStates
<1>2. server.read \in 0 .. Len(server.sent)
  BY <1>1, Streams
<1>. QED  BY <1>1, <1>2, StreamPiece DEF Arrived

\* What a send takes and leaves.
LEMMA TakenPieces ==
    ASSUME DataType, NEW n \in Taken
    PROVE  /\ n \in 0 .. Len(buf)
           /\ SubSeq(buf, 1, n) \in Stream /\ Len(SubSeq(buf, 1, n)) = n
           /\ Rest(n) \in Stream /\ Len(Rest(n)) = Len(buf) - n
<1>1. buf \in Stream /\ Len(buf) \in Nat
  BY Streams DEF DataType
<1>2. n \in 0 .. Len(buf)
  BY <1>1 DEF Taken
<1>. QED  BY <1>1, <1>2, StreamPiece DEF Rest

\* A read takes at most BUFSIZE units of what is there.
LEMMA ReadPieces ==
    ASSUME NEW s \in Stream
    PROVE  LET n == Min({BUFSIZE, Len(s)})
           IN  /\ n \in 0 .. Len(s) /\ n <= BUFSIZE
               /\ n > 0 <=> s # <<>>
               /\ SubSeq(s, 1, n) \in Stream /\ Len(SubSeq(s, 1, n)) = n
               /\ SubSeq(s, n + 1, Len(s)) \in Stream
               /\ Len(SubSeq(s, n + 1, Len(s))) = Len(s) - n
<1> DEFINE n == Min({BUFSIZE, Len(s)})
<1>1. BUFSIZE \in Nat \ {0} /\ Len(s) \in Nat /\ (s # <<>> <=> Len(s) > 0)
  BY SessionAssumption, Streams
<1>2. n \in 0 .. Len(s) /\ n <= BUFSIZE /\ (n = BUFSIZE \/ n = Len(s))
  BY <1>1, MinOfTwo
<1> HIDE DEF n
<1>3. n > 0 <=> s # <<>>
  BY <1>1, <1>2
<1>4. /\ SubSeq(s, 1, n) \in Stream /\ Len(SubSeq(s, 1, n)) = n
      /\ SubSeq(s, n + 1, Len(s)) \in Stream
      /\ Len(SubSeq(s, n + 1, Len(s))) = Len(s) - n
  BY <1>2, StreamPiece
<1>. QED  BY <1>2, <1>3, <1>4 DEF n

LEMMA DataStep == PlaceType /\ DataType /\ [Next]_vars => DataType'
<1> SUFFICES ASSUME PlaceType, DataType, [Next]_vars PROVE DataType'
  OBVIOUS
<1> DEFINE D == DataType'
<1>a. BUFSIZE \in Nat \ {0} /\ <<>> \in Stream /\ Len(<<>>) = 0
  BY SessionAssumption, Streams
<1>b. client \in [Clients -> ClientStates]
  BY DEF DataType
<1>c. server \in ServerStates /\ server.read \in 0 .. Len(server.sent)
  BY ArrivedType DEF DataType
<1>d. /\ Len(server.got) \in Nat /\ Len(server.sent) \in Nat
      /\ server.session \in Nat
  BY <1>c, Streams DEF ServerStates
<1>1. ASSUME AcceptControl PROVE D
  <2>1. Tail(controlQueue) \in Seq(Clients)
    BY <1>1, HeadTailProperties DEF AcceptControl, AcceptOn, DataType
  <2>. QED  BY <1>1, <2>1 DEF AcceptControl, DataType
<1>2. ASSUME GetProxyTarget PROVE D
  BY <1>2 DEF GetProxyTarget, DataType, queueVars
<1>3. ASSUME AcceptInput PROVE D
  <2>1. Tail(inputQueue) \in Seq(Clients)
    BY <1>3, HeadTailProperties DEF AcceptInput, AcceptOn, DataType
  <2>. QED  BY <1>3, <2>1 DEF AcceptInput, DataType
<1>4. ASSUME Connect PROVE D
  <2>1. server' \in ServerStates /\ server'.read <= Len(server'.sent)
    BY <1>a, <1>d, <1>4 DEF Connect, NewServer, ServerStates
  <2>. QED  BY <1>4, <2>1 DEF Connect, DataType, queueVars
<1>5. ASSUME ForwardInput PROVE D
  <2> DEFINE queue == client[input].queue
             n     == Min({BUFSIZE, Len(queue)})
  <2>1. input \in Clients
    BY <1>5 DEF ForwardInput, At, PlaceType, WithInput, WithControl, ProxyPcs
  <2>2. queue \in Stream
    BY <1>b, <2>1 DEF ClientStates
  <2>3. /\ buf' = SubSeq(queue, 1, n)
        /\ client' = [client EXCEPT ![input].queue =
                                       SubSeq(queue, n + 1, Len(queue))]
    BY <1>5 DEF ForwardInput
  <2>4. /\ buf' \in Stream /\ Len(buf') <= BUFSIZE
        /\ SubSeq(queue, n + 1, Len(queue)) \in Stream
    BY <2>2, <2>3, ReadPieces
  <2> HIDE DEF n
  <2>5. client' \in [Clients -> ClientStates]
    BY <1>b, <2>1, <2>3, <2>4 DEF ClientStates
  <2>. QED  BY <1>5, <2>4, <2>5 DEF ForwardInput, DataType, queueVars
<1>6. ASSUME WriteOutput PROVE D
  <2>1. buf' \in Stream /\ Len(buf') <= BUFSIZE
        /\ server' \in ServerStates /\ server'.read <= Len(server'.sent)
    <3>1. CASE ~server.open
      BY <1>a, <1>6, <3>1 DEF WriteOutput, SendInVain, DataType
    <3>2. CASE server.open
      <4>1. PICK n \in Taken :
               /\ server' = [server EXCEPT !.got = @ \o SubSeq(buf, 1, n)]
               /\ buf' = Rest(n)
        BY <1>6, <3>2 DEF WriteOutput
      <4>2. /\ SubSeq(buf, 1, n) \in Stream /\ n \in 0 .. Len(buf)
            /\ buf' \in Stream /\ Len(buf') = Len(buf) - n
        BY <4>1, TakenPieces
      <4>3. server.got \o SubSeq(buf, 1, n) \in Stream
        BY <1>c, <4>2, Streams DEF ServerStates
      <4>4. server' \in ServerStates
        BY <1>c, <4>1, <4>3 DEF ServerStates
      <4>6. server'.read <= Len(server'.sent)
        BY <1>c, <1>d, <4>1 DEF ServerStates
      <4>5. Len(buf) \in Nat /\ Len(buf) <= BUFSIZE
        BY Streams DEF DataType
      <4>. QED  BY <1>a, <4>2, <4>4, <4>5, <4>6
    <3>. QED  BY <3>1, <3>2
  <2>. QED  BY <1>6, <2>1 DEF WriteOutput, DataType, queueVars
<1>7. ASSUME StartTiming PROVE D
  <2>1. clock' \in [start : Starts, stop : Stops]
    BY <1>d, <1>7 DEF StartTiming, DataType, Starts
  <2>. QED  BY <1>7, <2>1 DEF StartTiming, DataType, queueVars
<1>8. ASSUME Peek PROVE D
  <2>1. clock' \in [start : Starts, stop : Stops]
    BY <1>d, <1>8 DEF Peek, DataType, Stops
  <2>. QED  BY <1>8, <2>1 DEF Peek, DataType, queueVars
<1>9. ASSUME ForwardOutput PROVE D
  <2> DEFINE n == Min({BUFSIZE, Len(Arrived)})
  <2>1. /\ buf' = SubSeq(Arrived, 1, n)
        /\ server' = [server EXCEPT !.read = @ + n]
    BY <1>9 DEF ForwardOutput
  <2>2. /\ buf' \in Stream /\ Len(buf') <= BUFSIZE /\ n \in 0 .. Len(Arrived)
    BY <2>1, ReadPieces, ArrivedType
  <2> HIDE DEF n
  <2>3. server' \in ServerStates /\ server'.read <= Len(server'.sent)
    <3>1. /\ n \in Nat /\ server.read \in Nat /\ Len(server.sent) \in Nat
          /\ server.read + n <= Len(server.sent)
      <4>1. server.read \in Nat /\ Len(server.sent) \in Nat
        BY <1>c, <1>d DEF ServerStates
      <4>2. Len(Arrived) = Len(server.sent) - server.read
        BY ArrivedType
      <4>. QED  BY <1>c, <2>2, <4>1, <4>2
    <3>2. server'.read = server.read + n /\ server'.sent = server.sent
      BY <1>c, <2>1 DEF ServerStates
    <3>3. server' \in ServerStates
      <4> DEFINE m == server.read + n
      <4>1. server' = [server EXCEPT !.read = m]
        BY <2>1
      <4>2. m \in Nat
        BY <3>1
      <4> HIDE DEF m
      <4>3. server \in ServerStates
        BY <1>c
      <4>. QED  BY <4>1, <4>2, <4>3 DEF ServerStates
    <3>. QED  BY <3>1, <3>2, <3>3
  <2>. QED  BY <1>9, <2>2, <2>3 DEF ForwardOutput, DataType, queueVars
<1>10. ASSUME WriteInput PROVE D
  <2>0. input \in Clients
    BY <1>10 DEF WriteInput, At, PlaceType, WithInput, WithControl, ProxyPcs
  <2>1. buf' \in Stream /\ Len(buf') <= BUFSIZE
        /\ client' \in [Clients -> ClientStates]
    <3>1. CASE ~InputOpen(input)
      BY <1>a, <1>10, <3>1 DEF WriteInput, SendInVain, DataType
    <3>2. CASE InputOpen(input)
      <4>1. PICK n \in Taken :
               /\ client' = [client EXCEPT ![input].got =
                                              @ \o SubSeq(buf, 1, n)]
               /\ buf' = Rest(n)
        BY <1>10, <3>2 DEF WriteInput
      <4>2. /\ SubSeq(buf, 1, n) \in Stream /\ n \in 0 .. Len(buf)
            /\ buf' \in Stream /\ Len(buf') = Len(buf) - n
        BY <4>1, TakenPieces
      <4>3. client[input].got \o SubSeq(buf, 1, n) \in Stream
        BY <1>b, <2>0, <4>2, Streams DEF ClientStates
      <4> DEFINE got == client[input].got \o SubSeq(buf, 1, n)
                 r   == [client[input] EXCEPT !.got = got]
      <4>4. client' = [client EXCEPT ![input] = r]
        BY <4>1
      <4> HIDE DEF got
      <4>5. got \in Stream
        BY <4>3 DEF got
      <4>6. r \in ClientStates
        BY <1>b, <2>0, <4>5 DEF ClientStates
      <4> HIDE DEF r
      <4>7. client' \in [Clients -> ClientStates]
        BY <1>b, <2>0, <4>4, <4>6
      <4>8. Len(buf) \in Nat /\ Len(buf) <= BUFSIZE
        BY Streams DEF DataType
      <4>. QED  BY <1>a, <4>2, <4>7, <4>8
    <3>. QED  BY <3>1, <3>2
  <2>. QED  BY <1>10, <2>1 DEF WriteInput, DataType, queueVars
<1>11. ASSUME WriteControl PROVE D
  <2>0. control \in Clients
    BY <1>11 DEF WriteControl, At, PlaceType, WithControl, ProxyPcs
  <2>1. Record \in Records
    BY <1>c DEF Record, Records, DataType, ServerStates
  <2>2. Append(client[control].records, Record) \in Measured
    <3>1. client[control].records \in Measured
      BY <1>b, <2>0 DEF ClientStates
    <3>. QED  BY <2>1, <3>1, AppendProperties DEF Measured
  <2>3. client' \in [Clients -> ClientStates] /\ buf' \in {buf, <<>>}
    <3>1. CASE ~ControlOpen(control)
      BY <1>b, <1>11, <3>1 DEF WriteControl, SendInVain
    <3>2. CASE ControlOpen(control)
      <4>1. /\ client' = [client EXCEPT ![control].records =
                                   Append(client[control].records, Record)]
            /\ buf' = buf
        BY <1>b, <2>0, <1>11, <3>2 DEF WriteControl, AddRecord, ClientStates
      <4> DEFINE records == Append(client[control].records, Record)
                 r == [client[control] EXCEPT !.records = records]
      <4>2. client' = [client EXCEPT ![control] = r]
        BY <4>1
      <4> HIDE DEF records
      <4>3. records \in Measured
        BY <2>2 DEF records
      <4>4. r \in ClientStates
        BY <1>b, <2>0, <4>3 DEF ClientStates
      <4> HIDE DEF r
      <4>. QED  BY <1>b, <2>0, <4>1, <4>2, <4>4
    <3>. QED  BY <3>1, <3>2
  <2>4. buf' \in Stream /\ Len(buf') <= BUFSIZE
    BY <1>a, <2>3 DEF DataType
  <2>. QED  BY <1>11, <2>3, <2>4 DEF WriteControl, DataType, queueVars
<1>12. ASSUME Poll PROVE D
  BY <1>12 DEF Poll, DataType, queueVars
<1>13. ASSUME Close PROVE D
  <2>1. client' \in [Clients -> ClientStates]
    <3>1. \A c \in Clients :
             [client[c] EXCEPT !.hung = @ \/ c \in {control, input}]
                \in ClientStates
      BY <1>b DEF ClientStates
    <3>. QED  BY <1>13, <3>1 DEF Close
  <2>2. server' \in ServerStates
    BY <1>c, <1>13 DEF Close, ServerStates
  <2>3. server'.read <= Len(server'.sent)
    BY <1>c, <1>d, <1>13 DEF Close, ServerStates
  <2>. QED  BY <1>a, <1>13, <2>1, <2>2, <2>3 DEF Close, DataType, queueVars
<1>14. ASSUME TargetFails PROVE D
  BY <1>14 DEF TargetFails, DataType, proxyVars, queueVars
<1>15. ASSUME ServerAnswer PROVE D
  <2> DEFINE unit == <<server.session, Len(server.sent) + 1>>
  <2>1. server.sent \in Stream /\ unit \in Units
    BY <1>c, <1>d DEF ServerStates, Units
  <2>2. server' = [server EXCEPT !.sent = Append(server.sent, unit)]
    BY <1>15 DEF ServerAnswer
  <2> HIDE DEF unit
  <2>3. /\ Append(server.sent, unit) \in Stream
        /\ Len(Append(server.sent, unit)) = Len(server.sent) + 1
    BY <2>1, Streams
  <2>4. server' \in ServerStates
    BY <1>c, <2>2, <2>3 DEF ServerStates
  <2>5. server'.read <= Len(server'.sent)
    BY <1>c, <1>d, <2>2, <2>3 DEF ServerStates
  <2>. QED
    BY <1>15, <2>4, <2>5 DEF ServerAnswer, DataType, proxyVars, queueVars
<1>16. ASSUME ServerClose PROVE D
  <2>1. server' \in ServerStates
    BY <1>c, <1>16 DEF ServerClose, ServerStates
  <2>2. server'.read <= Len(server'.sent)
    BY <1>c, <1>d, <1>16 DEF ServerClose, ServerStates
  <2>. QED
    BY <1>16, <2>1, <2>2 DEF ServerClose, DataType, proxyVars, queueVars
<1>17. ASSUME NEW c \in Clients, ClientStep(c) PROVE D
  <2>1. /\ UNCHANGED <<buf, clock, server>>
        /\ controlQueue' \in {controlQueue, Append(controlQueue, c)}
        /\ inputQueue' \in {inputQueue, Append(inputQueue, c)}
    BY <1>17 DEF ClientStep, ConnectControl, SendLine, ConnectInput, SendUnit,
                 CloseControl, Leave, proxyVars, queueVars
  <2>2. controlQueue' \in Seq(Clients) /\ inputQueue' \in Seq(Clients)
    <3>1. controlQueue \in Seq(Clients) /\ inputQueue \in Seq(Clients)
      BY DEF DataType
    <3>2. /\ Append(controlQueue, c) \in Seq(Clients)
          /\ Append(inputQueue, c) \in Seq(Clients)
      BY <3>1, AppendProperties
    <3>. QED  BY <2>1, <3>1, <3>2
  <2>3. order' \in [control : Seq(Clients), input : Seq(Clients)]
    <3>1. order \in [control : Seq(Clients), input : Seq(Clients)]
      BY DEF DataType
    <3>2. /\ Append(order.control, c) \in Seq(Clients)
          /\ Append(order.input, c) \in Seq(Clients)
      BY <3>1, AppendProperties
    <3>3. \/ order' = order
          \/ order' = [order EXCEPT !.control = Append(@, c)]
          \/ order' = [order EXCEPT !.input = Append(@, c)]
      BY <1>17 DEF ClientStep, ConnectControl, SendLine, ConnectInput,
                   SendUnit, CloseControl, Leave
    <3>. QED  BY <3>1, <3>2, <3>3
  <2>4. client' \in [Clients -> ClientStates]
    <3>1. CASE SendUnit(c)
      <4> DEFINE unit == <<c, client[c].sent + 1>>
      <4>1. client[c].queue \in Stream /\ client[c].sent \in Nat
        BY <1>b DEF ClientStates
      <4>2. unit \in Units
        BY <4>1 DEF Units
      <4>3. client' = [client EXCEPT ![c].sent  = @ + 1,
                                     ![c].queue = Append(@, unit)]
        BY <3>1 DEF SendUnit
      <4> HIDE DEF unit
      <4>4. Append(client[c].queue, unit) \in Stream
        BY <4>1, <4>2, Streams
      <4>5. client[c].sent + 1 \in Nat
        BY <4>1
      <4> DEFINE r == [client[c] EXCEPT !.sent = @ + 1,
                                        !.queue = Append(@, unit)]
      <4>6. r \in ClientStates
        BY <1>b, <4>4, <4>5 DEF ClientStates
      <4>7. client' = [client EXCEPT ![c] = r]
        BY <4>3
      <4>. QED  BY <1>b, <4>6, <4>7
    <3>2. CASE SendLine(c)
      BY <1>b, <3>2 DEF SendLine, ClientStates
    <3>3. CASE ConnectControl(c)
      <4> DEFINE r == [client[c] EXCEPT !.place = "control"]
      <4>1. r \in ClientStates
        BY <1>b DEF ClientStates
      <4>2. client' = [client EXCEPT ![c] = r]
        BY <3>3 DEF ConnectControl
      <4> HIDE DEF r
      <4>. QED  BY <1>b, <4>1, <4>2
    <3>4. CASE ConnectInput(c)
      <4> DEFINE r == [client[c] EXCEPT !.place = "input"]
      <4>1. r \in ClientStates
        BY <1>b DEF ClientStates
      <4>2. client' = [client EXCEPT ![c] = r]
        BY <3>4 DEF ConnectInput
      <4> HIDE DEF r
      <4>. QED  BY <1>b, <4>1, <4>2
    <3>5. CASE CloseControl(c)
      <4> DEFINE r == [client[c] EXCEPT !.control = FALSE]
      <4>1. r \in ClientStates
        BY <1>b DEF ClientStates
      <4>2. client' = [client EXCEPT ![c] = r]
        BY <3>5 DEF CloseControl
      <4> HIDE DEF r
      <4>. QED  BY <1>b, <4>1, <4>2
    <3>6. CASE Leave(c)
      <4> DEFINE r == [client[c] EXCEPT !.place = "gone"]
      <4>1. r \in ClientStates
        BY <1>b DEF ClientStates
      <4>2. client' = [client EXCEPT ![c] = r]
        BY <3>6 DEF Leave
      <4> HIDE DEF r
      <4>. QED  BY <1>b, <4>1, <4>2
    <3>. QED  BY <1>17, <3>1, <3>2, <3>3, <3>4, <3>5, <3>6 DEF ClientStep
  <2>. QED  BY <2>1, <2>2, <2>3, <2>4 DEF DataType
<1>18. ASSUME UNCHANGED vars PROVE D
  BY <1>18 DEF vars, proxyVars, queueVars, DataType
<1>. QED
  BY <1>1, <1>2, <1>3, <1>4, <1>5, <1>6, <1>7, <1>8, <1>9, <1>10, <1>11,
     <1>12, <1>13, <1>14, <1>15, <1>16, <1>17, <1>18, NextCases

LEMMA Typed == Spec => [](PlaceType /\ DataType)
<1>1. Init => PlaceType /\ DataType
  BY PlaceInit, DataInit
<1>2. PlaceType /\ DataType /\ [Next]_vars => PlaceType' /\ DataType'
  BY PlaceStep, DataStep
<1>. QED  BY <1>1, <1>2, PTL DEF Spec

\* A session always has its two clients, a buffer holds at most what one read
\* returns, and the proxy never reads more than has been sent.
THEOREM TypeCorrect == Spec => []TypeOK
<1>1. PlaceType /\ DataType => TypeOK
  <2> SUFFICES ASSUME PlaceType, DataType PROVE TypeOK
    OBVIOUS
  <2>1. \A c \in Clients : client[c].lines \in 0 .. 2
    BY DEF DataType, ClientStates
  <2>2. InSession => pc \in WithInput /\ pc \in WithControl
    BY DEF InSession, WithControl, WithInput
  <2>. QED
    BY <2>1, <2>2 DEF PlaceType, DataType, TypeOK
<1>. QED  BY <1>1, Typed, PTL

-----------------------------------------------------------------------------
(***************************************************************************)
(* Who changes what.                                                       *)
(***************************************************************************)

\* Which step changes which part of a client.
ClientFrame(d) ==
    /\ \/ client'[d].place = client[d].place
       \/ ConnectControl(d) \/ ConnectInput(d) \/ Leave(d)
    /\ client'[d].control = client[d].control \/ CloseControl(d)
    /\ client'[d].sent = client[d].sent \/ SendUnit(d)
    /\ \/ client'[d].queue = client[d].queue
       \/ SendUnit(d) \/ (ForwardInput /\ d = input)
    /\ client'[d].got = client[d].got \/ (WriteInput /\ d = input)
    /\ client'[d].records = client[d].records \/ (WriteControl /\ d = control)

LEMMA ClientFrames ==
    ASSUME PlaceType, DataType, [Next]_vars, NEW d \in Clients
    PROVE  ClientFrame(d)
<1> DEFINE F == ClientFrame(d)
<1>a. client \in [Clients -> ClientStates] /\ client[d] \in ClientStates
  BY DEF DataType
<1>0. ASSUME client'[d] = client[d] PROVE F
  BY <1>0 DEF ClientFrame
<1>1. AcceptControl => F
  BY <1>0 DEF AcceptControl
<1>2. GetProxyTarget => F
  BY <1>0 DEF GetProxyTarget
<1>3. AcceptInput => F
  BY <1>0 DEF AcceptInput
<1>4. Connect => F
  BY <1>0 DEF Connect
<1>5. ASSUME ForwardInput PROVE F
  <2>1. PICK q : client' = [client EXCEPT ![input].queue = q]
    BY <1>5 DEF ForwardInput
  <2>2. CASE d # input
    BY <1>0, <1>a, <2>1, <2>2
  <2>3. CASE d = input
    <3>1. client'[d] = [client[d] EXCEPT !.queue = q]
      BY <1>a, <2>1, <2>3
    <3>2. /\ client'[d].place = client[d].place
          /\ client'[d].control = client[d].control
          /\ client'[d].sent = client[d].sent
          /\ client'[d].got = client[d].got
          /\ client'[d].records = client[d].records
      BY <1>a, <3>1 DEF ClientStates
    <3>. QED  BY <1>5, <2>3, <3>2 DEF ClientFrame
  <2>. QED  BY <2>2, <2>3
<1>6. WriteOutput => F
  BY <1>0 DEF WriteOutput
<1>7. StartTiming => F
  BY <1>0 DEF StartTiming
<1>8. Peek => F
  BY <1>0 DEF Peek
<1>9. ForwardOutput => F
  BY <1>0 DEF ForwardOutput
<1>10. ASSUME WriteInput PROVE F
  <2>1. CASE UNCHANGED client
    BY <1>0, <2>1
  <2>2. CASE ~UNCHANGED client
    <3>1. PICK g : client' = [client EXCEPT ![input].got = g]
      BY <1>10, <2>2 DEF WriteInput
    <3>2. CASE d # input
      BY <1>0, <1>a, <3>1, <3>2
    <3>3. CASE d = input
      <4>1. client'[d] = [client[d] EXCEPT !.got = g]
        BY <1>a, <3>1, <3>3
      <4>2. /\ client'[d].place = client[d].place
            /\ client'[d].control = client[d].control
            /\ client'[d].sent = client[d].sent
            /\ client'[d].queue = client[d].queue
            /\ client'[d].records = client[d].records
        BY <1>a, <4>1 DEF ClientStates
      <4>. QED  BY <1>10, <3>3, <4>2 DEF ClientFrame
    <3>. QED  BY <3>2, <3>3
  <2>. QED  BY <2>1, <2>2
<1>11. ASSUME WriteControl PROVE F
  <2>1. CASE UNCHANGED client
    BY <1>0, <2>1
  <2>2. CASE ~UNCHANGED client
    <3>1. PICK r : client' = [client EXCEPT ![control].records = r]
      BY <1>11, <2>2 DEF WriteControl
    <3>2. CASE d # control
      BY <1>0, <1>a, <3>1, <3>2
    <3>3. CASE d = control
      <4>1. client'[d] = [client[d] EXCEPT !.records = r]
        BY <1>a, <3>1, <3>3
      <4>2. /\ client'[d].place = client[d].place
            /\ client'[d].control = client[d].control
            /\ client'[d].sent = client[d].sent
            /\ client'[d].queue = client[d].queue
            /\ client'[d].got = client[d].got
        BY <1>a, <4>1 DEF ClientStates
      <4>. QED  BY <1>11, <3>3, <4>2 DEF ClientFrame
    <3>. QED  BY <3>2, <3>3
  <2>. QED  BY <2>1, <2>2
<1>12. Poll => F
  BY <1>0 DEF Poll
<1>13. ASSUME Close PROVE F
  <2>1. client'[d] = [client[d] EXCEPT !.hung = @ \/ d \in {control, input}]
    BY <1>13 DEF Close
  <2>. QED  BY <1>a, <2>1 DEF ClientFrame, ClientStates
<1>14. TargetFails => F
  BY <1>0 DEF TargetFails
<1>15. ServerAnswer => F
  BY <1>0 DEF ServerAnswer
<1>16. ServerClose => F
  BY <1>0 DEF ServerClose
<1>17. ASSUME NEW c \in Clients, ClientStep(c) PROVE F
  <2>0. CASE d # c
    <3>1. client'[d] = client[d]
      BY <1>17, <1>a, <2>0 DEF ClientStep, ConnectControl, SendLine,
           ConnectInput, SendUnit, CloseControl, Leave
    <3>. QED  BY <1>0, <3>1
  <2>1. CASE d = c
    <3>1. CASE ConnectControl(c)
      <4>1. client'[d] = [client[d] EXCEPT !.place = "control"]
        BY <1>a, <2>1, <3>1 DEF ConnectControl
      <4>. QED  BY <1>a, <2>1, <3>1, <4>1 DEF ClientFrame, ClientStates
    <3>2. CASE SendLine(c)
      <4>1. client'[d] = [client[d] EXCEPT !.lines = @ + 1]
        BY <1>a, <2>1, <3>2 DEF SendLine
      <4>. QED  BY <1>a, <4>1 DEF ClientFrame, ClientStates
    <3>3. CASE ConnectInput(c)
      <4>1. client'[d] = [client[d] EXCEPT !.place = "input"]
        BY <1>a, <2>1, <3>3 DEF ConnectInput
      <4>. QED  BY <1>a, <2>1, <3>3, <4>1 DEF ClientFrame, ClientStates
    <3>4. CASE SendUnit(c)
      <4>1. \E n, q : client'[d] = [client[d] EXCEPT !.sent = n, !.queue = q]
        BY <1>a, <2>1, <3>4 DEF SendUnit
      <4>. QED  BY <1>a, <2>1, <3>4, <4>1 DEF ClientFrame, ClientStates
    <3>5. CASE CloseControl(c)
      <4>1. client'[d] = [client[d] EXCEPT !.control = FALSE]
        BY <1>a, <2>1, <3>5 DEF CloseControl
      <4>. QED  BY <1>a, <2>1, <3>5, <4>1 DEF ClientFrame, ClientStates
    <3>6. CASE Leave(c)
      <4>1. client'[d] = [client[d] EXCEPT !.place = "gone"]
        BY <1>a, <2>1, <3>6 DEF Leave
      <4>. QED  BY <1>a, <2>1, <3>6, <4>1 DEF ClientFrame, ClientStates
    <3>. QED  BY <1>17, <3>1, <3>2, <3>3, <3>4, <3>5, <3>6 DEF ClientStep
  <2>. QED  BY <2>0, <2>1
<1>18. UNCHANGED vars => F
  BY <1>0 DEF vars
<1>. QED
  BY <1>1, <1>2, <1>3, <1>4, <1>5, <1>6, <1>7, <1>8, <1>9, <1>10, <1>11,
     <1>12, <1>13, <1>14, <1>15, <1>16, <1>17, <1>18, NextCases

\* Clients receive from the proxy alone.
LEMMA ClientReceives ==
    ASSUME DataType, NEW c \in Clients, ClientStep(c), NEW d \in Clients
    PROVE  /\ client'[d].got = client[d].got
           /\ client'[d].records = client[d].records
<1>a. client \in [Clients -> ClientStates] /\ client[d] \in ClientStates
  BY DEF DataType
<1>1. CASE d # c
  <2>1. client'[d] = client[d]
    BY <1>1, <1>a DEF ClientStep, ConnectControl, SendLine, ConnectInput,
                      SendUnit, CloseControl, Leave
  <2>. QED  BY <2>1
<1>2. CASE d = c
  <2>1. CASE ConnectControl(c) \/ ConnectInput(c) \/ Leave(c)
    <3>1. \E p : client'[d] = [client[d] EXCEPT !.place = p]
      BY <1>2, <1>a, <2>1 DEF ConnectControl, ConnectInput, Leave
    <3>. QED  BY <1>a, <3>1 DEF ClientStates
  <2>2. CASE SendLine(c)
    <3>1. \E n : client'[d] = [client[d] EXCEPT !.lines = n]
      BY <1>2, <1>a, <2>2 DEF SendLine
    <3>. QED  BY <1>a, <3>1 DEF ClientStates
  <2>3. CASE SendUnit(c)
    <3>1. \E n, q : client'[d] = [client[d] EXCEPT !.sent = n, !.queue = q]
      BY <1>2, <1>a, <2>3 DEF SendUnit
    <3>. QED  BY <1>a, <3>1 DEF ClientStates
  <2>4. CASE CloseControl(c)
    <3>1. \E b : client'[d] = [client[d] EXCEPT !.control = b]
      BY <1>2, <1>a, <2>4 DEF CloseControl
    <3>. QED  BY <1>a, <3>1 DEF ClientStates
  <2>. QED  BY <2>1, <2>2, <2>3, <2>4 DEF ClientStep
<1>. QED  BY <1>1, <1>2

\* Connections are made and never unmade, and those that are gone stay gone.
LEMMA MadeGrow ==
    ASSUME PlaceType, DataType, [Next]_vars
    PROVE  /\ Made \subseteq Made' /\ Paired \subseteq Paired'
           /\ \A d \in Clients : /\ InputOpen(d)' => InputOpen(d)
                                 /\ ControlOpen(d)' => ControlOpen(d)
<1>a. client \in [Clients -> ClientStates]
  BY DEF DataType
<1>1. ASSUME NEW d \in Clients
      PROVE  /\ d \in Made => d \in Made'
             /\ d \in Paired => d \in Paired'
             /\ InputOpen(d)' => InputOpen(d)
             /\ ControlOpen(d)' => ControlOpen(d)
  <2>1. \/ client'[d].place = client[d].place
        \/ client[d].place = "away" /\ client'[d].place = "control"
        \/ client[d].place = "control" /\ client'[d].place = "input"
        \/ /\ client[d].place \in {"control", "input"}
           /\ client'[d].place = "gone"
    <3>1. \/ client'[d].place = client[d].place
          \/ ConnectControl(d) \/ ConnectInput(d) \/ Leave(d)
      BY ClientFrames DEF ClientFrame
    <3>. QED
      BY <1>a, <3>1 DEF ConnectControl, ConnectInput, Leave, ClientStates
  <2>2. client'[d].control = client[d].control \/ client[d].control
    <3>1. client'[d].control = client[d].control \/ CloseControl(d)
      BY ClientFrames DEF ClientFrame
    <3>. QED  BY <3>1 DEF CloseControl
  <2>. QED  BY <2>1, <2>2 DEF Made, Paired, InputOpen, ControlOpen
<1>. QED  BY <1>1 DEF Made, Paired

-----------------------------------------------------------------------------
(***************************************************************************)
(* The listen queues.                                                      *)
(***************************************************************************)

LEMMA OnceMore ==
    ASSUME NEW queue \in Seq(Clients), NEW served, NEW made, NEW more,
           Once(queue, served, made), made \subseteq more
    PROVE  Once(queue, served, more) /\ Once(queue, NoClient, more)
BY SessionAssumption, ElementOfSeq DEF Once

LEMMA OnceHead ==
    ASSUME NEW queue \in Seq(Clients), queue # <<>>, NEW served, NEW made,
           Once(queue, served, made)
    PROVE  Once(Tail(queue), Head(queue), made)
<1>1. /\ Len(queue) \in Nat \ {0} /\ Head(queue) = queue[1]
      /\ Len(Tail(queue)) = Len(queue) - 1
      /\ \A i \in 1 .. Len(Tail(queue)) : Tail(queue)[i] = queue[i + 1]
  BY HeadTailProperties, EmptySeq
<1>. QED  BY <1>1 DEF Once

LEMMA OnceAppend ==
    ASSUME NEW queue \in Seq(Clients), NEW c \in Clients, NEW served,
           NEW made, NEW more, Once(queue, served, made), c \notin made,
           made \subseteq more, c \in more
    PROVE  Once(Append(queue, c), served, more)
<1>1. /\ Len(queue) \in Nat
      /\ Len(Append(queue, c)) = Len(queue) + 1
      /\ \A i \in 1 .. Len(queue) : Append(queue, c)[i] = queue[i]
      /\ Append(queue, c)[Len(queue) + 1] = c
  BY AppendProperties, LenProperties
<1>. QED  BY <1>1 DEF Once

LEMMA OnceInit == Init => OnceInv
<1> SUFFICES ASSUME Init PROVE OnceInv
  OBVIOUS
<1>1. Len(<<>>) = 0 /\ NoClient \notin Clients
  BY SessionAssumption
<1>2. /\ controlQueue = <<>> /\ inputQueue = <<>>
      /\ control = NoClient /\ input = NoClient
  BY DEF Init
<1>. QED  BY <1>1, <1>2 DEF OnceInv, Once

LEMMA OnceStep == PlaceType /\ DataType /\ OnceInv /\ [Next]_vars => OnceInv'
<1> SUFFICES ASSUME PlaceType, DataType, OnceInv, [Next]_vars PROVE OnceInv'
  OBVIOUS
<1>a. controlQueue \in Seq(Clients) /\ inputQueue \in Seq(Clients)
  BY DEF DataType
<1>b. Made \subseteq Made' /\ Paired \subseteq Paired'
  BY MadeGrow
<1>c. /\ Once(controlQueue, control, Made')
      /\ Once(controlQueue, NoClient, Made')
  BY <1>a, <1>b, OnceMore DEF OnceInv
<1>d. /\ Once(inputQueue, input, Paired')
      /\ Once(inputQueue, NoClient, Paired')
  BY <1>a, <1>b, OnceMore DEF OnceInv
<1> DEFINE O == OnceInv'
<1>0. ASSUME UNCHANGED <<control, input, controlQueue, inputQueue>> PROVE O
  BY <1>0, <1>c, <1>d DEF OnceInv
<1>1. ASSUME AcceptControl PROVE O
  <2>1. Once(controlQueue', control', Made')
    BY <1>1, <1>a, <1>c, OnceHead DEF AcceptControl, AcceptOn
  <2>. QED  BY <1>1, <1>d, <2>1 DEF AcceptControl, OnceInv
<1>2. GetProxyTarget => O
  BY <1>0 DEF GetProxyTarget, queueVars
<1>3. ASSUME AcceptInput PROVE O
  <2>1. Once(inputQueue', input', Paired')
    BY <1>3, <1>a, <1>d, OnceHead DEF AcceptInput, AcceptOn
  <2>. QED  BY <1>3, <1>c, <2>1 DEF AcceptInput, OnceInv
<1>4. Connect => O
  BY <1>0 DEF Connect, queueVars
<1>5. ForwardInput => O
  BY <1>0 DEF ForwardInput, queueVars
<1>6. WriteOutput => O
  BY <1>0 DEF WriteOutput, queueVars
<1>7. StartTiming => O
  BY <1>0 DEF StartTiming, queueVars
<1>8. Peek => O
  BY <1>0 DEF Peek, queueVars
<1>9. ForwardOutput => O
  BY <1>0 DEF ForwardOutput, queueVars
<1>10. WriteInput => O
  BY <1>0 DEF WriteInput, queueVars
<1>11. WriteControl => O
  BY <1>0 DEF WriteControl, queueVars
<1>12. Poll => O
  BY <1>0 DEF Poll, queueVars
<1>13. Close => O
  BY <1>c, <1>d DEF Close, queueVars, OnceInv
<1>14. TargetFails => O
  BY <1>0 DEF TargetFails, proxyVars, queueVars
<1>15. ServerAnswer => O
  BY <1>0 DEF ServerAnswer, proxyVars, queueVars
<1>16. ServerClose => O
  BY <1>0 DEF ServerClose, proxyVars, queueVars
<1>17. ASSUME NEW c \in Clients, ClientStep(c) PROVE O
  <2>1. CASE ConnectControl(c)
    <3>1. c \notin Made /\ c \in Made'
      BY <2>1 DEF ConnectControl, DataType, ClientStates, Made
    <3>2. Once(Append(controlQueue, c), control, Made')
      BY <1>a, <1>b, <3>1, OnceAppend DEF OnceInv
    <3>. QED
      BY <1>d, <2>1, <3>2 DEF ConnectControl, proxyVars, OnceInv
  <2>2. CASE ConnectInput(c)
    <3>1. c \notin Paired /\ c \in Paired'
      BY <2>2 DEF ConnectInput, DataType, ClientStates, Paired
    <3>2. Once(Append(inputQueue, c), input, Paired')
      BY <1>a, <1>b, <3>1, OnceAppend DEF OnceInv
    <3>. QED
      BY <1>c, <2>2, <3>2 DEF ConnectInput, proxyVars, OnceInv
  <2>3. CASE SendLine(c) \/ SendUnit(c) \/ CloseControl(c) \/ Leave(c)
    BY <1>0, <2>3 DEF SendLine, SendUnit, CloseControl, Leave, proxyVars,
                      queueVars
  <2>. QED  BY <1>17, <2>1, <2>2, <2>3 DEF ClientStep
<1>18. UNCHANGED vars => O
  BY <1>0 DEF vars, proxyVars, queueVars
<1>. QED
  BY <1>1, <1>2, <1>3, <1>4, <1>5, <1>6, <1>7, <1>8, <1>9, <1>10, <1>11,
     <1>12, <1>13, <1>14, <1>15, <1>16, <1>17, <1>18, NextCases

-----------------------------------------------------------------------------
(***************************************************************************)
(* Clients before their session.                                           *)
(***************************************************************************)

LEMMA SentGrows ==
    ASSUME NEW c \in Clients, NEW n \in Nat
    PROVE  /\ SentBy(c, n) \in Stream /\ Len(SentBy(c, n)) = n
           /\ SentBy(c, 0) = <<>>
           /\ Append(SentBy(c, n), <<c, n + 1>>) = SentBy(c, n + 1)
<1>1. \A m \in Nat : SentBy(c, m) \in Seq(Units) /\ Len(SentBy(c, m)) = m
  BY DEF SentBy, Units
<1>2. SentBy(c, 0) = <<>>
  BY <1>1, EmptySeq
<1> DEFINE a == Append(SentBy(c, n), <<c, n + 1>>)
           b == SentBy(c, n + 1)
<1>3. <<c, n + 1>> \in Units
  BY DEF Units
<1>4. /\ a \in Seq(Units) /\ Len(a) = n + 1
      /\ \A i \in 1 .. n : a[i] = SentBy(c, n)[i]
      /\ a[n + 1] = <<c, n + 1>>
  BY <1>1, <1>3, AppendProperties
<1>5. \A m \in Nat : \A i \in 1 .. m : SentBy(c, m)[i] = <<c, i>>
  BY DEF SentBy
<1>6. b \in Seq(Units) /\ Len(b) = n + 1
  BY <1>1
<1> HIDE DEF a
<1>7. ASSUME NEW i \in 1 .. n + 1 PROVE a[i] = b[i]
  <2>1. b[i] = <<c, i>>
    BY <1>5
  <2>2. CASE i \in 1 .. n
    BY <1>4, <1>5, <2>1, <2>2
  <2>3. CASE i = n + 1
    BY <1>4, <2>1, <2>3
  <2>. QED  BY <2>2, <2>3
<1> HIDE DEF b
<1>8. a = b
  BY <1>4, <1>6, <1>7, SeqEqual
<1>. QED  BY <1>1, <1>2, <1>8 DEF a, b, Stream

\* The clients of a session are past their time in the queues.
LEMMA Served ==
    ASSUME PlaceType, OnceInv
    PROVE  pc \in WithInput \ {"connect"} => /\ ~Unread(input)
                                             /\ ~Unwritten(control)
<1> SUFFICES ASSUME pc \in WithInput \ {"connect"}
             PROVE  ~Unread(input) /\ ~Unwritten(control)
  OBVIOUS
<1>1. control \in Clients /\ input \in Clients
  BY DEF PlaceType, WithInput
<1>2. control \in Made /\ input \in Paired
  BY <1>1 DEF OnceInv, Once
<1>3. ~In(control, controlQueue) /\ ~In(input, inputQueue)
  BY DEF OnceInv, Once, In
<1>4. pc \notin {"accept_input", "connect"}
  BY DEF WithInput
<1>. QED  BY <1>2, <1>3, <1>4 DEF Unread, Unwritten

LEMMA InTail ==
    ASSUME NEW queue \in Seq(Clients), queue # <<>>, NEW c
    PROVE  In(c, Tail(queue)) \/ c = Head(queue) => In(c, queue)
<1>1. /\ Len(queue) \in Nat \ {0} /\ Head(queue) = queue[1]
      /\ Len(Tail(queue)) = Len(queue) - 1
      /\ \A i \in 1 .. Len(Tail(queue)) : Tail(queue)[i] = queue[i + 1]
  BY HeadTailProperties, EmptySeq
<1>. QED  BY <1>1 DEF In

LEMMA InAppend ==
    ASSUME NEW queue \in Seq(Clients), NEW e \in Clients, NEW c,
           In(c, Append(queue, e))
    PROVE  In(c, queue) \/ c = e
<1>1. /\ Len(queue) \in Nat
      /\ Len(Append(queue, e)) = Len(queue) + 1
      /\ \A i \in 1 .. Len(queue) : Append(queue, e)[i] = queue[i]
      /\ Append(queue, e)[Len(queue) + 1] = e
  BY AppendProperties, LenProperties
<1>. QED  BY <1>1 DEF In

\* Who has been read once, or written to, was so before or is now.
LEMMA StaysFresh ==
    ASSUME PlaceType, DataType, OnceInv, [Next]_vars, NEW d \in Clients
    PROVE  (Unread(d)' => Unread(d)) /\ (Unwritten(d)' => Unwritten(d))
<1> DEFINE K == (Unread(d)' => Unread(d)) /\ (Unwritten(d)' => Unwritten(d))
<1>a. controlQueue \in Seq(Clients) /\ inputQueue \in Seq(Clients)
  BY DEF DataType
<1>b. /\ d \notin Made' => d \notin Made
      /\ d \notin Paired' => d \notin Paired
  BY MadeGrow
<1>c. NoClient \notin Clients
  BY SessionAssumption
<1>0. ASSUME UNCHANGED <<controlQueue, inputQueue>>,
             UNCHANGED <<pc, control, input>> \/
                \/ pc' \in WithInput \ {"connect"} /\ control' = control
                   /\ input' = input
                \/ pc' = "accept_control" /\ control' = NoClient
                   /\ input' = NoClient
      PROVE  K
  <2>1. /\ In(d, controlQueue)' => In(d, controlQueue)
        /\ In(d, inputQueue)' => In(d, inputQueue)
    BY <1>0 DEF In
  <2>2. /\ pc' \in WithInput \ {"connect"} =>
             pc' \notin {"accept_input", "connect"}
        /\ pc' = "accept_control" => pc' \notin {"accept_input", "connect"}
    BY DEF WithInput
  <2>. QED  BY <1>0, <1>b, <1>c, <2>1, <2>2 DEF Unread, Unwritten
<1>1. ASSUME AcceptControl PROVE K
  <2>1. /\ pc = "accept_control" /\ controlQueue # <<>>
        /\ control' = Head(controlQueue)
        /\ controlQueue' = Tail(controlQueue)
        /\ pc' \in {"get_target", "accept_control"}
        /\ UNCHANGED <<inputQueue, input>>
    BY <1>1 DEF AcceptControl, AcceptOn, At
  <2>2. Unwritten(d)' => Unwritten(d)
    <3>1. In(d, controlQueue') \/ d = control' => In(d, controlQueue)
      BY <1>a, <2>1, InTail
    <3>2. In(d, controlQueue)' <=> In(d, controlQueue')
      BY DEF In
    <3>. QED  BY <1>b, <3>1, <3>2 DEF Unwritten
  <2>3. In(d, inputQueue)' <=> In(d, inputQueue)
    BY <2>1 DEF In
  <2>. QED  BY <1>b, <2>1, <2>2, <2>3 DEF Unread
<1>2. ASSUME GetProxyTarget PROVE K
  <2>1. /\ pc = "get_target" /\ pc' = "accept_input" /\ input = NoClient
        /\ UNCHANGED <<control, input, controlQueue, inputQueue>>
    BY <1>2 DEF GetProxyTarget, At, queueVars, PlaceType
  <2>2. /\ In(d, controlQueue)' <=> In(d, controlQueue)
        /\ In(d, inputQueue)' <=> In(d, inputQueue)
    BY <2>1 DEF In
  <2>3. pc \notin WithInput
    BY <2>1 DEF WithInput
  <2>. QED  BY <1>b, <1>c, <2>1, <2>2, <2>3 DEF Unread, Unwritten
<1>3. ASSUME AcceptInput PROVE K
  <2>1. /\ pc = "accept_input" /\ inputQueue # <<>>
        /\ input' = Head(inputQueue)
        /\ inputQueue' = Tail(inputQueue)
        /\ UNCHANGED <<controlQueue, control>>
    BY <1>3 DEF AcceptInput, AcceptOn, At
  <2>2. Unread(d)' => Unread(d)
    <3>1. In(d, inputQueue') \/ d = input' => In(d, inputQueue)
      BY <1>a, <2>1, InTail
    <3>2. In(d, inputQueue)' <=> In(d, inputQueue')
      BY DEF In
    <3>. QED  BY <1>b, <3>1, <3>2 DEF Unread
  <2>3. In(d, controlQueue)' <=> In(d, controlQueue)
    BY <2>1 DEF In
  <2>4. pc \notin WithInput
    BY <2>1 DEF WithInput
  <2>. QED  BY <1>b, <2>1, <2>2, <2>3, <2>4 DEF Unwritten
<1> USE DEF At, ProxyPcs, WithControl, WithInput
<1>4. Connect => K
  BY <1>0 DEF Connect, queueVars
<1>5. ASSUME ForwardInput PROVE K
  <2>1. pc' \in {"write_output", "forward_output", "poll"}
    BY <1>5 DEF ForwardInput
  <2>. QED  BY <1>0, <1>5, <2>1 DEF ForwardInput, queueVars
<1>6. ASSUME WriteOutput PROVE K
  <2>1. pc' \in {"write_output", "start_timing", "poll"}
    BY <1>6 DEF WriteOutput, SendInVain
  <2>. QED  BY <1>0, <1>6, <2>1 DEF WriteOutput, queueVars
<1>7. StartTiming => K
  BY <1>0 DEF StartTiming, queueVars
<1>8. Peek => K
  BY <1>0 DEF Peek, queueVars
<1>9. ForwardOutput => K
  BY <1>0 DEF ForwardOutput, queueVars
<1>10. ASSUME WriteInput PROVE K
  <2>1. pc' \in {"write_input", "write_control", "poll"}
    BY <1>10 DEF WriteInput, SendInVain
  <2>. QED  BY <1>0, <1>10, <2>1 DEF WriteInput, queueVars
<1>11. ASSUME WriteControl PROVE K
  <2>1. pc' \in {"write_control", "poll"}
    BY <1>11 DEF WriteControl, SendInVain
  <2>. QED  BY <1>0, <1>11, <2>1 DEF WriteControl, queueVars
<1>12. Poll => K
  BY <1>0 DEF Poll, queueVars
<1>13. Close => K
  BY <1>0 DEF Close, queueVars
<1>14. TargetFails => K
  BY <1>0 DEF TargetFails, proxyVars, queueVars
<1>15. ServerAnswer => K
  BY <1>0 DEF ServerAnswer, proxyVars, queueVars
<1>16. ServerClose => K
  BY <1>0 DEF ServerClose, proxyVars, queueVars
<1>17. ASSUME NEW c \in Clients, ClientStep(c) PROVE K
  <2>1. UNCHANGED <<pc, control, input>>
    BY <1>17 DEF ClientStep, ConnectControl, SendLine, ConnectInput, SendUnit,
                 CloseControl, Leave, proxyVars
  <2>2. In(d, controlQueue)' => In(d, controlQueue) \/ d \notin Made
    <3>1. CASE ConnectControl(c)
      <4>1. c \notin Made /\ controlQueue' = Append(controlQueue, c)
        BY <3>1 DEF ConnectControl, Made
      <4>2. In(d, controlQueue)' <=> In(d, controlQueue')
        BY DEF In
      <4>. QED  BY <1>a, <4>1, <4>2, InAppend
    <3>2. CASE ~ConnectControl(c)
      BY <1>17, <3>2 DEF ClientStep, SendLine, ConnectInput, SendUnit,
                         CloseControl, Leave, queueVars, In
    <3>. QED  BY <3>1, <3>2
  <2>3. In(d, inputQueue)' => In(d, inputQueue) \/ d \notin Paired
    <3>1. CASE ConnectInput(c)
      <4>1. c \notin Paired /\ inputQueue' = Append(inputQueue, c)
        BY <3>1 DEF ConnectInput, Paired
      <4>2. In(d, inputQueue)' <=> In(d, inputQueue')
        BY DEF In
      <4>. QED  BY <1>a, <4>1, <4>2, InAppend
    <3>2. CASE ~ConnectInput(c)
      BY <1>17, <3>2 DEF ClientStep, SendLine, ConnectControl, SendUnit,
                         CloseControl, Leave, queueVars, In
    <3>. QED  BY <3>1, <3>2
  <2>. QED  BY <1>b, <2>1, <2>2, <2>3 DEF Unread, Unwritten
<1>18. UNCHANGED vars => K
  BY <1>0 DEF vars, proxyVars, queueVars
<1>. QED
  BY <1>1, <1>2, <1>3, <1>4, <1>5, <1>6, <1>7, <1>8, <1>9, <1>10, <1>11,
     <1>12, <1>13, <1>14, <1>15, <1>16, <1>17, <1>18, NextCases

LEMMA FreshInit == Init => FreshInv
<1> SUFFICES ASSUME Init, NEW c \in Clients
             PROVE  /\ client[c].queue = SentBy(c, client[c].sent)
                    /\ client[c].got = <<>> /\ client[c].records = <<>>
  BY DEF FreshInv
<1>1. client[c] = NewClient
  BY DEF Init
<1>2. SentBy(c, 0) = <<>>
  BY SentGrows
<1>. QED  BY <1>1, <1>2 DEF NewClient

LEMMA FreshStep ==
    PlaceType /\ DataType /\ OnceInv /\ FreshInv /\ [Next]_vars => FreshInv'
<1> SUFFICES ASSUME PlaceType, DataType, OnceInv, FreshInv, [Next]_vars,
                    NEW d \in Clients
             PROVE  /\ Unread(d)' =>
                         /\ client'[d].queue = SentBy(d, client'[d].sent)
                         /\ client'[d].got = <<>>
                    /\ Unwritten(d)' => client'[d].records = <<>>
  BY DEF FreshInv
<1>a. /\ client \in [Clients -> ClientStates] /\ client[d] \in ClientStates
  BY DEF DataType
<1>b. ClientFrame(d)
  BY ClientFrames
<1>1. ASSUME Unread(d)'
      PROVE  /\ client'[d].queue = SentBy(d, client'[d].sent)
             /\ client'[d].got = <<>>
  <2>1. /\ Unread(d) /\ client[d].queue = SentBy(d, client[d].sent)
        /\ client[d].got = <<>>
    BY <1>1, StaysFresh DEF FreshInv
  <2>2. ~(ForwardInput /\ d = input) /\ ~(WriteInput /\ d = input)
    <3>1. ForwardInput \/ WriteInput => pc \in WithInput \ {"connect"}
      BY DEF ForwardInput, WriteInput, At, ProxyPcs, WithControl, WithInput
    <3>. QED  BY <2>1, <3>1, Served
  <2>3. CASE SendUnit(d)
    <3>1. /\ client'[d].sent = client[d].sent + 1
          /\ client'[d].queue =
               Append(client[d].queue, <<d, client[d].sent + 1>>)
      BY <1>a, <2>3 DEF SendUnit, ClientStates
    <3>2. client[d].sent \in Nat
      BY <1>a DEF ClientStates
    <3>. QED  BY <1>b, <2>1, <2>2, <3>1, <3>2, SentGrows DEF ClientFrame
  <2>4. CASE ~SendUnit(d)
    BY <1>b, <2>1, <2>2, <2>4 DEF ClientFrame
  <2>. QED  BY <2>3, <2>4
<1>2. ASSUME Unwritten(d)' PROVE client'[d].records = <<>>
  <2>1. Unwritten(d) /\ client[d].records = <<>>
    BY <1>2, StaysFresh DEF FreshInv
  <2>2. WriteControl => pc \in WithInput \ {"connect"}
    BY DEF WriteControl, At, ProxyPcs, WithControl, WithInput
  <2>3. ~(WriteControl /\ d = control)
    BY <2>1, <2>2, Served
  <2>. QED  BY <1>b, <2>1, <2>3 DEF ClientFrame
<1>. QED  BY <1>1, <1>2

-----------------------------------------------------------------------------
(***************************************************************************)
(* The streams.                                                            *)
(***************************************************************************)

Outgoing == IF pc = "write_output" THEN buf ELSE <<>>
Incoming == IF pc = "write_input" THEN buf ELSE <<>>

UpIntact ==
    server.open => server.got \o Outgoing \o client[input].queue
                     = SentBy(input, client[input].sent)
DownIntact ==
    InputOpen(input) => client[input].got \o Incoming \o Arrived = server.sent

StreamsInv == InSession => UpIntact /\ DownIntact

\* All but one of the ways into a session are from within.
LEMMA SessionStep ==
    ASSUME PlaceType, [Next]_vars, InSession'
    PROVE  Connect \/ (InSession /\ input' = input /\ control' = control)
<1> DEFINE C == Connect \/ (InSession /\ input' = input /\ control' = control)
<1> USE DEF InSession, At, ProxyPcs
<1>1. AcceptControl => C
  BY DEF AcceptControl, AcceptOn
<1>2. GetProxyTarget => C
  BY DEF GetProxyTarget
<1>3. AcceptInput => C
  BY DEF AcceptInput, AcceptOn
<1>5. ForwardInput => C
  BY DEF ForwardInput
<1>6. WriteOutput => C
  BY DEF WriteOutput
<1>7. StartTiming => C
  BY DEF StartTiming
<1>8. Peek => C
  BY DEF Peek
<1>9. ForwardOutput => C
  BY DEF ForwardOutput
<1>10. WriteInput => C
  BY DEF WriteInput
<1>11. WriteControl => C
  BY DEF WriteControl
<1>12. Poll => C
  BY DEF Poll
<1>13. Close => C
  BY DEF Close
<1>14. TargetFails => C
  BY DEF TargetFails, proxyVars
<1>15. ServerAnswer => C
  BY DEF ServerAnswer, proxyVars
<1>16. ServerClose => C
  BY DEF ServerClose, proxyVars
<1>17. ASSUME NEW c \in Clients, ClientStep(c) PROVE C
  BY <1>17 DEF ClientStep, ConnectControl, SendLine, ConnectInput, SendUnit,
               CloseControl, Leave, proxyVars
<1>18. UNCHANGED vars => C
  BY DEF vars, proxyVars
<1>. QED
  BY <1>1, <1>2, <1>3, <1>5, <1>6, <1>7, <1>8, <1>9, <1>10, <1>11, <1>12,
     <1>13, <1>14, <1>15, <1>16, <1>17, <1>18, NextCases

\* Towards the server: in the server's hands, in the buffer, in the queue.
LEMMA UpStep ==
    ASSUME PlaceType, DataType, DataType', OnceInv, FreshInv, StreamsInv,
           [Next]_vars, InSession'
    PROVE  UpIntact'
<1> DEFINE U == UpIntact'
<1>a. Connect \/ (InSession /\ input' = input)
  BY SessionStep
<1>b. input \in Clients /\ client[input] \in ClientStates
      /\ client[input].queue \in Stream /\ client[input].sent \in Nat
  <2>1. input \in Clients
    BY <1>a DEF Connect, At, InSession, PlaceType, ProxyPcs, WithControl,
                WithInput
  <2>. QED  BY <2>1 DEF DataType, ClientStates
<1>c. server.got \in Stream /\ buf \in Stream /\ Outgoing \in Stream
  BY Streams DEF DataType, ServerStates, Outgoing
<1>d. Connect \/ UpIntact
  BY <1>a DEF StreamsInv
<1>e. ClientFrame(input)
  BY <1>b, ClientFrames
<1>0. ASSUME InSession, input' = input,
             server'.got = server.got, server'.open => server.open,
             Outgoing' = Outgoing, client'[input].queue = client[input].queue,
             client'[input].sent = client[input].sent
      PROVE  U
  <2>1. UpIntact
    BY <1>0 DEF StreamsInv
  <2>. QED  BY <1>0, <2>1 DEF UpIntact
<1>00. ASSUME UNCHANGED <<server, client, input>>, Outgoing' = Outgoing,
              InSession
       PROVE  U
  BY <1>0, <1>00
<1> USE DEF At
<1>1. ASSUME AcceptControl PROVE U
  BY <1>1, <1>a DEF AcceptControl, InSession, Connect
<1>2. ASSUME GetProxyTarget PROVE U
  BY <1>2, <1>a DEF GetProxyTarget, InSession, Connect
<1>3. ASSUME AcceptInput PROVE U
  BY <1>3, <1>a DEF AcceptInput, InSession, Connect
<1>4. ASSUME Connect PROVE U
  <2>1. /\ server'.got = <<>> /\ Outgoing' = <<>> /\ input' = input
        /\ client' = client /\ pc = "connect"
    BY <1>4 DEF Connect, NewServer, Outgoing
  <2>2. client[input].queue = SentBy(input, client[input].sent)
    BY <1>b, <2>1 DEF FreshInv, Unread
  <2>3. <<>> \o <<>> \o client[input].queue = client[input].queue
    BY <1>b, ConcatEmptySeq DEF Stream
  <2>. QED  BY <2>1, <2>2, <2>3 DEF UpIntact
<1>5. ASSUME ForwardInput PROVE U
  <2> DEFINE queue == client[input].queue
             n     == Min({BUFSIZE, Len(queue)})
             rest  == SubSeq(queue, n + 1, Len(queue))
  <2>0. /\ pc = "forward_input" /\ InSession /\ UpIntact
        /\ UNCHANGED <<input, server>>
    BY <1>5, <1>d DEF ForwardInput, Connect, InSession, ProxyPcs
  <2>1. /\ buf' = SubSeq(queue, 1, n)
        /\ client' = [client EXCEPT ![input].queue = rest]
        /\ (pc' = "write_output" /\ n > 0) \/ (pc' # "write_output" /\ n = 0)
    BY <1>5 DEF ForwardInput, HasRead
  <2>2. /\ n \in 0 .. Len(queue)
        /\ SubSeq(queue, 1, n) \in Stream /\ rest \in Stream
        /\ Len(SubSeq(queue, 1, n)) = n
    BY <1>b, ReadPieces
  <2> HIDE DEF n
  <2>3. Outgoing' = SubSeq(queue, 1, n)
    BY <2>1, <2>2, Streams DEF Outgoing
  <2>4. client'[input].queue = rest /\ client'[input].sent = client[input].sent
    BY <1>b, <2>1 DEF DataType, ClientStates
  <2>5. server.got \o SubSeq(queue, 1, n) \o rest = server.got \o queue
    BY <1>b, <1>c, <2>2, PassOn DEF Stream
  <2>6. Outgoing = <<>> /\ server.got \o <<>> = server.got
    BY <1>c, <2>0, ConcatEmptySeq DEF Outgoing, Stream
  <2>. QED  BY <2>0, <2>3, <2>4, <2>5, <2>6 DEF UpIntact
<1>6. ASSUME WriteOutput PROVE U
  <2>0. /\ pc = "write_output" /\ InSession /\ UpIntact
        /\ UNCHANGED <<input, client>>
    BY <1>6, <1>d DEF WriteOutput, Connect, InSession, ProxyPcs
  <2>1. CASE ~server.open
    <3>1. server' = server
      BY <1>6, <2>1 DEF WriteOutput
    <3>. QED  BY <2>1, <3>1 DEF UpIntact
  <2>2. CASE server.open
    <3>1. PICK n \in Taken :
             /\ server' = [server EXCEPT !.got = @ \o SubSeq(buf, 1, n)]
             /\ buf' = Rest(n)
             /\ pc' = IF n < Len(buf) THEN pc ELSE "start_timing"
      BY <1>6, <2>2 DEF WriteOutput
    <3>2. /\ n \in 0 .. Len(buf) /\ Rest(n) \in Stream
          /\ Len(Rest(n)) = Len(buf) - n
      BY TakenPieces
    <3>3. Outgoing' = Rest(n)
      BY <1>c, <2>0, <3>1, <3>2, Streams DEF Outgoing
    <3>4. server'.got = server.got \o SubSeq(buf, 1, n)
      BY <3>1 DEF DataType, ServerStates
    <3>5. server.got \o SubSeq(buf, 1, n) \o Rest(n) = server.got \o buf
      BY <1>c, <3>2, PassOn DEF Rest, Stream
    <3>. QED
      BY <2>0, <2>2, <3>3, <3>4, <3>5 DEF UpIntact, Outgoing
  <2>. QED  BY <2>1, <2>2
<1>7. ASSUME StartTiming PROVE U
  BY <1>7, <1>00 DEF StartTiming, Outgoing, InSession, ProxyPcs
<1>8. ASSUME Peek PROVE U
  BY <1>8, <1>00 DEF Peek, Outgoing, InSession, ProxyPcs
<1>9. ASSUME ForwardOutput PROVE U
  <2>1. server'.got = server.got /\ server'.open = server.open
    BY <1>9 DEF ForwardOutput, DataType, ServerStates
  <2>2. Outgoing' = Outgoing /\ InSession /\ UNCHANGED <<client, input>>
    BY <1>9 DEF ForwardOutput, Outgoing, InSession, ProxyPcs
  <2>. QED  BY <1>0, <2>1, <2>2
<1>10. ASSUME WriteInput PROVE U
  <2>1. Outgoing' = Outgoing /\ InSession /\ UNCHANGED <<server, input>>
    BY <1>10 DEF WriteInput, SendInVain, Outgoing, InSession, ProxyPcs
  <2>2. \/ \E g : client' = [client EXCEPT ![input].got = g]
        \/ client' = client
    BY <1>10 DEF WriteInput
  <2>3. /\ client'[input].queue = client[input].queue
        /\ client'[input].sent = client[input].sent
    BY <1>b, <2>2 DEF DataType, ClientStates
  <2>. QED  BY <1>0, <2>1, <2>3
<1>11. ASSUME WriteControl PROVE U
  <2>1. Outgoing' = Outgoing /\ InSession /\ UNCHANGED <<server, input>>
    BY <1>11 DEF WriteControl, SendInVain, Outgoing, InSession, ProxyPcs
  <2>2. \/ \E r : client'[input] = [client[input] EXCEPT !.records = r]
        \/ client'[input] = client[input]
    BY <1>11, <1>b DEF WriteControl, DataType
  <2>3. /\ client'[input].queue = client[input].queue
        /\ client'[input].sent = client[input].sent
    BY <1>b, <2>2 DEF ClientStates
  <2>. QED  BY <1>0, <2>1, <2>3
<1>12. ASSUME Poll PROVE U
  BY <1>12, <1>00 DEF Poll, Outgoing, InSession, ProxyPcs
<1>13. ASSUME Close PROVE U
  BY <1>13 DEF Close, InSession, ProxyPcs
<1>14. ASSUME TargetFails PROVE U
  BY <1>14, <1>00 DEF TargetFails, proxyVars, Outgoing, InSession
<1>15. ASSUME ServerAnswer PROVE U
  <2>1. server'.got = server.got /\ server'.open = server.open
    BY <1>15 DEF ServerAnswer, DataType, ServerStates
  <2>2. Outgoing' = Outgoing /\ InSession /\ UNCHANGED <<client, input>>
    BY <1>15 DEF ServerAnswer, proxyVars, Outgoing, InSession
  <2>. QED  BY <1>0, <2>1, <2>2
<1>16. ASSUME ServerClose PROVE U
  <2>1. ~server'.open
    BY <1>16 DEF ServerClose, DataType, ServerStates
  <2>. QED  BY <2>1 DEF UpIntact
<1>17. ASSUME NEW c \in Clients, ClientStep(c) PROVE U
  <2>1. /\ UNCHANGED <<proxyVars, server>> /\ Outgoing' = Outgoing
        /\ InSession /\ input' = input
    BY <1>17 DEF ClientStep, ConnectControl, SendLine, ConnectInput, SendUnit,
                 CloseControl, Leave, proxyVars, Outgoing, InSession
  <2>2. CASE SendUnit(input)
    <3> DEFINE unit == <<input, client[input].sent + 1>>
               before == server.got \o Outgoing
    <3>1. /\ client'[input].sent = client[input].sent + 1
          /\ client'[input].queue = Append(client[input].queue, unit)
      BY <1>b, <2>2 DEF SendUnit, DataType, ClientStates
    <3>2. Append(SentBy(input, client[input].sent), unit)
            = SentBy(input, client[input].sent + 1)
      BY <1>b, SentGrows
    <3>3. unit \in Units
      BY <1>b DEF Units
    <3> HIDE DEF unit
    <3>4. before \in Stream
      BY <1>c, Streams
    <3> HIDE DEF before
    <3>5. before \o Append(client[input].queue, unit)
            = Append(before \o client[input].queue, unit)
      <4>1. client[input].queue \in Stream
        BY <1>b
      <4>. QED  BY <4>1, <3>3, <3>4, AppendToConcat DEF Stream
    <3>6. server.open => before \o client[input].queue
                           = SentBy(input, client[input].sent)
      BY <2>1 DEF StreamsInv, UpIntact, before
    <3>7. server' = server
      BY <2>1
    <3>. QED
      BY <2>1, <3>1, <3>2, <3>5, <3>6, <3>7 DEF UpIntact, before
  <2>3. CASE ~SendUnit(input)
    <3>1. ~ForwardInput
      BY <2>1 DEF ForwardInput, proxyVars
    <3>. QED  BY <1>0, <1>e, <2>1, <2>3, <3>1 DEF ClientFrame
  <2>. QED  BY <2>2, <2>3
<1>18. ASSUME UNCHANGED vars PROVE U
  <2>1. Outgoing' = Outgoing /\ UNCHANGED <<server, client, input>>
        /\ InSession
    BY <1>18 DEF vars, proxyVars, Outgoing, InSession
  <2>. QED  BY <1>00, <2>1
<1>. QED
  BY <1>1, <1>2, <1>3, <1>4, <1>5, <1>6, <1>7, <1>8, <1>9, <1>10, <1>11,
     <1>12, <1>13, <1>14, <1>15, <1>16, <1>17, <1>18, NextCases

\* Towards the client: in the client's hands, in the buffer, not yet read.
LEMMA DownStep ==
    ASSUME PlaceType, DataType, DataType', OnceInv, FreshInv, StreamsInv,
           [Next]_vars, InSession'
    PROVE  DownIntact'
<1> DEFINE D == DownIntact'
<1>a. Connect \/ (InSession /\ input' = input)
  BY SessionStep
<1>b. input \in Clients /\ client[input] \in ClientStates
      /\ client[input].got \in Stream
  <2>1. input \in Clients
    BY <1>a DEF Connect, At, InSession, PlaceType, ProxyPcs, WithControl,
                WithInput
  <2>. QED  BY <2>1 DEF DataType, ClientStates
<1>c. server.sent \in Stream /\ buf \in Stream /\ Incoming \in Stream
      /\ Arrived \in Stream
  BY Streams, ArrivedType DEF DataType, ServerStates, Incoming
<1>d. Connect \/ DownIntact
  BY <1>a DEF StreamsInv
<1>f. input' = input => (InputOpen(input)' => InputOpen(input))
  BY <1>b, MadeGrow DEF InputOpen
<1>0. ASSUME InSession, input' = input,
             server'.sent = server.sent, Arrived' = Arrived,
             Incoming' = Incoming, client'[input].got = client[input].got
      PROVE  D
  <2>1. DownIntact
    BY <1>0 DEF StreamsInv
  <2>. QED  BY <1>0, <1>f, <2>1 DEF DownIntact
<1>00. ASSUME UNCHANGED <<server, input>>, Incoming' = Incoming, InSession,
              client'[input].got = client[input].got
       PROVE  D
  <2>1. Arrived' = Arrived
    BY <1>00 DEF Arrived
  <2>. QED  BY <1>0, <1>00, <2>1
<1> USE DEF At
<1>1. ASSUME AcceptControl PROVE D
  BY <1>1, <1>a DEF AcceptControl, InSession, Connect
<1>2. ASSUME GetProxyTarget PROVE D
  BY <1>2, <1>a DEF GetProxyTarget, InSession, Connect
<1>3. ASSUME AcceptInput PROVE D
  BY <1>3, <1>a DEF AcceptInput, InSession, Connect
<1>4. ASSUME Connect PROVE D
  <2>1. /\ server'.sent = <<>> /\ server'.read = 0 /\ Incoming' = <<>>
        /\ input' = input /\ client' = client /\ pc = "connect"
    BY <1>4 DEF Connect, NewServer, Incoming
  <2>2. client[input].got = <<>>
    BY <1>b, <2>1 DEF FreshInv, Unread
  <2>3. Arrived' = SubSeq(<<>>, 1, 0)
    BY <2>1 DEF Arrived
  <2>4. SubSeq(<<>>, 1, 0) = <<>>
    BY SubSeqEmpty
  <2>5. <<>> \o <<>> \o <<>> = <<>>
    BY <1>b, ConcatEmptySeq, Streams DEF Stream
  <2>. QED  BY <2>1, <2>2, <2>3, <2>4, <2>5 DEF DownIntact
<1>5. ASSUME ForwardInput PROVE D
  <2>1. Incoming' = Incoming /\ InSession /\ UNCHANGED <<server, input>>
    BY <1>5 DEF ForwardInput, Incoming, InSession, ProxyPcs
  <2>2. \E q : client' = [client EXCEPT ![input].queue = q]
    BY <1>5 DEF ForwardInput
  <2>3. client'[input].got = client[input].got
    BY <1>b, <2>2 DEF DataType, ClientStates
  <2>. QED  BY <1>00, <2>1, <2>3
<1>6. ASSUME WriteOutput PROVE D
  <2>1. Incoming' = Incoming /\ InSession /\ UNCHANGED <<client, input>>
    BY <1>6 DEF WriteOutput, SendInVain, Incoming, InSession, ProxyPcs
  <2>2. server'.sent = server.sent /\ server'.read = server.read
    BY <1>6 DEF WriteOutput, DataType, ServerStates
  <2>3. Arrived' = Arrived
    BY <2>2 DEF Arrived
  <2>. QED  BY <1>0, <2>1, <2>2, <2>3
<1>7. ASSUME StartTiming PROVE D
  BY <1>7, <1>00 DEF StartTiming, Incoming, InSession, ProxyPcs
<1>8. ASSUME Peek PROVE D
  BY <1>8, <1>00 DEF Peek, Incoming, InSession, ProxyPcs
<1>9. ASSUME ForwardOutput PROVE D
  <2> DEFINE n == Min({BUFSIZE, Len(Arrived)})
  <2>0. /\ pc = "forward_output" /\ InSession /\ DownIntact
        /\ UNCHANGED <<input, client>>
    BY <1>9, <1>d DEF ForwardOutput, Connect, InSession, ProxyPcs
  <2>1. /\ buf' = SubSeq(Arrived, 1, n)
        /\ server' = [server EXCEPT !.read = @ + n]
        /\ \/ pc' = "write_input" /\ Arrived # <<>>
           \/ pc' = "poll" /\ Arrived = <<>>
    BY <1>9 DEF ForwardOutput
  <2>2. /\ n \in 0 .. Len(Arrived) /\ (n > 0 <=> Arrived # <<>>)
        /\ SubSeq(Arrived, 1, n) \in Stream /\ Len(SubSeq(Arrived, 1, n)) = n
    BY <1>c, ReadPieces
  <2> HIDE DEF n
  <2>3. Incoming' = SubSeq(Arrived, 1, n)
    BY <2>1, <2>2, Streams DEF Incoming
  <2>4. server'.sent = server.sent /\ server'.read = server.read + n
    BY <2>1 DEF DataType, ServerStates
  <2>5. Arrived' = SubSeq(Arrived, n + 1, Len(Arrived))
    <3>1. /\ server.read \in 0 .. Len(server.sent)
          /\ n \in 0 .. Len(server.sent) - server.read
      BY <2>2, ArrivedType
    <3>2. SubSeq(Arrived, n + 1, Len(Arrived))
            = SubSeq(server.sent, server.read + n + 1, Len(server.sent))
      BY <1>c, <3>1, PieceOfPiece DEF Arrived, Stream
    <3>. QED  BY <2>4, <3>2 DEF Arrived
  <2>6. client[input].got \o SubSeq(Arrived, 1, n)
           \o SubSeq(Arrived, n + 1, Len(Arrived))
          = client[input].got \o Arrived
    BY <1>b, <1>c, <2>2, PassOn DEF Stream
  <2>7. Incoming = <<>> /\ client[input].got \o <<>> = client[input].got
    BY <1>b, <2>0, ConcatEmptySeq DEF Incoming, Stream
  <2>8. InputOpen(input)' <=> InputOpen(input)
    BY <2>0 DEF InputOpen
  <2>. QED
    BY <2>0, <2>3, <2>4, <2>5, <2>6, <2>7, <2>8 DEF DownIntact
<1>10. ASSUME WriteInput PROVE D
  <2>0. /\ pc = "write_input" /\ InSession /\ DownIntact
        /\ UNCHANGED <<input, server>>
    BY <1>10, <1>d DEF WriteInput, Connect, InSession, ProxyPcs
  <2>1. CASE ~InputOpen(input)
    BY <1>f, <2>0, <2>1 DEF DownIntact
  <2>2. CASE InputOpen(input)
    <3>1. PICK n \in Taken :
             /\ client' = [client EXCEPT ![input].got = @ \o SubSeq(buf, 1, n)]
             /\ buf' = Rest(n)
             /\ pc' = IF n < Len(buf) THEN pc ELSE "write_control"
      BY <1>10, <2>2 DEF WriteInput
    <3>2. /\ n \in 0 .. Len(buf) /\ Rest(n) \in Stream
          /\ Len(Rest(n)) = Len(buf) - n
      BY TakenPieces
    <3>3. Incoming' = Rest(n)
      BY <1>c, <2>0, <3>1, <3>2, Streams DEF Incoming
    <3>4. client'[input].got = client[input].got \o SubSeq(buf, 1, n)
      BY <1>b, <3>1 DEF DataType, ClientStates
    <3>5. client[input].got \o SubSeq(buf, 1, n) \o Rest(n)
            = client[input].got \o buf
      BY <1>b, <1>c, <3>2, PassOn DEF Rest, Stream
    <3>6. Arrived' = Arrived /\ server'.sent = server.sent
      BY <2>0 DEF Arrived
    <3>. QED
      BY <2>0, <2>2, <3>3, <3>4, <3>5, <3>6 DEF DownIntact, Incoming
  <2>. QED  BY <2>1, <2>2
<1>11. ASSUME WriteControl PROVE D
  <2>1. Incoming' = Incoming /\ InSession /\ UNCHANGED <<server, input>>
    BY <1>11 DEF WriteControl, SendInVain, Incoming, InSession, ProxyPcs
  <2>2. \/ \E r : client'[input] = [client[input] EXCEPT !.records = r]
        \/ client'[input] = client[input]
    BY <1>11, <1>b DEF WriteControl, DataType
  <2>3. client'[input].got = client[input].got
    BY <1>b, <2>2 DEF ClientStates
  <2>. QED  BY <1>00, <2>1, <2>3
<1>12. ASSUME Poll PROVE D
  BY <1>12, <1>00 DEF Poll, Incoming, InSession, ProxyPcs
<1>13. ASSUME Close PROVE D
  BY <1>13 DEF Close, InSession, ProxyPcs
<1>14. ASSUME TargetFails PROVE D
  BY <1>14, <1>00 DEF TargetFails, proxyVars, Incoming, InSession
<1>15. ASSUME ServerAnswer PROVE D
  <2> DEFINE unit == <<server.session, Len(server.sent) + 1>>
             before == client[input].got \o Incoming
  <2>0. Incoming' = Incoming /\ InSession /\ UNCHANGED <<client, input>>
    BY <1>15 DEF ServerAnswer, proxyVars, Incoming, InSession
  <2>1. unit \in Units /\ server.read \in 0 .. Len(server.sent)
    <3>1. server.session \in Nat /\ Len(server.sent) \in Nat
      BY <1>c, Streams DEF DataType, ServerStates
    <3>2. unit \in Units
      BY <3>1 DEF Units
    <3>. QED  BY <3>2, ArrivedType
  <2>2. server'.sent = Append(server.sent, unit) /\ server'.read = server.read
    <3>1. server \in ServerStates
      BY <1>c DEF DataType
    <3>2. server' = [server EXCEPT !.sent = Append(server.sent, unit)]
      BY <1>15 DEF ServerAnswer
    <3> HIDE DEF unit
    <3>. QED  BY <3>1, <3>2 DEF ServerStates
  <2> HIDE DEF unit
  <2>3. Arrived' = Append(Arrived, unit)
    BY <1>c, <2>1, <2>2, PieceOfAppend DEF Arrived, Stream
  <2>4. before \in Stream
    BY <1>b, <1>c, Streams
  <2> HIDE DEF before
  <2>5. before \o Append(Arrived, unit) = Append(before \o Arrived, unit)
    BY <1>c, <2>1, <2>4, AppendToConcat DEF Stream
  <2>6. InputOpen(input) => before \o Arrived = server.sent
    BY <2>0 DEF StreamsInv, DownIntact, before
  <2>. QED
    BY <1>f, <2>0, <2>2, <2>3, <2>5, <2>6 DEF DownIntact, before
<1>16. ASSUME ServerClose PROVE D
  <2>1. server'.sent = server.sent /\ server'.read = server.read
    BY <1>16 DEF ServerClose, DataType, ServerStates
  <2>2. Incoming' = Incoming /\ InSession /\ UNCHANGED <<client, input>>
    BY <1>16 DEF ServerClose, proxyVars, Incoming, InSession
  <2>3. Arrived' = Arrived
    BY <2>1 DEF Arrived
  <2>. QED  BY <1>0, <2>1, <2>2, <2>3
<1>17. ASSUME NEW c \in Clients, ClientStep(c) PROVE D
  <2>1. /\ UNCHANGED <<proxyVars, server>> /\ Incoming' = Incoming
        /\ InSession /\ input' = input
    BY <1>17 DEF ClientStep, ConnectControl, SendLine, ConnectInput, SendUnit,
                 CloseControl, Leave, proxyVars, Incoming, InSession
  <2>2. client'[input].got = client[input].got
    BY <1>17, <1>b, ClientReceives
  <2>. QED  BY <1>00, <2>1, <2>2
<1>18. ASSUME UNCHANGED vars PROVE D
  <2>1. Incoming' = Incoming /\ UNCHANGED <<server, client, input>>
        /\ InSession
    BY <1>18 DEF vars, proxyVars, Incoming, InSession
  <2>. QED  BY <1>00, <2>1
<1>. QED
  BY <1>1, <1>2, <1>3, <1>4, <1>5, <1>6, <1>7, <1>8, <1>9, <1>10, <1>11,
     <1>12, <1>13, <1>14, <1>15, <1>16, <1>17, <1>18, NextCases

\* What the proof of the streams carries from state to state.
Carried == PlaceType /\ DataType /\ OnceInv /\ FreshInv

LEMMA CarriedAlways == Spec => []Carried
<1>1. Init => Carried
  BY PlaceInit, DataInit, OnceInit, FreshInit DEF Carried
<1>2. Carried /\ [Next]_vars => Carried'
  BY PlaceStep, DataStep, OnceStep, FreshStep DEF Carried
<1>. QED  BY <1>1, <1>2, PTL DEF Spec

LEMMA StreamsStep ==
    Carried /\ Carried' /\ StreamsInv /\ [Next]_vars => StreamsInv'
BY UpStep, DownStep DEF Carried, StreamsInv

\* Nothing is lost, doubled, reordered or taken over from another session in
\* either direction, whatever the clients and servers do, for reads and sends
\* of any size.
THEOREM StreamsKept == Spec => []StreamsIntact
<1>1. Init => StreamsInv
  BY DEF Init, StreamsInv, InSession
<1>2. StreamsInv => StreamsIntact
  BY DEF StreamsInv, StreamsIntact, UpIntact, DownIntact, Outgoing, Incoming,
         SentBy
<1>. QED  BY <1>1, <1>2, CarriedAlways, StreamsStep, PTL DEF Spec

-----------------------------------------------------------------------------
(***************************************************************************)
(* Which connections a session pairs.                                      *)
(***************************************************************************)

\* How many connections have been taken out of a listen queue.
Accepted(made, queue) == Len(made) - Len(queue)

Suffix(made, queue) ==
    /\ Len(queue) <= Len(made)
    /\ \A i \in 1 .. Len(queue) : queue[i] = made[Accepted(made, queue) + i]

\* A socket has the client that was accepted last.
Latest(made, queue, served) ==
    /\ Suffix(made, queue)
    /\ served \in Clients => /\ Accepted(made, queue) >= 1
                             /\ served = made[Accepted(made, queue)]

\* How many more control connections than data connections are accepted.
Ahead == IF pc \in {"get_target", "accept_input"} THEN 1 ELSE 0

PairInv ==
    /\ Latest(order.control, controlQueue, control)
    /\ Latest(order.input, inputQueue, input)
    /\ fate = "running" \/ InSession =>
          Accepted(order.control, controlQueue)
             = Accepted(order.input, inputQueue) + Ahead

LEMMA LatestHead ==
    ASSUME NEW made \in Seq(Clients), NEW queue \in Seq(Clients), queue # <<>>,
           NEW served, Latest(made, queue, served)
    PROVE  /\ Latest(made, Tail(queue), Head(queue))
           /\ Accepted(made, Tail(queue)) = Accepted(made, queue) + 1
<1>1. /\ Len(queue) \in Nat \ {0} /\ Head(queue) = queue[1]
      /\ Len(Tail(queue)) = Len(queue) - 1
      /\ \A i \in 1 .. Len(Tail(queue)) : Tail(queue)[i] = queue[i + 1]
      /\ Len(made) \in Nat
  BY HeadTailProperties, EmptySeq, LenProperties
<1>2. Accepted(made, Tail(queue)) = Accepted(made, queue) + 1
  BY <1>1 DEF Accepted
<1>3. ASSUME NEW i \in 1 .. Len(Tail(queue))
      PROVE  Tail(queue)[i] = made[Accepted(made, Tail(queue)) + i]
  <2>1. i + 1 \in 1 .. Len(queue)
    BY <1>1
  <2>2. queue[i + 1] = made[Accepted(made, queue) + (i + 1)]
    BY <2>1 DEF Latest, Suffix
  <2>3. Accepted(made, queue) + (i + 1) = Accepted(made, Tail(queue)) + i
    BY <1>1, <1>2 DEF Accepted
  <2>. QED  BY <1>1, <2>2, <2>3
<1>4. Suffix(made, Tail(queue))
  BY <1>1, <1>3 DEF Latest, Suffix
<1>5. /\ Head(queue) = made[Accepted(made, queue) + 1]
      /\ Accepted(made, queue) >= 0
  BY <1>1 DEF Latest, Suffix, Accepted
<1>6. Accepted(made, Tail(queue)) >= 1
  BY <1>1, <1>2, <1>5 DEF Accepted
<1>. QED  BY <1>2, <1>4, <1>5, <1>6 DEF Latest

LEMMA LatestAppend ==
    ASSUME NEW made \in Seq(Clients), NEW queue \in Seq(Clients),
           NEW c \in Clients, NEW served, Latest(made, queue, served)
    PROVE  /\ Latest(Append(made, c), Append(queue, c), served)
           /\ Accepted(Append(made, c), Append(queue, c))
                = Accepted(made, queue)
<1> DEFINE m == Append(made, c)
           q == Append(queue, c)
<1>1. /\ Len(queue) \in Nat /\ Len(q) = Len(queue) + 1
      /\ \A i \in 1 .. Len(queue) : q[i] = queue[i]
      /\ q[Len(queue) + 1] = c
  BY AppendProperties, LenProperties
<1>2. /\ Len(made) \in Nat /\ Len(m) = Len(made) + 1
      /\ \A i \in 1 .. Len(made) : m[i] = made[i]
      /\ m[Len(made) + 1] = c
  BY AppendProperties, LenProperties
<1> HIDE DEF m, q
<1> DEFINE k == Accepted(made, queue)
<1>3. Accepted(m, q) = k /\ k = Len(made) - Len(queue) /\ k \in Nat
  BY <1>1, <1>2 DEF Accepted, Latest, Suffix
<1>4. ASSUME NEW i \in 1 .. Len(q) PROVE q[i] = m[k + i]
  <2>1. CASE i \in 1 .. Len(queue)
    <3>1. queue[i] = made[k + i] /\ k + i \in 1 .. Len(made)
      BY <1>1, <1>2, <1>3, <2>1 DEF Latest, Suffix
    <3>. QED  BY <1>1, <1>2, <2>1, <3>1
  <2>2. CASE i = Len(queue) + 1
    <3>1. k + i = Len(made) + 1
      BY <1>1, <1>2, <1>3, <2>2
    <3>. QED  BY <1>1, <1>2, <2>2, <3>1
  <2>. QED  BY <1>1, <2>1, <2>2
<1>5. Suffix(m, q)
  <2>1. Len(q) <= Len(m)
    BY <1>1, <1>2 DEF Latest, Suffix
  <2>. QED  BY <1>3, <1>4, <2>1 DEF Suffix
<1>6. served \in Clients => k >= 1 /\ served = m[k]
  <2>1. k >= 1 => k \in 1 .. Len(made)
    BY <1>1, <1>2, <1>3
  <2>. QED  BY <1>2, <2>1 DEF Latest
<1>. QED  BY <1>3, <1>5, <1>6 DEF Latest, m, q

LEMMA PairInit == Init => PairInv
<1> SUFFICES ASSUME Init PROVE PairInv
  OBVIOUS
<1>1. Len(<<>>) = 0 /\ NoClient \notin Clients
  BY SessionAssumption
<1>2. /\ controlQueue = <<>> /\ inputQueue = <<>>
      /\ order.control = <<>> /\ order.input = <<>>
      /\ control = NoClient /\ input = NoClient /\ pc = "accept_control"
  BY DEF Init
<1>. QED
  BY <1>1, <1>2 DEF PairInv, Latest, Suffix, Accepted, Ahead

LEMMA PairStep == PlaceType /\ DataType /\ PairInv /\ [Next]_vars => PairInv'
<1> SUFFICES ASSUME PlaceType, DataType, PairInv, [Next]_vars PROVE PairInv'
  OBVIOUS
<1> DEFINE P == PairInv'
<1>a. /\ controlQueue \in Seq(Clients) /\ inputQueue \in Seq(Clients)
      /\ order.control \in Seq(Clients) /\ order.input \in Seq(Clients)
  BY DEF DataType
<1>b. /\ Accepted(order.control, controlQueue) \in Int
      /\ Accepted(order.input, inputQueue) \in Int
  BY <1>a, LenProperties DEF Accepted
<1>c. NoClient \notin Clients
  BY SessionAssumption
\* Steps that accept nothing.
<1>0. ASSUME UNCHANGED <<controlQueue, inputQueue, order>>,
             UNCHANGED <<control, input>> \/
                (control' = NoClient /\ input' = NoClient),
             Ahead' = Ahead, fate' = "running" \/ InSession' =>
                                fate = "running" \/ InSession
      PROVE  P
  <2>1. /\ Latest(order.control, controlQueue, NoClient)
        /\ Latest(order.input, inputQueue, NoClient)
    BY <1>c DEF PairInv, Latest
  <2>. QED  BY <1>0, <2>1 DEF PairInv
<1> USE DEF At
<1>1. ASSUME AcceptControl PROVE P
  <2>1. /\ pc = "accept_control" /\ fate = "running" /\ controlQueue # <<>>
        /\ control' = Head(controlQueue)
        /\ controlQueue' = Tail(controlQueue)
        /\ pc' = "get_target" \/ (pc' = pc /\ fate' # "running")
        /\ UNCHANGED <<inputQueue, input, order>>
    BY <1>1 DEF AcceptControl, AcceptOn
  <2>2. /\ Latest(order.control, controlQueue', control')
        /\ Accepted(order.control, controlQueue')
             = Accepted(order.control, controlQueue) + 1
    BY <1>a, <2>1, LatestHead DEF PairInv
  <2>3. Ahead = 0 /\ (pc' = "get_target" => Ahead' = 1)
    BY <2>1 DEF Ahead
  <2>4. fate' = "running" \/ InSession' => pc' = "get_target"
    BY <2>1 DEF InSession
  <2>. QED  BY <1>b, <2>1, <2>2, <2>3, <2>4 DEF PairInv
<1>2. GetProxyTarget => P
  BY <1>0 DEF GetProxyTarget, queueVars, Ahead
<1>3. ASSUME AcceptInput PROVE P
  <2>1. /\ pc = "accept_input" /\ fate = "running" /\ inputQueue # <<>>
        /\ input' = Head(inputQueue)
        /\ inputQueue' = Tail(inputQueue)
        /\ pc' = "connect" \/ (pc' = pc /\ fate' # "running")
        /\ UNCHANGED <<controlQueue, control, order>>
    BY <1>3 DEF AcceptInput, AcceptOn
  <2>2. /\ Latest(order.input, inputQueue', input')
        /\ Accepted(order.input, inputQueue')
             = Accepted(order.input, inputQueue) + 1
    BY <1>a, <2>1, LatestHead DEF PairInv
  <2>3. Ahead = 1 /\ (pc' = "connect" => Ahead' = 0)
    BY <2>1 DEF Ahead
  <2>4. fate' = "running" \/ InSession' => pc' = "connect"
    BY <2>1 DEF InSession
  <2>. QED  BY <1>b, <2>1, <2>2, <2>3, <2>4 DEF PairInv
<1> USE DEF Ahead
<1>4. Connect => P
  BY <1>0 DEF Connect, queueVars
<1>5. ASSUME ForwardInput PROVE P
  <2>1. pc' \in {"write_output", "forward_output", "poll"}
    BY <1>5 DEF ForwardInput
  <2>. QED  BY <1>0, <1>5, <2>1 DEF ForwardInput, queueVars
<1>6. ASSUME WriteOutput PROVE P
  <2>1. pc' \in {"write_output", "start_timing", "poll"}
    BY <1>6 DEF WriteOutput, SendInVain
  <2>. QED  BY <1>0, <1>6, <2>1 DEF WriteOutput, queueVars
<1>7. StartTiming => P
  BY <1>0 DEF StartTiming, queueVars
<1>8. Peek => P
  BY <1>0 DEF Peek, queueVars
<1>9. ForwardOutput => P
  BY <1>0 DEF ForwardOutput, queueVars
<1>10. ASSUME WriteInput PROVE P
  <2>1. pc' \in {"write_input", "write_control", "poll"}
    BY <1>10 DEF WriteInput, SendInVain
  <2>. QED  BY <1>0, <1>10, <2>1 DEF WriteInput, queueVars
<1>11. ASSUME WriteControl PROVE P
  <2>1. pc' \in {"write_control", "poll"}
    BY <1>11 DEF WriteControl, SendInVain
  <2>. QED  BY <1>0, <1>11, <2>1 DEF WriteControl, queueVars
<1>12. Poll => P
  BY <1>0 DEF Poll, queueVars
<1>13. Close => P
  BY <1>0 DEF Close, queueVars
<1>14. TargetFails => P
  BY <1>0 DEF TargetFails, proxyVars, queueVars, InSession
<1>15. ServerAnswer => P
  BY <1>0 DEF ServerAnswer, proxyVars, queueVars, InSession
<1>16. ServerClose => P
  BY <1>0 DEF ServerClose, proxyVars, queueVars, InSession
<1>17. ASSUME NEW c \in Clients, ClientStep(c) PROVE P
  <2>1. UNCHANGED <<pc, control, input, fate>> /\ (InSession' <=> InSession)
        /\ Ahead' = Ahead
    BY <1>17 DEF ClientStep, ConnectControl, SendLine, ConnectInput, SendUnit,
                 CloseControl, Leave, proxyVars, InSession
  <2>2. CASE ConnectControl(c)
    <3>1. /\ controlQueue' = Append(controlQueue, c)
          /\ inputQueue' = inputQueue
          /\ order'.control = Append(order.control, c)
          /\ order'.input = order.input
      BY <2>2 DEF ConnectControl, DataType
    <3>2. /\ Latest(order'.control, controlQueue', control)
          /\ Accepted(order'.control, controlQueue')
               = Accepted(order.control, controlQueue)
      BY <1>17, <1>a, <3>1, LatestAppend DEF PairInv
    <3>. QED  BY <2>1, <3>1, <3>2 DEF PairInv
  <2>3. CASE ConnectInput(c)
    <3>1. /\ inputQueue' = Append(inputQueue, c)
          /\ controlQueue' = controlQueue
          /\ order'.input = Append(order.input, c)
          /\ order'.control = order.control
      BY <2>3 DEF ConnectInput, DataType
    <3>2. /\ Latest(order'.input, inputQueue', input)
          /\ Accepted(order'.input, inputQueue')
               = Accepted(order.input, inputQueue)
      BY <1>17, <1>a, <3>1, LatestAppend DEF PairInv
    <3>. QED  BY <2>1, <3>1, <3>2 DEF PairInv
  <2>4. CASE SendLine(c) \/ SendUnit(c) \/ CloseControl(c) \/ Leave(c)
    BY <1>0, <2>1, <2>4 DEF SendLine, SendUnit, CloseControl, Leave, proxyVars,
                            queueVars
  <2>. QED  BY <1>17, <2>2, <2>3, <2>4 DEF ClientStep
<1>18. UNCHANGED vars => P
  BY <1>0 DEF vars, proxyVars, queueVars, InSession
<1>. QED
  BY <1>1, <1>2, <1>3, <1>4, <1>5, <1>6, <1>7, <1>8, <1>9, <1>10, <1>11,
     <1>12, <1>13, <1>14, <1>15, <1>16, <1>17, <1>18, NextCases

\* When clients make their data connections in the order of their control
\* connections, every session serves one client.
THEOREM ClientsPaired == Spec => []OrderPairs
<1>1. PlaceType /\ DataType /\ PairInv => OrderPairs
  <2> SUFFICES ASSUME PlaceType, DataType, PairInv, InSession,
                      \A i \in DOMAIN order.input :
                         order.input[i] = order.control[i]
               PROVE  control = input
    BY DEF OrderPairs
  <2>1. control \in Clients /\ input \in Clients /\ Ahead = 0
    BY DEF PlaceType, InSession, WithControl, WithInput, ProxyPcs, Ahead
  <2> DEFINE k == Accepted(order.input, inputQueue)
  <2>2. /\ Len(order.input) \in Nat /\ Len(inputQueue) \in Nat
        /\ DOMAIN order.input = 1 .. Len(order.input)
    BY LenProperties DEF DataType
  <2>3. k \in DOMAIN order.input
    BY <2>1, <2>2 DEF PairInv, Latest, Suffix, Accepted
  <2>4. Accepted(order.control, controlQueue) = k
    BY <2>1, <2>2 DEF PairInv, Accepted
  <2>. QED  BY <2>1, <2>3, <2>4 DEF PairInv, Latest
<1>2. Init => PlaceType /\ DataType /\ PairInv
  BY PlaceInit, DataInit, PairInit
<1>3. PlaceType /\ DataType /\ PairInv /\ [Next]_vars
      => PlaceType' /\ DataType' /\ PairInv'
  BY PlaceStep, DataStep, PairStep
<1>. QED  BY <1>1, <1>2, <1>3, PTL DEF Spec

=============================================================================

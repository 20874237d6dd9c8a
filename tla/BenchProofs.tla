----------------------------- MODULE BenchProofs -----------------------------
(***************************************************************************)
(* Proofs about Bench, for any number of requests, incidents and retries:  *)
(* its types, and which stamps a sample can have.                          *)
(***************************************************************************)
EXTENDS Bench, SequenceTheorems, TLAPS

\* The disjuncts of the actions that have several.
WriteSends    == Send(Request) /\ UNCHANGED <<benchVars, serverVars>>
WriteSearches == Search("read") /\ UNCHANGED <<benchVars, serverVars>>
WriteFails    == SearchFails /\ UNCHANGED <<benchVars, serverVars>>
PacketLeaves  ==
    /\ \E units \in Packets :
          Transmit(units) /\ arrived' = arrived \o units
    /\ UNCHANGED <<benchVars, server, read_buf, classes, reset>>
PacketArrives == ~ClientGone /\ Arrive /\ UNCHANGED <<benchVars, serverVars>>

LEMMA NextCases ==
    ASSUME [Next]_vars, NEW G,
           Setup => G, BeginWrite => G, WriteSends => G, WriteSearches => G,
           WriteFails => G, ReadAnswer => G, Measure => G, Finish => G,
           ServerRead => G, ServerWrite => G, ServerKilled => G,
           PacketLeaves => G, PacketArrives => G, Reset => G,
           SendAgain => G, UNCHANGED vars => G
    PROVE  G
BY DEF Next, Client, Write, Server, Deliver, WriteSends, WriteSearches,
       WriteFails, PacketLeaves, PacketArrives

-----------------------------------------------------------------------------
(***************************************************************************)
(* Sequences.                                                              *)
(***************************************************************************)

LEMMA Piece ==
    ASSUME NEW S, NEW s \in Seq(S), NEW n \in 0 .. Len(s)
    PROVE  /\ SubSeq(s, 1, n) \in Seq(S) /\ Len(SubSeq(s, 1, n)) = n
           /\ \A i \in 1 .. n : SubSeq(s, 1, n)[i] = s[i]
           /\ SubSeq(s, n + 1, Len(s)) \in Seq(S)
           /\ Len(SubSeq(s, n + 1, Len(s))) = Len(s) - n
           /\ \A i \in 1 .. Len(s) - n :
                 SubSeq(s, n + 1, Len(s))[i] = s[n + i]
<1>1. Len(s) \in Nat /\ \A i \in 1 .. Len(s) : s[i] \in S
  BY ElementOfSeq, LenProperties
<1>2. /\ SubSeq(s, 1, n) \in Seq(S)
      /\ Len(SubSeq(s, 1, n)) = IF 1 <= n THEN n - 1 + 1 ELSE 0
      /\ \A i \in 1 .. n - 1 + 1 : SubSeq(s, 1, n)[i] = s[1 + i - 1]
  BY <1>1, SubSeqProperties
<1>3. /\ SubSeq(s, n + 1, Len(s)) \in Seq(S)
      /\ Len(SubSeq(s, n + 1, Len(s)))
           = IF n + 1 <= Len(s) THEN Len(s) - (n + 1) + 1 ELSE 0
      /\ \A i \in 1 .. Len(s) - (n + 1) + 1 :
            SubSeq(s, n + 1, Len(s))[i] = s[n + 1 + i - 1]
  <2>1. \A i \in n + 1 .. Len(s) : s[i] \in S
    BY <1>1
  <2>. QED  BY <1>1, <2>1, SubSeqProperties
<1>4. \A i \in 1 .. n : SubSeq(s, 1, n)[i] = s[i]
  BY <1>2
<1>5. \A i \in 1 .. Len(s) - n : SubSeq(s, n + 1, Len(s))[i] = s[n + i]
  BY <1>1, <1>3
<1>. QED  BY <1>1, <1>2, <1>3, <1>4, <1>5

LEMMA WholePiece ==
    ASSUME NEW S, NEW s \in Seq(S)
    PROVE  SubSeq(s, 1, Len(s)) = s
<1>1. Len(s) \in Nat /\ Len(s) \in 0 .. Len(s)
  BY LenProperties
<1>2. /\ SubSeq(s, 1, Len(s)) \in Seq(S)
      /\ Len(SubSeq(s, 1, Len(s))) = Len(s)
      /\ \A i \in 1 .. Len(s) : SubSeq(s, 1, Len(s))[i] = s[i]
  BY <1>1, Piece
<1>. QED  BY <1>2, SeqEqual

LEMMA WithoutTwo ==
    ASSUME NEW S, NEW s \in Seq(S), 2 <= Len(s)
    PROVE  /\ Len(SubSeq(s, 2 + 1, Len(s))) = Len(s) - 2
           /\ \A i \in 1 .. Len(s) - 2 :
                 SubSeq(s, 2 + 1, Len(s))[i] = s[2 + i]
<1>1. 2 \in 0 .. Len(s)
  BY LenProperties
<1>2. \A n \in 0 .. Len(s) :
         /\ Len(SubSeq(s, n + 1, Len(s))) = Len(s) - n
         /\ \A i \in 1 .. Len(s) - n :
               SubSeq(s, n + 1, Len(s))[i] = s[n + i]
  BY Piece
<1>. QED  BY <1>1, <1>2, Zenon

LEMMA HeadTail ==
    ASSUME NEW S, NEW s \in Seq(S), s # <<>>
    PROVE  /\ Len(s) \in Nat \ {0} /\ Head(s) = s[1] /\ Head(s) \in S
           /\ Tail(s) \in Seq(S) /\ Len(Tail(s)) = Len(s) - 1
           /\ \A i \in 1 .. Len(s) - 1 : Tail(s)[i] = s[i + 1]
BY HeadTailProperties, EmptySeq, LenProperties

-----------------------------------------------------------------------------
(***************************************************************************)
(* The types.                                                              *)
(***************************************************************************)

Chunks == Seq(Nat) \ {<<>>}
Stamps == [of : Nat, at : Nat]
Sends  == [of : Nat, units : Chunks]
Stored == [of : Nat, units : Chunks, at : Nat]
Parts  == [of : Nat, size : 1 .. BUFSIZE, acks : Nat]
Filed  == [tx : Nat, rx : Nat, size : Int]

Places == {"connect", "device", "socket", "request", "send", "search",
           "read", "measure", "done", "terminated"}

ClientType ==
    /\ incidents \in [kinds : SUBSET Incidents, left : Nat]
    /\ pc \in Places
    /\ retries \in 0 .. MAX_RETRIES
    /\ calls \in Seq(Chunks)
    /\ calls = <<>> => pc \notin {"send", "search"}
    /\ calls # <<>> => pc \in {"send", "search", "terminated"}
    /\ tx_timestamp \in Stamps /\ rx_timestamp \in Stamps
    /\ samples \in Seq(Filed) /\ read_size \in Int
    /\ Len(samples) <= Requests
    /\ pc \in {"send", "search", "read", "measure"} =>
          Len(samples) < Requests

WireType ==
    /\ outgoing \in Seq(Sends) /\ errqueue \in Seq(Stored)
    /\ last # <<>> => last[1] \in Stored
    /\ incoming \in Seq(Parts) /\ received \in Seq(Stamps)
    /\ now \in Nat

ServerType ==
    /\ server \in {"read", "write", "closed", "killed"}
    /\ arrived \in Seq(Nat) /\ read_buf \in Nat /\ classes \in Seq(Nat)
    /\ reset => ClientGone
    /\ server \in {"closed", "killed"} => ClientGone

DataType == ClientType /\ WireType /\ ServerType

\* An incident is one of Incidents.
LEMMA IncidentType ==
    ASSUME ClientType, NEW kind \in Incidents, Incident(kind)
    PROVE  /\ incidents' \in [kinds : SUBSET Incidents, left : Nat]
           /\ incidents'.kinds = incidents.kinds \cup {kind}
BY DEF Incident, ClientType

LEMMA OrdinaryType ==
    ASSUME ClientType, NEW kind \in Incidents, NEW usual,
           Ordinary(usual, kind)
    PROVE  incidents' \in [kinds : SUBSET Incidents, left : Nat]
BY IncidentType DEF Ordinary, ClientType

LEMMA StampType ==
    /\ \A of, at \in Nat : Stamp(of, at) \in Stamps
    /\ \A of, at : Stamp(of, at).of = of /\ Stamp(of, at).at = at
    /\ \A s \in Stamps : CellOf(s) \in Stamps
BY DEF Stamp, Stamps, CellOf

LEMMA ChunkType ==
    ASSUME NEW chunk \in Chunks
    PROVE  /\ Len(chunk) \in Nat \ {0}
           /\ \A n \in 1 .. Len(chunk) : SubSeq(chunk, 1, n) \in Chunks
           /\ \A n \in 1 .. Len(chunk) - 1 :
                 SubSeq(chunk, n + 1, Len(chunk)) \in Chunks
<1>1. chunk \in Seq(Nat) /\ Len(chunk) \in Nat \ {0}
  BY EmptySeq, LenProperties DEF Chunks
<1>2. \A s \in Seq(Nat) : Len(s) # 0 => s \in Chunks
  BY EmptySeq DEF Chunks
<1>3. ASSUME NEW n \in 1 .. Len(chunk) PROVE SubSeq(chunk, 1, n) \in Chunks
  <2>1. n \in 0 .. Len(chunk) /\ n # 0
    BY <1>1
  <2>2. SubSeq(chunk, 1, n) \in Seq(Nat) /\ Len(SubSeq(chunk, 1, n)) = n
    BY <1>1, <2>1, Piece
  <2>. QED  BY <1>2, <2>1, <2>2
<1>4. ASSUME NEW n \in 1 .. Len(chunk) - 1
      PROVE  SubSeq(chunk, n + 1, Len(chunk)) \in Chunks
  <2> DEFINE t == SubSeq(chunk, n + 1, Len(chunk))
  <2>1. n \in 0 .. Len(chunk) /\ Len(chunk) - n # 0
    BY <1>1
  <2>2. t \in Seq(Nat) /\ Len(t) = Len(chunk) - n
    BY <1>1, <2>1, Piece
  <2>. HIDE DEF t
  <2>3. t \in Chunks
    BY <1>2, <2>1, <2>2
  <2>. QED  BY <2>3 DEF t
<1>. QED  BY <1>1, <1>3, <1>4

LEMMA WriteBufType == ASSUME NEW k \in Nat
                      PROVE  WriteBuf(k) \in Chunks /\ Len(WriteBuf(k)) = 2
<1>1. Sample(k) \in Nat
  BY DEF Sample, SAMPLESIZE
<1>. QED  BY <1>1 DEF WriteBuf, Chunks

\* What a read takes, and the stamp it returns with it.
LEMMA ReadTakes ==
    ASSUME WireType, ClientType, received # <<>>
    PROVE  /\ Taken(BUFSIZE) \in 1 .. BUFSIZE
           /\ Taken(BUFSIZE) <= Len(received) /\ Len(received) \in Nat
           /\ Stamped(BUFSIZE) # {} =>
                 /\ Max(Stamped(BUFSIZE)) \in 1 .. Taken(BUFSIZE)
                 /\ received[Max(Stamped(BUFSIZE))] \in Stamps
<1>1. received \in Seq(Stamps) /\ Len(received) \in Nat \ {0}
  BY EmptySeq, LenProperties DEF WireType
<1>2. Taken(BUFSIZE) \in {1, 2} /\ Taken(BUFSIZE) <= Len(received)
  <2> DEFINE n == Len(received)
  <2>1. Taken(BUFSIZE) = IF 2 < n THEN 2 ELSE n
    BY DEF Taken, BUFSIZE
  <2>2. n \in Nat \ {0}
    BY <1>1
  <2>. HIDE DEF n
  <2>3. Taken(BUFSIZE) \in {1, 2} /\ Taken(BUFSIZE) <= n
    BY <2>1, <2>2
  <2>. QED  BY <2>3 DEF n
<1>3. Stamped(BUFSIZE) \subseteq {1, 2}
      /\ Stamped(BUFSIZE) \subseteq 1 .. Taken(BUFSIZE)
  BY <1>2 DEF Stamped
<1>4. ASSUME Stamped(BUFSIZE) # {}
      PROVE  Max(Stamped(BUFSIZE)) \in Stamped(BUFSIZE)
  <2> DEFINE S == Stamped(BUFSIZE)
  <2>1. \E x \in S : \A y \in S : x >= y
    BY <1>3, <1>4
  <2>. QED  BY <2>1 DEF Max
<1>5. \A i \in 1 .. Taken(BUFSIZE) : received[i] \in Stamps
  BY <1>1, <1>2, ElementOfSeq
<1>. QED  BY <1>1, <1>2, <1>3, <1>4, <1>5 DEF BUFSIZE

LEMMA TypeInit == Init => DataType
<1> SUFFICES ASSUME Init PROVE DataType
  OBVIOUS
<1>1. \A S : <<>> \in Seq(S) /\ Len(<<>>) = 0
  BY EmptySeq
<1>2. Stamp(0, 0) \in Stamps
  BY StampType
<1>3. 0 \in 0 .. MAX_RETRIES /\ Requests \in Nat /\ MaxIncidents \in Nat
  BY KernelAssumption, BenchAssumption
<1>4. ClientType
  BY <1>1, <1>2, <1>3
     DEF Init, KernelInit, ClientType, Places, Incidents
<1>5. WireType
  BY <1>1 DEF Init, KernelInit, WireType
<1>6. ServerType
  BY <1>1 DEF Init, KernelInit, ServerType
<1>. QED  BY <1>4, <1>5, <1>6 DEF DataType

LEMMA ClientTypeKept ==
    ASSUME ClientType,
           incidents' \in [kinds : SUBSET Incidents, left : Nat],
           UNCHANGED <<pc, callVars, benchVars>>
    PROVE  ClientType'
BY DEF ClientType, callVars, benchVars

LEMMA ClientTypeStep == DataType /\ [Next]_vars => ClientType'
<1> SUFFICES ASSUME DataType, [Next]_vars PROVE ClientType'
  OBVIOUS
<1>a. ClientType /\ WireType
  BY DEF DataType
<1>b. Request \in Nat \ {0} /\ Request = Len(samples) + 1
      /\ Len(samples) \in Nat /\ MAX_RETRIES \in Nat \ {0}
  BY <1>a, KernelAssumption, LenProperties DEF Request, ClientType
<1>c. incidents \in [kinds : SUBSET Incidents, left : Nat]
  BY <1>a DEF ClientType
<1>1. CASE Setup
  <2>1. /\ UNCHANGED <<incidents, callVars, benchVars>>
        /\ pc \in {"connect", "device", "socket"}
        /\ pc' \in {"device", "terminated", "socket", "request"}
    BY <1>1 DEF Setup, Connect, InitializeDevice, InitializeSocket
  <2>. QED  BY <1>a, <2>1 DEF ClientType, callVars, benchVars, Places
<1>2. CASE BeginWrite
  <2>1. /\ UNCHANGED <<incidents, retries, tx_timestamp, rx_timestamp,
                       benchVars>>
        /\ pc = "request" /\ pc' = "send" /\ Request <= Requests
        /\ calls' = <<WriteBuf(Request)>>
    BY <1>2 DEF BeginWrite
  <2>2. calls' \in Seq(Chunks) /\ calls' # <<>>
    <3>1. WriteBuf(Request) \in Chunks
      BY <1>b, WriteBufType
    <3>. QED  BY <2>1, <3>1
  <2>3. Len(samples') < Requests
    BY <1>b, <2>1, BenchAssumption DEF benchVars
  <2>. QED  BY <1>a, <2>1, <2>2, <2>3 DEF ClientType, benchVars, Places
<1>3. CASE WriteSends
  <2> DEFINE chunk == Head(calls)
  <2>1. chunk \in Chunks /\ calls \in Seq(Chunks) /\ pc = "send"
    BY <1>3, <1>a, HeadTail DEF WriteSends, Send, ClientType
  <2>2. PICK n \in 1 .. Len(chunk) :
           /\ Ordinary(n = Len(chunk), "partial_send")
           /\ IF n < Len(chunk)
              THEN /\ calls' = <<SubSeq(chunk, n + 1, Len(chunk))>> \o calls
                   /\ pc' = pc
              ELSE calls' = calls /\ pc' = "search"
    BY <1>3 DEF WriteSends, Send
  <2>3. Len(chunk) \in Nat \ {0} /\ n \in Nat
    BY <2>1, ChunkType
  <2>4. incidents' \in [kinds : SUBSET Incidents, left : Nat]
    BY <1>a, <2>2, OrdinaryType DEF Incidents
  <2>5. /\ calls' \in Seq(Chunks) /\ calls' # <<>>
        /\ pc' \in {"send", "search"}
    <3>1. CASE n < Len(chunk)
      <4> DEFINE rest == SubSeq(chunk, n + 1, Len(chunk))
      <4>1. rest \in Chunks
        BY <2>1, <2>3, <3>1, ChunkType
      <4>2. calls' = <<rest>> \o calls /\ pc' = pc
        BY <2>2, <3>1
      <4>. HIDE DEF rest
      <4>3. calls' \in Seq(Chunks) /\ Len(calls') = 1 + Len(calls)
        BY <2>1, <4>1, <4>2
      <4>4. Len(calls') # 0
        BY <2>1, <4>3, LenProperties
      <4>. QED  BY <2>1, <4>2, <4>3, <4>4, EmptySeq
    <3>2. CASE ~(n < Len(chunk))
      BY <1>a, <2>1, <2>2, <3>2 DEF ClientType
    <3>. QED  BY <3>1, <3>2
  <2>6. /\ UNCHANGED <<tx_timestamp, rx_timestamp, benchVars>>
        /\ retries' = 0
    BY <1>3 DEF WriteSends, Send
  <2>. QED
    BY <1>a, <1>b, <2>1, <2>4, <2>5, <2>6 DEF ClientType, benchVars, Places
<1>4. CASE WriteSearches
  <2>1. /\ UNCHANGED <<incidents, rx_timestamp, benchVars>>
        /\ pc = "search" /\ retries < MAX_RETRIES
    BY <1>4 DEF WriteSearches, Search
  <2>2. retries + 1 \in 0 .. MAX_RETRIES
    BY <1>a, <1>b, <2>1 DEF ClientType
  <2>3. \/ /\ retries' = retries + 1
           /\ UNCHANGED <<pc, calls, tx_timestamp>>
        \/ /\ errqueue # <<>>
           /\ tx_timestamp' = CellOf(Stamp(Head(errqueue).of,
                                           Head(errqueue).at))
           /\ calls' = Tail(calls) /\ retries' = 0
           /\ pc' = IF Len(calls) = 1 THEN "read" ELSE pc
    BY <1>4 DEF WriteSearches, Search, NextTry, CallReturns
  <2>4. CASE /\ retries' = retries + 1
             /\ UNCHANGED <<pc, calls, tx_timestamp>>
    BY <1>a, <2>1, <2>2, <2>4 DEF ClientType, benchVars
  <2>5. CASE /\ errqueue # <<>>
             /\ tx_timestamp' = CellOf(Stamp(Head(errqueue).of,
                                             Head(errqueue).at))
             /\ calls' = Tail(calls) /\ retries' = 0
             /\ pc' = IF Len(calls) = 1 THEN "read" ELSE pc
    <3>1. tx_timestamp' \in Stamps
      <4>1. Head(errqueue) \in Stored
        BY <1>a, <2>5, HeadTail DEF WireType
      <4>2. Stamp(Head(errqueue).of, Head(errqueue).at) \in Stamps
        BY <4>1, StampType DEF Stored
      <4>. QED  BY <2>5, <4>2, StampType
    <3>2. /\ calls' \in Seq(Chunks) /\ Len(calls') = Len(calls) - 1
          /\ Len(calls) \in Nat \ {0}
      BY <1>a, <2>1, <2>5, HeadTail DEF ClientType
    <3>3. calls' = <<>> <=> Len(calls) = 1
      <4>1. calls' = <<>> <=> Len(calls') = 0
        BY <3>2, EmptySeq
      <4>. QED  BY <3>2, <4>1
    <3>. QED
      BY <1>a, <1>b, <2>1, <2>5, <3>1, <3>2, <3>3
         DEF ClientType, benchVars, Places
  <2>. QED  BY <2>3, <2>4, <2>5
<1>5. CASE WriteFails
  BY <1>a, <1>5 DEF WriteFails, SearchFails, ClientType, callVars, benchVars,
                    Places
<1>6. CASE ReadAnswer
  <2>1. /\ UNCHANGED <<incidents, calls, retries, tx_timestamp, samples>>
        /\ pc = "read" /\ pc' = "measure" /\ received # <<>>
        /\ read_size' = ReadReturns(BUFSIZE)
        /\ rx_timestamp' =
              IF Stamped(BUFSIZE) = {} THEN rx_timestamp
              ELSE LET i == Max(Stamped(BUFSIZE))
                   IN  CellOf(Stamp(received[i].of, received[i].at))
    BY <1>6 DEF ReadAnswer, Read
  <2>2. /\ Taken(BUFSIZE) \in 1 .. BUFSIZE
        /\ Stamped(BUFSIZE) # {} =>
              received[Max(Stamped(BUFSIZE))] \in Stamps
    BY <1>a, <2>1, ReadTakes
  <2>3. rx_timestamp' \in Stamps
    <3>1. CASE Stamped(BUFSIZE) = {}
      BY <1>a, <2>1, <3>1 DEF ClientType
    <3>2. CASE Stamped(BUFSIZE) # {}
      <4> DEFINE r == received[Max(Stamped(BUFSIZE))]
      <4>1. r \in Stamps /\ rx_timestamp' = CellOf(Stamp(r.of, r.at))
        BY <2>1, <2>2, <3>2
      <4>. HIDE DEF r
      <4>2. Stamp(r.of, r.at) \in Stamps
        BY <4>1, StampType DEF Stamps
      <4>. QED  BY <4>1, <4>2, StampType
    <3>. QED  BY <3>1, <3>2
  <2>4. read_size' \in Int
    BY <2>1, <2>2 DEF ReadReturns, BUFSIZE
  <2>. QED  BY <1>a, <2>1, <2>3, <2>4 DEF ClientType, Places
<1>7. CASE Measure
  <2>1. /\ UNCHANGED <<incidents, callVars, read_size>> /\ pc = "measure"
        /\ \/ pc' = "terminated" /\ UNCHANGED samples
           \/ /\ samples' = Append(samples, [tx   |-> tx_timestamp.of,
                                             rx   |-> rx_timestamp.of,
                                             size |-> read_size])
              /\ pc' = "request"
    BY <1>7 DEF Measure
  <2>2. /\ samples' \in Seq(Filed) /\ Len(samples') <= Requests
        /\ pc' \in {"terminated", "request"}
    <3> DEFINE filed == [tx   |-> tx_timestamp.of, rx |-> rx_timestamp.of,
                         size |-> read_size]
    <3>1. filed \in Filed
      BY <1>a DEF ClientType, Stamps, Filed
    <3>2. /\ samples \in Seq(Filed) /\ Len(samples) < Requests
          /\ Len(samples) <= Requests
      BY <1>a, <2>1 DEF ClientType
    <3>3. samples' \in {samples, Append(samples, filed)}
      BY <2>1
    <3>. HIDE DEF filed
    <3>4. /\ Append(samples, filed) \in Seq(Filed)
          /\ Len(Append(samples, filed)) = Len(samples) + 1
      BY <3>1, <3>2, AppendProperties
    <3>5. Len(samples) + 1 <= Requests
      BY <1>b, <3>2, BenchAssumption
    <3>. QED  BY <2>1, <3>2, <3>3, <3>4, <3>5
  <2>. QED  BY <1>a, <2>1, <2>2 DEF ClientType, callVars, Places
<1>8. CASE Finish
  BY <1>a, <1>8 DEF Finish, ClientType, callVars, benchVars, Places
<1>9. CASE ServerRead
  BY <1>a, <1>c, <1>9, ClientTypeKept DEF ServerRead, kernelVars
<1>10. CASE ServerWrite
  <2>1. incidents' \in [kinds : SUBSET Incidents, left : Nat]
    BY <1>a, <1>c, <1>10, OrdinaryType DEF ServerWrite, Incidents
  <2>. QED  BY <1>a, <1>10, <2>1, ClientTypeKept DEF ServerWrite
<1>11. CASE ServerKilled
  BY <1>a, <1>c, <1>11, ClientTypeKept DEF ServerKilled, kernelVars
<1>12. CASE PacketLeaves
  <2>1. incidents' \in [kinds : SUBSET Incidents, left : Nat]
    BY <1>a, <1>c, <1>12, OrdinaryType, IncidentType
       DEF PacketLeaves, Transmit, Incidents
  <2>. QED  BY <1>a, <1>12, <2>1, ClientTypeKept DEF PacketLeaves, Transmit
<1>13. CASE PacketArrives
  <2>1. incidents' \in [kinds : SUBSET Incidents, left : Nat]
    BY <1>a, <1>c, <1>13, OrdinaryType DEF PacketArrives, Arrive, Incidents
  <2>. QED  BY <1>a, <1>13, <2>1, ClientTypeKept DEF PacketArrives, Arrive
<1>14. CASE Reset
  BY <1>a, <1>c, <1>14, ClientTypeKept DEF Reset, kernelVars
<1>15. CASE SendAgain
  <2>1. incidents' \in [kinds : SUBSET Incidents, left : Nat]
    BY <1>a, <1>c, <1>15, IncidentType DEF SendAgain, Retransmit, Incidents
  <2>. QED  BY <1>a, <1>15, <2>1, ClientTypeKept DEF SendAgain, Retransmit
<1>16. CASE UNCHANGED vars
  BY <1>a, <1>c, <1>16, ClientTypeKept DEF vars, kernelVars
<1>. QED
  BY <1>1, <1>2, <1>3, <1>4, <1>5, <1>6, <1>7, <1>8, <1>9, <1>10, <1>11,
     <1>12, <1>13, <1>14, <1>15, <1>16, NextCases

\* A packet that leaves is a first part of the next send.
LEMMA PacketType ==
    ASSUME WireType, NEW units \in Packets
    PROVE  LET send == Head(outgoing)
               rest == SubSeq(send.units, Len(units) + 1, Len(send.units))
           IN  /\ outgoing # <<>> /\ send \in Sends /\ send = outgoing[1]
               /\ units \in Chunks /\ Len(units) \in 1 .. Len(send.units)
               /\ units = SubSeq(send.units, 1, Len(units))
               /\ rest \in Seq(Nat)
               /\ Len(rest) = Len(send.units) - Len(units)
               /\ rest # <<>> => rest \in Chunks
<1> DEFINE send == Head(outgoing)
           rest == SubSeq(send.units, Len(units) + 1, Len(send.units))
<1>1. outgoing # <<>> /\ outgoing \in Seq(Sends)
  BY DEF Packets, WireType
<1>2. send \in Sends /\ send = outgoing[1]
  BY <1>1, HeadTail
<1>3. /\ send.units \in Chunks /\ send.units \in Seq(Nat)
      /\ Len(send.units) \in Nat \ {0}
  BY <1>2, ChunkType DEF Sends, Chunks
<1>4. PICK n \in 1 .. Len(send.units) : units = SubSeq(send.units, 1, n)
  BY <1>1 DEF Packets
<1>5. n \in 0 .. Len(send.units)
  BY <1>3
<1>6. units \in Chunks /\ Len(units) = n
  <2>1. units \in Chunks
    BY <1>3, <1>4, ChunkType
  <2>2. Len(SubSeq(send.units, 1, n)) = n
    BY <1>3, <1>5, Piece
  <2>. QED  BY <1>4, <2>1, <2>2
<1>7. rest \in Seq(Nat) /\ Len(rest) = Len(send.units) - n
  BY <1>3, <1>5, <1>6, Piece
<1>. HIDE DEF send, rest
<1>8. rest # <<>> => rest \in Chunks
  BY <1>7 DEF Chunks
<1>9. /\ units = SubSeq(send.units, 1, Len(units))
      /\ Len(units) \in 1 .. Len(send.units)
      /\ Len(rest) = Len(send.units) - Len(units)
  BY <1>4, <1>6, <1>7
<1>. QED  BY <1>1, <1>2, <1>6, <1>7, <1>8, <1>9 DEF send, rest

\* A sequence of packets has the sizes of its parts.
LEMMA AnswerParts ==
    ASSUME ServerType, WireType, NEW of \in Nat,
           NEW sizes \in {<<BUFSIZE>>, <<1, 1>>}, NEW parts,
           parts = [i \in 1 .. Len(sizes) |->
                      [of |-> of, size |-> sizes[i], acks |-> now]]
    PROVE  /\ parts \in Seq(Parts)
           /\ Len(parts) = Len(sizes) /\ Len(sizes) \in {1, 2}
           /\ \A i \in 1 .. Len(sizes) :
                 parts[i].of = of /\ parts[i].size = sizes[i]
<1>1. Len(sizes) \in {1, 2} /\ \A i \in 1 .. Len(sizes) : sizes[i] \in {1, 2}
  BY DEF BUFSIZE
<1>2. now \in Nat
  BY DEF WireType
<1>3. parts \in [1 .. Len(sizes) -> Parts]
  BY <1>1, <1>2 DEF Parts, BUFSIZE
<1>4. parts \in Seq(Parts) /\ Len(parts) = Len(sizes)
  <2>1. parts \in Seq(Parts)
    BY <1>1, <1>3, SeqDef
  <2>2. DOMAIN parts = 1 .. Len(sizes) /\ DOMAIN parts = 1 .. Len(parts)
        /\ Len(parts) \in Nat
    BY <1>3, <2>1, LenProperties
  <2>3. Len(parts) = Len(sizes)
    BY <1>1, <2>2
  <2>. QED  BY <2>1, <2>3
<1>5. \A i \in 1 .. Len(sizes) : parts[i].of = of /\ parts[i].size = sizes[i]
  OBVIOUS
<1>. QED  BY <1>1, <1>4, <1>5

LEMMA WireTypeKept ==
    ASSUME WireType, UNCHANGED wireVars
    PROVE  WireType'
BY DEF WireType, wireVars

LEMMA WireTypeStep == DataType /\ [Next]_vars => WireType'
<1> SUFFICES ASSUME DataType, [Next]_vars PROVE WireType'
  OBVIOUS
<1>a. ClientType /\ WireType /\ ServerType
  BY DEF DataType
<1>b. Request \in Nat
  BY <1>a, LenProperties DEF Request, ClientType
<1>1. CASE Setup
  BY <1>a, <1>1, WireTypeKept
     DEF Setup, Connect, InitializeDevice, InitializeSocket
<1>2. CASE BeginWrite
  BY <1>a, <1>2, WireTypeKept DEF BeginWrite
<1>3. CASE WriteSends
  <2> DEFINE chunk == Head(calls)
  <2>1. chunk \in Chunks
    BY <1>3, <1>a, HeadTail DEF WriteSends, Send, ClientType
  <2>2. PICK n \in 1 .. Len(chunk) :
           outgoing' = Append(outgoing, [of |-> Request,
                                         units |-> SubSeq(chunk, 1, n)])
    BY <1>3 DEF WriteSends, Send
  <2>3. SubSeq(chunk, 1, n) \in Chunks
    BY <2>1, ChunkType
  <2>4. [of |-> Request, units |-> SubSeq(chunk, 1, n)] \in Sends
    BY <1>b, <2>3 DEF Sends
  <2>5. outgoing' \in Seq(Sends)
    BY <1>a, <2>2, <2>4, AppendProperties DEF WireType
  <2>6. UNCHANGED <<errqueue, last, incoming, received, now>>
    BY <1>3 DEF WriteSends, Send
  <2>. QED  BY <1>a, <2>5, <2>6 DEF WireType
<1>4. CASE WriteSearches
  <2>1. /\ UNCHANGED <<outgoing, last, incoming, received, now>>
        /\ \/ UNCHANGED errqueue
           \/ errqueue # <<>> /\ errqueue' = Tail(errqueue)
    BY <1>4 DEF WriteSearches, Search
  <2>2. errqueue' \in Seq(Stored)
    BY <1>a, <2>1, HeadTail DEF WireType
  <2>. QED  BY <1>a, <2>1, <2>2 DEF WireType
<1>5. CASE WriteFails
  BY <1>a, <1>5, WireTypeKept DEF WriteFails, SearchFails
<1>6. CASE ReadAnswer
  <2>1. /\ UNCHANGED <<outgoing, errqueue, last, incoming, now>>
        /\ received # <<>>
        /\ received' = SubSeq(received, Taken(BUFSIZE) + 1, Len(received))
    BY <1>6 DEF ReadAnswer, Read
  <2>2. Taken(BUFSIZE) \in 0 .. Len(received) /\ received \in Seq(Stamps)
    BY <1>a, <2>1, ReadTakes DEF WireType
  <2>3. received' \in Seq(Stamps)
    BY <2>1, <2>2, Piece
  <2>. QED  BY <1>a, <2>1, <2>3 DEF WireType
<1>7. CASE Measure
  BY <1>a, <1>7, WireTypeKept DEF Measure
<1>8. CASE Finish
  BY <1>a, <1>8, WireTypeKept DEF Finish
<1>9. CASE ServerRead
  BY <1>a, <1>9, WireTypeKept DEF ServerRead, kernelVars
<1>10. CASE ServerWrite
  <2>1. UNCHANGED <<outgoing, errqueue, last, received, now>>
    BY <1>10 DEF ServerWrite
  <2>2. incoming' \in Seq(Parts)
    <3>1. incoming \in Seq(Parts) /\ now \in Nat
      BY <1>a DEF WireType
    <3>2. CASE ~ClientGone
      <4>1. PICK sizes \in {<<BUFSIZE>>, <<1, 1>>} :
               incoming' = incoming \o
                  [i \in 1 .. Len(sizes) |->
                     [of |-> Len(classes'), size |-> sizes[i], acks |-> now]]
        BY <1>10, <3>2 DEF ServerWrite
      <4>2. Len(classes') \in Nat
        <5>1. classes' = Append(classes, Class(read_buf))
          BY <1>10, <3>2 DEF ServerWrite
        <5>2. Class(read_buf) \in Nat /\ classes \in Seq(Nat)
          BY <1>a DEF ServerType, Class
        <5>. QED  BY <5>1, <5>2, AppendProperties, LenProperties
      <4> DEFINE of == Len(classes')
                 parts == [i \in 1 .. Len(sizes) |->
                             [of |-> of, size |-> sizes[i], acks |-> now]]
      <4>. HIDE DEF of
      <4>3. parts \in Seq(Parts)
        BY <1>a, <4>2, AnswerParts DEF of
      <4>4. incoming' = incoming \o parts
        BY <4>1 DEF of
      <4>. HIDE DEF parts
      <4>. QED  BY <3>1, <4>3, <4>4, ConcatProperties
    <3>3. CASE ClientGone
      <4>1. incoming' = <<[of |-> 0, size |-> BUFSIZE, acks |-> now]>>
        BY <1>10, <3>3 DEF ServerWrite
      <4>2. [of |-> 0, size |-> BUFSIZE, acks |-> now] \in Parts
        BY <3>1 DEF Parts, BUFSIZE
      <4>. QED  BY <4>1, <4>2
    <3>. QED  BY <3>2, <3>3
  <2>. QED  BY <1>a, <2>1, <2>2 DEF WireType
<1>11. CASE ServerKilled
  BY <1>a, <1>11, WireTypeKept DEF ServerKilled, kernelVars
<1>12. CASE PacketLeaves
  <2>0. PICK units \in Packets : Transmit(units)
    BY <1>12 DEF PacketLeaves
  <2> DEFINE send  == Head(outgoing)
             rest  == SubSeq(send.units, Len(units) + 1, Len(send.units))
             stamp == [of |-> send.of, units |-> units, at |-> now + 1]
  <2>1. /\ outgoing # <<>> /\ outgoing \in Seq(Sends) /\ now \in Nat
        /\ send \in Sends /\ units \in Chunks
        /\ rest # <<>> => rest \in Chunks
    BY <1>a, PacketType DEF WireType
  <2>2. Tail(outgoing) \in Seq(Sends)
    BY <2>1, HeadTail
  <2>6. stamp \in Stored
    <3>1. send.of \in Nat /\ now + 1 \in Nat
      BY <2>1 DEF Sends
    <3>. HIDE DEF send
    <3>. QED  BY <2>1, <3>1 DEF Stored
  <2>7. rest # <<>> => [send EXCEPT !.units = rest] \in Sends
    <3>. HIDE DEF send, rest
    <3>. QED  BY <2>1 DEF Sends
  <2>8. /\ UNCHANGED <<incoming, received>> /\ now' = now + 1
        /\ \/ /\ rest # <<>>
              /\ outgoing' = <<[send EXCEPT !.units = rest]>>
                               \o Tail(outgoing)
              /\ UNCHANGED <<errqueue, last>>
           \/ /\ outgoing' = Tail(outgoing)
              /\ errqueue' = Append(errqueue, stamp)
              /\ last' = <<stamp>>
           \/ /\ outgoing' = Tail(outgoing)
              /\ last' = <<>>
              /\ UNCHANGED errqueue
    BY <2>0 DEF Transmit
  <2>. HIDE DEF send, rest, stamp
  <2>9. outgoing' \in Seq(Sends)
    <3>1. rest # <<>> => <<[send EXCEPT !.units = rest]>> \o Tail(outgoing)
                           \in Seq(Sends)
      BY <2>2, <2>7
    <3>. QED  BY <2>2, <2>8, <3>1
  <2>10. /\ errqueue' \in Seq(Stored)
         /\ last' # <<>> => last'[1] \in Stored
    <3>1. /\ errqueue \in Seq(Stored)
          /\ last # <<>> => last[1] \in Stored
      BY <1>a DEF WireType
    <3>2. Append(errqueue, stamp) \in Seq(Stored) /\ <<stamp>>[1] = stamp
      BY <2>6, <3>1, AppendProperties
    <3>3. errqueue' \in Seq(Stored)
      BY <2>8, <3>1, <3>2
    <3>4. last' # <<>> => last'[1] \in Stored
      BY <2>6, <2>8, <3>1, <3>2
    <3>. QED  BY <3>3, <3>4
  <2>. QED  BY <1>a, <2>1, <2>8, <2>9, <2>10 DEF WireType
<1>13. CASE PacketArrives
  <2>1. /\ UNCHANGED <<outgoing, errqueue>> /\ now' = now + 1
        /\ incoming # <<>> /\ incoming' = Tail(incoming)
        /\ last' \in {<<>>, last}
    BY <1>13 DEF PacketArrives, Arrive
  <2>2. now \in Nat /\ incoming' \in Seq(Parts) /\ Head(incoming) \in Parts
    BY <1>a, <2>1, HeadTail DEF WireType
  <2>3. received' \in Seq(Stamps)
    <3> DEFINE of == Head(incoming).of
               size == Head(incoming).size
    <3>1. of \in Nat /\ size \in {1, 2}
      BY <2>2 DEF Parts, BUFSIZE
    <3>2. PICK stamped \in BOOLEAN :
             received' = received \o
                [i \in 1 .. size |->
                   Stamp(of, IF stamped /\ i = size THEN now' ELSE 0)]
      BY <1>13 DEF PacketArrives, Arrive
    <3> DEFINE units == [i \in 1 .. size |->
                   Stamp(of, IF stamped /\ i = size THEN now' ELSE 0)]
    <3>. HIDE DEF of, size
    <3>3. units \in [1 .. size -> Stamps]
      BY <2>1, <2>2, <3>1, StampType
    <3>4. units \in Seq(Stamps)
      BY <3>1, <3>3, SeqDef
    <3>5. received' = received \o units
      BY <3>2
    <3>. HIDE DEF units
    <3>6. received \in Seq(Stamps)
      BY <1>a DEF WireType
    <3>. QED  BY <3>4, <3>5, <3>6, ConcatProperties
  <2>. QED  BY <1>a, <2>1, <2>2, <2>3 DEF WireType
<1>14. CASE Reset
  BY <1>a, <1>14, WireTypeKept DEF Reset, kernelVars
<1>15. CASE SendAgain
  <2>1. /\ UNCHANGED <<outgoing, incoming, received>> /\ now' = now + 1
        /\ last # <<>> /\ last' = <<>>
        /\ errqueue' = Append(errqueue, [last[1] EXCEPT !.at = now + 1])
    BY <1>15 DEF SendAgain, Retransmit
  <2>2. last[1] \in Stored /\ now \in Nat /\ errqueue \in Seq(Stored)
    BY <1>a, <2>1 DEF WireType
  <2>3. [last[1] EXCEPT !.at = now + 1] \in Stored
    <3> DEFINE p == last[1]
               t == now + 1
    <3>1. p \in Stored /\ t \in Nat
      BY <2>2
    <3>. HIDE DEF p, t
    <3>2. [p EXCEPT !.at = t] \in Stored
      BY <3>1 DEF Stored
    <3>. QED  BY <3>2 DEF p, t
  <2>4. errqueue' \in Seq(Stored)
    BY <2>1, <2>2, <2>3, AppendProperties
  <2>. QED  BY <1>a, <2>1, <2>2, <2>4 DEF WireType
<1>16. CASE UNCHANGED vars
  BY <1>a, <1>16, WireTypeKept DEF vars, kernelVars
<1>. QED
  BY <1>1, <1>2, <1>3, <1>4, <1>5, <1>6, <1>7, <1>8, <1>9, <1>10, <1>11,
     <1>12, <1>13, <1>14, <1>15, <1>16, NextCases

LEMMA ServerTypeStep == DataType /\ [Next]_vars => ServerType'
<1> SUFFICES ASSUME DataType, [Next]_vars PROVE ServerType'
  OBVIOUS
<1>a. ClientType /\ WireType /\ ServerType
  BY DEF DataType
<1> DEFINE Quiet == UNCHANGED serverVars /\ (ClientGone => ClientGone')
<1>b. Quiet => ServerType'
  BY <1>a DEF ServerType, serverVars
<1>1. Setup => Quiet
  BY DEF Setup, Connect, InitializeDevice, InitializeSocket, ClientGone
<1>2. BeginWrite => Quiet
  BY DEF BeginWrite, ClientGone
<1>3. WriteSends => Quiet
  BY DEF WriteSends, Send, ClientGone
<1>4. WriteSearches => Quiet
  BY DEF WriteSearches, Search, ClientGone
<1>5. WriteFails => Quiet
  BY DEF WriteFails, SearchFails, ClientGone
<1>6. ReadAnswer => Quiet
  BY DEF ReadAnswer, Read, ClientGone
<1>7. Measure => Quiet
  BY DEF Measure, ClientGone
<1>8. Finish => Quiet
  BY DEF Finish, ClientGone
<1>9. CASE ServerRead
  <2>1. UNCHANGED <<pc, classes, reset>>
    BY <1>9 DEF ServerRead, kernelVars
  <2>2. CASE arrived # <<>> /\ server' = "write"
    <3>1. arrived' \in Seq(Nat) /\ read_buf' \in Nat
      <4>0. \A S : <<>> \in Seq(S)
        BY EmptySeq
      <4>1. CASE UNCHANGED <<arrived, read_buf>>
        BY <1>a, <4>1 DEF ServerType
      <4>2. CASE /\ read_buf' = Head(arrived)
                 /\ arrived' = SubSeq(arrived, BUFSIZE + 1, Len(arrived))
        <5>1. read_buf' \in Nat /\ Len(arrived) \in Nat \ {0}
          BY <1>a, <2>2, <4>2, HeadTail DEF ServerType
        <5>2. arrived \in Seq(Nat)
          BY <1>a DEF ServerType
        <5>3. \A i \in 3 .. Len(arrived) : arrived[i] \in Nat
          BY <5>1, <5>2, ElementOfSeq
        <5>4. SubSeq(arrived, 3, Len(arrived)) \in Seq(Nat)
          BY <5>1, <5>3, SubSeqProperties
        <5>. QED  BY <4>2, <5>1, <5>4 DEF BUFSIZE
      <4>. QED  BY <1>9, <2>2, <4>1, <4>2 DEF ServerRead
    <3>. QED  BY <1>a, <2>1, <2>2, <3>1 DEF ServerType, ClientGone
  <2>3. CASE /\ UNCHANGED <<arrived, read_buf>>
             /\ \/ server' = "write"
                \/ reset /\ server' = "closed"
    BY <1>a, <2>1, <2>3 DEF ServerType, ClientGone
  <2>. QED  BY <1>9, <2>2, <2>3 DEF ServerRead, AfterEmptyRead
<1>10. CASE ServerWrite
  <2>1. classes' \in Seq(Nat)
    <3>1. Class(read_buf) \in Nat /\ classes \in Seq(Nat)
      BY <1>a DEF ServerType, Class
    <3>2. classes' = Append(classes, Class(read_buf)) \/ classes' = classes
      BY <1>10 DEF ServerWrite
    <3>. QED  BY <3>1, <3>2, AppendProperties
  <2>2. server' = "read" /\ UNCHANGED <<pc, arrived, read_buf, reset>>
    BY <1>10 DEF ServerWrite
  <2>. QED  BY <1>a, <2>1, <2>2 DEF ServerType, ClientGone
<1>11. CASE ServerKilled
  BY <1>a, <1>11 DEF ServerKilled, ServerType, ClientGone, kernelVars
<1>12. CASE PacketLeaves
  <2>1. PICK units \in Packets : arrived' = arrived \o units
    BY <1>12 DEF PacketLeaves
  <2>2. UNCHANGED <<pc, server, read_buf, classes, reset>>
    BY <1>12 DEF PacketLeaves, Transmit
  <2>3. units \in Seq(Nat)
    BY <1>a, <2>1, PacketType DEF Chunks
  <2>4. arrived' \in Seq(Nat)
    BY <1>a, <2>1, <2>3, ConcatProperties DEF ServerType
  <2>. QED  BY <1>a, <2>2, <2>4 DEF ServerType, ClientGone
<1>13. PacketArrives => Quiet
  BY DEF PacketArrives, Arrive, ClientGone
<1>14. CASE Reset
  BY <1>a, <1>14 DEF Reset, ServerType, ClientGone, kernelVars
<1>15. SendAgain => Quiet
  BY DEF SendAgain, Retransmit, ClientGone
<1>16. UNCHANGED vars => Quiet
  BY DEF vars, kernelVars, ClientGone
<1>. HIDE DEF Quiet
<1>. QED
  BY <1>b, <1>1, <1>2, <1>3, <1>4, <1>5, <1>6, <1>7, <1>8, <1>9, <1>10,
     <1>11, <1>12, <1>13, <1>14, <1>15, <1>16, NextCases

LEMMA Typed == Spec => []DataType
BY TypeInit, ClientTypeStep, WireTypeStep, ServerTypeStep, PTL
   DEF Spec, DataType

\* TestClient never makes more measurements than it was asked for, the search
\* for a stamp is bounded, and a write that has returned is not on the stack.
THEOREM TypeCorrect == Spec => []TypeOK
<1>1. DataType => TypeOK
  BY LenProperties DEF DataType, ClientType, ServerType, TypeOK, Places
<1>. QED  BY <1>1, Typed, PTL

-----------------------------------------------------------------------------
(***************************************************************************)
(* Answers.  The units of the answers have positions: answer n has the     *)
(* positions 2n - 1 and 2n.  The client reads them in this order, and at   *)
(* most two at a time, so that it cannot be ahead of its requests.         *)
(***************************************************************************)

Half(of, position) == position = 2 * of - 1 \/ position = 2 * of

Working == pc \in {"request", "send", "search", "read", "measure"}

\* How often the client has read, and whether each read took an answer.
Reads   == IF pc = "measure" THEN Request ELSE Request - 1
AllFull == /\ \A k \in 1 .. Len(samples) : samples[k].size = BUFSIZE
           /\ pc = "measure" => read_size = BUFSIZE

\* Packet i ends with position ends[i], and has units of one answer.
PacketsFollow(ends) ==
    /\ ends[Len(incoming)] = 2 * Len(classes)
    /\ \A i \in 1 .. Len(incoming) :
          /\ ends[i] = ends[i - 1] + incoming[i].size
          /\ Half(incoming[i].of, ends[i - 1] + 1)
          /\ Half(incoming[i].of, ends[i])

\* The client has read up to position c.
UnitsFollow(c) ==
    /\ c \in Nat /\ c <= 2 * Reads
    /\ AllFull => c = 2 * Reads
    /\ \A i \in 1 .. Len(received) : Half(received[i].of, c + i)

AnswersInOrder ==
    \E ends \in [0 .. Len(incoming) -> Nat], c \in Nat :
       /\ PacketsFollow(ends) /\ UnitsFollow(c)
       /\ ends[0] = c + Len(received)

\* Nothing is of an answer that has not been made.
AnswersMade ==
    /\ rx_timestamp.of <= Len(classes)
    /\ \A i \in 1 .. Len(received) : received[i].of <= Len(classes)
    /\ \A i \in 1 .. Len(incoming) : incoming[i].of <= Len(classes)

AnswersFiled ==
    \A k \in 1 .. Len(samples) :
       /\ samples[k].rx <= k /\ samples[k].rx <= Len(classes)
       /\ (\A j \in 1 .. k : samples[j].size = BUFSIZE) => samples[k].rx = k

AnswerInv ==
    /\ ~ClientGone => /\ AnswersInOrder
                      /\ rx_timestamp.of <= Reads
                      /\ pc = "measure" /\ AllFull =>
                            rx_timestamp.of = Request
    /\ Working => tstamp_source = options
    /\ AnswersMade
    /\ AnswersFiled

LEMMA AnswerInit == Init => AnswerInv
<1> SUFFICES ASSUME Init PROVE AnswerInv
  OBVIOUS
<1>1. \A S : <<>> \in Seq(S) /\ Len(<<>>) = 0
  BY EmptySeq
<1>2. /\ incoming = <<>> /\ received = <<>> /\ samples = <<>>
      /\ classes = <<>> /\ pc = "connect" /\ rx_timestamp = Stamp(0, 0)
  BY DEF Init, KernelInit
<1>3. Request = 1 /\ Reads = 0 /\ rx_timestamp.of = 0
  BY <1>1, <1>2 DEF Request, Reads, Stamp
<1>4. AnswersInOrder
  <2> DEFINE ends == [i \in 0 .. 0 |-> 0]
  <2>1. /\ ends \in [0 .. Len(incoming) -> Nat] /\ ends[Len(incoming)] = 0
        /\ ends[0] = 0
    BY <1>1, <1>2
  <2>. HIDE DEF ends
  <2>2. PacketsFollow(ends)
    BY <1>1, <1>2, <2>1 DEF PacketsFollow
  <2>3. UnitsFollow(0)
    BY <1>1, <1>2, <1>3 DEF UnitsFollow
  <2>4. ends[0] = 0 + Len(received)
    BY <1>1, <1>2, <2>1
  <2>. QED  BY <2>1, <2>2, <2>3, <2>4 DEF AnswersInOrder
<1>5. AnswersMade /\ AnswersFiled
  BY <1>1, <1>2, <1>3 DEF AnswersMade, AnswersFiled
<1>. QED  BY <1>2, <1>3, <1>4, <1>5 DEF AnswerInv, Working

answerVars == <<received, incoming, classes, samples, read_size,
                rx_timestamp, tstamp_source, options>>

\* The client stays where it is, but for a measurement, or goes.
SameWork == \/ ClientGone'
            \/ /\ ~ClientGone
               /\ (pc' = "measure") = (pc = "measure")
               /\ Working' = Working

LEMMA AnswerKept ==
    ASSUME AnswerInv, UNCHANGED answerVars, SameWork
    PROVE  AnswerInv'
<1>1. UNCHANGED <<received, incoming, classes, samples, read_size,
                  rx_timestamp, tstamp_source, options>>
  BY DEF answerVars
<1>2. AnswersMade' /\ AnswersFiled'
  BY <1>1 DEF AnswerInv, AnswersMade, AnswersFiled
<1>3. CASE ClientGone'
  BY <1>2, <1>3 DEF AnswerInv, ClientGone, Working
<1>4. CASE ~ClientGone'
  <2>1. ~ClientGone /\ (pc' = "measure") = (pc = "measure")
        /\ Working' = Working
    BY <1>4 DEF SameWork
  <2>2. Request' = Request /\ Reads' = Reads /\ AllFull' = AllFull
    BY <1>1, <2>1 DEF Request, Reads, AllFull
  <2>3. AnswersInOrder'
    BY <1>1, <2>1, <2>2
       DEF AnswerInv, AnswersInOrder, PacketsFollow, UnitsFollow
  <2>. QED  BY <1>1, <1>2, <2>1, <2>2, <2>3 DEF AnswerInv
<1>. QED  BY <1>3, <1>4

LEMMA ReadStep == DataType /\ AnswerInv /\ ReadAnswer => AnswerInv'
<1> SUFFICES ASSUME DataType, AnswerInv, ReadAnswer PROVE AnswerInv'
  OBVIOUS
<1>a. ClientType /\ WireType /\ ServerType
  BY DEF DataType
<1>1. /\ UNCHANGED <<incoming, classes, samples, tstamp_source, options>>
      /\ pc = "read" /\ pc' = "measure" /\ received # <<>>
      /\ read_size' = ReadReturns(BUFSIZE)
      /\ received' = SubSeq(received, Taken(BUFSIZE) + 1, Len(received))
      /\ rx_timestamp' =
            IF Stamped(BUFSIZE) = {} THEN rx_timestamp
            ELSE LET i == Max(Stamped(BUFSIZE))
                 IN  CellOf(Stamp(received[i].of, received[i].at))
  BY DEF ReadAnswer, Read, stampVars, serverVars
<1>0. PICK t \in {1, 2} : t = Taken(BUFSIZE)
  BY <1>1, <1>a, ReadTakes DEF BUFSIZE
<1> DEFINE m == Max(Stamped(BUFSIZE))
<1>2. /\ t \in 0 .. Len(received) /\ Len(received) \in Nat
      /\ Stamped(BUFSIZE) # {} => m \in 1 .. t /\ received[m] \in Stamps
  BY <1>0, <1>1, <1>a, ReadTakes DEF BUFSIZE
<1>3. read_size' = IF Stamped(BUFSIZE) = {} THEN -1 ELSE t
  BY <1>0, <1>1 DEF ReadReturns
<1>4. ~ClientGone /\ ~ClientGone' /\ Working /\ Working'
  BY <1>1 DEF ClientGone, Working
<1>5. received \in Seq(Stamps) /\ Len(samples) \in Nat
  BY <1>a, LenProperties DEF WireType, ClientType
<1>6. /\ Len(received') = Len(received) - t
      /\ \A i \in 1 .. Len(received) - t : received'[i] = received[t + i]
  BY <1>0, <1>1, <1>2, <1>5, Piece
<1> DEFINE r == Len(samples)
<1>7. Reads = r /\ Reads' = r + 1 /\ Request' = r + 1
  BY <1>1, <1>5 DEF Reads, Request
<1>8. AllFull' => AllFull /\ read_size' = 2
  BY <1>1 DEF AllFull, BUFSIZE
<1>9. PICK ends \in [0 .. Len(incoming) -> Nat], c \in Nat :
         /\ PacketsFollow(ends) /\ UnitsFollow(c)
         /\ ends[0] = c + Len(received)
  BY <1>4 DEF AnswerInv, AnswersInOrder
<1>. HIDE DEF m, r
<1>10. /\ c <= 2 * r /\ (AllFull => c = 2 * r)
       /\ \A i \in 1 .. Len(received) : Half(received[i].of, c + i)
  BY <1>7, <1>9 DEF UnitsFollow
<1>11. AllFull' => t = 2 /\ Stamped(BUFSIZE) # {}
  BY <1>3, <1>8
<1>b. r \in Nat
  BY <1>5 DEF r
<1>12. UnitsFollow(c + t)'
  <2>1. c + t \in Nat /\ c + t <= 2 * (r + 1)
    BY <1>2, <1>10, <1>b
  <2>2. AllFull' => c + t = 2 * (r + 1)
    BY <1>8, <1>10, <1>11, <1>b
  <2>3. \A i \in 1 .. Len(received') : Half(received'[i].of, c + t + i)
    <3>1. ASSUME NEW i \in 1 .. Len(received')
          PROVE  Half(received'[i].of, c + t + i)
      <4>1. /\ i \in 1 .. Len(received) - t
            /\ t + i \in 1 .. Len(received)
            /\ c + (t + i) = c + t + i
        BY <1>2, <1>6
      <4>2. received'[i] = received[t + i]
        BY <1>6, <4>1
      <4>3. Half(received[t + i].of, c + (t + i))
        BY <1>10, <4>1
      <4>. QED  BY <4>1, <4>2, <4>3
    <3>. QED  BY <3>1
  <2>. QED  BY <1>7, <2>1, <2>2, <2>3 DEF UnitsFollow
<1>13. AnswersInOrder'
  <2>1. PacketsFollow(ends)'
    BY <1>1, <1>9 DEF PacketsFollow
  <2>2. ends[0] = (c + t) + Len(received') /\ c + t \in Nat
    BY <1>2, <1>6, <1>9
  <2>. QED  BY <1>1, <1>9, <1>12, <2>1, <2>2 DEF AnswersInOrder
<1>14. CASE Stamped(BUFSIZE) = {}
  <2>1. UNCHANGED rx_timestamp /\ ~AllFull'
    BY <1>1, <1>11, <1>14
  <2>2. rx_timestamp.of \in Nat /\ rx_timestamp.of <= r
    BY <1>a, <1>4, <1>7 DEF AnswerInv, ClientType, Stamps
  <2>3. rx_timestamp'.of <= Reads'
    BY <1>7, <1>b, <2>1, <2>2
  <2>4. AnswersMade'
    <3>1. \A i \in 1 .. Len(received') : received'[i].of <= Len(classes)
      <4>1. \A i \in 1 .. Len(received') : t + i \in 1 .. Len(received)
        BY <1>2, <1>6
      <4>. QED  BY <1>6, <4>1 DEF AnswerInv, AnswersMade
    <3>. QED  BY <1>1, <2>1, <3>1 DEF AnswerInv, AnswersMade
  <2>5. AnswersFiled'
    BY <1>1 DEF AnswerInv, AnswersFiled
  <2>. QED  BY <1>1, <1>4, <1>13, <2>1, <2>3, <2>4, <2>5 DEF AnswerInv
<1>15. CASE Stamped(BUFSIZE) # {}
  <2>1. m \in 1 .. t /\ received[m] \in Stamps
    BY <1>2, <1>15
  <2>2. rx_timestamp' = CellOf(Stamp(received[m].of, received[m].at))
    BY <1>1, <1>15 DEF m
  <2>3. rx_timestamp'.of = received[m].of
    <3>1. tstamp_source = options
      BY <1>4 DEF AnswerInv
    <3>. QED  BY <2>2, <3>1 DEF CellOf, Stamp
  <2>4. m \in 1 .. Len(received) /\ m \in 1 .. 2 /\ received[m].of \in Nat
    BY <1>2, <2>1 DEF Stamps
  <2>5. Half(received[m].of, c + m)
    BY <1>10, <2>4
  <2>6. received[m].of <= r + 1 /\ (c = 2 * r => received[m].of = r + 1)
    <3> DEFINE of == received[m].of
    <3>1. of \in Nat /\ Half(of, c + m) /\ m \in 1 .. 2 /\ c <= 2 * r
      BY <1>10, <2>4, <2>5
    <3>. HIDE DEF of
    <3>2. of <= r + 1 /\ (c = 2 * r => of = r + 1)
      BY <1>b, <1>9, <3>1 DEF Half
    <3>. QED  BY <3>2 DEF of
  <2>7. /\ rx_timestamp'.of <= Reads'
        /\ AllFull' => rx_timestamp'.of = Request'
    BY <1>7, <1>8, <1>10, <2>3, <2>6
  <2>8. AnswersMade'
    <3>1. \A i \in 1 .. Len(received') : received'[i].of <= Len(classes)
      <4>1. \A i \in 1 .. Len(received') : t + i \in 1 .. Len(received)
        BY <1>2, <1>6
      <4>. QED  BY <1>6, <4>1 DEF AnswerInv, AnswersMade
    <3>2. rx_timestamp'.of <= Len(classes)
      BY <2>3, <2>4 DEF AnswerInv, AnswersMade
    <3>. QED  BY <1>1, <3>1, <3>2 DEF AnswerInv, AnswersMade
  <2>9. AnswersFiled'
    BY <1>1 DEF AnswerInv, AnswersFiled
  <2>. QED  BY <1>1, <1>4, <1>13, <2>7, <2>8, <2>9 DEF AnswerInv
<1>. QED  BY <1>14, <1>15

LEMMA MeasureStep == DataType /\ AnswerInv /\ Measure => AnswerInv'
<1> SUFFICES ASSUME DataType, AnswerInv, Measure PROVE AnswerInv'
  OBVIOUS
<1>a. ClientType
  BY DEF DataType
<1>1. /\ UNCHANGED <<received, incoming, classes, read_size, rx_timestamp,
                     tstamp_source, options>>
      /\ pc = "measure"
  BY DEF Measure, stampVars, callVars, wireVars, serverVars
<1>2. CASE pc' = "terminated" /\ UNCHANGED samples
  <2>1. UNCHANGED answerVars /\ SameWork
    BY <1>1, <1>2 DEF answerVars, SameWork, ClientGone
  <2>. QED  BY <2>1, AnswerKept
<1>3. CASE /\ samples' = Append(samples, [tx   |-> tx_timestamp.of,
                                          rx   |-> rx_timestamp.of,
                                          size |-> read_size])
           /\ pc' = "request"
  <2> DEFINE n     == Len(samples)
             filed == [tx |-> tx_timestamp.of, rx |-> rx_timestamp.of,
                       size |-> read_size]
  <2>1. filed \in Filed /\ samples \in Seq(Filed) /\ n \in Nat
    BY <1>a, LenProperties DEF ClientType, Stamps, Filed
  <2>2. /\ Len(samples') = n + 1 /\ samples'[n + 1] = filed
        /\ \A k \in 1 .. n : samples'[k] = samples[k]
    BY <1>3, <2>1, AppendProperties
  <2>3. /\ filed.rx = rx_timestamp.of /\ filed.size = read_size
        /\ rx_timestamp.of \in Nat
    BY <1>a DEF ClientType, Stamps
  <2>. HIDE DEF n, filed
  <2>4. Request = n + 1 /\ Reads = n + 1 /\ Reads' = n + 1
    <3>1. Request = n + 1 /\ Request' = n + 1 + 1
      BY <2>2 DEF Request, n
    <3>. QED  BY <1>1, <1>3, <2>1, <3>1 DEF Reads
  <2>5. 1 .. n + 1 = (1 .. n) \cup {n + 1} /\ n + 1 \notin 1 .. n
    BY <2>1
  <2>6. AllFull' => AllFull
    <3>1. AllFull' => \A k \in 1 .. n + 1 : samples'[k].size = BUFSIZE
      BY <2>2 DEF AllFull
    <3>. QED  BY <2>2, <2>3, <2>5, <3>1 DEF AllFull, n
  <2>7. AnswersInOrder'
    <3>1. PICK ends \in [0 .. Len(incoming) -> Nat], c \in Nat :
             /\ PacketsFollow(ends) /\ UnitsFollow(c)
             /\ ends[0] = c + Len(received)
      BY <1>1 DEF AnswerInv, AnswersInOrder, ClientGone
    <3>2. UnitsFollow(c)'
      BY <1>1, <2>4, <2>6, <3>1 DEF UnitsFollow
    <3>3. PacketsFollow(ends)'
      BY <1>1, <3>1 DEF PacketsFollow
    <3>. QED  BY <1>1, <3>1, <3>2, <3>3 DEF AnswersInOrder
  <2>8. AnswersMade' /\ rx_timestamp.of <= Len(classes)
    BY <1>1 DEF AnswerInv, AnswersMade
  <2>9. rx_timestamp.of <= n + 1 /\ (AllFull => rx_timestamp.of = n + 1)
    BY <1>1, <2>4 DEF AnswerInv, ClientGone
  <2>10. AnswersFiled'
    <3>1. ASSUME NEW k \in 1 .. n
          PROVE  /\ samples'[k].rx <= k /\ samples'[k].rx <= Len(classes)
                 /\ (\A j \in 1 .. k : samples'[j].size = BUFSIZE) =>
                       samples'[k].rx = k
      <4>1. 1 .. k \subseteq 1 .. n
        BY <2>1
      <4>. QED  BY <2>2, <4>1 DEF AnswerInv, AnswersFiled, n
    <3>2. /\ filed.rx <= n + 1 /\ filed.rx <= Len(classes)
          /\ (\A j \in 1 .. n + 1 : samples'[j].size = BUFSIZE) =>
                filed.rx = n + 1
      <4>1. ASSUME \A j \in 1 .. n + 1 : samples'[j].size = BUFSIZE
            PROVE  AllFull
        BY <2>2, <2>3, <2>5, <4>1 DEF AllFull, n
      <4>. QED  BY <2>3, <2>8, <2>9, <4>1
    <3>. QED  BY <1>1, <2>2, <2>5, <3>1, <3>2 DEF AnswersFiled
  <2>11. Working => tstamp_source = options
    BY DEF AnswerInv
  <2>. QED
    BY <1>1, <1>3, <2>4, <2>7, <2>8, <2>9, <2>10, <2>11
       DEF AnswerInv, Working
<1>. QED  BY <1>2, <1>3 DEF Measure

\* The packets of a new answer follow those of the last one.
LEMMA AnswerFollows ==
    ASSUME DataType, AnswerInv, ServerWrite, ~ClientGone
    PROVE  AnswersInOrder' /\ AnswersMade' /\ Len(classes') = Len(classes) + 1
<1>a. WireType /\ ServerType /\ ClientType
  BY DEF DataType
<1>1. /\ UNCHANGED <<pc, received, samples, read_size, rx_timestamp>>
      /\ classes' = Append(classes, Class(read_buf))
  BY DEF ServerWrite, benchVars, callVars
<1>2. PICK sizes \in {<<BUFSIZE>>, <<1, 1>>} :
         incoming' = incoming \o
            [i \in 1 .. Len(sizes) |->
               [of |-> Len(classes'), size |-> sizes[i], acks |-> now]]
  BY DEF ServerWrite
<1> DEFINE n == Len(classes)
           l == Len(incoming)
<1>3. n \in Nat /\ Len(classes') = n + 1
  <2>1. Class(read_buf) \in Nat /\ classes \in Seq(Nat)
    BY <1>a DEF ServerType, Class
  <2>. QED  BY <1>1, <2>1, AppendProperties, LenProperties
<1>4. incoming \in Seq(Parts) /\ l \in Nat
  BY <1>a, LenProperties DEF WireType
<1>5. PICK parts \in Seq(Parts) :
         /\ incoming' = incoming \o parts
         /\ Len(parts) = Len(sizes) /\ Len(sizes) \in {1, 2}
         /\ \A i \in 1 .. Len(sizes) :
               parts[i].of = n + 1 /\ parts[i].size = sizes[i]
  <2> DEFINE of == Len(classes')
             parts == [i \in 1 .. Len(sizes) |->
                         [of |-> of, size |-> sizes[i], acks |-> now]]
  <2>1. of = n + 1 /\ of \in Nat
    BY <1>3
  <2>2. incoming' = incoming \o parts
    BY <1>2
  <2>. HIDE DEF of
  <2>3. /\ parts \in Seq(Parts)
        /\ Len(parts) = Len(sizes) /\ Len(sizes) \in {1, 2}
        /\ \A i \in 1 .. Len(sizes) :
              parts[i].of = of /\ parts[i].size = sizes[i]
    BY <1>a, <1>2, <2>1, AnswerParts
  <2>. HIDE DEF parts
  <2>. QED  BY <2>1, <2>2, <2>3
<1>6. PICK p \in 1 .. 2, d \in 1 .. 2 :
         /\ Len(parts) = p /\ p * d = 2
         /\ \A i \in 1 .. p : parts[i].of = n + 1 /\ parts[i].size = d
  <2>1. CASE sizes = <<BUFSIZE>>
    <3>1. Len(sizes) = 1 /\ sizes[1] = 2
      BY <2>1 DEF BUFSIZE
    <3>. QED  BY <1>5, <3>1
  <2>2. CASE sizes = <<1, 1>>
    <3>1. Len(sizes) = 2 /\ sizes[1] = 1 /\ sizes[2] = 1
      BY <2>2
    <3>. QED  BY <1>5, <3>1
  <2>. QED  BY <2>1, <2>2
<1>7. /\ Len(incoming') = l + p
      /\ \A i \in 1 .. l : incoming'[i] = incoming[i]
      /\ \A i \in 1 .. p : incoming'[l + i] = parts[i]
  BY <1>4, <1>5, <1>6, ConcatProperties
<1>8. PICK ends \in [0 .. l -> Nat], c \in Nat :
         /\ PacketsFollow(ends) /\ UnitsFollow(c)
         /\ ends[0] = c + Len(received)
  BY DEF AnswerInv, AnswersInOrder
<1>9. ends[l] = 2 * n
  BY <1>8 DEF PacketsFollow
<1>. HIDE DEF n, l
<1>n. n \in Nat /\ l \in Nat
  BY <1>3, <1>4 DEF n, l
<1>10. PICK more \in [0 .. l + p -> Nat] :
          /\ \A i \in 0 .. l : more[i] = ends[i]
          /\ \A i \in 1 .. p : more[l + i] = 2 * n + i * d
          /\ more[0] = ends[0]
  <2> DEFINE more == [i \in 0 .. l + p |->
                        IF i <= l THEN ends[i] ELSE 2 * n + (i - l) * d]
  <2>1. \A i \in 0 .. l + p : i > l => (i - l) * d \in Nat
    BY <1>n, <1>6
  <2>2. \A i \in 0 .. l + p : (IF i <= l THEN ends[i] ELSE 2 * n + (i - l) * d)
                                 \in Nat
    BY <1>n, <1>8, <2>1
  <2>3. more \in [0 .. l + p -> Nat]
    BY <2>2
  <2>4. \A i \in 0 .. l : more[i] = ends[i]
    BY <1>n, <1>6
  <2>5. ASSUME NEW i \in 1 .. p PROVE more[l + i] = 2 * n + i * d
    <3>1. l + i \in 0 .. l + p /\ ~(l + i <= l) /\ (l + i) - l = i
      BY <1>n, <1>6
    <3>. QED  BY <3>1
  <2>6. more[0] = ends[0]
    BY <1>n, <2>4
  <2>. HIDE DEF more
  <2>. QED  BY <2>3, <2>4, <2>5, <2>6
<1>11. /\ more[l + p] = 2 * (n + 1)
       /\ \A i \in 1 .. l : /\ i \in 0 .. l /\ i - 1 \in 0 .. l
                            /\ i \in 1 .. l + p
       /\ \A i \in 1 .. p : more[l + i - 1] = 2 * n + (i - 1) * d
  <2>1. more[l + p] = 2 * n + p * d /\ p * d = 2
    BY <1>6, <1>10
  <2>2. \A i \in 1 .. p : more[l + i - 1] = 2 * n + (i - 1) * d
    <3>1. ASSUME NEW i \in 1 .. p PROVE more[l + i - 1] = 2 * n + (i - 1) * d
      <4>1. CASE i = 1
        BY <1>n, <1>9, <1>10, <4>1 DEF l
      <4>2. CASE i # 1
        <5>1. i - 1 \in 1 .. p /\ l + (i - 1) = l + i - 1
          BY <1>n, <4>2
        <5>. QED  BY <1>10, <5>1
      <4>. QED  BY <4>1, <4>2
    <3>. QED  BY <3>1
  <2>3. \A i \in 1 .. l : i \in 0 .. l /\ i - 1 \in 0 .. l /\ i \in 1 .. l + p
    BY <1>n
  <2>. QED  BY <1>n, <2>1, <2>2, <2>3
<1>12. PacketsFollow(more)'
  <2>1. ASSUME NEW i \in 1 .. l
        PROVE  /\ more[i] = more[i - 1] + incoming'[i].size
               /\ Half(incoming'[i].of, more[i - 1] + 1)
               /\ Half(incoming'[i].of, more[i])
    <3>1. more[i] = ends[i] /\ more[i - 1] = ends[i - 1]
      BY <1>10, <1>11
    <3>. QED  BY <1>7, <1>8, <3>1 DEF PacketsFollow, l
  <2>2. ASSUME NEW i \in 1 .. p
        PROVE  /\ more[l + i] = more[l + i - 1] + incoming'[l + i].size
               /\ Half(incoming'[l + i].of, more[l + i - 1] + 1)
               /\ Half(incoming'[l + i].of, more[l + i])
    <3>1. /\ more[l + i] = 2 * n + i * d
          /\ more[l + i - 1] = 2 * n + (i - 1) * d
      BY <1>10, <1>11
    <3>2. incoming'[l + i].size = d /\ incoming'[l + i].of = n + 1
      BY <1>6, <1>7
    <3>3. /\ i * d = (i - 1) * d + d
          /\ (i - 1) * d + 1 = 1 \/ (i - 1) * d + 1 = 2
          /\ i * d = 1 \/ i * d = 2
      BY <1>6
    <3>4. \/ 2 * n + (i - 1) * d + 1 = 2 * (n + 1) - 1
          \/ 2 * n + (i - 1) * d + 1 = 2 * (n + 1)
      BY <1>n, <3>3
    <3>5. \/ 2 * n + i * d = 2 * (n + 1) - 1
          \/ 2 * n + i * d = 2 * (n + 1)
      BY <1>n, <3>3
    <3>6. 2 * n + i * d = 2 * n + (i - 1) * d + d
      BY <1>n, <3>3
    <3>. QED  BY <3>1, <3>2, <3>4, <3>5, <3>6 DEF Half
  <2>3. \A i \in 1 .. l + p : i \in 1 .. l \/ \E j \in 1 .. p : i = l + j
    <3>1. ASSUME NEW i \in 1 .. l + p, i \notin 1 .. l
          PROVE  i - l \in 1 .. p /\ i = l + (i - l)
      BY <1>n, <3>1
    <3>. QED  BY <3>1
  <2>4. \A i \in 1 .. l + p :
           /\ more[i] = more[i - 1] + incoming'[i].size
           /\ Half(incoming'[i].of, more[i - 1] + 1)
           /\ Half(incoming'[i].of, more[i])
    <3>1. ASSUME NEW i \in 1 .. l + p
          PROVE  /\ more[i] = more[i - 1] + incoming'[i].size
                 /\ Half(incoming'[i].of, more[i - 1] + 1)
                 /\ Half(incoming'[i].of, more[i])
      <4>1. CASE i \in 1 .. l
        BY <2>1, <4>1
      <4>2. CASE i \notin 1 .. l
        <5>1. PICK j \in 1 .. p : i = l + j
          BY <2>3, <4>2
        <5>2. /\ more[l + j] = more[l + j - 1] + incoming'[l + j].size
              /\ Half(incoming'[l + j].of, more[l + j - 1] + 1)
              /\ Half(incoming'[l + j].of, more[l + j])
          BY <2>2
        <5>3. i - 1 = l + j - 1
          BY <1>n, <5>1
        <5>. QED  BY <5>1, <5>2, <5>3, Zenon
      <4>. QED  BY <4>1, <4>2
    <3>. QED  BY <3>1
  <2>5. more[Len(incoming')] = 2 * Len(classes')
    BY <1>3, <1>7, <1>11 DEF n
  <2>. QED  BY <1>7, <2>4, <2>5 DEF PacketsFollow
<1>13. UnitsFollow(c)'
  BY <1>1, <1>8 DEF UnitsFollow, Reads, AllFull, Request
<1>14. AnswersInOrder'
  BY <1>1, <1>7, <1>8, <1>10, <1>12, <1>13 DEF AnswersInOrder
<1>15. AnswersMade'
  <2>1. rx_timestamp.of \in Nat
    BY <1>a DEF ClientType, Stamps
  <2>2. \A i \in 1 .. Len(received) : received[i].of \in Nat
    <3>1. \A i \in 1 .. Len(received) : received[i] \in Stamps
      BY <1>a, ElementOfSeq DEF WireType
    <3>. QED  BY <3>1 DEF Stamps
  <2>3. \A i \in 1 .. l : incoming[i].of \in Nat
    <3>1. \A i \in 1 .. l : incoming[i] \in Parts
      BY <1>4, ElementOfSeq DEF l
    <3>. QED  BY <3>1 DEF Parts
  <2>4. /\ rx_timestamp.of <= n
        /\ \A i \in 1 .. Len(received) : received[i].of <= n
        /\ \A i \in 1 .. l : incoming[i].of <= n
    BY DEF AnswerInv, AnswersMade, n, l
  <2>5. \A x \in Nat : x <= n => x <= n + 1
    BY <1>n
  <2>6. \A i \in 1 .. l + p : incoming'[i].of <= n + 1
    <3>1. ASSUME NEW i \in 1 .. l + p PROVE incoming'[i].of <= n + 1
      <4>1. CASE i \in 1 .. l
        BY <1>7, <2>3, <2>4, <2>5, <4>1
      <4>2. CASE i \notin 1 .. l
        <5>1. i - l \in 1 .. p /\ i = l + (i - l)
          BY <1>n, <4>2
        <5>2. incoming'[i] = parts[i - l]
          BY <1>7, <5>1
        <5>. QED  BY <1>6, <1>n, <5>1, <5>2
      <4>. QED  BY <4>1, <4>2
    <3>. QED  BY <3>1
  <2>7. Len(classes') = n + 1
    BY <1>3 DEF n
  <2>. QED
    BY <1>1, <1>7, <2>1, <2>2, <2>4, <2>5, <2>6, <2>7 DEF AnswersMade
<1>. QED  BY <1>3, <1>14, <1>15 DEF n

LEMMA ServerWriteStep == DataType /\ AnswerInv /\ ServerWrite => AnswerInv'
<1> SUFFICES ASSUME DataType, AnswerInv, ServerWrite PROVE AnswerInv'
  OBVIOUS
<1>a. WireType /\ ServerType /\ ClientType
  BY DEF DataType
<1>1. UNCHANGED <<pc, received, samples, read_size, rx_timestamp,
                  tstamp_source, options>>
  BY DEF ServerWrite, stampVars, callVars, benchVars
<1>2. ClientGone' = ClientGone /\ Working' = Working
  BY <1>1 DEF ClientGone, Working
<1>3. CASE ClientGone
  <2>1. incoming' = <<[of |-> 0, size |-> BUFSIZE, acks |-> now]>>
        /\ UNCHANGED classes
    BY <1>3 DEF ServerWrite
  <2>2. /\ Len(incoming') = 1 /\ incoming'[1].of = 0
        /\ Len(classes) \in Nat
    BY <1>a, <2>1, LenProperties DEF ServerType
  <2>3. AnswersMade'
    BY <1>1, <2>1, <2>2 DEF AnswerInv, AnswersMade
  <2>4. AnswersFiled'
    BY <1>1, <2>1 DEF AnswerInv, AnswersFiled
  <2>. QED  BY <1>1, <1>2, <1>3, <2>3, <2>4 DEF AnswerInv
<1>4. CASE ~ClientGone
  <2>1. AnswersInOrder' /\ AnswersMade' /\ Len(classes') = Len(classes) + 1
    BY <1>4, AnswerFollows
  <2>2. Reads' = Reads /\ AllFull' = AllFull /\ Request' = Request
    BY <1>1 DEF Reads, AllFull, Request
  <2>3. AnswersFiled'
    <3>1. Len(classes) \in Nat
      BY <1>a, LenProperties DEF ServerType
    <3>2. \A k \in 1 .. Len(samples) : samples[k].rx \in Nat
      <4>1. \A k \in 1 .. Len(samples) : samples[k] \in Filed
        BY <1>a, ElementOfSeq DEF ClientType
      <4>. QED  BY <4>1 DEF Filed
    <3>3. \A x \in Nat : x <= Len(classes) => x <= Len(classes')
      BY <2>1, <3>1
    <3>. QED  BY <1>1, <3>2, <3>3 DEF AnswerInv, AnswersFiled
  <2>. QED  BY <1>1, <1>2, <1>4, <2>1, <2>2, <2>3 DEF AnswerInv
<1>. QED  BY <1>3, <1>4

LEMMA ArriveStep == DataType /\ AnswerInv /\ PacketArrives => AnswerInv'
<1> SUFFICES ASSUME DataType, AnswerInv, PacketArrives PROVE AnswerInv'
  OBVIOUS
<1>a. WireType /\ ServerType /\ ClientType
  BY DEF DataType
<1>1. /\ UNCHANGED <<pc, classes, samples, read_size, rx_timestamp,
                     tstamp_source, options>>
      /\ ~ClientGone /\ incoming # <<>> /\ incoming' = Tail(incoming)
  BY DEF PacketArrives, Arrive, stampVars, callVars, benchVars, serverVars
<1>2. ~ClientGone' /\ Working' = Working /\ Reads' = Reads
      /\ AllFull' = AllFull /\ Request' = Request
  BY <1>1 DEF ClientGone, Working, Reads, AllFull, Request
<1> DEFINE l == Len(incoming)
           g == Len(received)
<1>3. PICK of \in Nat, size \in 1 .. 2 :
         of = incoming[1].of /\ size = incoming[1].size
         /\ Head(incoming) = incoming[1]
  <2>1. Head(incoming) \in Parts /\ Head(incoming) = incoming[1]
    BY <1>a, <1>1, HeadTail DEF WireType
  <2>. QED  BY <2>1 DEF Parts, BUFSIZE
<1>4. /\ l \in Nat \ {0} /\ Len(incoming') = l - 1
      /\ \A i \in 1 .. l - 1 : incoming'[i] = incoming[i + 1]
  BY <1>a, <1>1, HeadTail DEF WireType
<1>5. /\ Len(received') = g + size /\ g \in Nat
      /\ \A i \in 1 .. g : received'[i] = received[i]
      /\ \A i \in 1 .. size : received'[g + i].of = of
  <2>1. PICK stamped \in BOOLEAN :
           received' = received \o
              [i \in 1 .. Head(incoming).size |->
                 Stamp(Head(incoming).of,
                       IF stamped /\ i = Head(incoming).size THEN now'
                       ELSE 0)]
    BY DEF PacketArrives, Arrive
  <2> DEFINE units == [i \in 1 .. size |->
                   Stamp(of, IF stamped /\ i = size THEN now' ELSE 0)]
  <2>2. received' = received \o units
    BY <1>3, <2>1
  <2>3. now' \in Nat
    BY <1>a DEF PacketArrives, Arrive, WireType
  <2>4. units \in [1 .. size -> Stamps]
    BY <1>3, <2>3, StampType
  <2>5. \A i \in 1 .. size : units[i].of = of
    BY DEF Stamp
  <2>. HIDE DEF units
  <2>6. units \in Seq(Stamps) /\ Len(units) = size
    <3>1. units \in Seq(Stamps)
      BY <1>3, <2>4, SeqDef
    <3>2. DOMAIN units = 1 .. size /\ DOMAIN units = 1 .. Len(units)
          /\ Len(units) \in Nat
      BY <2>4, <3>1, LenProperties
    <3>3. Len(units) = size
      BY <1>3, <3>2
    <3>. QED  BY <3>1, <3>3
  <2>7. received \in Seq(Stamps) /\ g \in Nat
    BY <1>a, LenProperties DEF WireType
  <2>. QED  BY <1>3, <2>2, <2>5, <2>6, <2>7, ConcatProperties
<1>6. PICK ends \in [0 .. l -> Nat], c \in Nat :
         /\ PacketsFollow(ends) /\ UnitsFollow(c)
         /\ ends[0] = c + g
  BY <1>1 DEF AnswerInv, AnswersInOrder
<1>. HIDE DEF l, g
<1>7. /\ ends[1] = ends[0] + size
      /\ Half(of, ends[0] + 1) /\ Half(of, ends[1])
      /\ ends[l] = 2 * Len(classes)
      /\ \A i \in 1 .. l :
            /\ ends[i] = ends[i - 1] + incoming[i].size
            /\ Half(incoming[i].of, ends[i - 1] + 1)
            /\ Half(incoming[i].of, ends[i])
  <2>1. 1 \in 1 .. l /\ 1 - 1 = 0
    BY <1>4
  <2>2. \A i \in 1 .. l :
            /\ ends[i] = ends[i - 1] + incoming[i].size
            /\ Half(incoming[i].of, ends[i - 1] + 1)
            /\ Half(incoming[i].of, ends[i])
    BY <1>6 DEF PacketsFollow, l
  <2>. QED  BY <1>3, <1>6, <2>1, <2>2 DEF PacketsFollow, l
<1>8. PICK later \in [0 .. l - 1 -> Nat] :
         \A i \in 0 .. l - 1 : later[i] = ends[i + 1]
  <2> DEFINE later == [i \in 0 .. l - 1 |-> ends[i + 1]]
  <2>1. \A i \in 0 .. l - 1 : i + 1 \in 0 .. l
    BY <1>4
  <2>2. later \in [0 .. l - 1 -> Nat]
    BY <1>6, <2>1
  <2>. QED  BY <2>2
<1>9. /\ \A i \in 1 .. l - 1 : /\ later[i] = ends[i + 1]
                               /\ later[i - 1] = ends[i]
                               /\ i + 1 \in 1 .. l /\ i + 1 - 1 = i
      /\ later[l - 1] = ends[l] /\ later[0] = ends[1]
  <2>1. \A i \in 1 .. l - 1 :
           /\ i \in 0 .. l - 1 /\ i - 1 \in 0 .. l - 1 /\ i - 1 + 1 = i
           /\ i + 1 \in 1 .. l /\ i + 1 - 1 = i
    BY <1>4
  <2>2. /\ l - 1 \in 0 .. l - 1 /\ l - 1 + 1 = l
        /\ 0 \in 0 .. l - 1 /\ 0 + 1 = 1
    BY <1>4
  <2>3. ASSUME NEW i \in 1 .. l - 1
        PROVE  later[i] = ends[i + 1] /\ later[i - 1] = ends[i]
    <3>1. i \in 0 .. l - 1 /\ i - 1 \in 0 .. l - 1 /\ i - 1 + 1 = i
      BY <2>1
    <3>2. later[i] = ends[i + 1] /\ later[i - 1] = ends[i - 1 + 1]
      BY <1>8, <3>1
    <3>. QED  BY <3>1, <3>2
  <2>. QED  BY <1>8, <2>1, <2>2, <2>3
<1>10. PacketsFollow(later)'
  <2>1. ASSUME NEW i \in 1 .. l - 1
        PROVE  /\ later[i] = later[i - 1] + incoming'[i].size
               /\ Half(incoming'[i].of, later[i - 1] + 1)
               /\ Half(incoming'[i].of, later[i])
    <3>1. incoming'[i] = incoming[i + 1] /\ later[i] = ends[i + 1]
          /\ later[i - 1] = ends[i]
      BY <1>4, <1>9 DEF l
    <3>2. /\ ends[i + 1] = ends[i] + incoming[i + 1].size
          /\ Half(incoming[i + 1].of, ends[i] + 1)
          /\ Half(incoming[i + 1].of, ends[i + 1])
      <4>1. i + 1 \in 1 .. l /\ i + 1 - 1 = i
        BY <1>9
      <4>. QED  BY <1>7, <4>1
    <3>. QED  BY <3>1, <3>2
  <2>2. later[Len(incoming')] = 2 * Len(classes')
    BY <1>1, <1>4, <1>7, <1>9 DEF l
  <2>3. Len(incoming') = l - 1
    BY <1>4 DEF l
  <2>. QED  BY <2>1, <2>2, <2>3 DEF PacketsFollow
<1>g. g \in Nat
  BY <1>5 DEF g
<1>11. UnitsFollow(c)'
  <2>1. ASSUME NEW i \in 1 .. g + size
        PROVE  Half(received'[i].of, c + i)
    <3>1. CASE i \in 1 .. g
      BY <1>5, <1>6, <3>1 DEF UnitsFollow, g
    <3>2. CASE i \notin 1 .. g
      <4>1. i - g \in 1 .. size /\ i = g + (i - g)
        BY <1>g, <3>2
      <4>2. received'[i].of = of
        <5>1. received'[g + (i - g)].of = of
          BY <1>5, <4>1 DEF g
        <5>. QED  BY <4>1, <5>1
      <4>3. c + i = ends[0] + 1 \/ c + i = ends[1]
        BY <1>6, <1>7, <1>g, <4>1
      <4>. QED  BY <1>7, <4>2, <4>3
    <3>. QED  BY <3>1, <3>2
  <2>2. Len(received') = g + size
    BY <1>5 DEF g
  <2>. QED  BY <1>2, <1>6, <2>1, <2>2 DEF UnitsFollow
<1>12. AnswersInOrder'
  <2>1. later[0] = c + Len(received')
    <3>1. Len(received') = g + size
      BY <1>5 DEF g
    <3>. QED  BY <1>6, <1>7, <1>9, <1>g, <3>1
  <2>2. later \in [0 .. Len(incoming') -> Nat]
    BY <1>4, <1>8 DEF l
  <2>. QED  BY <1>6, <1>10, <1>11, <2>1, <2>2 DEF AnswersInOrder
<1>13. AnswersMade'
  <2>0. /\ of <= Len(classes)
        /\ \A i \in 1 .. g : received[i].of <= Len(classes)
        /\ \A i \in 1 .. l : incoming[i].of <= Len(classes)
        /\ rx_timestamp.of <= Len(classes)
    <3>1. 1 \in 1 .. l
      BY <1>4 DEF l
    <3>. QED  BY <1>3, <3>1 DEF AnswerInv, AnswersMade, g, l
  <2>1. ASSUME NEW i \in 1 .. g + size
        PROVE  received'[i].of <= Len(classes)
    <3>1. CASE i \in 1 .. g
      BY <1>5, <2>0, <3>1 DEF g
    <3>2. CASE i \notin 1 .. g
      <4>1. i - g \in 1 .. size /\ i = g + (i - g)
        BY <1>g, <3>2
      <4>2. received'[g + (i - g)].of = of
        BY <1>5, <4>1 DEF g
      <4>. QED  BY <2>0, <4>1, <4>2
    <3>. QED  BY <3>1, <3>2
  <2>2. ASSUME NEW i \in 1 .. l - 1
        PROVE  incoming'[i].of <= Len(classes)
    <3>1. incoming'[i] = incoming[i + 1] /\ i + 1 \in 1 .. l
      BY <1>4, <1>9 DEF l
    <3>. QED  BY <2>0, <3>1
  <2>3. Len(received') = g + size /\ Len(incoming') = l - 1
    BY <1>4, <1>5 DEF g, l
  <2>. QED  BY <1>1, <2>0, <2>1, <2>2, <2>3 DEF AnswersMade
<1>14. AnswersFiled'
  BY <1>1 DEF AnswerInv, AnswersFiled
<1>. QED  BY <1>1, <1>2, <1>12, <1>13, <1>14 DEF AnswerInv

LEMMA AnswerStep == DataType /\ AnswerInv /\ [Next]_vars => AnswerInv'
<1> SUFFICES ASSUME DataType, AnswerInv, [Next]_vars PROVE AnswerInv'
  OBVIOUS
<1> DEFINE Quiet == UNCHANGED answerVars /\ SameWork
<1> USE DEF answerVars, SameWork, ClientGone, Working
<1>b. Quiet => AnswerInv'
  BY AnswerKept
<1>1. CASE Setup
  <2>1. CASE Connect \/ InitializeDevice
    <3>1. Quiet
      BY <1>1, <2>1 DEF Setup, Connect, InitializeDevice, stampVars,
                        callVars, wireVars, benchVars, serverVars
    <3>. QED  BY <1>b, <3>1
  <2>2. CASE InitializeSocket
    <3>1. /\ UNCHANGED <<received, incoming, classes, samples, read_size,
                         rx_timestamp>>
          /\ pc = "socket"
          /\ \/ pc' = "request" /\ tstamp_source' = options'
             \/ pc' = "terminated"
      BY <1>1, <2>2 DEF Setup, InitializeSocket, callVars, wireVars,
                        benchVars, serverVars
    <3>2. Request' = Request /\ Reads' = Reads /\ AllFull' = AllFull
      BY <3>1 DEF Request, Reads, AllFull
    <3>3. AnswersMade' /\ AnswersFiled'
      BY <3>1 DEF AnswerInv, AnswersMade, AnswersFiled
    <3>4. AnswersInOrder'
      BY <3>1, <3>2 DEF AnswerInv, AnswersInOrder, PacketsFollow, UnitsFollow
    <3>. QED  BY <3>1, <3>2, <3>3, <3>4 DEF AnswerInv
  <2>. QED  BY <1>1, <2>1, <2>2 DEF Setup
<1>2. BeginWrite => Quiet
  BY DEF BeginWrite, stampVars, wireVars, benchVars, serverVars
<1>3. WriteSends => Quiet
  BY DEF WriteSends, Send, stampVars, benchVars, serverVars
<1>4. WriteSearches => Quiet
  BY DEF WriteSearches, Search, stampVars, benchVars, serverVars
<1>5. WriteFails => Quiet
  BY DEF WriteFails, SearchFails, stampVars, callVars, wireVars, benchVars,
         serverVars
<1>6. ReadAnswer => AnswerInv'
  BY ReadStep
<1>7. Measure => AnswerInv'
  BY MeasureStep
<1>8. Finish => Quiet
  BY DEF Finish, stampVars, callVars, wireVars, benchVars, serverVars
<1>9. ServerRead => Quiet
  BY DEF ServerRead, kernelVars, stampVars, callVars, wireVars, benchVars
<1>10. ServerWrite => AnswerInv'
  BY ServerWriteStep
<1>11. ServerKilled => Quiet
  BY DEF ServerKilled, kernelVars, stampVars, callVars, wireVars, benchVars
<1>12. PacketLeaves => Quiet
  BY DEF PacketLeaves, Transmit, stampVars, callVars, benchVars
<1>13. PacketArrives => AnswerInv'
  BY ArriveStep
<1>14. Reset => Quiet
  BY DEF Reset, kernelVars, stampVars, callVars, wireVars, benchVars
<1>15. SendAgain => Quiet
  BY DEF SendAgain, Retransmit, stampVars, callVars, benchVars, serverVars
<1>16. UNCHANGED vars => Quiet
  BY DEF vars, kernelVars, stampVars, callVars, wireVars, benchVars,
         serverVars
<1>. HIDE DEF Quiet
<1>. QED
  BY <1>b, <1>1, <1>2, <1>3, <1>4, <1>5, <1>6, <1>7, <1>8, <1>9, <1>10,
     <1>11, <1>12, <1>13, <1>14, <1>15, <1>16, NextCases

-----------------------------------------------------------------------------
(***************************************************************************)
(* Requests and their stamps.                                              *)
(***************************************************************************)

Again == "retransmit" \in incidents.kinds

\* What has happened is not forgotten.
LEMMA KindsGrow ==
    DataType /\ [Next]_vars => incidents.kinds \subseteq incidents'.kinds
<1> SUFFICES ASSUME DataType, [Next]_vars
             PROVE  incidents.kinds \subseteq incidents'.kinds
  OBVIOUS
<1> DEFINE G == incidents.kinds \subseteq incidents'.kinds
<1>a. \A kind : Incident(kind) => G
  BY DEF Incident, DataType, ClientType
<1>b. \A kind, usual : Ordinary(usual, kind) => G
  BY <1>a DEF Ordinary
<1>c. UNCHANGED incidents => G
  OBVIOUS
<1>. HIDE DEF G
<1>1. Setup => G
  BY <1>c DEF Setup, Connect, InitializeDevice, InitializeSocket
<1>2. BeginWrite => G
  BY <1>c DEF BeginWrite
<1>3. WriteSends => G
  BY <1>b DEF WriteSends, Send
<1>4. WriteSearches => G
  BY <1>c DEF WriteSearches, Search
<1>5. WriteFails => G
  BY <1>c DEF WriteFails, SearchFails
<1>6. ReadAnswer => G
  BY <1>c DEF ReadAnswer, Read
<1>7. Measure => G
  BY <1>c DEF Measure
<1>8. Finish => G
  BY <1>c DEF Finish
<1>9. ServerRead => G
  BY <1>c DEF ServerRead, kernelVars
<1>10. ServerWrite => G
  BY <1>b, <1>c DEF ServerWrite
<1>11. ServerKilled => G
  BY <1>c DEF ServerKilled, kernelVars
<1>12. PacketLeaves => G
  BY <1>a, <1>b, <1>c DEF PacketLeaves, Transmit
<1>13. PacketArrives => G
  BY <1>b DEF PacketArrives, Arrive
<1>14. Reset => G
  BY <1>c DEF Reset, kernelVars
<1>15. SendAgain => G
  BY <1>a DEF SendAgain, Retransmit
<1>16. UNCHANGED vars => G
  BY <1>c DEF vars, kernelVars
<1>17. G
  BY <1>1, <1>2, <1>3, <1>4, <1>5, <1>6, <1>7, <1>8, <1>9, <1>10, <1>11,
     <1>12, <1>13, <1>14, <1>15, <1>16, NextCases
<1>. QED  BY <1>17 DEF G

\* The requests that have been given to send.
Written == IF pc \in {"search", "read", "measure"} THEN Request
           ELSE Request - 1

\* A request that has not left is the last; what the error queue has is of it
\* and of the one before, in this order; and the last packet is of the last
\* request that has left.
Behind ==
    /\ \A i \in 1 .. Len(errqueue) :
          /\ errqueue[i].of \in {Written - 1, Written}
          /\ errqueue[i].units = WriteBuf(errqueue[i].of)
          /\ outgoing # <<>> => errqueue[i].of = Written - 1
          /\ pc # "search" => errqueue[i].of = Written
    /\ \A i, j \in 1 .. Len(errqueue) :
          i < j => errqueue[i].of <= errqueue[j].of
    /\ outgoing # <<>> =>
          /\ pc = "search"
          /\ outgoing = <<[of |-> Written, units |-> WriteBuf(Written)]>>
    /\ last # <<>> =>
          /\ last[1].of = IF outgoing = <<>> THEN Written ELSE Written - 1
          /\ last[1].units = WriteBuf(last[1].of)

\* Requests that travel whole are told apart by their content.
WholeInv ==
    ~InParts /\ ~ClientGone =>
       /\ pc \in {"send", "search"} => calls = <<WriteBuf(Request)>>
       /\ Behind
       /\ pc \in {"read", "measure"} => tx_timestamp.of = Request

LEMMA WholeInit == Init => WholeInv
<1> SUFFICES ASSUME Init PROVE WholeInv
  OBVIOUS
<1>1. pc = "connect" /\ errqueue = <<>> /\ outgoing = <<>> /\ last = <<>>
  BY DEF Init, KernelInit
<1>2. Len(errqueue) = 0
  BY <1>1
<1>. QED  BY <1>1, <1>2 DEF WholeInv, Behind

LEMMA BehindKept ==
    ASSUME Behind, UNCHANGED <<errqueue, outgoing>>, Written' = Written,
           pc = "search" <=> pc' = "search",
           last' = <<>> \/ UNCHANGED last
    PROVE  Behind'
BY DEF Behind

\* Of the last two requests only one begins like the last.
LEMMA OwnContent ==
    ASSUME NEW of \in Nat, NEW k \in Nat, of \in {k - 1, k},
           TRUE \in BeginsWith(WriteBuf(of), WriteBuf(k))
    PROVE  of = k
<1>1. Len(WriteBuf(of)) = 2 /\ Len(WriteBuf(k)) = 2
      /\ WriteBuf(of)[1] = Sample(of) /\ WriteBuf(k)[1] = Sample(k)
  BY DEF WriteBuf
<1>2. WriteBuf(of) \in Seq(Nat) /\ WriteBuf(k) \in Seq(Nat)
  BY WriteBufType DEF Chunks
<1>3. \/ IsPrefix(WriteBuf(k), WriteBuf(of))
      \/ IsPrefix(WriteBuf(of), WriteBuf(k))
  BY DEF BeginsWith
<1>4. SubSeq(WriteBuf(k), 1, 2) = SubSeq(WriteBuf(of), 1, 2)
  BY <1>1, <1>3 DEF IsPrefix
<1>5. Sample(of) = Sample(k)
  <2>1. \A s \in Seq(Nat) : Len(s) = 2 => SubSeq(s, 1, 2)[1] = s[1]
    <3>1. ASSUME NEW s \in Seq(Nat), Len(s) = 2
          PROVE  SubSeq(s, 1, 2)[1] = s[1]
      <4>1. 2 \in 0 .. Len(s) /\ 1 \in 1 .. 2
        BY <3>1
      <4>. QED  BY <4>1, Piece
    <3>. QED  BY <3>1
  <2>. QED  BY <1>1, <1>2, <1>4, <2>1
<1>6. CASE of = k - 1
  <2>1. (k - 1 - 1) % 2 # (k - 1) % 2
    BY <1>6
  <2>. QED  BY <1>5, <1>6, <2>1 DEF Sample, SAMPLESIZE
<1>. QED  BY <1>6

\* The whole request leaves, and comes as it was written.
LEMMA WholeLeaves ==
    ASSUME DataType, WholeInv, PacketLeaves, ~InParts, ~InParts', ~ClientGone
    PROVE  LET stamp == [of |-> Written, units |-> WriteBuf(Written),
                         at |-> now + 1]
           IN  /\ Len(outgoing) = 1 /\ outgoing # <<>> /\ outgoing' = <<>>
               /\ arrived' = arrived \o WriteBuf(Written)
               /\ \/ errqueue' = Append(errqueue, stamp) /\ last' = <<stamp>>
                  \/ UNCHANGED errqueue /\ last' = <<>>
<1>a. ClientType /\ WireType
  BY DEF DataType
<1>b. Request \in Nat \ {0}
  BY <1>a, LenProperties DEF Request, ClientType
<1>1. PICK units \in Packets : Transmit(units)
                              /\ arrived' = arrived \o units
  BY DEF PacketLeaves
<1> DEFINE send  == Head(outgoing)
           rest  == SubSeq(send.units, Len(units) + 1, Len(send.units))
           left  == [of |-> send.of, units |-> units, at |-> now + 1]
<1>2. outgoing # <<>> /\ send = outgoing[1]
      /\ units = SubSeq(send.units, 1, Len(units))
      /\ Len(units) \in 1 .. Len(send.units)
      /\ Len(rest) = Len(send.units) - Len(units)
  BY <1>a, PacketType
<1>3. Behind /\ pc = "search"
      /\ outgoing = <<[of |-> Written, units |-> WriteBuf(Written)]>>
  BY <1>2 DEF Behind, WholeInv
<1>4. /\ send.of = Written /\ send.units = WriteBuf(Written)
      /\ Tail(outgoing) = <<>> /\ Len(outgoing) = 1 /\ Written \in Nat
  BY <1>b, <1>3 DEF Written
<1>5. rest = <<>>
  <2>1. Incident("split_request") => "split_request" \in incidents'.kinds
    BY <1>a DEF Incident, ClientType
  <2>. QED  BY <1>1, <2>1 DEF Transmit, InParts
<1>6. units = WriteBuf(Written)
  <2>1. WriteBuf(Written) \in Chunks /\ Len(WriteBuf(Written)) = 2
    <3>1. Written \in Nat
      BY <1>4
    <3>. QED  BY <3>1, WriteBufType
  <2>2. Len(units) = 2
    <3>. HIDE DEF rest, send
    <3>1. Len(rest) = 0
      BY <1>5
    <3>2. Len(send.units) = 2
      BY <1>4, <2>1
    <3>3. Len(units) \in 1 .. 2 /\ Len(rest) = 2 - Len(units)
      BY <1>2, <3>2
    <3>. QED  BY <3>1, <3>3
  <2>3. WriteBuf(Written) \in Seq(Nat)
    BY <2>1 DEF Chunks
  <2>4. SubSeq(WriteBuf(Written), 1, 2) = WriteBuf(Written)
    BY <2>1, <2>3, WholePiece
  <2>. QED  BY <1>2, <1>4, <2>2, <2>4
<1>7. left = [of |-> Written, units |-> WriteBuf(Written), at |-> now + 1]
  BY <1>4, <1>6
<1>8. /\ outgoing' = <<>>
      /\ \/ errqueue' = Append(errqueue, left) /\ last' = <<left>>
         \/ UNCHANGED errqueue /\ last' = <<>>
  BY <1>1, <1>4, <1>5 DEF Transmit
<1>. HIDE DEF send, rest, left
<1>. QED  BY <1>1, <1>2, <1>4, <1>6, <1>7, <1>8

LEMMA WholeStep ==
    DataType /\ AnswerInv /\ WholeInv /\ [Next]_vars => WholeInv'
<1> DEFINE G == /\ pc' \in {"send", "search"} =>
                      calls' = <<WriteBuf(Request')>>
                /\ Behind'
                /\ pc' \in {"read", "measure"} =>
                      tx_timestamp'.of = Request'
<1> SUFFICES ASSUME DataType, AnswerInv, WholeInv, [Next]_vars,
                    ~InParts', ~ClientGone'
             PROVE  G
  BY DEF WholeInv
<1>a. ClientType /\ WireType /\ ServerType
  BY DEF DataType
<1>b. ~InParts
  BY KindsGrow DEF InParts
<1>c. ~ClientGone =>
        /\ pc \in {"send", "search"} => calls = <<WriteBuf(Request)>>
        /\ Behind
        /\ pc \in {"read", "measure"} => tx_timestamp.of = Request
  BY <1>b DEF WholeInv
<1>d. Request \in Nat \ {0} /\ Len(samples) \in Nat
  BY <1>a, LenProperties DEF Request, ClientType
\* What neither sends nor stamps.
<1> DEFINE Quiet == /\ UNCHANGED <<errqueue, outgoing, calls, samples>>
                    /\ last' = <<>> \/ UNCHANGED last
                    /\ UNCHANGED <<pc, tx_timestamp>>
<1>e. Quiet => G
  <2> SUFFICES ASSUME Quiet PROVE G
    OBVIOUS
  <2>1. ~ClientGone /\ Request' = Request /\ Written' = Written
    BY DEF ClientGone, Request, Written
  <2>2. Behind'
    BY <1>c, <2>1, BehindKept
  <2>. QED  BY <1>c, <2>1, <2>2
<1>1. CASE Setup
  <2>1. /\ UNCHANGED <<errqueue, outgoing, last, samples>>
        /\ pc \in {"connect", "device", "socket"}
        /\ pc' \in {"device", "socket", "request"}
    BY <1>1 DEF Setup, Connect, InitializeDevice, InitializeSocket,
                wireVars, benchVars, ClientGone
  <2>2. ~ClientGone /\ Request' = Request /\ Written' = Written
    BY <2>1 DEF ClientGone, Request, Written
  <2>3. Behind'
    BY <1>c, <2>1, <2>2, BehindKept
  <2>. QED  BY <2>1, <2>3
<1>2. CASE BeginWrite
  <2>1. /\ UNCHANGED <<errqueue, outgoing, last, samples>>
        /\ pc = "request" /\ pc' = "send"
        /\ calls' = <<WriteBuf(Request)>>
    BY <1>2 DEF BeginWrite, wireVars, benchVars
  <2>2. ~ClientGone /\ Request' = Request /\ Written' = Written
    BY <2>1 DEF ClientGone, Request, Written
  <2>3. Behind'
    BY <1>c, <2>1, <2>2, BehindKept
  <2>. QED  BY <2>1, <2>2, <2>3
<1>3. CASE WriteSends
  <2> DEFINE chunk == WriteBuf(Request)
  <2>1. /\ UNCHANGED <<errqueue, last, samples, tx_timestamp>> /\ pc = "send"
        /\ Request' = Request /\ ~ClientGone
    BY <1>3 DEF WriteSends, Send, benchVars, Request, ClientGone
  <2>2. calls = <<chunk>> /\ Head(calls) = chunk /\ Behind
    BY <1>c, <2>1
  <2>3. chunk \in Chunks /\ Len(chunk) = 2 /\ chunk \in Seq(Nat)
    BY <1>d, WriteBufType DEF Chunks
  <2>4. PICK n \in 1 .. Len(chunk) :
           /\ Ordinary(n = Len(chunk), "partial_send")
           /\ outgoing' = Append(outgoing, [of |-> Request,
                                            units |-> SubSeq(chunk, 1, n)])
           /\ ~(n < Len(chunk)) => calls' = calls /\ pc' = "search"
    BY <1>3, <2>2 DEF WriteSends, Send
  <2>5. n = Len(chunk)
    <3>1. ~Incident("partial_send")
      <4>1. Incident("partial_send") => "partial_send" \in incidents'.kinds
        BY <1>a DEF Incident, ClientType
      <4>. QED  BY <4>1 DEF InParts
    <3>. QED  BY <2>4, <3>1 DEF Ordinary
  <2>6. SubSeq(chunk, 1, n) = chunk
    <3>. HIDE DEF chunk
    <3>1. SubSeq(chunk, 1, Len(chunk)) = chunk
      BY <2>3, WholePiece
    <3>. QED  BY <2>5, <3>1
  <2>. HIDE DEF chunk
  <2>7. pc' = "search" /\ calls' = calls
    BY <2>3, <2>4, <2>5
  <2>8. outgoing = <<>>
    BY <2>1, <2>2 DEF Behind
  <2>9. outgoing' = <<[of |-> Request, units |-> chunk]>>
    BY <2>4, <2>6, <2>8
  <2>10. Written = Request - 1 /\ Written' = Request
    BY <2>1, <2>7 DEF Written
  <2>11. Behind'
    <3>1. \A i \in 1 .. Len(errqueue) :
             errqueue[i].of = Written /\ errqueue[i].units
                                           = WriteBuf(errqueue[i].of)
      BY <2>1, <2>2 DEF Behind
    <3>2. outgoing' # <<>>
          /\ outgoing' = <<[of |-> Written', units |-> WriteBuf(Written')]>>
      BY <2>9, <2>10 DEF chunk
    <3>3. last # <<>> => /\ last[1].of = Written
                         /\ last[1].units = WriteBuf(last[1].of)
      BY <2>2, <2>8 DEF Behind
    <3>4. \A i, j \in 1 .. Len(errqueue) :
             i < j => errqueue[i].of <= errqueue[j].of
      BY <2>2 DEF Behind
    <3>5. Written = Written' - 1
      BY <2>10
    <3>. QED  BY <2>1, <2>7, <3>1, <3>2, <3>3, <3>4, <3>5 DEF Behind
  <2>. QED  BY <2>1, <2>2, <2>7, <2>11 DEF chunk
<1>4. CASE WriteSearches
  <2>1. /\ UNCHANGED <<outgoing, last, samples>> /\ pc = "search"
        /\ Request' = Request /\ ~ClientGone
    BY <1>4 DEF WriteSearches, Search, benchVars, Request, ClientGone
  <2>2. Behind /\ calls = <<WriteBuf(Request)>> /\ Written = Request
    BY <1>c, <2>1 DEF Written
  <2>3. CASE UNCHANGED <<pc, calls, tx_timestamp, errqueue>>
    BY <1>e, <2>1, <2>3
  <2>4. CASE /\ errqueue # <<>> /\ errqueue' = Tail(errqueue)
             /\ UNCHANGED <<pc, calls, tx_timestamp>>
    <3>1. /\ Len(errqueue) \in Nat \ {0} /\ Len(errqueue') = Len(errqueue) - 1
          /\ \A i \in 1 .. Len(errqueue') : errqueue'[i] = errqueue[i + 1]
      BY <1>a, <2>4, HeadTail DEF WireType
    <3>2. \A i \in 1 .. Len(errqueue') : i + 1 \in 1 .. Len(errqueue)
      BY <3>1
    <3>3. \A i, j \in 1 .. Len(errqueue') :
             i < j => errqueue'[i].of <= errqueue'[j].of
      <4>1. \A i, j \in 1 .. Len(errqueue') : i < j => i + 1 < j + 1
        BY <3>1
      <4>. QED  BY <2>2, <3>1, <3>2, <4>1 DEF Behind
    <3>4. Written' = Written
      BY <2>1, <2>4 DEF Written
    <3>5. Behind'
      BY <2>1, <2>2, <2>4, <3>1, <3>2, <3>3, <3>4 DEF Behind
    <3>. QED  BY <2>1, <2>2, <2>4, <3>5
  <2>5. CASE /\ errqueue # <<>> /\ errqueue' = Tail(errqueue)
             /\ TRUE \in BeginsWith(Head(errqueue).units, Head(calls))
             /\ tx_timestamp' = CellOf(Stamp(Head(errqueue).of,
                                             Head(errqueue).at))
             /\ pc' = IF Len(calls) = 1 THEN "read" ELSE pc
    <3>1. /\ Len(errqueue) \in Nat \ {0} /\ Len(errqueue') = Len(errqueue) - 1
          /\ \A i \in 1 .. Len(errqueue') : errqueue'[i] = errqueue[i + 1]
          /\ Head(errqueue) = errqueue[1] /\ errqueue[1] \in Stored
      BY <1>a, <2>5, HeadTail DEF WireType
    <3> DEFINE of == errqueue[1].of
    <3>2. /\ 1 \in 1 .. Len(errqueue)
          /\ of \in {Request - 1, Request} /\ of \in Nat
          /\ errqueue[1].units = WriteBuf(of)
          /\ outgoing # <<>> => of = Request - 1
      BY <2>2, <3>1 DEF Behind, Stored
    <3>3. of = Request
      <4>1. TRUE \in BeginsWith(WriteBuf(of), WriteBuf(Request))
        <5>1. Head(calls) = WriteBuf(Request)
          BY <2>2
        <5>. HIDE DEF of
        <5>. QED  BY <2>5, <3>1, <3>2, <5>1
      <4>. HIDE DEF of
      <4>. QED  BY <1>d, <3>2, <4>1, OwnContent
    <3>4. outgoing = <<>>
      BY <1>d, <3>2, <3>3
    <3>5. pc' = "read" /\ tx_timestamp'.of = Request
      <4>1. tstamp_source = options
        BY <2>1 DEF AnswerInv, Working
      <4>2. Len(calls) = 1
        BY <2>2
      <4>. QED  BY <2>5, <3>1, <3>3, <4>1, <4>2 DEF CellOf, Stamp
    <3>6. Written' = Written
      BY <2>1, <2>2, <3>5 DEF Written
    <3>7. \A i \in 1 .. Len(errqueue') : i + 1 \in 1 .. Len(errqueue)
      BY <3>1
    <3>8. \A i \in 1 .. Len(errqueue') : errqueue'[i].of = Written
      <4>1. ASSUME NEW i \in 1 .. Len(errqueue')
            PROVE  errqueue'[i].of = Written
        <5>1. i + 1 \in 1 .. Len(errqueue) /\ 1 < i + 1
          BY <3>1, <3>7
        <5>2. errqueue[1].of <= errqueue[i + 1].of
              /\ errqueue[i + 1].of \in {Written - 1, Written}
          BY <2>2, <3>2, <5>1 DEF Behind
        <5>3. errqueue[i + 1].of = Written
          BY <1>d, <2>2, <3>3, <5>2
        <5>. QED  BY <3>1, <5>3
      <4>. QED  BY <4>1
    <3>9. \A i \in 1 .. Len(errqueue') :
             errqueue'[i].units = WriteBuf(errqueue'[i].of)
      BY <2>2, <3>1, <3>7 DEF Behind
    <3>10. Behind'
      <4>1. Written \in Nat
        BY <1>d, <2>2
      <4>2. \A i, j \in 1 .. Len(errqueue') :
               i < j => errqueue'[i].of <= errqueue'[j].of
        BY <3>8, <4>1
      <4>3. last' # <<>> => /\ last'[1].of = Written'
                            /\ last'[1].units = WriteBuf(last'[1].of)
        BY <2>1, <2>2, <3>4, <3>6 DEF Behind
      <4>. QED
        BY <2>1, <3>4, <3>6, <3>8, <3>9, <4>2, <4>3 DEF Behind
    <3>. QED  BY <2>1, <3>5, <3>10
  <2>. QED  BY <1>4, <2>3, <2>4, <2>5 DEF WriteSearches, Search
<1>5. CASE WriteFails
  BY <1>5 DEF WriteFails, SearchFails, ClientGone
<1>6. CASE ReadAnswer
  <2>1. /\ UNCHANGED <<errqueue, outgoing, last, samples, tx_timestamp>>
        /\ pc = "read" /\ pc' = "measure"
    BY <1>6 DEF ReadAnswer, Read
  <2>2. ~ClientGone /\ Request' = Request /\ Written' = Written
    BY <2>1 DEF ClientGone, Request, Written
  <2>3. Behind'
    BY <1>c, <2>1, <2>2, BehindKept
  <2>. QED  BY <1>c, <2>1, <2>2, <2>3
<1>7. CASE Measure
  <2>1. /\ UNCHANGED <<errqueue, outgoing, last>>
        /\ pc = "measure" /\ pc' = "request"
        /\ samples' = Append(samples, [tx   |-> tx_timestamp.of,
                                       rx   |-> rx_timestamp.of,
                                       size |-> read_size])
    BY <1>7 DEF Measure, wireVars, ClientGone
  <2>2. Len(samples') = Len(samples) + 1
    BY <1>a, <2>1 DEF ClientType
  <2>3. ~ClientGone /\ Written' = Written
    BY <1>d, <2>1, <2>2 DEF ClientGone, Request, Written
  <2>4. Behind'
    BY <1>c, <2>1, <2>3, BehindKept
  <2>. QED  BY <2>1, <2>4
<1>8. CASE Finish
  BY <1>8 DEF Finish, ClientGone
<1>9. ServerRead => Quiet
  BY DEF ServerRead, kernelVars, callVars, wireVars, benchVars
<1>10. ServerWrite => Quiet
  BY DEF ServerWrite, callVars, benchVars
<1>11. ServerKilled => Quiet
  BY DEF ServerKilled, kernelVars, callVars, wireVars, benchVars
<1>12. CASE PacketLeaves
  <2> DEFINE stamp == [of |-> Written, units |-> WriteBuf(Written),
                       at |-> now + 1]
  <2>1. /\ UNCHANGED <<pc, calls, tx_timestamp, samples>>
        /\ Request' = Request /\ ~ClientGone /\ Written' = Written
    BY <1>12 DEF PacketLeaves, Transmit, callVars, benchVars, Request,
                 ClientGone, Written
  <2>2. /\ outgoing # <<>> /\ outgoing' = <<>>
        /\ \/ errqueue' = Append(errqueue, stamp) /\ last' = <<stamp>>
           \/ UNCHANGED errqueue /\ last' = <<>>
    BY <1>b, <1>12, <2>1, WholeLeaves
  <2>3. Behind /\ Written \in Nat /\ pc = "search"
    BY <1>c, <1>d, <2>1, <2>2 DEF Written, Behind
  <2>4. stamp.of = Written /\ stamp.units = WriteBuf(stamp.of)
    OBVIOUS
  <2>5. \A i \in 1 .. Len(errqueue) : errqueue[i].of = Written - 1
        /\ errqueue[i].units = WriteBuf(errqueue[i].of)
    BY <2>2, <2>3 DEF Behind
  <2>. HIDE DEF stamp
  <2>6. Behind'
    <3>1. CASE UNCHANGED errqueue /\ last' = <<>>
      BY <2>1, <2>2, <2>3, <2>5, <3>1 DEF Behind
    <3>2. CASE errqueue' = Append(errqueue, stamp) /\ last' = <<stamp>>
      <4> DEFINE n == Len(errqueue)
      <4>1. /\ n \in Nat /\ Len(errqueue') = n + 1
            /\ \A i \in 1 .. n : errqueue'[i] = errqueue[i]
            /\ errqueue'[n + 1] = stamp
        BY <1>a, <3>2, AppendProperties, LenProperties DEF WireType
      <4>. HIDE DEF n
      <4>2. \A i \in 1 .. n + 1 :
               /\ errqueue'[i].of = IF i = n + 1 THEN Written
                                    ELSE Written - 1
               /\ errqueue'[i].units = WriteBuf(errqueue'[i].of)
        <5>1. \A i \in 1 .. n + 1 : i # n + 1 => i \in 1 .. n
          BY <4>1
        <5>. QED  BY <2>4, <2>5, <4>1, <5>1 DEF n
      <4>3. \A i, j \in 1 .. n + 1 :
               i < j => errqueue'[i].of <= errqueue'[j].of
        BY <2>3, <4>1, <4>2
      <4>4. last'[1] = stamp
        BY <3>2
      <4>. QED
        BY <2>1, <2>2, <2>3, <2>4, <4>1, <4>2, <4>3, <4>4 DEF Behind
    <3>. QED  BY <2>2, <3>1, <3>2
  <2>. QED  BY <1>c, <2>1, <2>6
<1>13. PacketArrives => Quiet
  BY DEF PacketArrives, Arrive, callVars, benchVars
<1>14. Reset => Quiet
  BY DEF Reset, kernelVars, callVars, wireVars, benchVars
<1>15. CASE SendAgain
  <2> DEFINE again == [last[1] EXCEPT !.at = now + 1]
             n     == Len(errqueue)
  <2>1. /\ UNCHANGED <<pc, calls, tx_timestamp, samples, outgoing>>
        /\ Request' = Request /\ ~ClientGone /\ Written' = Written
        /\ last # <<>> /\ last' = <<>>
        /\ errqueue' = Append(errqueue, again)
    BY <1>15 DEF SendAgain, Retransmit, callVars, benchVars, Request,
                 ClientGone, Written
  <2>2. last[1] \in Stored
    BY <1>a, <2>1 DEF WireType
  <2>3. again.of = last[1].of /\ again.units = last[1].units
    BY <2>2 DEF Stored
  <2>. HIDE DEF again
  <2>4. /\ n \in Nat /\ Len(errqueue') = n + 1
        /\ \A i \in 1 .. n : errqueue'[i] = errqueue[i]
        /\ errqueue'[n + 1] = again
    BY <1>a, <2>1, AppendProperties, LenProperties DEF WireType
  <2>5. Behind
    BY <1>c, <2>1
  <2>6. /\ again.of = IF outgoing = <<>> THEN Written ELSE Written - 1
        /\ again.units = WriteBuf(again.of)
    BY <2>1, <2>3, <2>5 DEF Behind
  <2>7. pc # "search" => outgoing = <<>>
    BY <2>5 DEF Behind
  <2>8. \A i \in 1 .. n : errqueue[i].of <= again.of
    <3>1. Written \in Int
      BY <1>d DEF Written
    <3>2. \A i \in 1 .. n : /\ errqueue[i].of \in {Written - 1, Written}
                            /\ outgoing # <<>> =>
                                  errqueue[i].of = Written - 1
      BY <2>5 DEF Behind
    <3>. QED  BY <2>6, <3>1, <3>2
  <2>. HIDE DEF n
  <2>9. \A i \in 1 .. n + 1 : i # n + 1 => i \in 1 .. n
    BY <2>4
  <2>10. Behind'
    <3>1. \A i \in 1 .. n + 1 :
             /\ errqueue'[i].of \in {Written - 1, Written}
             /\ errqueue'[i].units = WriteBuf(errqueue'[i].of)
             /\ outgoing # <<>> => errqueue'[i].of = Written - 1
             /\ pc # "search" => errqueue'[i].of = Written
      BY <2>4, <2>5, <2>6, <2>7, <2>9 DEF Behind, n
    <3>2. \A i, j \in 1 .. n + 1 :
             i < j => errqueue'[i].of <= errqueue'[j].of
      <4>1. ASSUME NEW i \in 1 .. n + 1, NEW j \in 1 .. n + 1, i < j
            PROVE  errqueue'[i].of <= errqueue'[j].of
        <5>1. i \in 1 .. n
          BY <2>4, <4>1
        <5>2. CASE j = n + 1
          BY <2>4, <2>8, <5>1, <5>2 DEF n
        <5>3. CASE j # n + 1
          BY <2>4, <2>5, <2>9, <4>1, <5>1, <5>3 DEF Behind, n
        <5>. QED  BY <5>2, <5>3
      <4>. QED  BY <4>1
    <3>. QED  BY <2>1, <2>4, <2>5, <3>1, <3>2 DEF Behind
  <2>. QED  BY <1>c, <2>1, <2>10
<1>16. UNCHANGED vars => Quiet
  BY DEF vars, kernelVars, callVars, wireVars, benchVars
<1>17. G
  <2>. HIDE DEF G, Quiet
  <2>. QED
    BY <1>e, <1>9, <1>10, <1>11, <1>13, <1>14, <1>16, <1>1, <1>2, <1>3,
       <1>4, <1>5, <1>6, <1>7, <1>8, <1>12, <1>15, NextCases
<1>. QED  BY <1>17


-----------------------------------------------------------------------------
(***************************************************************************)
(* The requests the server gets.                                           *)
(***************************************************************************)

\* The requests the server has read.
Asked == Len(classes) + (IF server = "write" THEN 1 ELSE 0)

\* a whole requests wait for the server, and one or none has yet to leave.
Waiting(a) ==
    /\ Len(arrived) = 2 * a
    /\ \A j \in 1 .. a : arrived[2 * j - 1] = Sample(Asked + j)
    /\ Asked + a + Len(outgoing) = Written

\* The server answers, in turn, to the requests that have been written.
RequestInv ==
    ~InParts =>
       /\ \A j \in 1 .. Len(classes) : classes[j] = Sample(j)
       /\ ~ClientGone => /\ server = "write" => read_buf = Sample(Asked)
                         /\ \E a \in Nat : Waiting(a)

LEMMA RequestInit == Init => RequestInv
<1> SUFFICES ASSUME Init PROVE RequestInv
  OBVIOUS
<1>1. /\ classes = <<>> /\ server = "read" /\ arrived = <<>>
      /\ outgoing = <<>> /\ samples = <<>> /\ pc = "connect"
  BY DEF Init, KernelInit
<1>2. /\ Len(classes) = 0 /\ Len(arrived) = 0 /\ Len(outgoing) = 0
      /\ Len(samples) = 0
  BY <1>1
<1>3. Asked = 0 /\ Written = 0
  BY <1>1, <1>2 DEF Asked, Written, Request
<1>4. Waiting(0)
  BY <1>2, <1>3 DEF Waiting
<1>. QED  BY <1>1, <1>2, <1>4 DEF RequestInv

\* Once the client has gone, only what has been answered matters.
LEMMA RequestGone ==
    ASSUME RequestInv, ClientGone', UNCHANGED classes, InParts => InParts'
    PROVE  RequestInv'
BY DEF RequestInv

\* What neither writes, nor moves, nor answers to a request.
LEMMA RequestKept ==
    ASSUME RequestInv,
           UNCHANGED <<classes, server, read_buf, arrived, outgoing>>,
           InParts => InParts', Written' = Written \/ ClientGone',
           ClientGone => ClientGone'
    PROVE  RequestInv'
BY DEF RequestInv, Waiting, Asked

LEMMA RequestStep ==
    DataType /\ WholeInv /\ WholeInv' /\ RequestInv /\ [Next]_vars
        => RequestInv'
<1> DEFINE G == RequestInv'
<1> SUFFICES ASSUME DataType, WholeInv, WholeInv', RequestInv, [Next]_vars
             PROVE  G
  OBVIOUS
<1>a. ClientType /\ WireType /\ ServerType
  BY DEF DataType
<1>b. InParts => InParts'
  BY KindsGrow DEF InParts
<1>c. /\ Request \in Nat \ {0} /\ Len(samples) \in Nat
      /\ Len(classes) \in Nat /\ Asked \in Nat /\ Written \in Nat
  BY <1>a, LenProperties DEF Request, Asked, Written, ClientType, ServerType
<1> DEFINE Quiet ==
              /\ UNCHANGED <<classes, server, read_buf, arrived, outgoing>>
              /\ Written' = Written \/ ClientGone'
              /\ ClientGone => ClientGone'
<1>d. Quiet => G
  BY <1>b, RequestKept
<1>1. Setup => Quiet
  <2> SUFFICES ASSUME Setup PROVE Quiet
    OBVIOUS
  <2>1. /\ UNCHANGED <<outgoing, samples, serverVars>>
        /\ pc \in {"connect", "device", "socket"}
        /\ pc' \in {"device", "socket", "request", "terminated"}
    BY DEF Setup, Connect, InitializeDevice, InitializeSocket, wireVars,
           benchVars
  <2>. QED  BY <2>1 DEF serverVars, Written, Request, ClientGone
<1>2. BeginWrite => Quiet
  BY DEF BeginWrite, wireVars, benchVars, serverVars, Written, Request,
         ClientGone
<1>4. WriteSearches => Quiet
  <2> SUFFICES ASSUME WriteSearches PROVE Quiet
    OBVIOUS
  <2>1. /\ UNCHANGED <<outgoing, samples, serverVars>>
        /\ pc = "search" /\ pc' \in {"search", "read"}
    BY DEF WriteSearches, Search, benchVars
  <2>. QED  BY <2>1 DEF serverVars, Written, Request, ClientGone
<1>5. WriteFails => Quiet
  BY DEF WriteFails, SearchFails, wireVars, benchVars, serverVars,
         ClientGone
<1>6. ReadAnswer => Quiet
  BY DEF ReadAnswer, Read, serverVars, Written, Request, ClientGone
<1>7. Measure => Quiet
  <2> SUFFICES ASSUME Measure PROVE Quiet
    OBVIOUS
  <2>1. /\ UNCHANGED <<outgoing, serverVars>> /\ pc = "measure"
        /\ \/ pc' = "terminated"
           \/ /\ samples' = Append(samples, [tx   |-> tx_timestamp.of,
                                             rx   |-> rx_timestamp.of,
                                             size |-> read_size])
              /\ pc' = "request"
    BY DEF Measure, wireVars
  <2>2. CASE pc' = "terminated"
    BY <2>1, <2>2 DEF serverVars, ClientGone
  <2>3. CASE /\ samples' = Append(samples, [tx   |-> tx_timestamp.of,
                                            rx   |-> rx_timestamp.of,
                                            size |-> read_size])
             /\ pc' = "request"
    <3>1. Len(samples') = Len(samples) + 1
      BY <1>a, <2>3 DEF ClientType
    <3>2. Written' = Written
      BY <1>c, <2>1, <2>3, <3>1 DEF Written, Request
    <3>. QED  BY <2>1, <2>3, <3>2 DEF serverVars, ClientGone
  <2>. QED  BY <2>1, <2>2, <2>3
<1>8. Finish => Quiet
  BY DEF Finish, wireVars, benchVars, serverVars, ClientGone
<1>11. ASSUME ServerKilled PROVE G
  <2>1. UNCHANGED <<kernelVars, classes, arrived, read_buf>>
        /\ server = "write" /\ reset
    BY <1>11 DEF ServerKilled
  <2>2. ClientGone' /\ ClientGone /\ InParts' = InParts
    BY <1>a, <2>1 DEF ServerType, ClientGone, kernelVars, InParts
  <2>. QED  BY <2>1, <2>2 DEF RequestInv
<1>13. PacketArrives => Quiet
  BY DEF PacketArrives, Arrive, benchVars, serverVars, Written, Request,
         ClientGone
<1>14. Reset => Quiet
  BY DEF Reset, kernelVars, wireVars, benchVars, Written, Request,
         ClientGone
<1>15. SendAgain => Quiet
  BY DEF SendAgain, Retransmit, benchVars, serverVars, Written, Request,
         ClientGone
<1>16. UNCHANGED vars => Quiet
  BY DEF vars, kernelVars, wireVars, benchVars, serverVars, Written,
         Request, ClientGone
<1>3. ASSUME WriteSends PROVE G
  <2>1. /\ UNCHANGED <<samples, classes, server, read_buf, arrived>>
        /\ pc = "send" /\ pc' \in {"send", "search"}
        /\ ~ClientGone /\ ~ClientGone' /\ Request' = Request
        /\ \E send : outgoing' = Append(outgoing, send)
    BY <1>3 DEF WriteSends, Send, benchVars, serverVars, ClientGone, Request
  <2>2. Len(outgoing') = Len(outgoing) + 1 /\ Len(outgoing) \in Nat
    <3>1. outgoing' \in Seq(Sends) /\ outgoing \in Seq(Sends)
      BY <1>a, WireTypeStep DEF WireType
    <3>. QED  BY <2>1, <3>1, LenProperties
  <2> SUFFICES ASSUME ~InParts, ~InParts' PROVE G
    BY <1>b DEF RequestInv
  <2>3. pc' = "search" /\ Len(outgoing') = 1
    <3>1. outgoing' # <<>>
      BY <2>2
    <3>. QED  BY <2>1, <3>1 DEF WholeInv, Behind
  <2>4. Len(outgoing) = 0 /\ Written = Request - 1 /\ Written' = Request
    BY <2>1, <2>2, <2>3 DEF Written
  <2>5. PICK a \in Nat : Waiting(a)
    BY <2>1 DEF RequestInv
  <2>6. Asked' = Asked
    BY <2>1 DEF Asked
  <2>7. Asked + a + 1 = Request
    BY <1>c, <2>4, <2>5 DEF Waiting
  <2>8. Waiting(a)'
    BY <1>c, <2>1, <2>3, <2>4, <2>5, <2>6, <2>7 DEF Waiting
  <2>. QED  BY <2>1, <2>6, <2>8 DEF RequestInv
<1>9. ASSUME ServerRead PROVE G
  <2>1. /\ UNCHANGED <<pc, outgoing, samples, classes, incidents>>
        /\ server = "read"
    BY <1>9 DEF ServerRead, kernelVars, wireVars, benchVars
  <2>2. /\ ClientGone' = ClientGone /\ Written' = Written
        /\ InParts' = InParts
    BY <2>1 DEF ClientGone, Written, Request, InParts
  <2>3. CASE ClientGone
    BY <1>b, <2>1, <2>2, <2>3, RequestGone
  <2>4. CASE ~ClientGone
    <3> SUFFICES ASSUME ~InParts PROVE G
      BY <1>b DEF RequestInv
    <3>1. /\ arrived # <<>> /\ read_buf' = Head(arrived)
          /\ arrived' = SubSeq(arrived, 2 + 1, Len(arrived))
          /\ server' = "write"
      BY <1>9, <1>a, <2>4 DEF ServerRead, ServerType, BUFSIZE
    <3>2. PICK a \in Nat : Waiting(a)
      BY <2>4 DEF RequestInv
    <3>3. /\ Len(arrived) = 2 * a
          /\ \A j \in 1 .. a : arrived[2 * j - 1] = Sample(Asked + j)
          /\ Asked + a + Len(outgoing) = Written
      BY <3>2 DEF Waiting
    <3>4. arrived \in Seq(Nat) /\ Len(arrived) \in Nat \ {0}
          /\ Head(arrived) = arrived[1]
      BY <1>a, <3>1, HeadTail DEF ServerType
    <3>5. a \in Nat \ {0} /\ 2 <= Len(arrived)
      BY <3>3, <3>4
    <3>6. /\ Len(arrived') = Len(arrived) - 2
          /\ \A i \in 1 .. Len(arrived) - 2 : arrived'[i] = arrived[2 + i]
      BY <3>1, <3>4, <3>5, WithoutTwo
    <3>7. Asked' = Asked + 1
      BY <1>c, <2>1, <3>1 DEF Asked
    <3>8. read_buf' = Sample(Asked + 1)
      <4>1. 1 \in 1 .. a /\ 2 * 1 - 1 = 1
        BY <3>5
      <4>. QED  BY <3>1, <3>3, <3>4, <4>1
    <3>9. Len(arrived') = 2 * (a - 1)
      BY <3>3, <3>5, <3>6
    <3>10. ASSUME NEW j \in 1 .. a - 1
           PROVE  arrived'[2 * j - 1] = Sample(Asked' + j)
      <4>1. /\ 2 * j - 1 \in 1 .. 2 * a - 2 /\ j + 1 \in 1 .. a
            /\ 2 + (2 * j - 1) = 2 * (j + 1) - 1
        BY <3>5
      <4>2. arrived'[2 * j - 1] = arrived[2 + (2 * j - 1)]
        BY <3>3, <3>6, <4>1
      <4>3. arrived[2 * (j + 1) - 1] = Sample(Asked + (j + 1))
        BY <3>3, <4>1
      <4>4. Asked' + j = Asked + (j + 1)
        BY <1>c, <3>7
      <4>. QED  BY <4>1, <4>2, <4>3, <4>4
    <3>11. /\ a - 1 \in Nat
           /\ Asked' + (a - 1) + Len(outgoing') = Written'
      <4>1. Asked' + (a - 1) = Asked + a
        BY <1>c, <3>5, <3>7
      <4>. QED  BY <2>1, <2>2, <3>3, <3>5, <4>1
    <3>12. Waiting(a - 1)'
      BY <3>9, <3>10, <3>11 DEF Waiting
    <3>. QED  BY <2>1, <3>7, <3>8, <3>11, <3>12 DEF RequestInv
  <2>. QED  BY <2>3, <2>4
<1>10. ASSUME ServerWrite PROVE G
  <2>1. /\ UNCHANGED <<pc, outgoing, samples, arrived, read_buf>>
        /\ server = "write" /\ server' = "read"
    BY <1>10 DEF ServerWrite, benchVars
  <2>2. ClientGone' = ClientGone /\ Written' = Written
    BY <2>1 DEF ClientGone, Written, Request
  <2>3. CASE ClientGone
    <3>1. UNCHANGED classes
      BY <1>10, <2>3 DEF ServerWrite
    <3>. QED  BY <1>b, <2>2, <2>3, <3>1, RequestGone
  <2>4. CASE ~ClientGone
    <3> SUFFICES ASSUME ~InParts PROVE G
      BY <1>b DEF RequestInv
    <3>1. classes' = Append(classes, Class(read_buf))
          /\ classes \in Seq(Nat)
      BY <1>10, <1>a, <2>4 DEF ServerWrite, ServerType
    <3>2. PICK a \in Nat : Waiting(a)
      BY <2>4 DEF RequestInv
    <3>3. Asked = Len(classes) + 1 /\ read_buf = Sample(Asked)
          /\ \A j \in 1 .. Len(classes) : classes[j] = Sample(j)
      BY <2>1, <2>4 DEF RequestInv, Asked
    <3>4. Class(read_buf) = Sample(Len(classes) + 1)
      BY <1>c, <3>3 DEF Class, Sample, SAMPLESIZE
    <3>5. /\ Len(classes') = Len(classes) + 1
          /\ \A j \in 1 .. Len(classes) : classes'[j] = classes[j]
          /\ classes'[Len(classes) + 1] = Sample(Len(classes) + 1)
      <4>1. Class(read_buf) \in Nat
        BY <1>a DEF ServerType, Class
      <4>. QED  BY <3>1, <3>4, <4>1, AppendProperties
    <3>6. \A j \in 1 .. Len(classes') : classes'[j] = Sample(j)
      <4>1. \A j \in 1 .. Len(classes') :
               j \in 1 .. Len(classes) \/ j = Len(classes) + 1
        BY <1>c, <3>5
      <4>. QED  BY <3>3, <3>5, <4>1
    <3>7. Asked' = Asked
      BY <1>c, <2>1, <3>3, <3>5 DEF Asked
    <3>8. Waiting(a)'
      BY <2>1, <2>2, <3>2, <3>7 DEF Waiting
    <3>. QED  BY <2>1, <3>6, <3>8 DEF RequestInv
  <2>. QED  BY <2>3, <2>4
<1>12. ASSUME PacketLeaves PROVE G
  <2>1. UNCHANGED <<pc, samples, server, read_buf, classes>>
    BY <1>12 DEF PacketLeaves, Transmit, benchVars
  <2>2. ClientGone' = ClientGone /\ Written' = Written /\ Asked' = Asked
    BY <2>1 DEF ClientGone, Written, Request, Asked
  <2>3. CASE ClientGone
    BY <1>b, <2>1, <2>2, <2>3, RequestGone
  <2>4. CASE ~ClientGone
    <3> SUFFICES ASSUME ~InParts, ~InParts' PROVE G
      BY <1>b DEF RequestInv
    <3> DEFINE chunk == WriteBuf(Written)
    <3>1. /\ Len(outgoing) = 1 /\ outgoing # <<>> /\ outgoing' = <<>>
          /\ arrived' = arrived \o chunk
      BY <1>12, <2>4, WholeLeaves
    <3>2. chunk \in Seq(Nat) /\ Len(chunk) = 2
          /\ chunk[1] = Sample(Written)
      <4>1. chunk \in Chunks /\ Len(chunk) = 2
        BY <1>c, WriteBufType
      <4>. QED  BY <4>1 DEF Chunks, WriteBuf
    <3>. HIDE DEF chunk
    <3>3. PICK a \in Nat : Waiting(a)
      BY <2>4 DEF RequestInv
    <3>4. /\ Len(arrived) = 2 * a
          /\ \A j \in 1 .. a : arrived[2 * j - 1] = Sample(Asked + j)
          /\ Asked + a + 1 = Written
      BY <3>1, <3>3 DEF Waiting
    <3>5. /\ Len(arrived') = 2 * a + 2
          /\ \A i \in 1 .. 2 * a : arrived'[i] = arrived[i]
          /\ arrived'[2 * a + 1] = Sample(Written)
      <4>1. arrived \in Seq(Nat)
        BY <1>a DEF ServerType
      <4>2. /\ Len(arrived') = Len(arrived) + Len(chunk)
            /\ \A i \in 1 .. Len(arrived) : arrived'[i] = arrived[i]
            /\ \A i \in 1 .. Len(chunk) :
                  arrived'[Len(arrived) + i] = chunk[i]
        <5>1. arrived' = arrived \o chunk /\ chunk \in Seq(Nat)
          BY <3>1, <3>2
        <5>. QED  BY <4>1, <5>1, ConcatProperties
      <4>3. 1 \in 1 .. 2
        OBVIOUS
      <4>. QED  BY <3>2, <3>4, <4>2, <4>3
    <3>6. ASSUME NEW j \in 1 .. a + 1
          PROVE  arrived'[2 * j - 1] = Sample(Asked' + j)
      <4>1. CASE j \in 1 .. a
        <5>1. 2 * j - 1 \in 1 .. 2 * a
          BY <4>1
        <5>. QED  BY <2>2, <3>4, <3>5, <4>1, <5>1
      <4>2. CASE j \notin 1 .. a
        <5>1. j = a + 1 /\ 2 * j - 1 = 2 * a + 1
          BY <4>2
        <5>2. Asked + j = Written
          BY <1>c, <3>4, <5>1
        <5>. QED  BY <2>2, <3>5, <5>1, <5>2
      <4>. QED  BY <4>1, <4>2
    <3>7. /\ Len(arrived') = 2 * (a + 1) /\ a + 1 \in Nat
          /\ Asked' + (a + 1) + Len(outgoing') = Written'
      <4>1. Len(outgoing') = 0
        BY <3>1
      <4>. QED  BY <1>c, <2>2, <3>4, <3>5, <4>1
    <3>8. Waiting(a + 1)'
      BY <3>6, <3>7 DEF Waiting
    <3>9. server' = "write" => read_buf' = Sample(Asked')
      BY <2>1, <2>2, <2>4 DEF RequestInv
    <3>10. \A j \in 1 .. Len(classes') : classes'[j] = Sample(j)
      BY <2>1 DEF RequestInv
    <3>. QED  BY <3>7, <3>8, <3>9, <3>10 DEF RequestInv
  <2>. QED  BY <2>3, <2>4
<1>. HIDE DEF G, Quiet
<1>. QED
  BY <1>d, <1>1, <1>2, <1>3, <1>4, <1>5, <1>6, <1>7, <1>8, <1>9, <1>10,
     <1>11, <1>12, <1>13, <1>14, <1>15, <1>16, NextCases

LEMMA Paired == Spec => [](DataType /\ AnswerInv /\ WholeInv /\ RequestInv)
<1> DEFINE Inv == AnswerInv /\ WholeInv /\ RequestInv
<1>1. Init => Inv
  BY AnswerInit, WholeInit, RequestInit
<1>2. DataType /\ Inv /\ [Next]_vars => Inv'
  BY AnswerStep, WholeStep, RequestStep
<1>. QED  BY <1>1, <1>2, Typed, PTL DEF Spec

\* The answer a sample is filed with is never a later one; it is the answer to
\* the sample's own request, and of the class this request asks for, as long
\* as every read of TestClient has returned a whole answer with its stamp and
\* no request has been cut on its way to TestServer.
THEOREM AnswersOwn == Spec => []OwnAnswer
<1>1. DataType /\ AnswerInv /\ RequestInv => OwnAnswer
  <2> SUFFICES ASSUME DataType, AnswerInv, RequestInv,
                      NEW k \in DOMAIN samples
               PROVE  /\ samples[k].rx <= k
                      /\ (\A j \in 1 .. k : samples[j].size = BUFSIZE) =>
                            /\ samples[k].rx = k
                            /\ InParts \/ classes[k] = Sample(k)
    BY DEF OwnAnswer
  <2>1. k \in 1 .. Len(samples) /\ k \in Nat \ {0}
    BY LenProperties DEF DataType, ClientType
  <2>2. /\ samples[k].rx <= k /\ samples[k].rx <= Len(classes)
        /\ (\A j \in 1 .. k : samples[j].size = BUFSIZE) =>
              samples[k].rx = k
    BY <2>1 DEF AnswerInv, AnswersFiled
  <2>3. Len(classes) \in Nat
    BY LenProperties DEF DataType, ServerType
  <2>4. ASSUME samples[k].rx = k, ~InParts PROVE classes[k] = Sample(k)
    <3>1. k \in 1 .. Len(classes)
      BY <2>1, <2>2, <2>3, <2>4
    <3>. QED  BY <2>4, <3>1 DEF RequestInv
  <2>. QED  BY <2>2, <2>4
<1>. QED  BY <1>1, Paired, PTL

-----------------------------------------------------------------------------
(***************************************************************************)
(* Whose stamps a sample has.                                              *)
(***************************************************************************)

\* The requests that sends and stamps are of.
Ofs(s) == {s[i].of : i \in 1 .. Len(s)}

\* No stamp is of a request that has not been written.
StampInv ==
    /\ Ofs(outgoing) \subseteq 0 .. Request
    /\ Ofs(errqueue) \subseteq 0 .. Request
    /\ last # <<>> => last[1].of \in 0 .. Request
    /\ tx_timestamp.of \in 0 .. Request

\* Without repeated packets there is no more to come than the write calls that
\* have not returned will look for, and it is of their request.
SingleInv ==
    ~Again =>
       /\ ~ClientGone =>
             /\ Len(outgoing) + Len(errqueue)
                   + (IF pc = "send" THEN 1 ELSE 0) <= Len(calls)
             /\ Ofs(outgoing) \subseteq {Request}
             /\ Ofs(errqueue) \subseteq {Request}
       /\ pc \in {"read", "measure"} => tx_timestamp.of = Request

RequestsFiled ==
    \A k \in 1 .. Len(samples) :
       /\ samples[k].tx <= k
       /\ samples[k].tx # k => Again /\ InParts

LEMMA OfsAppend ==
    ASSUME NEW S, NEW s \in Seq(S), NEW e \in S
    PROVE  /\ Ofs(Append(s, e)) = Ofs(s) \cup {e.of}
           /\ Len(Append(s, e)) = Len(s) + 1
<1> DEFINE n == Len(s)
           t == Append(s, e)
<1>1. /\ n \in Nat /\ Len(t) = n + 1 /\ t[n + 1] = e
      /\ \A i \in 1 .. n : t[i] = s[i]
  BY AppendProperties, LenProperties
<1>. HIDE DEF n, t
<1>2. 1 .. n + 1 = (1 .. n) \cup {n + 1}
  BY <1>1
<1>3. {t[i].of : i \in 1 .. n + 1} = {s[i].of : i \in 1 .. n} \cup {e.of}
  BY <1>1, <1>2
<1>. QED  BY <1>1, <1>3 DEF Ofs, n, t

LEMMA OfsTail ==
    ASSUME NEW S, NEW s \in Seq(S), s # <<>>
    PROVE  /\ Ofs(Tail(s)) \subseteq Ofs(s) /\ Head(s).of \in Ofs(s)
           /\ Len(Tail(s)) = Len(s) - 1 /\ Len(s) \in Nat \ {0}
<1> DEFINE n == Len(s)
           t == Tail(s)
<1>1. /\ n \in Nat \ {0} /\ Len(t) = n - 1 /\ Head(s) = s[1]
      /\ \A i \in 1 .. n - 1 : t[i] = s[i + 1]
  BY HeadTail
<1>. HIDE DEF n, t
<1>2. 1 \in 1 .. n /\ \A i \in 1 .. n - 1 : i + 1 \in 1 .. n
  BY <1>1
<1>3. {t[i].of : i \in 1 .. n - 1} \subseteq {s[i].of : i \in 1 .. n}
  BY <1>1, <1>2
<1>. QED  BY <1>1, <1>2, <1>3 DEF Ofs, n, t

\* A packet that leaves moves one send at most to the error queue.
LEMMA PacketMoves ==
    ASSUME WireType, PacketLeaves
    PROVE  /\ Ofs(outgoing') \subseteq Ofs(outgoing)
           /\ Ofs(errqueue') \subseteq Ofs(errqueue) \cup Ofs(outgoing)
           /\ Len(outgoing') + Len(errqueue')
                 <= Len(outgoing) + Len(errqueue)
           /\ \/ last' = <<>> \/ UNCHANGED last
              \/ last'[1].of \in Ofs(outgoing)
<1>1. PICK units \in Packets : Transmit(units)
  BY DEF PacketLeaves
<1> DEFINE send  == Head(outgoing)
           rest  == SubSeq(send.units, Len(units) + 1, Len(send.units))
           stamp == [of |-> send.of, units |-> units, at |-> now + 1]
           back  == [send EXCEPT !.units = rest]
<1>2. /\ outgoing # <<>> /\ send \in Sends /\ units \in Chunks
      /\ outgoing \in Seq(Sends) /\ errqueue \in Seq(Stored)
      /\ Len(errqueue) \in Nat
  BY PacketType, LenProperties DEF WireType
<1>3. /\ Ofs(Tail(outgoing)) \subseteq Ofs(outgoing)
      /\ send.of \in Ofs(outgoing)
      /\ Len(Tail(outgoing)) = Len(outgoing) - 1
      /\ Len(outgoing) \in Nat \ {0} /\ Tail(outgoing) \in Seq(Sends)
  BY <1>2, OfsTail, HeadTail
<1>4. stamp \in Stored /\ stamp.of = send.of
  BY <1>2 DEF Sends, Stored, WireType
<1>5. back.of = send.of
  BY <1>2 DEF Sends
<1>6. \/ /\ rest # <<>>
         /\ outgoing' = <<back>> \o Tail(outgoing)
         /\ UNCHANGED <<errqueue, last>>
      \/ /\ outgoing' = Tail(outgoing)
         /\ errqueue' = Append(errqueue, stamp)
         /\ last' = <<stamp>>
      \/ /\ outgoing' = Tail(outgoing)
         /\ last' = <<>>
         /\ UNCHANGED errqueue
  BY <1>1 DEF Transmit
<1>7. rest # <<>> => back \in Sends
  BY <1>2, PacketType DEF Sends
<1>. HIDE DEF send, rest, stamp, back
<1>8. CASE /\ rest # <<>>
           /\ outgoing' = <<back>> \o Tail(outgoing)
           /\ UNCHANGED <<errqueue, last>>
  <2> DEFINE t == Tail(outgoing)
             u == <<back>> \o t
             n == Len(t)
  <2>1. t \in Seq(Sends) /\ <<back>> \in Seq(Sends) /\ n \in Nat
    BY <1>3, <1>7, <1>8, LenProperties
  <2>2. Len(<<back>>) = 1 /\ <<back>>[1] = back
    OBVIOUS
  <2>. HIDE DEF t, n
  <2>3. /\ Len(u) = 1 + n /\ u[1] = back
        /\ \A i \in 1 .. n : u[1 + i] = t[i]
    <3>1. /\ Len(u) = Len(<<back>>) + Len(t)
          /\ \A i \in 1 .. Len(<<back>>) : u[i] = <<back>>[i]
          /\ \A i \in 1 .. Len(t) : u[Len(<<back>>) + i] = t[i]
      BY <2>1, ConcatProperties
    <3>. QED  BY <2>2, <3>1 DEF n
  <2>. HIDE DEF u
  <2>4. Ofs(u) \subseteq {back.of} \cup Ofs(t)
    <3>1. \A i \in 1 .. 1 + n : i = 1 \/ (i - 1 \in 1 .. n /\ i = 1 + (i - 1))
      BY <2>1
    <3>2. ASSUME NEW i \in 1 .. 1 + n
          PROVE  u[i].of \in {back.of} \cup Ofs(t)
      <4>1. CASE i = 1
        BY <2>3, <4>1
      <4>2. CASE i # 1
        <5>1. i - 1 \in 1 .. n /\ i = 1 + (i - 1)
          BY <3>1, <4>2
        <5>2. u[1 + (i - 1)] = t[i - 1]
          BY <2>3, <5>1
        <5>3. t[i - 1].of \in Ofs(t)
          BY <5>1 DEF Ofs, n
        <5>4. u[i] = t[i - 1]
          BY <5>1, <5>2
        <5>. QED  BY <5>3, <5>4
      <4>. QED  BY <4>1, <4>2
    <3>. QED  BY <2>3, <3>2 DEF Ofs
  <2>5. outgoing' = u
    BY <1>8 DEF u, t
  <2>6. Len(outgoing') = Len(outgoing)
    <3>1. n = Len(outgoing) - 1
      BY <1>3 DEF t, n
    <3>. QED  BY <1>3, <2>3, <2>5, <3>1
  <2>7. Ofs(t) \subseteq Ofs(outgoing) /\ back.of \in Ofs(outgoing)
    BY <1>3, <1>5 DEF t
  <2>8. Ofs(outgoing') \subseteq Ofs(outgoing)
    BY <2>4, <2>5, <2>7
  <2>. QED  BY <1>2, <1>3, <1>8, <2>6, <2>8
<1>9. CASE /\ outgoing' = Tail(outgoing)
           /\ errqueue' = Append(errqueue, stamp)
           /\ last' = <<stamp>>
  <2>1. /\ Ofs(errqueue') = Ofs(errqueue) \cup {stamp.of}
        /\ Len(errqueue') = Len(errqueue) + 1
    BY <1>2, <1>4, <1>9, OfsAppend
  <2>2. last'[1] = stamp
    BY <1>9
  <2>. QED  BY <1>2, <1>3, <1>4, <1>9, <2>1, <2>2
<1>10. CASE /\ outgoing' = Tail(outgoing)
            /\ last' = <<>>
            /\ UNCHANGED errqueue
  BY <1>2, <1>3, <1>10
<1>. QED  BY <1>6, <1>8, <1>9, <1>10

\* What send and the search through the error queue do.
LEMMA SendMoves ==
    ASSUME DataType, WriteSends
    PROVE  /\ Ofs(outgoing') = Ofs(outgoing) \cup {Request}
           /\ Len(outgoing') = Len(outgoing) + 1
           /\ \/ pc' = "send" /\ Len(calls') = Len(calls) + 1
              \/ pc' = "search" /\ calls' = calls
<1> DEFINE chunk == Head(calls)
<1>1. chunk \in Chunks /\ calls \in Seq(Chunks) /\ Request \in Nat
      /\ pc = "send" /\ outgoing \in Seq(Sends)
  BY HeadTail, LenProperties
     DEF DataType, ClientType, WireType, WriteSends, Send, Request
<1>2. PICK n \in 1 .. Len(chunk) :
         /\ outgoing' = Append(outgoing, [of |-> Request,
                                          units |-> SubSeq(chunk, 1, n)])
         /\ IF n < Len(chunk)
            THEN /\ calls' = <<SubSeq(chunk, n + 1, Len(chunk))>> \o calls
                 /\ pc' = pc
            ELSE calls' = calls /\ pc' = "search"
  BY DEF WriteSends, Send
<1>3. Len(chunk) \in Nat \ {0} /\ n \in Nat
      /\ SubSeq(chunk, 1, n) \in Chunks
  BY <1>1, ChunkType
<1>4. [of |-> Request, units |-> SubSeq(chunk, 1, n)] \in Sends
  BY <1>1, <1>3 DEF Sends
<1>5. /\ Ofs(outgoing') = Ofs(outgoing) \cup {Request}
      /\ Len(outgoing') = Len(outgoing) + 1
  <2> DEFINE send == [of |-> Request, units |-> SubSeq(chunk, 1, n)]
  <2>1. send \in Sends /\ send.of = Request
        /\ outgoing' = Append(outgoing, send)
    BY <1>2, <1>4
  <2>. HIDE DEF send
  <2>. QED  BY <1>1, <2>1, OfsAppend
<1>6. CASE n < Len(chunk)
  <2> DEFINE rest == SubSeq(chunk, n + 1, Len(chunk))
  <2>1. rest \in Chunks
    BY <1>1, <1>3, <1>6, ChunkType
  <2>2. calls' = <<rest>> \o calls /\ pc' = "send"
    BY <1>1, <1>2, <1>6
  <2>. HIDE DEF rest
  <2>3. Len(calls') = Len(calls) + 1
    BY <1>1, <2>1, <2>2, LenProperties
  <2>. QED  BY <1>5, <2>2, <2>3
<1>7. CASE ~(n < Len(chunk))
  BY <1>2, <1>5, <1>7
<1>. QED  BY <1>6, <1>7

\* A turn of the search: the queue is empty, or it loses its first stamp.
LEMMA SearchMoves ==
    ASSUME DataType, AnswerInv, WriteSearches
    PROVE  /\ UNCHANGED <<outgoing, last, samples, incidents>>
           /\ pc = "search" /\ Len(calls) \in Nat \ {0}
           /\ \/ UNCHANGED <<pc, calls, tx_timestamp, errqueue>>
              \/ /\ Ofs(errqueue') \subseteq Ofs(errqueue)
                 /\ Len(errqueue') = Len(errqueue) - 1
                 /\ \/ UNCHANGED <<pc, calls, tx_timestamp>>
                    \/ /\ tx_timestamp'.of \in Ofs(errqueue)
                       /\ Len(calls') = Len(calls) - 1
                       /\ pc' = IF Len(calls) = 1 THEN "read" ELSE "search"
<1>a. ClientType /\ WireType
  BY DEF DataType
<1>1. UNCHANGED <<outgoing, last, samples, incidents>> /\ pc = "search"
  BY DEF WriteSearches, Search, benchVars
<1>2. /\ Len(calls) \in Nat \ {0} /\ Len(Tail(calls)) = Len(calls) - 1
  BY <1>a, <1>1, HeadTail DEF ClientType
<1>3. CASE UNCHANGED <<pc, calls, tx_timestamp, errqueue>>
  BY <1>1, <1>2, <1>3
<1>4. CASE /\ errqueue # <<>> /\ errqueue' = Tail(errqueue)
           /\ \/ UNCHANGED <<pc, calls, tx_timestamp>>
              \/ /\ tx_timestamp' = CellOf(Stamp(Head(errqueue).of,
                                                 Head(errqueue).at))
                 /\ calls' = Tail(calls)
                 /\ pc' = IF Len(calls) = 1 THEN "read" ELSE pc
  <2>1. /\ Ofs(Tail(errqueue)) \subseteq Ofs(errqueue)
        /\ Head(errqueue).of \in Ofs(errqueue)
        /\ Len(Tail(errqueue)) = Len(errqueue) - 1
    <3>1. errqueue \in Seq(Stored)
      BY <1>a DEF WireType
    <3>. QED  BY <1>4, <3>1, OfsTail
  <2>2. tstamp_source = options
    BY <1>1 DEF AnswerInv, Working
  <2>3. CellOf(Stamp(Head(errqueue).of, Head(errqueue).at)).of
          = Head(errqueue).of
    BY <2>2 DEF CellOf, Stamp
  <2>. QED  BY <1>1, <1>2, <1>4, <2>1, <2>3
<1>. QED  BY <1>3, <1>4 DEF WriteSearches, Search, CallReturns

LEMMA StampInit == Init => StampInv /\ SingleInv /\ RequestsFiled
<1> SUFFICES ASSUME Init PROVE StampInv /\ SingleInv /\ RequestsFiled
  OBVIOUS
<1>1. /\ outgoing = <<>> /\ errqueue = <<>> /\ last = <<>> /\ calls = <<>>
      /\ samples = <<>> /\ pc = "connect" /\ tx_timestamp = Stamp(0, 0)
  BY DEF Init, KernelInit
<1>2. Len(<<>>) = 0 /\ Ofs(<<>>) = {}
  BY DEF Ofs
<1>3. tx_timestamp.of = 0 /\ Request = 1
  BY <1>1, <1>2 DEF Stamp, Request
<1>4. StampInv
  BY <1>1, <1>2, <1>3 DEF StampInv
<1>5. SingleInv
  BY <1>1, <1>2 DEF SingleInv
<1>6. RequestsFiled
  BY <1>1, <1>2 DEF RequestsFiled
<1>. QED  BY <1>4, <1>5, <1>6

\* What leaves requests and stamps where they are.
LEMMA StampKept ==
    ASSUME StampInv, UNCHANGED <<outgoing, errqueue, tx_timestamp, samples>>,
           last' = <<>> \/ UNCHANGED last
    PROVE  StampInv'
BY DEF StampInv, Ofs, Request

LEMMA StampStep ==
    DataType /\ AnswerInv /\ StampInv /\ [Next]_vars => StampInv'
<1> DEFINE G == StampInv'
<1> SUFFICES ASSUME DataType, AnswerInv, StampInv, [Next]_vars PROVE G
  OBVIOUS
<1>a. ClientType /\ WireType /\ ServerType
  BY DEF DataType
<1>b. Request \in Nat \ {0} /\ Len(samples) \in Nat
  BY <1>a, LenProperties DEF Request, ClientType
<1> DEFINE Quiet == /\ UNCHANGED <<outgoing, errqueue, tx_timestamp, samples>>
                    /\ last' = <<>> \/ UNCHANGED last
<1>c. Quiet => G
  BY StampKept
<1>1. Setup => Quiet
  BY DEF Setup, Connect, InitializeDevice, InitializeSocket, callVars,
         wireVars, benchVars
<1>2. BeginWrite => Quiet
  BY DEF BeginWrite, wireVars, benchVars
<1>3. ASSUME WriteSends PROVE G
  <2>1. Ofs(outgoing') = Ofs(outgoing) \cup {Request}
    BY <1>3, SendMoves
  <2>2. UNCHANGED <<errqueue, last, tx_timestamp, samples>>
    BY <1>3 DEF WriteSends, Send, benchVars
  <2>3. Request' = Request /\ Ofs(errqueue') = Ofs(errqueue)
    BY <2>2 DEF Request, Ofs
  <2>. QED  BY <1>b, <2>1, <2>2, <2>3 DEF StampInv
<1>4. ASSUME WriteSearches PROVE G
  <2>1. /\ UNCHANGED <<outgoing, last, samples>>
        /\ Ofs(errqueue') \subseteq Ofs(errqueue)
        /\ tx_timestamp'.of \in Ofs(errqueue) \cup {tx_timestamp.of}
    BY <1>4, SearchMoves DEF Ofs
  <2>2. Request' = Request /\ Ofs(outgoing') = Ofs(outgoing)
    BY <2>1 DEF Request, Ofs
  <2>. QED  BY <2>1, <2>2 DEF StampInv
<1>5. WriteFails => Quiet
  BY DEF WriteFails, SearchFails, callVars, wireVars, benchVars
<1>6. ReadAnswer => Quiet
  BY DEF ReadAnswer, Read
<1>7. ASSUME Measure PROVE G
  <2>1. UNCHANGED <<outgoing, errqueue, tx_timestamp, last>>
        /\ \/ UNCHANGED samples
           \/ samples' = Append(samples, [tx   |-> tx_timestamp.of,
                                          rx   |-> rx_timestamp.of,
                                          size |-> read_size])
    BY <1>7 DEF Measure, callVars, wireVars
  <2>2. Request' \in {Request, Request + 1}
    <3>1. Len(samples') \in {Len(samples), Len(samples) + 1}
      BY <1>a, <2>1 DEF ClientType
    <3>. QED  BY <1>b, <3>1 DEF Request
  <2>3. 0 .. Request \subseteq 0 .. Request'
    BY <1>b, <2>2
  <2>. QED  BY <2>1, <2>3 DEF StampInv, Ofs
<1>8. Finish => Quiet
  BY DEF Finish, callVars, wireVars, benchVars
<1>9. ServerRead => Quiet
  BY DEF ServerRead, kernelVars, callVars, wireVars, benchVars
<1>10. ServerWrite => Quiet
  BY DEF ServerWrite, callVars, benchVars
<1>11. ServerKilled => Quiet
  BY DEF ServerKilled, kernelVars, callVars, wireVars, benchVars
<1>12. ASSUME PacketLeaves PROVE G
  <2>1. /\ Ofs(outgoing') \subseteq Ofs(outgoing)
        /\ Ofs(errqueue') \subseteq Ofs(errqueue) \cup Ofs(outgoing)
        /\ \/ last' = <<>> \/ UNCHANGED last
           \/ last'[1].of \in Ofs(outgoing)
    BY <1>12, <1>a, PacketMoves
  <2>2. UNCHANGED tx_timestamp /\ Request' = Request
    BY <1>12 DEF PacketLeaves, Transmit, callVars, benchVars, Request
  <2>. QED  BY <2>1, <2>2 DEF StampInv
<1>13. PacketArrives => Quiet
  BY DEF PacketArrives, Arrive, callVars, benchVars
<1>14. Reset => Quiet
  BY DEF Reset, kernelVars, callVars, wireVars, benchVars
<1>15. ASSUME SendAgain PROVE G
  <2> DEFINE again == [last[1] EXCEPT !.at = now + 1]
  <2>1. /\ UNCHANGED <<outgoing, tx_timestamp, samples>>
        /\ last # <<>> /\ last' = <<>> /\ errqueue' = Append(errqueue, again)
    BY <1>15 DEF SendAgain, Retransmit, callVars, benchVars
  <2>2. last[1] \in Stored /\ errqueue \in Seq(Stored) /\ now + 1 \in Nat
    BY <1>a, <2>1 DEF WireType
  <2>3. again \in Stored /\ again.of = last[1].of
    BY <2>2 DEF Stored
  <2>. HIDE DEF again
  <2>4. Ofs(errqueue') = Ofs(errqueue) \cup {last[1].of}
    BY <2>1, <2>2, <2>3, OfsAppend
  <2>5. Request' = Request /\ Ofs(outgoing') = Ofs(outgoing)
    BY <2>1 DEF Request, Ofs
  <2>. QED  BY <2>1, <2>4, <2>5 DEF StampInv
<1>16. UNCHANGED vars => Quiet
  BY DEF vars, kernelVars, callVars, wireVars, benchVars
<1>. HIDE DEF G, Quiet
<1>. QED
  BY <1>c, <1>1, <1>2, <1>3, <1>4, <1>5, <1>6, <1>7, <1>8, <1>9, <1>10,
     <1>11, <1>12, <1>13, <1>14, <1>15, <1>16, NextCases

LEMMA SingleKept ==
    ASSUME SingleInv, Again => Again',
           UNCHANGED <<outgoing, errqueue, calls, tx_timestamp, samples>>,
           pc' = pc \/ (ClientGone' /\ pc' \notin {"read", "measure"})
                    \/ (pc = "read" /\ pc' = "measure")
    PROVE  SingleInv'
BY DEF SingleInv, Ofs, Request, ClientGone

\* A client that writes nothing has nothing to come.
LEMMA Drained ==
    ASSUME DataType, SingleInv, ~Again, ~ClientGone,
           pc \notin {"send", "search"}
    PROVE  /\ Len(outgoing) + Len(errqueue) = 0 /\ Len(calls) = 0
           /\ Ofs(outgoing) = {} /\ Ofs(errqueue) = {}
<1>1. calls = <<>>
  BY DEF DataType, ClientType, ClientGone
<1>2. Len(calls) = 0 /\ Len(outgoing) \in Nat /\ Len(errqueue) \in Nat
  BY <1>1, LenProperties DEF DataType, WireType
<1>3. Len(outgoing) = 0 /\ Len(errqueue) = 0
  BY <1>2 DEF SingleInv
<1>. QED  BY <1>2, <1>3 DEF Ofs

LEMMA SingleStep ==
    DataType /\ AnswerInv /\ SingleInv /\ [Next]_vars => SingleInv'
<1> DEFINE G == SingleInv'
<1> SUFFICES ASSUME DataType, AnswerInv, SingleInv, [Next]_vars PROVE G
  OBVIOUS
<1>a. ClientType /\ WireType /\ ServerType
  BY DEF DataType
<1>b. /\ Len(outgoing) \in Nat /\ Len(errqueue) \in Nat /\ Len(calls) \in Nat
  BY <1>a, LenProperties DEF ClientType, WireType
<1>c. Again => Again'
  BY KindsGrow DEF Again
<1> DEFINE Quiet ==
      /\ UNCHANGED <<outgoing, errqueue, calls, tx_timestamp, samples>>
      /\ \/ pc' = pc \/ (ClientGone' /\ pc' \notin {"read", "measure"})
         \/ (pc = "read" /\ pc' = "measure")
<1>d. Quiet => G
  BY <1>c, SingleKept
<1>1. ASSUME Setup PROVE G
  <2>1. /\ UNCHANGED <<outgoing, errqueue, calls>>
        /\ pc \in {"connect", "device", "socket"}
        /\ pc' \in {"device", "socket", "request", "terminated"}
    BY <1>1 DEF Setup, Connect, InitializeDevice, InitializeSocket,
                wireVars, callVars
  <2> SUFFICES ASSUME ~Again PROVE G
    BY <1>c DEF SingleInv
  <2>2. /\ Len(outgoing) + Len(errqueue) = 0 /\ Len(calls) = 0
        /\ Ofs(outgoing) = {} /\ Ofs(errqueue) = {}
    BY <2>1, Drained DEF ClientGone
  <2>3. Ofs(outgoing') = {} /\ Ofs(errqueue') = {}
    BY <2>1, <2>2 DEF Ofs
  <2>. QED  BY <2>1, <2>2, <2>3 DEF SingleInv
<1>2. ASSUME BeginWrite PROVE G
  <2>1. /\ UNCHANGED <<outgoing, errqueue>> /\ Len(calls') = 1
        /\ pc = "request" /\ pc' = "send"
    BY <1>2 DEF BeginWrite, wireVars
  <2> SUFFICES ASSUME ~Again PROVE G
    BY <1>c DEF SingleInv
  <2>2. /\ Len(outgoing) + Len(errqueue) = 0
        /\ Ofs(outgoing) = {} /\ Ofs(errqueue) = {}
    BY <2>1, Drained DEF ClientGone
  <2>3. Ofs(outgoing') = {} /\ Ofs(errqueue') = {}
    BY <2>1, <2>2 DEF Ofs
  <2>. QED  BY <2>1, <2>2, <2>3 DEF SingleInv
<1>3. ASSUME WriteSends PROVE G
  <2>1. /\ UNCHANGED <<errqueue, samples>> /\ pc = "send" /\ ~ClientGone
    BY <1>3 DEF WriteSends, Send, benchVars, ClientGone
  <2>2. /\ Ofs(outgoing') = Ofs(outgoing) \cup {Request}
        /\ Len(outgoing') = Len(outgoing) + 1
        /\ \/ pc' = "send" /\ Len(calls') = Len(calls) + 1
           \/ pc' = "search" /\ calls' = calls
    BY <1>3, SendMoves
  <2> SUFFICES ASSUME ~Again PROVE G
    BY <1>c DEF SingleInv
  <2>3. /\ Len(outgoing) + Len(errqueue) + 1 <= Len(calls)
        /\ Ofs(outgoing) \subseteq {Request}
        /\ Ofs(errqueue) \subseteq {Request}
    BY <2>1 DEF SingleInv
  <2>4. Request' = Request /\ Ofs(errqueue') = Ofs(errqueue)
    BY <2>1 DEF Request, Ofs
  <2>5. Len(outgoing') + Len(errqueue') + (IF pc' = "send" THEN 1 ELSE 0)
          <= Len(calls')
    BY <1>b, <2>1, <2>2, <2>3
  <2>6. pc' \notin {"read", "measure"}
    BY <2>2
  <2>. QED  BY <2>2, <2>3, <2>4, <2>5, <2>6 DEF SingleInv
<1>4. ASSUME WriteSearches PROVE G
  <2>1. /\ UNCHANGED <<outgoing, samples>>
        /\ pc = "search" /\ ~ClientGone /\ Len(calls) \in Nat \ {0}
        /\ \/ UNCHANGED <<pc, calls, tx_timestamp, errqueue>>
           \/ /\ Ofs(errqueue') \subseteq Ofs(errqueue)
              /\ Len(errqueue') = Len(errqueue) - 1
              /\ \/ UNCHANGED <<pc, calls, tx_timestamp>>
                 \/ /\ tx_timestamp'.of \in Ofs(errqueue)
                    /\ Len(calls') = Len(calls) - 1
                    /\ pc' = IF Len(calls) = 1 THEN "read" ELSE "search"
    BY <1>4, SearchMoves DEF ClientGone
  <2> SUFFICES ASSUME ~Again PROVE G
    BY <1>c DEF SingleInv
  <2>2. /\ Len(outgoing) + Len(errqueue) <= Len(calls)
        /\ Ofs(outgoing) \subseteq {Request}
        /\ Ofs(errqueue) \subseteq {Request}
    BY <1>b, <2>1 DEF SingleInv
  <2>3. Request' = Request /\ Ofs(outgoing') = Ofs(outgoing)
    BY <2>1 DEF Request, Ofs
  <2>4. CASE UNCHANGED <<pc, calls, tx_timestamp, errqueue>>
    BY <1>d, <2>1, <2>4
  <2>5. CASE /\ Ofs(errqueue') \subseteq Ofs(errqueue)
             /\ Len(errqueue') = Len(errqueue) - 1
             /\ UNCHANGED <<pc, calls, tx_timestamp>>
    <3>1. Len(outgoing') + Len(errqueue') <= Len(calls') /\ pc' = "search"
      BY <1>b, <2>1, <2>2, <2>5
    <3>2. Len(outgoing') + Len(errqueue') + 0 <= Len(calls')
      BY <1>b, <2>1, <2>5, <3>1
    <3>. QED  BY <2>2, <2>3, <2>5, <3>1, <3>2 DEF SingleInv
  <2>6. CASE /\ Ofs(errqueue') \subseteq Ofs(errqueue)
             /\ Len(errqueue') = Len(errqueue) - 1
             /\ tx_timestamp'.of \in Ofs(errqueue)
             /\ Len(calls') = Len(calls) - 1
             /\ pc' = IF Len(calls) = 1 THEN "read" ELSE "search"
    <3>1. pc' \in {"read", "search"}
      BY <2>6
    <3>2. Len(outgoing') + Len(errqueue') + 0 <= Len(calls')
      BY <1>b, <2>1, <2>2, <2>6
    <3>3. tx_timestamp'.of = Request
      BY <2>2, <2>6
    <3>. QED  BY <2>2, <2>3, <2>6, <3>1, <3>2, <3>3 DEF SingleInv
  <2>. QED  BY <2>1, <2>4, <2>5, <2>6
<1>5. WriteFails => Quiet
  BY DEF WriteFails, SearchFails, callVars, wireVars, benchVars, ClientGone
<1>6. ReadAnswer => Quiet
  BY DEF ReadAnswer, Read
<1>7. ASSUME Measure PROVE G
  <2>1. /\ UNCHANGED <<outgoing, errqueue, calls>>
        /\ pc = "measure" /\ pc' \in {"terminated", "request"}
    BY <1>7 DEF Measure, callVars, wireVars
  <2> SUFFICES ASSUME ~Again PROVE G
    BY <1>c DEF SingleInv
  <2>2. /\ Len(outgoing) + Len(errqueue) = 0 /\ Len(calls) = 0
        /\ Ofs(outgoing) = {} /\ Ofs(errqueue) = {}
    BY <2>1, Drained DEF ClientGone
  <2>3. Ofs(outgoing') = {} /\ Ofs(errqueue') = {}
    BY <2>1, <2>2 DEF Ofs
  <2>. QED  BY <2>1, <2>2, <2>3 DEF SingleInv
<1>8. Finish => Quiet
  BY DEF Finish, callVars, wireVars, benchVars, ClientGone
<1>9. ServerRead => Quiet
  BY DEF ServerRead, kernelVars, callVars, wireVars, benchVars
<1>10. ServerWrite => Quiet
  BY DEF ServerWrite, callVars, benchVars
<1>11. ServerKilled => Quiet
  BY DEF ServerKilled, kernelVars, callVars, wireVars, benchVars
<1>12. ASSUME PacketLeaves PROVE G
  <2>1. /\ Ofs(outgoing') \subseteq Ofs(outgoing)
        /\ Ofs(errqueue') \subseteq Ofs(errqueue) \cup Ofs(outgoing)
        /\ Len(outgoing') + Len(errqueue') <= Len(outgoing) + Len(errqueue)
    BY <1>12, <1>a, PacketMoves
  <2>2. UNCHANGED <<pc, calls, tx_timestamp>> /\ Request' = Request
        /\ ClientGone' = ClientGone
    BY <1>12 DEF PacketLeaves, Transmit, callVars, benchVars, Request,
                 ClientGone
  <2>3. Len(outgoing') \in Nat /\ Len(errqueue') \in Nat
    <3>1. WireType'
      BY WireTypeStep
    <3>. QED  BY <3>1, LenProperties DEF WireType
  <2> DEFINE w == IF pc = "send" THEN 1 ELSE 0
  <2>4. w \in Nat /\ w' = w
    BY <2>2
  <2>. HIDE DEF w
  <2>5. Len(outgoing) + Len(errqueue) + w <= Len(calls)
        => Len(outgoing') + Len(errqueue') + w' <= Len(calls')
    BY <1>b, <2>1, <2>2, <2>3, <2>4
  <2>. QED  BY <1>c, <2>1, <2>2, <2>5 DEF SingleInv, w
<1>13. PacketArrives => Quiet
  BY DEF PacketArrives, Arrive, callVars, benchVars
<1>14. Reset => Quiet
  BY DEF Reset, kernelVars, callVars, wireVars, benchVars
<1>15. ASSUME SendAgain PROVE G
  <2>1. Again'
    BY <1>15, <1>a
       DEF SendAgain, Retransmit, Incident, Again, ClientType
  <2>. QED  BY <2>1 DEF SingleInv
<1>16. UNCHANGED vars => Quiet
  BY DEF vars, kernelVars, callVars, wireVars, benchVars
<1>. HIDE DEF G, Quiet
<1>. QED
  BY <1>d, <1>1, <1>2, <1>3, <1>4, <1>5, <1>6, <1>7, <1>8, <1>9, <1>10,
     <1>11, <1>12, <1>13, <1>14, <1>15, <1>16, NextCases

LEMMA FiledStep ==
    DataType /\ StampInv /\ SingleInv /\ WholeInv /\ RequestsFiled
      /\ [Next]_vars => RequestsFiled'
<1> DEFINE G == RequestsFiled'
<1> SUFFICES ASSUME DataType, StampInv, SingleInv, WholeInv, RequestsFiled,
                    [Next]_vars
             PROVE  G
  OBVIOUS
<1>a. (Again => Again') /\ (InParts => InParts')
  BY KindsGrow DEF Again, InParts
<1>b. UNCHANGED samples => G
  BY <1>a DEF RequestsFiled
<1>1. ASSUME Measure PROVE G
  <2> DEFINE n     == Len(samples)
             filed == [tx |-> tx_timestamp.of, rx |-> rx_timestamp.of,
                       size |-> read_size]
  <2>1. filed \in Filed /\ samples \in Seq(Filed) /\ n \in Nat
    BY LenProperties DEF DataType, ClientType, Stamps, Filed
  <2>2. filed.tx = tx_timestamp.of
    OBVIOUS
  <2>3. UNCHANGED samples \/ samples' = Append(samples, filed)
    BY <1>1 DEF Measure
  <2>4. /\ tx_timestamp.of <= n + 1
        /\ tx_timestamp.of # n + 1 => Again /\ InParts
    <3>1. pc = "measure" /\ ~ClientGone /\ Request = n + 1
      BY <1>1 DEF Measure, ClientGone, Request
    <3>. QED  BY <2>1, <3>1 DEF StampInv, SingleInv, WholeInv
  <2>. HIDE DEF n, filed
  <2>5. CASE samples' = Append(samples, filed)
    <3>1. /\ Len(samples') = n + 1 /\ samples'[n + 1] = filed
          /\ \A k \in 1 .. n : samples'[k] = samples[k]
      BY <2>1, <2>5, AppendProperties DEF n
    <3>2. \A k \in 1 .. n + 1 : k \in 1 .. n \/ k = n + 1
      BY <2>1
    <3>3. \A k \in 1 .. n : /\ samples[k].tx <= k
                            /\ samples[k].tx # k => Again /\ InParts
      BY DEF RequestsFiled, n
    <3>. QED  BY <1>a, <2>2, <2>4, <3>1, <3>2, <3>3 DEF RequestsFiled
  <2>. QED  BY <1>b, <2>3, <2>5
<1>2. Setup \/ BeginWrite \/ Finish => UNCHANGED samples
  BY DEF Setup, BeginWrite, Finish, benchVars
<1>3. WriteSends \/ WriteSearches \/ WriteFails => UNCHANGED samples
  BY DEF WriteSends, WriteSearches, WriteFails, benchVars
<1>4. ReadAnswer => UNCHANGED samples
  BY DEF ReadAnswer
<1>5. ServerRead \/ ServerWrite \/ ServerKilled => UNCHANGED samples
  BY DEF ServerRead, ServerWrite, ServerKilled, benchVars
<1>6. PacketLeaves \/ PacketArrives \/ Reset \/ SendAgain
        => UNCHANGED samples
  BY DEF PacketLeaves, PacketArrives, Reset, SendAgain, benchVars
<1>7. UNCHANGED vars => UNCHANGED samples
  BY DEF vars, benchVars
<1>. HIDE DEF G
<1>. QED
  BY <1>b, <1>1, <1>2, <1>3, <1>4, <1>5, <1>6, <1>7, NextCases

\* The transmit stamp a sample is filed with is that of the sample's request,
\* or of an earlier one: getTxTimestamp compares contents, and those of every
\* other request are the same.  For an earlier one to be found a packet must
\* have been sent again and some request must have been cut; either alone does
\* no harm.
THEOREM RequestsOwn == Spec => []OwnRequest
<1> DEFINE Inv == StampInv /\ SingleInv /\ RequestsFiled
<1>1. Init => Inv
  BY StampInit
<1>2. /\ DataType /\ AnswerInv /\ WholeInv /\ Inv /\ [Next]_vars
      => Inv'
  BY StampStep, SingleStep, FiledStep
<1>3. Spec => []Inv
  BY <1>1, <1>2, Paired, PTL DEF Spec
<1>4. DataType /\ RequestsFiled => OwnRequest
  <2> SUFFICES ASSUME DataType, RequestsFiled, NEW k \in DOMAIN samples,
                      samples[k].tx # k
               PROVE  /\ samples[k].tx < k
                      /\ "retransmit" \in incidents.kinds
                      /\ InParts
    BY DEF OwnRequest
  <2>1. k \in 1 .. Len(samples) /\ k \in Nat
    BY LenProperties DEF DataType, ClientType
  <2>2. samples[k].tx \in Nat
    <3>1. samples[k] \in Filed
      BY <2>1, ElementOfSeq DEF DataType, ClientType
    <3>. QED  BY <3>1 DEF Filed
  <2>. QED  BY <2>1, <2>2 DEF RequestsFiled, Again
<1>. QED  BY <1>3, <1>4, Typed, PTL

=============================================================================

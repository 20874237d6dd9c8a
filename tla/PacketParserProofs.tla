------------------------- MODULE PacketParserProofs -------------------------
(***************************************************************************)
(* Proofs about PacketParser, for frames of any size with any fields and   *)
(* for any number of extension headers.                                    *)
(***************************************************************************)
EXTENDS PacketParser, SequenceTheorems, WellFoundedInduction,
        TLAPS

\* A non-empty set of natural numbers has a least element.
LEMMA LeastElement ==
    ASSUME NEW T, T \subseteq Nat, T # {}
    PROVE  \E n \in T : \A k \in T : n <= k
<1> DEFINE R == OpToRel(<, Nat)
<1>1. \E n \in T : \A k \in T : <<k, n>> \notin R
  BY NatLessThanWellFounded, WFMin
<1>2. \A k, n \in Nat : k < n => <<k, n>> \in R
  BY DEF OpToRel
<1>3. PICK n \in T : \A k \in T : <<k, n>> \notin R
  BY <1>1
<1>. HIDE DEF R
<1>4. \A k \in T : ~ (k < n)
  BY <1>2, <1>3
<1>. QED  BY <1>4

\* What holds at 0 and passes from each number to the next holds up to N.
LEMMA UpTo ==
    ASSUME NEW N \in Nat, NEW G,
           0 \in G, \A i \in 1 .. N : i - 1 \in G => i \in G
    PROVE  \A i \in 0 .. N : i \in G
<1> DEFINE T == {i \in 0 .. N : i \notin G}
<1>1. SUFFICES ASSUME T # {} PROVE FALSE
  OBVIOUS
<1>2. PICK n \in T : \A k \in T : n <= k
  BY <1>1, LeastElement, T \subseteq Nat
<1>3. n \in 1 .. N /\ n - 1 \in 0 .. N /\ n - 1 \notin T
  BY <1>2
<1>4. n - 1 \in G
  BY <1>3
<1>. QED  BY <1>2, <1>3, <1>4

\* A function may be given by its value at 0 and by a step, which takes the
\* value before and the place.
LEMMA Recursion ==
    ASSUME NEW N \in Nat, NEW a \in Int, NEW s \in [1 .. N -> [Int -> Int]]
    PROVE  \E g \in [0 .. N -> Int] :
              g = [i \in 0 .. N |-> IF i = 0 THEN a ELSE s[i][g[i - 1]]]
<1> DEFINE Val(g, i) == IF i = 0 THEN a ELSE s[i][g[i - 1]]
           Upto(n)   == {g \in [0 .. n -> Int] :
                            \A i \in 0 .. n : g[i] = Val(g, i)}
           G         == {n \in 0 .. N : Upto(n) # {}}
<1>1. 0 \in G
  <2>1. [i \in 0 .. 0 |-> a] \in Upto(0)
    OBVIOUS
  <2>. QED  BY <2>1
<1>2. ASSUME NEW n \in 1 .. N, n - 1 \in G PROVE n \in G
  <2>1. PICK g : g \in Upto(n - 1)
    BY <1>2
  <2>2. /\ g \in [0 .. n - 1 -> Int]
        /\ \A i \in 0 .. n - 1 : g[i] = Val(g, i)
    BY <2>1
  <2> DEFINE h == [i \in 0 .. n |-> IF i = n THEN s[n][g[n - 1]] ELSE g[i]]
  <2>3. g[n - 1] \in Int
    BY <2>2
  <2>4. s[n][g[n - 1]] \in Int
    BY <2>3
  <2>5. h \in [0 .. n -> Int]
    BY <2>2, <2>4
  <2>6. ASSUME NEW i \in 0 .. n PROVE h[i] = Val(h, i)
    <3>1. i # 0 => i - 1 \in 0 .. n - 1 /\ h[i - 1] = g[i - 1]
      OBVIOUS
    <3>2. CASE i = n
      BY <3>1, <3>2
    <3>3. CASE i # n
      <4>1. i \in 0 .. n - 1 /\ h[i] = g[i]
        BY <3>3
      <4>2. g[i] = Val(g, i)
        BY <4>1, <2>2
      <4>. QED  BY <3>1, <4>1, <4>2
    <3>. QED  BY <3>2, <3>3
  <2>7. h \in Upto(n)
    BY <2>5, <2>6
  <2>8. n \in 0 .. N
    OBVIOUS
  <2>. HIDE DEF Upto, h
  <2>. QED  BY <2>7, <2>8
<1>3. N \in G
  <2>. HIDE DEF G
  <2>1. \A i \in 1 .. N : i - 1 \in G => i \in G
    BY <1>2
  <2>2. \A i \in 0 .. N : i \in G
    BY <1>1, <2>1, UpTo
  <2>. QED  BY <2>2
<1>4. PICK g : g \in Upto(N)
  BY <1>3
<1>. QED  BY <1>4

\* The value of the walk after i extension headers, from the value before.
Step(f, g, i) ==
    IF i = 0 THEN f.payload_len
    ELSE IF g[i - 1] < 64 \/ g[i - 1] < ExtensionSize(f.chain[i]) THEN -1
    ELSE g[i - 1] - ExtensionSize(f.chain[i])

\* The size of the first i extension headers, likewise.
Total(f, g, i) == IF i = 0 THEN 0 ELSE g[i - 1] + HeaderSize(f.chain[i])

LEMMA FieldRanges ==
    /\ \A n \in Nibble : n \in Nat /\ n <= 15
    /\ \A n \in Byte : n \in Nat
    /\ \A n \in Word : n \in Nat /\ n <= 65535
BY DEF Nibble, Byte, Word

\* The fields the walk reads.
LEMMA FrameType ==
    ASSUME NEW f \in Frame
    PROVE  /\ f.payload_len \in Nat
           /\ Len(f.chain) \in Nat
           /\ DOMAIN f.chain = 1 .. Len(f.chain)
           /\ \A i \in 1 .. Len(f.chain) :
                 /\ f.chain[i].hdr_len \in Nat
                 /\ ExtensionSize(f.chain[i]) \in Nat
                 /\ HeaderSize(f.chain[i]) \in Nat
<1>1. f.payload_len \in Word /\ f.chain \in Seq(ExtensionHeader)
  BY DEF Frame
<1>2. f.payload_len \in Nat
  BY <1>1, FieldRanges
<1>3. \A i \in 1 .. Len(f.chain) : f.chain[i] \in ExtensionHeader
  BY <1>1, ElementOfSeq
<1>4. \A h \in ExtensionHeader : h.hdr_len \in Nat
  BY FieldRanges DEF ExtensionHeader
<1>5. ASSUME NEW h, h.hdr_len \in Nat
      PROVE  ExtensionSize(h) \in Nat /\ HeaderSize(h) \in Nat
  BY <1>5 DEF ExtensionSize, HeaderSize
<1>. QED  BY <1>1, <1>2, <1>3, <1>4, <1>5, LenProperties

\* Only in an authentication header does the walk mistake the length.
LEMMA HeaderSizes ==
    ASSUME NEW h, h.hdr_len \in Nat
    PROVE  /\ h.kind # "ah" => HeaderSize(h) = ExtensionSize(h)
           /\ h.kind = "ah" =>
                 HeaderSize(h) = ExtensionSize(h) - 4 * h.hdr_len
BY DEF HeaderSize, ExtensionSize

\* The walk is defined for every chain: it goes on from each header to the
\* next.
LEMMA WalkExists ==
    ASSUME NEW f \in Frame
    PROVE  \E g : g = [i \in 0 .. Len(f.chain) |-> Step(f, g, i)]
<1> DEFINE N == Len(f.chain)
           After(v, i) == IF v < 64 \/ v < ExtensionSize(f.chain[i]) THEN -1
                          ELSE v - ExtensionSize(f.chain[i])
           s == [i \in 1 .. N |-> [v \in Int |-> After(v, i)]]
<1>1. /\ N \in Nat /\ f.payload_len \in Int
      /\ \A i \in 1 .. N : ExtensionSize(f.chain[i]) \in Int
  BY FrameType
<1>2. \A v \in Int, i \in 1 .. N : After(v, i) \in Int
  BY <1>1
<1>3. /\ s \in [1 .. N -> [Int -> Int]]
      /\ \A v \in Int, i \in 1 .. N : s[i][v] = After(v, i)
  <2>. HIDE DEF After
  <2>. QED  BY <1>2
<1>. HIDE DEF s
<1>4. PICK g \in [0 .. N -> Int] :
         g = [i \in 0 .. N |-> IF i = 0 THEN f.payload_len
                                ELSE s[i][g[i - 1]]]
  BY <1>1, <1>3, Recursion
<1>5. ASSUME NEW i \in 0 .. N
      PROVE  (IF i = 0 THEN f.payload_len ELSE s[i][g[i - 1]])
               = Step(f, g, i)
  <2>1. i # 0 => g[i - 1] \in Int /\ i \in 1 .. N
    BY <1>1
  <2>. QED  BY <2>1, <1>3 DEF Step
<1>6. g = [i \in 0 .. N |-> Step(f, g, i)]
  <2>. HIDE DEF N
  <2>. QED  BY <1>4, <1>5
<1>. QED  BY <1>6

\* So is the size of a chain.
LEMMA TotalExists ==
    ASSUME NEW f \in Frame
    PROVE  \E g : g = [i \in 0 .. Len(f.chain) |-> Total(f, g, i)]
<1> DEFINE N == Len(f.chain)
           s == [i \in 1 .. N |->
                   [v \in Int |-> v + HeaderSize(f.chain[i])]]
<1>1. /\ N \in Nat
      /\ \A i \in 1 .. N : HeaderSize(f.chain[i]) \in Int
  BY FrameType
<1>2. /\ s \in [1 .. N -> [Int -> Int]]
      /\ \A v \in Int, i \in 1 .. N :
            s[i][v] = v + HeaderSize(f.chain[i])
  BY <1>1
<1>. HIDE DEF s
<1>3. PICK g \in [0 .. N -> Int] :
         g = [i \in 0 .. N |-> IF i = 0 THEN 0 ELSE s[i][g[i - 1]]]
  <2>. HIDE DEF N
  <2>1. 0 \in Int
    OBVIOUS
  <2>. QED  BY <1>1, <1>2, <2>1, Recursion
<1>4. ASSUME NEW i \in 0 .. N
      PROVE  (IF i = 0 THEN 0 ELSE s[i][g[i - 1]]) = Total(f, g, i)
  <2>1. i # 0 => g[i - 1] \in Int /\ i \in 1 .. N
    BY <1>1
  <2>. QED  BY <2>1, <1>2 DEF Total
<1>5. g = [i \in 0 .. N |-> Total(f, g, i)]
  <2>. HIDE DEF N
  <2>. QED  BY <1>3, <1>4
<1>. QED  BY <1>5

\* Whatever takes the same steps as the walk ends with its result.
LEMMA WalkIs ==
    ASSUME NEW f \in Frame, NEW w,
           \A i \in 0 .. Len(f.chain) : w[i] = Step(f, w, i)
    PROVE  LeftAfterChain(f) = w[Len(f.chain)]
<1> DEFINE N == Len(f.chain)
           g == CHOOSE g : g = [i \in 0 .. N |-> Step(f, g, i)]
           G == {i \in 0 .. N : g[i] = w[i]}
<1>1. N \in Nat
  BY FrameType
<1>2. g = [i \in 0 .. N |-> Step(f, g, i)]
  BY WalkExists
<1>3. LeftAfterChain(f) = g[N]
  BY DEF LeftAfterChain, Step
<1>4. \A i \in 0 .. N : g[i] = Step(f, g, i)
  BY <1>2
<1>. HIDE DEF g
<1>5. 0 \in G
  BY <1>1, <1>4 DEF Step
<1>6. ASSUME NEW i \in 1 .. N, i - 1 \in G PROVE i \in G
  <2>1. i \in 0 .. N /\ g[i - 1] = w[i - 1]
    BY <1>1, <1>6
  <2>2. Step(f, g, i) = Step(f, w, i)
    BY <2>1 DEF Step
  <2>. QED  BY <2>1, <2>2, <1>4
<1>7. \A i \in 0 .. N : i \in G
  <2>. HIDE DEF G, N
  <2>1. \A i \in 1 .. N : i - 1 \in G => i \in G
    BY <1>6
  <2>. QED  BY <1>1, <1>5, <2>1, UpTo
<1>8. N \in G
  BY <1>1, <1>7
<1>. QED  BY <1>3, <1>8

LEMMA ChainSizeIs ==
    ASSUME NEW f \in Frame, NEW t,
           \A i \in 0 .. Len(f.chain) : t[i] = Total(f, t, i)
    PROVE  ChainSize(f) = t[Len(f.chain)]
<1> DEFINE N == Len(f.chain)
           g == CHOOSE g : g = [i \in 0 .. N |-> Total(f, g, i)]
           G == {i \in 0 .. N : g[i] = t[i]}
<1>1. N \in Nat
  BY FrameType
<1>2. g = [i \in 0 .. N |-> Total(f, g, i)]
  BY TotalExists
<1>3. ChainSize(f) = g[N]
  BY DEF ChainSize, Total
<1>4. \A i \in 0 .. N : g[i] = Total(f, g, i)
  BY <1>2
<1>. HIDE DEF g
<1>5. 0 \in G
  BY <1>1, <1>4 DEF Total
<1>6. ASSUME NEW i \in 1 .. N, i - 1 \in G PROVE i \in G
  <2>1. i \in 0 .. N /\ g[i - 1] = t[i - 1]
    BY <1>1, <1>6
  <2>2. Total(f, g, i) = Total(f, t, i)
    BY <2>1 DEF Total
  <2>. QED  BY <2>1, <2>2, <1>4
<1>7. \A i \in 0 .. N : i \in G
  <2>. HIDE DEF G, N
  <2>1. \A i \in 1 .. N : i - 1 \in G => i \in G
    BY <1>6
  <2>. QED  BY <1>1, <1>5, <2>1, UpTo
<1>8. N \in G
  BY <1>1, <1>7
<1>. QED  BY <1>3, <1>8

\* The walk never leaves more than the length field said.
LEMMA WalkBound ==
    ASSUME NEW f \in Frame
    PROVE  /\ LeftAfterChain(f) \in Int
           /\ -1 <= LeftAfterChain(f)
           /\ LeftAfterChain(f) <= f.payload_len
<1> DEFINE N == Len(f.chain)
<1>1. /\ N \in Nat /\ f.payload_len \in Nat
      /\ \A i \in 1 .. N : ExtensionSize(f.chain[i]) \in Nat
  BY FrameType
<1>2. PICK g : g = [i \in 0 .. N |-> Step(f, g, i)]
  BY WalkExists
<1>3. \A i \in 0 .. N : g[i] = Step(f, g, i)
  BY <1>2
<1>4. LeftAfterChain(f) = g[N]
  BY <1>3, WalkIs
<1> DEFINE Good(i) == g[i] \in Int /\ -1 <= g[i] /\ g[i] <= f.payload_len
           G == {i \in 0 .. N : Good(i)}
<1>5. 0 \in G
  BY <1>1, <1>3 DEF Step
<1>6. ASSUME NEW i \in 1 .. N, i - 1 \in G PROVE i \in G
  <2>1. i \in 0 .. N /\ i # 0 /\ Good(i - 1) /\ g[i] = Step(f, g, i)
    BY <1>1, <1>3, <1>6
  <2>2. ExtensionSize(f.chain[i]) \in Nat
    BY <1>1
  <2>3. Good(i)
    BY <2>1, <2>2, <1>1 DEF Step
  <2>. QED  BY <2>1, <2>3
<1>7. \A i \in 0 .. N : i \in G
  <2>. HIDE DEF G, N
  <2>1. \A i \in 1 .. N : i - 1 \in G => i \in G
    BY <1>6
  <2>. QED  BY <1>1, <1>5, <2>1, UpTo
<1>8. N \in G
  BY <1>1, <1>7
<1>. QED  BY <1>4, <1>8

\* t holds the sizes of the extension headers up to each of them: they only
\* grow, and what ShortTail reads of a shortened chain is one of them.
Totals(f, t) ==
    /\ \A i \in 0 .. Len(f.chain) : t[i] = Total(f, t, i)
    /\ \A i \in 0 .. Len(f.chain) : t[i] \in Nat /\ t[i] <= ChainSize(f)
    /\ t[Len(f.chain)] = ChainSize(f)
    /\ \A i \in 1 .. Len(f.chain) :
          ChainSize([f EXCEPT !.chain = SubSeq(@, 1, i - 1)]) = t[i - 1]

LEMMA ChainTotals ==
    ASSUME NEW f \in Frame
    PROVE  \E t : Totals(f, t)
<1> DEFINE N == Len(f.chain)
<1>1. /\ N \in Nat
      /\ \A i \in 1 .. N : HeaderSize(f.chain[i]) \in Nat
  BY FrameType
<1>2. PICK t : t = [i \in 0 .. N |-> Total(f, t, i)]
  BY TotalExists
<1>3. \A i \in 0 .. N : t[i] = Total(f, t, i)
  BY <1>2
<1>4. ChainSize(f) = t[N]
  BY <1>3, ChainSizeIs
<1>5. /\ t[0] = 0
      /\ \A i \in 1 .. N : t[i] = t[i - 1] + HeaderSize(f.chain[i])
  BY <1>1, <1>3 DEF Total
<1>6. \A i \in 0 .. N : t[i] \in Nat
  <2> DEFINE G == {i \in 0 .. N : t[i] \in Nat}
  <2>1. 0 \in G
    BY <1>1, <1>5
  <2>2. \A i \in 1 .. N : i - 1 \in G => i \in G
    BY <1>1, <1>5
  <2>3. \A i \in 0 .. N : i \in G
    <3>. HIDE DEF G, N
    <3>. QED  BY <1>1, <2>1, <2>2, UpTo
  <2>. QED  BY <2>3
<1>7. \A i \in 0 .. N : t[i] <= t[N]
  <2> DEFINE G == {i \in 0 .. N : \A j \in 0 .. i : t[j] <= t[i]}
  <2>1. 0 \in G
    <3>1. t[0] <= t[0]
      BY <1>5
    <3>. QED  BY <3>1, <1>1
  <2>2. ASSUME NEW i \in 1 .. N, i - 1 \in G PROVE i \in G
    <3>1. /\ i \in 0 .. N /\ i - 1 \in 0 .. N
          /\ \A j \in 0 .. i - 1 : t[j] <= t[i - 1]
      BY <2>2, <1>1
    <3>2. /\ t[i] \in Nat /\ t[i - 1] \in Nat
          /\ t[i - 1] <= t[i]
      BY <3>1, <1>1, <1>5, <1>6
    <3>3. ASSUME NEW j \in 0 .. i PROVE t[j] <= t[i]
      <4>1. CASE j = i
        BY <4>1, <3>2
      <4>2. CASE j # i
        <5>1. j \in 0 .. i - 1 /\ j \in 0 .. N
          BY <4>2, <1>1
        <5>2. t[j] <= t[i - 1] /\ t[j] \in Nat
          BY <5>1, <3>1, <1>6
        <5>. QED  BY <5>2, <3>2
      <4>. QED  BY <4>1, <4>2
    <3>. QED  BY <3>1, <3>3
  <2>3. \A i \in 0 .. N : i \in G
    <3>. HIDE DEF G, N
    <3>1. \A i \in 1 .. N : i - 1 \in G => i \in G
      BY <2>2
    <3>. QED  BY <1>1, <2>1, <3>1, UpTo
  <2>4. N \in G
    BY <2>3, <1>1
  <2>. QED  BY <2>4
<1>8. ASSUME NEW i \in 1 .. N
      PROVE  ChainSize([f EXCEPT !.chain = SubSeq(@, 1, i - 1)]) = t[i - 1]
  <2> DEFINE h == [f EXCEPT !.chain = SubSeq(@, 1, i - 1)]
  <2>1. /\ f.chain \in Seq(ExtensionHeader)
        /\ \A j \in 1 .. N : f.chain[j] \in ExtensionHeader
    <3>1. f.chain \in Seq(ExtensionHeader)
      BY DEF Frame
    <3>. QED  BY <3>1, ElementOfSeq
  <2>2. i - 1 \in 0 .. N
    BY <1>1
  <2>3. /\ SubSeq(f.chain, 1, i - 1) \in Seq(ExtensionHeader)
        /\ Len(SubSeq(f.chain, 1, i - 1)) = i - 1
        /\ \A j \in 1 .. i - 1 : SubSeq(f.chain, 1, i - 1)[j] = f.chain[j]
    <3>1. \A j \in 1 .. i - 1 : f.chain[j] \in ExtensionHeader
      BY <2>1, <1>1
    <3>. QED  BY <2>2, <3>1, <1>1, SubSeqProperties
  <2>4. h \in Frame /\ h.chain = SubSeq(f.chain, 1, i - 1)
    BY <2>3 DEF Frame
  <2>. HIDE DEF h
  <2>5. ASSUME NEW j \in 0 .. Len(h.chain) PROVE t[j] = Total(h, t, j)
    <3>1. j \in 0 .. N /\ (j # 0 => j \in 1 .. i - 1)
      BY <2>2, <2>3, <2>4, <2>5, <1>1
    <3>2. j # 0 => h.chain[j] = f.chain[j]
      BY <3>1, <2>3, <2>4
    <3>. QED  BY <3>1, <3>2, <1>3 DEF Total
  <2>6. ChainSize(h) = t[Len(h.chain)]
    BY <2>4, <2>5, ChainSizeIs
  <2>. QED  BY <2>3, <2>4, <2>6 DEF h
<1>. QED  BY <1>3, <1>4, <1>6, <1>7, <1>8 DEF Totals

\* What the walk leaves when the chain fits in the length field and has no
\* authentication header.
LEMMA WalkExact ==
    ASSUME NEW f \in Frame, f.ether_type = "ipv6",
           ChainSize(f) <= f.payload_len, ~Authenticated(f)
    PROVE  LeftAfterChain(f) = IF ShortTail(f) THEN -1
                               ELSE f.payload_len - ChainSize(f)
<1> DEFINE N == Len(f.chain)
           P == f.payload_len
<1>0. PICK t : Totals(f, t)
  BY ChainTotals
<1>1. /\ \A i \in 0 .. N : t[i] = Total(f, t, i)
      /\ \A i \in 0 .. N : t[i] \in Nat /\ t[i] <= ChainSize(f)
      /\ t[N] = ChainSize(f)
      /\ \A i \in 1 .. N :
            ChainSize([f EXCEPT !.chain = SubSeq(@, 1, i - 1)]) = t[i - 1]
  BY <1>0 DEF Totals
<1>2. /\ N \in Nat /\ P \in Nat /\ DOMAIN f.chain = 1 .. N
      /\ \A i \in 1 .. N : ExtensionSize(f.chain[i]) \in Nat
  BY FrameType
<1>3. /\ t[0] = 0
      /\ \A i \in 1 .. N : t[i] = t[i - 1] + ExtensionSize(f.chain[i])
  <2>1. \A i \in 1 .. N : HeaderSize(f.chain[i]) = ExtensionSize(f.chain[i])
    BY FrameType, HeaderSizes DEF Authenticated
  <2>. QED  BY <1>1, <1>2, <2>1 DEF Total
<1> DEFINE Short(i) == \E j \in 1 .. i : P - t[j - 1] < 64
           w == [i \in 0 .. N |-> IF Short(i) THEN -1 ELSE P - t[i]]
<1>4. ShortTail(f) <=> Short(N)
  BY <1>1, <1>2 DEF ShortTail
<1>5. ASSUME NEW i \in 0 .. N PROVE w[i] = Step(f, w, i)
  <2>1. w[i] = IF Short(i) THEN -1 ELSE P - t[i]
    OBVIOUS
  <2>2. CASE i = 0
    <3>1. ~Short(i)
      BY <2>2
    <3>. QED  BY <2>1, <2>2, <3>1, <1>2, <1>3 DEF Step
  <2>3. CASE i # 0
    <3>1. /\ i \in 1 .. N /\ i - 1 \in 0 .. N
          /\ w[i - 1] = IF Short(i - 1) THEN -1 ELSE P - t[i - 1]
      BY <2>3, <1>2
    <3>2. /\ Short(i) <=> Short(i - 1) \/ P - t[i - 1] < 64
      <4>1. 1 .. i = 1 .. i - 1 \cup {i}
        BY <3>1, <1>2
      <4>. QED  BY <4>1
    <3>3. /\ t[i] \in Nat /\ t[i - 1] \in Nat /\ t[i] <= P
          /\ t[i] = t[i - 1] + ExtensionSize(f.chain[i])
          /\ ExtensionSize(f.chain[i]) \in Nat
      <4>1. t[i] <= ChainSize(f) /\ ChainSize(f) = t[N] /\ t[N] \in Nat
        BY <1>1, <1>2
      <4>2. t[i] \in Nat /\ t[i - 1] \in Nat
        BY <1>1, <3>1
      <4>. QED  BY <4>1, <4>2, <3>1, <1>2, <1>3
    <3>. HIDE DEF w, Short, N
    <3>4. CASE Short(i - 1)
      BY <2>1, <2>3, <3>1, <3>2, <3>4 DEF Step
    <3>5. CASE ~Short(i - 1)
      BY <2>1, <2>3, <3>1, <3>2, <3>3, <3>5, <1>2 DEF Step
    <3>. QED  BY <3>4, <3>5
  <2>. QED  BY <2>2, <2>3
<1>6. w[N] = IF Short(N) THEN -1 ELSE P - t[N]
  BY <1>2
<1>. HIDE DEF w, Short
<1>7. LeftAfterChain(f) = w[N]
  BY <1>5, WalkIs
<1>. QED  BY <1>1, <1>4, <1>6, <1>7

\* Behind an authentication header the walk is too far on.
LEMMA WalkMistaken ==
    ASSUME NEW f \in Frame, Authenticated(f),
           \A i \in DOMAIN f.chain :
              f.chain[i].kind = "ah" => f.chain[i].hdr_len > 0
    PROVE  \/ LeftAfterChain(f) < 0
           \/ LeftAfterChain(f) < f.payload_len - ChainSize(f)
<1> DEFINE N == Len(f.chain)
           P == f.payload_len
           Ah(i) == \E j \in 1 .. i : f.chain[j].kind = "ah"
<1>1. PICK t : Totals(f, t)
  BY ChainTotals
<1>2. PICK g : g = [i \in 0 .. N |-> Step(f, g, i)]
  BY WalkExists
<1>3. \A i \in 0 .. N : g[i] = Step(f, g, i)
  BY <1>2
<1>4. LeftAfterChain(f) = g[N]
  BY <1>3, WalkIs
<1>5. /\ N \in Nat /\ P \in Nat /\ DOMAIN f.chain = 1 .. N
      /\ \A i \in 1 .. N : f.chain[i].hdr_len \in Nat
      /\ \A i \in 1 .. N : ExtensionSize(f.chain[i]) \in Nat
      /\ \A i \in 1 .. N : HeaderSize(f.chain[i]) \in Nat
  BY FrameType
<1>6. /\ t[0] = 0 /\ t[N] = ChainSize(f)
      /\ \A i \in 0 .. N : t[i] \in Nat
      /\ \A i \in 1 .. N : t[i] = t[i - 1] + HeaderSize(f.chain[i])
  BY <1>1, <1>5 DEF Totals, Total
<1>7. ASSUME NEW i \in 1 .. N
      PROVE  /\ HeaderSize(f.chain[i]) <= ExtensionSize(f.chain[i])
             /\ f.chain[i].kind = "ah" =>
                   HeaderSize(f.chain[i]) < ExtensionSize(f.chain[i])
  <2>1. /\ f.chain[i].hdr_len \in Nat
        /\ f.chain[i].kind = "ah" => f.chain[i].hdr_len > 0
    BY <1>5
  <2>. QED  BY <2>1 DEF HeaderSize, ExtensionSize
<1> DEFINE Good(i) == \/ g[i] = -1
                      \/ /\ g[i] \in Int /\ g[i] <= P - t[i]
                         /\ Ah(i) => g[i] < P - t[i]
           G == {i \in 0 .. N : Good(i)}
<1>8. 0 \in G
  <2>1. g[0] = P
    BY <1>3, <1>5 DEF Step
  <2>. QED  BY <2>1, <1>5, <1>6
<1>9. ASSUME NEW i \in 1 .. N, i - 1 \in G PROVE i \in G
  <2>1. /\ i \in 0 .. N /\ i # 0 /\ i - 1 \in 0 .. N
        /\ Good(i - 1) /\ g[i] = Step(f, g, i)
    BY <1>3, <1>5, <1>9
  <2>2. Ah(i) <=> Ah(i - 1) \/ f.chain[i].kind = "ah"
    <3>1. 1 .. i = 1 .. i - 1 \cup {i}
      BY <1>5
    <3>. QED  BY <3>1
  <2>3. /\ t[i] \in Nat /\ t[i - 1] \in Nat
        /\ t[i] = t[i - 1] + HeaderSize(f.chain[i])
        /\ ExtensionSize(f.chain[i]) \in Nat
        /\ HeaderSize(f.chain[i]) \in Nat
        /\ HeaderSize(f.chain[i]) <= ExtensionSize(f.chain[i])
        /\ f.chain[i].kind = "ah" =>
              HeaderSize(f.chain[i]) < ExtensionSize(f.chain[i])
    BY <2>1, <1>5, <1>6, <1>7
  <2>. HIDE DEF Ah, N
  <2>4. Good(i)
    <3>1. CASE g[i - 1] = -1
      BY <2>1, <3>1 DEF Step
    <3>2. CASE /\ g[i - 1] \in Int /\ g[i - 1] <= P - t[i - 1]
               /\ Ah(i - 1) => g[i - 1] < P - t[i - 1]
      <4>1. \/ g[i] = -1
            \/ g[i] = g[i - 1] - ExtensionSize(f.chain[i])
        BY <2>1 DEF Step
      <4> DEFINE E == ExtensionSize(f.chain[i])
                 H == HeaderSize(f.chain[i])
      <4>2. ASSUME g[i] = g[i - 1] - E
            PROVE  /\ g[i] \in Int /\ g[i] <= P - t[i]
                   /\ g[i - 1] < P - t[i - 1] => g[i] < P - t[i]
                   /\ H < E => g[i] < P - t[i]
        <5>1. /\ g[i - 1] \in Int /\ g[i - 1] <= P - t[i - 1]
              /\ P \in Nat /\ E \in Nat /\ H \in Nat /\ H <= E
              /\ t[i - 1] \in Nat /\ t[i] \in Nat /\ t[i] = t[i - 1] + H
          BY <3>2, <2>3, <1>5
        <5>. HIDE DEF P, E, H
        <5>. QED  BY <5>1, <4>2
      <4>3. f.chain[i].kind = "ah" => H < E
        BY <2>3
      <4>. HIDE DEF P, E, H
      <4>4. CASE g[i] = -1
        BY <4>4
      <4>5. CASE g[i] = g[i - 1] - E
        <5>1. CASE Ah(i - 1)
          BY <5>1, <4>2, <4>5, <3>2
        <5>2. CASE f.chain[i].kind = "ah"
          BY <5>2, <4>2, <4>3, <4>5
        <5>3. CASE ~Ah(i)
          BY <5>3, <4>2, <4>5
        <5>. QED  BY <5>1, <5>2, <5>3, <2>2
      <4>. QED  BY <4>1, <4>4, <4>5 DEF E
    <3>. QED  BY <3>1, <3>2, <2>1
  <2>. QED  BY <2>1, <2>4
<1>10. N \in G
  <2>1. \A i \in 0 .. N : i \in G
    <3>. HIDE DEF G, N
    <3>1. \A i \in 1 .. N : i - 1 \in G => i \in G
      BY <1>9
    <3>. QED  BY <1>5, <1>8, <3>1, UpTo
  <2>. QED  BY <2>1, <1>5
<1>11. Ah(N)
  BY <1>5 DEF Authenticated
<1>. QED  BY <1>4, <1>6, <1>10, <1>11

LEMMA ChainSizeType ==
    ASSUME NEW f \in Frame
    PROVE  ChainSize(f) \in Nat
<1>1. PICK t : Totals(f, t)
  BY ChainTotals
<1>2. Len(f.chain) \in 0 .. Len(f.chain)
  BY FrameType
<1>. QED  BY <1>1, <1>2 DEF Totals

-----------------------------------------------------------------------------
\* A slot of an outcome: what decoding to the TCP layer can give for a
\* segment of the given size.  A difference that has wrapped around is larger
\* than any payload handlePacket accepts.
Segment(d, f, at, size) ==
    \/ d = Terminates
    \/ d = InvalidArgument
    \/ /\ d = Payload(d.at, d.size)
       /\ d.size \in Nat
       /\ \/ d.size > MAX_PACKET_SIZE
          \/ d.at = at + 4 * f.th_off /\ d.size = size - 4 * f.th_off

LEMMA HeaderFields ==
    ASSUME NEW f \in Frame
    PROVE  /\ f.size \in Nat /\ f.th_off \in Nat /\ f.ip_hl \in Nat
           /\ f.ip_len \in Nat /\ f.payload_len \in Nat /\ f.uh_len \in Nat
           /\ f.th_off <= 15 /\ f.ip_hl <= 15
           /\ f.ip_len <= 65535 /\ f.payload_len <= 65535
<1>1. /\ f.size \in Nat /\ f.th_off \in Nibble /\ f.ip_hl \in Nibble
      /\ f.ip_len \in Word /\ f.payload_len \in Word /\ f.uh_len \in Word
  BY DEF Frame
<1>. QED  BY <1>1, FieldRanges

LEMMA TransportSegment ==
    ASSUME NEW f \in Frame, NEW at \in Nat, NEW size \in Nat
    PROVE  Segment(TransportDecode("tcp", f, at, size), f, at, size)
<1>1. f.th_off \in Nat /\ f.th_off <= 15
  BY HeaderFields
<1>2. SizeValues \in Nat /\ MAX_PACKET_SIZE \in Nat
      /\ SizeValues > 65535 + 60 + MAX_PACKET_SIZE
  BY ParserAssumption
<1>3. Segment(TcpDecode("tcp", f, at, size), f, at, size)
  BY <1>1, <1>2 DEF Segment, TcpDecode, Payload, InvalidArgument, Terminates,
                    Unsigned
<1>4. UdpDecode("tcp", f, at, size) = Terminates
  BY DEF UdpDecode
<1>5. TransportDecode("tcp", f, at, size) \in
         {TcpDecode("tcp", f, at, size), Terminates}
  BY <1>4 DEF TransportDecode
<1>. QED  BY <1>3, <1>5 DEF Segment

\* An IPv4 frame: the segment is what the total length leaves for it.
LEMMA Ipv4Segment ==
    ASSUME NEW f \in Frame, NEW size \in Nat
    PROVE  Segment(Ipv4Decode("tcp", f, 14, size), f, 14 + 4 * f.ip_hl,
                   f.ip_len - 4 * f.ip_hl)
<1> DEFINE start  == 14 + 4 * f.ip_hl
           length == Unsigned(f.ip_len - 4 * f.ip_hl)
           d == TransportDecode("tcp", f, start, length)
<1>1. /\ f.ip_hl \in Nat /\ f.ip_hl <= 15 /\ f.ip_len \in Nat
      /\ f.th_off \in Nat /\ f.th_off <= 15
  BY HeaderFields
<1>2. SizeValues \in Nat /\ MAX_PACKET_SIZE \in Nat
      /\ SizeValues > 65535 + 60 + MAX_PACKET_SIZE
  BY ParserAssumption
<1>3. start \in Nat /\ length \in Nat
  BY <1>1, <1>2 DEF Unsigned
<1>4. Segment(d, f, start, length)
  BY <1>3, TransportSegment
<1>5. \/ length = f.ip_len - 4 * f.ip_hl
      \/ length - 4 * f.th_off > MAX_PACKET_SIZE
  BY <1>1, <1>2 DEF Unsigned
<1>6. Segment(d, f, start, f.ip_len - 4 * f.ip_hl)
  <2>. HIDE DEF d, start, length
  <2>. QED  BY <1>3, <1>4, <1>5 DEF Segment
<1>7. Ipv4Decode("tcp", f, 14, size) \in {d, Terminates, InvalidArgument}
  BY DEF Ipv4Decode
<1>. QED  BY <1>6, <1>7 DEF Segment

\* An IPv6 frame: the segment ends where the length field says, and that is
\* within the frame.
LEMMA Ipv6Segment ==
    ASSUME NEW f \in Frame, NEW size \in Nat
    PROVE  LET left == LeftAfterChain(f)
               d    == Ipv6Decode("tcp", f, 14, size)
           IN  /\ Segment(d, f, 14 + 40 + f.payload_len - left, left)
               /\ d.what = "payload" => f.payload_len <= size - 40
<1> DEFINE left  == LeftAfterChain(f)
           start == 14 + 40 + f.payload_len - left
           d     == TransportDecode("tcp", f, start, left)
           result == Ipv6Decode("tcp", f, 14, size)
<1>1. left \in Int /\ left <= f.payload_len /\ f.payload_len \in Nat
  BY WalkBound, HeaderFields
<1>2. \/ result = d /\ left >= 0 /\ f.payload_len <= size - 40
      \/ result = Terminates
      \/ result = InvalidArgument
  BY <1>1 DEF Ipv6Decode, Fits
<1>3. left >= 0 => Segment(d, f, start, left)
  BY <1>1, TransportSegment
<1>4. Terminates.what # "payload" /\ InvalidArgument.what # "payload"
  BY DEF Terminates, InvalidArgument
<1>. QED  BY <1>2, <1>3, <1>4 DEF Segment

-----------------------------------------------------------------------------
\* What decoding a frame gives, for either network layer.
LEMMA FrameSegment ==
    ASSUME NEW f \in Frame
    PROVE  LET d    == EthernetDecode("tcp", f)
               left == LeftAfterChain(f)
           IN  \/ d = Terminates
               \/ d = InvalidArgument
               \/ /\ f.ether_type = "ipv4"
                  /\ Segment(d, f, 14 + 4 * f.ip_hl, f.ip_len - 4 * f.ip_hl)
               \/ /\ f.ether_type = "ipv6"
                  /\ f.payload_len <= f.size - 54
                  /\ Segment(d, f, 14 + 40 + f.payload_len - left, left)
<1> DEFINE d    == EthernetDecode("tcp", f)
           left == LeftAfterChain(f)
           v4   == Ipv4Decode("tcp", f, 14, f.size - 14)
           v6   == Ipv6Decode("tcp", f, 14, f.size - 14)
<1>0. f.size \in Nat /\ f.payload_len \in Nat
  BY HeaderFields
<1>1. \/ d = InvalidArgument
      \/ d = Terminates
      \/ d = v4 /\ f.ether_type = "ipv4" /\ f.size >= 14
      \/ d = v6 /\ f.ether_type = "ipv6" /\ f.size >= 14
  BY <1>0 DEF EthernetDecode
<1>2. f.size >= 14 => f.size - 14 \in Nat
  BY <1>0
<1>3. f.size >= 14 => Segment(v4, f, 14 + 4 * f.ip_hl,
                              f.ip_len - 4 * f.ip_hl)
  BY <1>2, Ipv4Segment
<1>4. f.size >= 14 =>
         /\ Segment(v6, f, 14 + 40 + f.payload_len - left, left)
         /\ v6.what = "payload" => f.payload_len <= f.size - 54
  BY <1>0, <1>2, Ipv6Segment
<1>5. \A e : Payload(e.at, e.size).what = "payload"
  BY DEF Payload
<1>. HIDE DEF d, v4, v6, left
<1>6. v6 = Terminates \/ v6 = InvalidArgument \/ v6.what = "payload"
      \/ ~Segment(v6, f, 14 + 40 + f.payload_len - left, left)
  BY <1>5 DEF Segment
<1>7. CASE d = v4 /\ f.ether_type = "ipv4" /\ f.size >= 14
  BY <1>3, <1>7 DEF d
<1>8. CASE d = v6 /\ f.ether_type = "ipv6" /\ f.size >= 14
  BY <1>4, <1>6, <1>8 DEF d, left
<1>. QED  BY <1>1, <1>7, <1>8 DEF d

\* The payload handlePacket stores ends where the length field says.
LEMMA StoredSegment ==
    ASSUME NEW f \in Frame, NEW user, Handle(f, user).what = "payload"
    PROVE  LET d == Handle(f, user)
           IN  \/ f.ether_type = "ipv4" /\ d.at + d.size = 14 + f.ip_len
               \/ f.ether_type = "ipv6" /\ d.at + d.size <= f.size
<1> DEFINE d    == EthernetDecode("tcp", f)
           left == LeftAfterChain(f)
<1>0. /\ f.size \in Nat /\ f.ip_hl \in Nat /\ f.ip_len \in Nat
      /\ f.th_off \in Nat /\ f.payload_len \in Nat /\ left \in Int
      /\ MAX_PACKET_SIZE \in Nat
  BY HeaderFields, WalkBound, ParserAssumption
<1>1. /\ Terminates.what # "payload" /\ InvalidArgument.what # "payload"
      /\ Ignored.what # "payload"
  BY DEF Terminates, InvalidArgument, Ignored
<1>2. /\ Handle(f, user) = d /\ ~(d.size > MAX_PACKET_SIZE)
      /\ d # Terminates /\ d # InvalidArgument
  BY <1>1 DEF Handle
<1>3. \/ /\ f.ether_type = "ipv4"
         /\ Segment(d, f, 14 + 4 * f.ip_hl, f.ip_len - 4 * f.ip_hl)
      \/ /\ f.ether_type = "ipv6"
         /\ f.payload_len <= f.size - 54
         /\ Segment(d, f, 14 + 40 + f.payload_len - left, left)
  BY <1>2, FrameSegment
<1>. HIDE DEF d, left
<1>4. CASE f.ether_type = "ipv4"
  BY <1>0, <1>2, <1>3, <1>4 DEF Segment
<1>5. CASE f.ether_type = "ipv6"
  BY <1>0, <1>2, <1>3, <1>5 DEF Segment
<1>. QED  BY <1>3, <1>4, <1>5

-----------------------------------------------------------------------------
\* Frames are never altered, and the results are those of their frame.
ResultOfFrame ==
    /\ frame \in Frames /\ layer \in Layers
    /\ usrdata \in [linktype : LinkTypes, stop_loop : BOOLEAN]
    /\ outcome = <<>> \/ outcome = <<EthernetDecode(layer, frame)>>
    /\ stored = <<>> \/ stored = <<Handle(frame, usrdata)>>

LEMMA ResultOfFrameInvariant == Spec => []ResultOfFrame
<1>1. Init => ResultOfFrame
  BY DEF Init, ResultOfFrame
<1>2. ResultOfFrame /\ [Next]_parserVars => ResultOfFrame'
  <2> SUFFICES ASSUME ResultOfFrame, [Next]_parserVars
               PROVE  ResultOfFrame'
    OBVIOUS
  <2>1. CASE decodeUntil
    BY <2>1 DEF decodeUntil, ResultOfFrame
  <2>2. CASE handlePacket
    BY <2>2 DEF handlePacket, ResultOfFrame
  <2>3. CASE UNCHANGED parserVars
    BY <2>3 DEF parserVars, ResultOfFrame
  <2>. QED  BY <2>1, <2>2, <2>3 DEF Next
<1>. QED  BY <1>1, <1>2, PTL DEF Spec

\* Whatever the fields of a frame say, handlePacket stores nothing outside of
\* an IPv6 frame, nor of an IPv4 frame whose total length fits it.
THEOREM HandlePacketStaysInFrame == Spec => []StoredInFrame
<1>1. ResultOfFrame => StoredInFrame
  <2> SUFFICES ASSUME ResultOfFrame, stored # <<>>,
                      stored[1].what = "payload",
                      \/ frame.ether_type = "ipv6"
                      \/ 14 + frame.ip_len <= frame.size
               PROVE  stored[1].at + stored[1].size <= frame.size
    BY DEF StoredInFrame
  <2>1. frame \in Frame /\ stored[1] = Handle(frame, usrdata)
    BY ParserAssumption DEF ResultOfFrame
  <2>2. \/ /\ frame.ether_type = "ipv4"
           /\ stored[1].at + stored[1].size = 14 + frame.ip_len
        \/ /\ frame.ether_type = "ipv6"
           /\ stored[1].at + stored[1].size <= frame.size
    BY <2>1, StoredSegment
  <2>. QED  BY <2>2
<1>. QED  BY <1>1, ResultOfFrameInvariant, PTL

-----------------------------------------------------------------------------
\* Without extension headers the walk leaves the whole length.
LEMMA NoWalk ==
    ASSUME NEW f \in Frame, f.chain = <<>>
    PROVE  LeftAfterChain(f) = f.payload_len /\ ChainSize(f) = 0
<1>1. Len(f.chain) = 0 /\ 0 .. Len(f.chain) = {0}
  BY DEF Frame
<1> DEFINE walk  == [i \in {0} |-> f.payload_len]
           total == [i \in {0} |-> 0]
<1>2. LeftAfterChain(f) = walk[0]
  BY <1>1, WalkIs DEF Step
<1>3. ChainSize(f) = total[0]
  BY <1>1, ChainSizeIs DEF Total
<1>. QED  BY <1>2, <1>3

\* handlePacket stores exactly the data of the consistent frames the filter
\* admits.
THEOREM HandlePacketExact == Spec => []CapturesExactly
<1>1. ASSUME NEW f \in Frame, Consistent(f), Admitted(f), NEW user,
             ~user.stop_loop, user.linktype = "ethernet"
      PROVE  Handle(f, user) =
               IF f.proto # "tcp" \/ DataSize(f) > MAX_PACKET_SIZE
               THEN Terminates
               ELSE IF DataSize(f) = 0 THEN Ignored
               ELSE Payload(DataAt(f), DataSize(f))
  <2>0. /\ f.size \in Nat /\ f.ip_hl \in Nat /\ f.ip_len \in Nat
        /\ f.th_off \in Nat /\ f.payload_len \in Nat
        /\ f.ip_hl <= 15 /\ f.th_off <= 15
        /\ MAX_PACKET_SIZE \in Nat /\ SizeValues \in Nat
    BY HeaderFields, ParserAssumption
  <2>1. LeftAfterChain(f) = f.payload_len /\ ChainSize(f) = 0
    BY <1>1, NoWalk DEF Admitted
  <2>2. f.proto \in {"tcp", "udp", "sctp"} /\ DataSize(f) \in Nat
    <3>1. f.proto \in {"tcp", "udp", "sctp"} /\ DataSize(f) >= 0
      BY <1>1 DEF Consistent, ConsistentNetwork
    <3>2. TransportHeader(f) \in Int
      BY <3>1, <2>0 DEF TransportHeader
    <3>3. SegmentSize(f) \in Int
      BY <2>0, <2>1 DEF SegmentSize, NetworkLength, NetworkHeader
    <3>. QED  BY <3>1, <3>2, <3>3 DEF DataSize
  <2> DEFINE at   == 14 + NetworkHeader(f)
             d    == TransportDecode("tcp", f, at, SegmentSize(f))
  <2>3. f.ether_type = "ipv4" => EthernetDecode("tcp", f) = d
    <3>0. HAVE f.ether_type = "ipv4"
    <3>1. /\ f.version = 4 /\ f.ip_hl >= 5 /\ SegmentSize(f) >= 0
          /\ 14 + f.ip_len <= f.size /\ NetworkHeader(f) = 4 * f.ip_hl
          /\ SegmentSize(f) = f.ip_len - 4 * f.ip_hl
      BY <1>1, <2>0, <2>2, <3>0
         DEF Consistent, ConsistentNetwork, DataSize, SegmentSize,
             NetworkLength, NetworkHeader, TransportHeader
    <3>2. Ipv4Decode("tcp", f, 14, f.size - 14) = d
      BY <2>0, <3>1 DEF Ipv4Decode, Unsigned
    <3>3. f.size >= 14 /\ EthernetDecode("tcp", f) =
                            Ipv4Decode("tcp", f, 14, f.size - 14)
      BY <2>0, <3>0, <3>1 DEF EthernetDecode
    <3>. QED  BY <3>2, <3>3
  <2>4. f.ether_type = "ipv6" => EthernetDecode("tcp", f) = d
    <3>0. HAVE f.ether_type = "ipv6"
    <3>1. /\ f.version = 6 /\ 54 + f.payload_len <= f.size
          /\ NetworkHeader(f) = 40 /\ SegmentSize(f) = f.payload_len
      BY <1>1, <2>0, <2>1, <3>0
         DEF Consistent, ConsistentNetwork, SegmentSize, NetworkLength,
             NetworkHeader
    <3>2. Ipv6Decode("tcp", f, 14, f.size - 14) = d
      <4>1. /\ ~(f.size - 14 < 40) /\ Fits(f, f.size - 14)
            /\ ~(LeftAfterChain(f) < 0)
            /\ 14 + 40 + f.payload_len - LeftAfterChain(f) = at
            /\ LeftAfterChain(f) = SegmentSize(f)
        BY <2>0, <2>1, <3>1 DEF Fits
      <4>2. f.proto = "sctp" => d = Terminates
        BY DEF TransportDecode
      <4>. HIDE DEF d
      <4>3. CASE f.proto = "sctp"
        BY <4>1, <4>2, <4>3, <3>1 DEF Ipv6Decode
      <4>4. CASE f.proto \in {"tcp", "udp"}
        BY <4>1, <4>4, <3>1 DEF Ipv6Decode, d
      <4>. QED  BY <4>3, <4>4, <2>2
    <3>3. EthernetDecode("tcp", f) = Ipv6Decode("tcp", f, 14, f.size - 14)
      BY <2>0, <3>0, <3>1 DEF EthernetDecode
    <3>. QED  BY <3>2, <3>3
  <2>5. EthernetDecode("tcp", f) = d
    BY <2>3, <2>4, <1>1 DEF Admitted
  <2>6. CASE f.proto # "tcp"
    <3>1. d = Terminates
      BY <2>6 DEF TransportDecode, UdpDecode
    <3>. QED  BY <2>5, <2>6, <3>1, <1>1 DEF Handle, Terminates
  <2>7. CASE f.proto = "tcp"
    <3>1. /\ TransportHeader(f) = 4 * f.th_off /\ f.th_off >= 5
          /\ DataSize(f) = SegmentSize(f) - 4 * f.th_off
          /\ DataAt(f) = at + 4 * f.th_off
          /\ SegmentSize(f) \in Int
      <4>1. TransportHeader(f) = 4 * f.th_off
        BY <2>7 DEF TransportHeader
      <4>2. f.th_off >= 5
        BY <1>1, <2>7 DEF Consistent
      <4>3. SegmentSize(f) \in Int
        BY <2>0, <2>1 DEF SegmentSize, NetworkLength, NetworkHeader
      <4>. QED  BY <4>1, <4>2, <4>3 DEF DataSize, DataAt, SegmentAt
    <3>2. d = TcpDecode("tcp", f, at, SegmentSize(f))
      BY <2>7 DEF TransportDecode
    <3>3. d = Payload(DataAt(f), DataSize(f))
      BY <2>0, <2>2, <3>1, <3>2 DEF TcpDecode, Unsigned
    <3>. QED  BY <2>5, <2>7, <3>3, <2>0, <2>2, <1>1
              DEF Handle, Payload, Terminates
  <2>. QED  BY <2>2, <2>6, <2>7
<1>2. \A f, user : user.stop_loop \/ user.linktype = "other" =>
                       Handle(f, user) = Ignored
  BY DEF Handle, InvalidArgument
<1>3. ResultOfFrame => CapturesExactly
  <2>1. ResultOfFrame /\ stored # <<>> =>
          /\ frame \in Frame /\ stored[1] = Handle(frame, usrdata)
          /\ usrdata \in [linktype : LinkTypes, stop_loop : BOOLEAN]
    BY ParserAssumption DEF ResultOfFrame
  <2>2. ASSUME usrdata \in [linktype : LinkTypes, stop_loop : BOOLEAN]
        PROVE  usrdata.linktype # "other" => usrdata.linktype = "ethernet"
    BY <2>2 DEF LinkTypes
  <2>. QED  BY <1>1, <1>2, <2>1, <2>2 DEF CapturesExactly
<1>. QED  BY <1>3, ResultOfFrameInvariant, PTL

-----------------------------------------------------------------------------
LEMMA SegmentSizeType ==
    ASSUME NEW f \in Frame
    PROVE  SegmentSize(f) \in Int
BY HeaderFields, ChainSizeType DEF SegmentSize, NetworkLength, NetworkHeader

\* The transport header of a consistent segment is taken off it.
LEMMA TransportExact ==
    ASSUME NEW f \in Frame, Consistent(f), f.proto \in {"tcp", "udp"},
           NEW at
    PROVE  TransportDecode(f.proto, f, at, SegmentSize(f))
             = Payload(at + TransportHeader(f), DataSize(f))
<1>0. f.th_off \in Nat
  BY HeaderFields
<1>1. /\ DataSize(f) >= 0
      /\ f.proto = "tcp" => f.th_off >= 5
      /\ f.proto = "udp" => f.uh_len = SegmentSize(f)
  BY DEF Consistent
<1>2. DataSize(f) = SegmentSize(f) - TransportHeader(f)
  BY DEF DataSize
<1>3. SegmentSize(f) \in Int
  BY SegmentSizeType
<1>4. CASE f.proto = "tcp"
  <2>1. TransportHeader(f) = 4 * f.th_off
    BY <1>4 DEF TransportHeader
  <2>2. /\ ~(SegmentSize(f) < 20)
        /\ Unsigned(SegmentSize(f) - 4 * f.th_off) = DataSize(f)
    BY <2>1, <1>0, <1>1, <1>2, <1>3, <1>4 DEF Unsigned
  <2>. QED  BY <2>1, <2>2, <1>4 DEF TransportDecode, TcpDecode
<1>5. CASE f.proto = "udp"
  <2>1. TransportHeader(f) = 8
    BY <1>5 DEF TransportHeader
  <2>2. ~(SegmentSize(f) < 8) /\ ~(f.uh_len > SegmentSize(f))
    BY <2>1, <1>1, <1>2, <1>3, <1>5
  <2>. QED  BY <2>1, <2>2, <1>2, <1>5 DEF TransportDecode, UdpDecode
<1>. QED  BY <1>4, <1>5

\* The network layer of an IPv4 frame hands on its segment.
LEMMA Ipv4Exact ==
    ASSUME NEW f \in Frame, ConsistentNetwork(f), f.ether_type = "ipv4",
           NEW l, l # "ethernet"
    PROVE  EthernetDecode(l, f) =
             IF l = "ipv4" THEN Payload(SegmentAt(f), SegmentSize(f))
             ELSE TransportDecode(l, f, SegmentAt(f), SegmentSize(f))
<1>0. f.size \in Nat /\ f.ip_hl \in Nat /\ f.ip_len \in Nat
  BY HeaderFields
<1>1. /\ f.version = 4 /\ f.ip_hl >= 5 /\ 14 + f.ip_len <= f.size
      /\ SegmentAt(f) = 14 + 4 * f.ip_hl
      /\ SegmentSize(f) = f.ip_len - 4 * f.ip_hl /\ SegmentSize(f) >= 0
  BY DEF ConsistentNetwork, SegmentAt, SegmentSize, NetworkLength,
         NetworkHeader
<1>2. f.size - 14 >= 20 /\ Unsigned(f.ip_len - 4 * f.ip_hl) = SegmentSize(f)
  BY <1>0, <1>1 DEF Unsigned
<1>3. EthernetDecode(l, f) = Ipv4Decode(l, f, 14, f.size - 14)
  BY <1>0, <1>2 DEF EthernetDecode
<1>. QED  BY <1>0, <1>1, <1>2, <1>3 DEF Ipv4Decode

\* The network layer of an IPv6 frame hands on what the walk leaves.
LEMMA Ipv6Walk ==
    ASSUME NEW f \in Frame, ConsistentNetwork(f), f.ether_type = "ipv6",
           NEW l, l # "ethernet"
    PROVE  LET left  == LeftAfterChain(f)
               start == 54 + f.payload_len - left
           IN  /\ ChainSize(f) <= f.payload_len
               /\ SegmentAt(f) = 54 + ChainSize(f)
               /\ SegmentSize(f) = f.payload_len - ChainSize(f)
               /\ EthernetDecode(l, f) =
                     IF left < 0 \/ f.proto = "sctp" THEN Terminates
                     ELSE IF l = "ipv6" THEN Payload(start, left)
                     ELSE TransportDecode(l, f, start, left)
<1> DEFINE left  == LeftAfterChain(f)
<1>0. /\ f.size \in Nat /\ f.payload_len \in Nat /\ ChainSize(f) \in Nat
      /\ left \in Int
  BY HeaderFields, ChainSizeType, WalkBound
<1>1. /\ f.version = 6 /\ 54 + f.payload_len <= f.size
      /\ SegmentAt(f) = 54 + ChainSize(f)
      /\ SegmentSize(f) = f.payload_len - ChainSize(f)
      /\ SegmentSize(f) >= 0 /\ f.proto \in {"tcp", "udp", "sctp"}
  BY <1>0 DEF ConsistentNetwork, SegmentAt, SegmentSize, NetworkLength,
              NetworkHeader
<1>2. /\ ChainSize(f) <= f.payload_len
      /\ f.size - 14 >= 40 /\ f.payload_len <= f.size - 14 - 40
  BY <1>0, <1>1
<1>3. EthernetDecode(l, f) = Ipv6Decode(l, f, 14, f.size - 14)
  BY <1>0, <1>2 DEF EthernetDecode
<1>4. Ipv6Decode(l, f, 14, f.size - 14)
        = IF left < 0 \/ f.proto = "sctp" THEN Terminates
          ELSE IF l = "ipv6" THEN Payload(14 + 40 + f.payload_len - left, left)
          ELSE TransportDecode(l, f, 14 + 40 + f.payload_len - left, left)
  <2>1. /\ ~(f.size - 14 < 40) /\ Fits(f, f.size - 14)
        /\ f.proto # "other" /\ f.proto # "nonxt"
    BY <1>0, <1>1, <1>2 DEF Fits
  <2>. HIDE DEF left
  <2>. QED  BY <2>1, <1>1 DEF Ipv6Decode, left
<1>5. 14 + 40 + f.payload_len - left = 54 + f.payload_len - left
  BY <1>0
<1>. QED  BY <1>1, <1>2, <1>3, <1>4, <1>5

\* What the network layer of a frame hands on, or shows, is its segment.
LEMMA NetworkExact ==
    ASSUME NEW f \in Frame, ConsistentNetwork(f),
           ~(f.ether_type = "ipv6" /\ Authenticated(f)),
           NEW l, l # "ethernet"
    PROVE  EthernetDecode(l, f) =
             IF Ends(f) THEN Terminates
             ELSE IF l = f.ether_type
             THEN Payload(SegmentAt(f), SegmentSize(f))
             ELSE TransportDecode(l, f, SegmentAt(f), SegmentSize(f))
<1>1. CASE f.ether_type = "ipv4"
  <2>1. ~Ends(f)
    BY <1>1 DEF Ends, ShortTail
  <2>. QED  BY <2>1, <1>1, Ipv4Exact
<1>2. CASE f.ether_type = "ipv6"
  <2> DEFINE left  == LeftAfterChain(f)
             start == 54 + f.payload_len - left
  <2>0. f.payload_len \in Nat /\ ChainSize(f) \in Nat
    BY HeaderFields, ChainSizeType
  <2>1. /\ ChainSize(f) <= f.payload_len
        /\ SegmentAt(f) = 54 + ChainSize(f)
        /\ SegmentSize(f) = f.payload_len - ChainSize(f)
        /\ EthernetDecode(l, f) =
              IF left < 0 \/ f.proto = "sctp" THEN Terminates
              ELSE IF l = "ipv6" THEN Payload(start, left)
              ELSE TransportDecode(l, f, start, left)
    BY <1>2, Ipv6Walk
  <2>2. left = IF ShortTail(f) THEN -1 ELSE SegmentSize(f)
    BY <1>2, <2>1, WalkExact
  <2>3. Ends(f) <=> left < 0 \/ f.proto = "sctp"
    BY <1>2, <2>0, <2>1, <2>2 DEF Ends
  <2>4. ~Ends(f) => left = SegmentSize(f) /\ start = SegmentAt(f)
    BY <2>0, <2>1, <2>2, <2>3 DEF Ends
  <2>. HIDE DEF left, start
  <2>. QED  BY <1>2, <2>1, <2>3, <2>4
<1>. QED  BY <1>1, <1>2 DEF ConsistentNetwork

\* decodeUntil yields exactly the payload of the layer it is asked for, of
\* every consistent frame with any options, any number of extension headers of
\* any length and any padding, and ends the process exactly on an extension
\* header in the last 64 bytes and on SCTP over IPv6.  It never yields the
\* payload of an IPv6 packet with an authentication header.
THEOREM DecodeUntilExact == Spec => []DecodesLayer
<1>1. ASSUME NEW f \in Frame, Consistent(f), f.proto \in {"tcp", "udp"}
      PROVE  EthernetDecode(f.proto, f) =
               IF Ends(f) THEN Terminates
               ELSE Payload(DataAt(f), DataSize(f))
  <2>1. /\ ConsistentNetwork(f)
        /\ ~(f.ether_type = "ipv6" /\ Authenticated(f))
        /\ f.ether_type \in {"ipv4", "ipv6"}
    BY <1>1 DEF Consistent, ConsistentNetwork
  <2>2. f.proto # "ethernet" /\ f.proto # f.ether_type
    BY <1>1, <2>1
  <2>. QED  BY <1>1, <2>1, <2>2, NetworkExact, TransportExact DEF DataAt
<1>2. ASSUME NEW f \in Frame, ConsistentNetwork(f),
             ~(f.ether_type = "ipv6" /\ Authenticated(f))
      PROVE  EthernetDecode(f.ether_type, f) =
               IF Ends(f) THEN Terminates
               ELSE Payload(SegmentAt(f), SegmentSize(f))
  <2>1. f.ether_type # "ethernet"
    BY <1>2 DEF ConsistentNetwork
  <2>. QED  BY <1>2, <2>1, NetworkExact
<1>3. ASSUME NEW f \in Frame, ConsistentNetwork(f),
             f.ether_type = "ipv6", Authenticated(f)
      PROVE  EthernetDecode("ipv6", f) # Payload(SegmentAt(f), SegmentSize(f))
  <2> DEFINE left == LeftAfterChain(f)
  <2>1. /\ SegmentSize(f) = f.payload_len - ChainSize(f)
        /\ EthernetDecode("ipv6", f) \in
              {Terminates, Payload(54 + f.payload_len - left, left)}
        /\ EthernetDecode("ipv6", f) # Terminates => ~(left < 0)
    <3>1. "ipv6" # "ethernet"
      OBVIOUS
    <3>. QED  BY <1>3, <3>1, Ipv6Walk
  <2>2. left < 0 \/ left < SegmentSize(f)
    BY <1>3, <2>1, WalkMistaken DEF ConsistentNetwork
  <2>3. SegmentSize(f) \in Int /\ left \in Int
    BY SegmentSizeType, WalkBound
  <2>4. /\ \A at, size : Payload(at, size) # Terminates
        /\ \A at, size : Payload(at, size).size = size
    BY DEF Payload, Terminates
  <2>. HIDE DEF left
  <2>. QED  BY <2>1, <2>2, <2>3, <2>4
<1>4. ResultOfFrame => DecodesLayer
  <2> SUFFICES ASSUME ResultOfFrame, outcome # <<>> PROVE DecodesLayer
    BY DEF DecodesLayer
  <2>1. /\ frame \in Frame /\ layer \in Layers
        /\ outcome[1] = EthernetDecode(layer, frame)
    BY ParserAssumption DEF ResultOfFrame
  <2>2. layer = frame.proto /\ Consistent(frame) =>
           frame.proto \in {"tcp", "udp"}
    BY <2>1 DEF Consistent, ConsistentNetwork, Layers
  <2>. QED  BY <1>1, <1>2, <1>3, <2>1, <2>2 DEF DecodesLayer
<1>. QED  BY <1>4, ResultOfFrameInvariant, PTL

=============================================================================

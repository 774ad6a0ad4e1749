--------------------------- MODULE FramingProofs ---------------------------
(***************************************************************************)
(* Proofs about Framing, for any envelopes, texts and sizes of a byte: the *)
(* decoder takes out of the stream what was written, whole, in order and   *)
(* as soon as it is there, however the stream is cut; the connection is    *)
(* that of Channel; and what an agent builds its addressee reads.          *)
(***************************************************************************)
EXTENDS Framing, SequenceTheorems, WellFoundedInduction, TLAPS

-----------------------------------------------------------------------------
(* Induction: a set of numbers without a least one outside it has them all. *)

LEMMA AllNumbers ==
  ASSUME NEW S \in SUBSET Nat, 0 \in S, \A n \in S : n + 1 \in S
  PROVE  \A n \in Nat : n \in S
<1> SUFFICES ASSUME Nat \ S # {} PROVE FALSE
  OBVIOUS
<1>1. PICK x \in Nat \ S : \A y \in Nat \ S : ~(<<y, x>> \in OpToRel(<, Nat))
  <2>1. Nat \ S \subseteq Nat
    OBVIOUS
  <2>2. QED
    BY <2>1, WFMin, NatLessThanWellFounded
<1>2. x \in Nat /\ x \notin S
  BY <1>1
<1>3. x # 0
  BY <1>2, Zenon
<1>4. x - 1 \in Nat /\ x - 1 < x /\ (x - 1) + 1 = x
  BY <1>2, <1>3
<1>5. x - 1 \in S
  <2>1. <<x - 1, x>> \in OpToRel(<, Nat)
    BY <1>2, <1>4 DEF OpToRel
  <2>2. QED
    BY <1>1, <1>4, <2>1
<1>6. (x - 1) + 1 \in S
  BY <1>5, Zenon
<1>7. QED
  BY <1>2, <1>4, <1>6

-----------------------------------------------------------------------------
(* The loop of push ends, so that the recursion defines a function. *)

LEMMA Regroup ==
  \A a, b, c \in Seq(Bytes) : (a \o b) \o c = a \o (b \o c)
<1> SUFFICES ASSUME NEW a \in Seq(Bytes), NEW b \in Seq(Bytes), NEW c \in Seq(Bytes)
             PROVE  (a \o b) \o c = a \o (b \o c)
  OBVIOUS
<1>1. QED
  BY ConcatAssociative

\* The first envelope of bytes that begin with a whole frame, and what follows it.
First(bytes) == Parse(SubSeq(bytes, PrefixBytes + 1, PrefixBytes + ReadLength(bytes)))

After(bytes) == SubSeq(bytes, PrefixBytes + ReadLength(bytes) + 1, Len(bytes))

\* A round of the loop, when f is what the rounds after it do.
Round(f, bytes) ==
  IF ~Whole(bytes) THEN [out |-> <<>>, rest |-> bytes]
  ELSE [out |-> <<First(bytes)>> \o f[After(bytes)].out, rest |-> f[After(bytes)].rest]

UpTo(k) == {bytes \in Seq(Bytes) : Len(bytes) <= k}

LEMMA LengthRead ==
  ASSUME NEW bytes \in Seq(Bytes), Len(bytes) >= PrefixBytes
  PROVE  ReadLength(bytes) \in Nat
<1>1. bytes[1] \in Nat /\ bytes[2] \in Nat /\ bytes[3] \in Nat /\ bytes[4] \in Nat
  BY FramingAssumption DEF Bytes, PrefixBytes
<1>2. \A a, b, c, d, base \in Nat : ((a * base + b) * base + c) * base + d \in Nat
  OBVIOUS
<1>3. QED
  BY <1>1, <1>2, FramingAssumption DEF ReadLength

LEMMA RoundShortens ==
  ASSUME NEW bytes \in Seq(Bytes), Whole(bytes)
  PROVE  /\ After(bytes) \in Seq(Bytes)
         /\ Len(After(bytes)) = Len(bytes) - PrefixBytes - ReadLength(bytes)
         /\ Len(After(bytes)) < Len(bytes)
<1>1. ReadLength(bytes) \in Nat /\ PrefixBytes + ReadLength(bytes) <= Len(bytes)
  BY LengthRead DEF Whole
<1>2. PICK m \in Nat : m = PrefixBytes + ReadLength(bytes) + 1 /\ m <= Len(bytes) + 1 /\ m >= 5
  BY <1>1 DEF PrefixBytes
<1>3. SubSeq(bytes, m, Len(bytes)) \in Seq(Bytes)
      /\ Len(SubSeq(bytes, m, Len(bytes))) = Len(bytes) - m + 1
  BY <1>2, SubSeqProperties
<1>4. QED
  BY <1>1, <1>2, <1>3 DEF After, PrefixBytes

LEMMA RoundLocal ==
  ASSUME NEW bytes \in Seq(Bytes), NEW f, NEW g,
         Whole(bytes) => f[After(bytes)] = g[After(bytes)]
  PROVE  Round(f, bytes) = Round(g, bytes)
  BY DEF Round

\* What the loop does with so many bytes at most.
Does(f, k) == f = [bytes \in UpTo(k) |-> Round(f, bytes)]

LEMMA DoesApply ==
  ASSUME NEW f, NEW k, Does(f, k), NEW bytes \in UpTo(k)
  PROVE  f[bytes] = Round(f, bytes)
<1> DEFINE r == [b \in UpTo(k) |-> Round(f, b)]
<1>1. f = r
  BY DEF Does
<1>2. r[bytes] = Round(f, bytes)
  OBVIOUS
<1> HIDE DEF r
<1>3. QED
  BY <1>1, <1>2

LEMMA DoesExists == \A k \in Nat : \E f : Does(f, k)
<1> DEFINE S == {k \in Nat : \E f : Does(f, k)}
<1>1. 0 \in S
  <2> DEFINE f == [bytes \in UpTo(0) |-> Round(<<>>, bytes)]
  <2>1. ASSUME NEW bytes \in UpTo(0) PROVE Round(f, bytes) = Round(<<>>, bytes)
    <3>1. bytes \in Seq(Bytes) /\ ~Whole(bytes)
      BY DEF UpTo, Whole, PrefixBytes
    <3> HIDE DEF f
    <3>2. QED
      BY <3>1, RoundLocal
  <2>2. f = [bytes \in UpTo(0) |-> Round(f, bytes)]
    BY <2>1
  <2> HIDE DEF f
  <2>3. Does(f, 0)
    BY <2>2 DEF Does
  <2>4. QED
    BY <2>3
<1>2. ASSUME NEW k \in S PROVE k + 1 \in S
  <2>1. PICK g : Does(g, k)
    OBVIOUS
  <2> DEFINE h == [bytes \in UpTo(k + 1) |-> Round(g, bytes)]
  <2>2. ASSUME NEW bytes \in UpTo(k + 1) PROVE Round(h, bytes) = Round(g, bytes)
    <3>1. bytes \in Seq(Bytes) /\ Len(bytes) <= k + 1
      BY DEF UpTo
    <3>2. ASSUME Whole(bytes) PROVE h[After(bytes)] = g[After(bytes)]
      <4>1. After(bytes) \in UpTo(k) /\ After(bytes) \in UpTo(k + 1)
        BY <3>1, <3>2, RoundShortens DEF UpTo
      <4>2. h[After(bytes)] = Round(g, After(bytes))
        BY <4>1
      <4>3. g[After(bytes)] = Round(g, After(bytes))
        BY <2>1, <4>1, DoesApply
      <4>4. QED
        BY <4>2, <4>3
    <3> HIDE DEF h
    <3>3. QED
      BY <3>1, <3>2, RoundLocal
  <2>3. h = [bytes \in UpTo(k + 1) |-> Round(h, bytes)]
    BY <2>2
  <2> HIDE DEF h
  <2>4. Does(h, k + 1)
    BY <2>3 DEF Does
  <2>5. QED
    BY <2>4
<1> HIDE DEF S
<1>3. \A k \in Nat : k \in S
  <2>1. S \in SUBSET Nat
    BY DEF S
  <2>2. QED
    BY <1>1, <1>2, <2>1, AllNumbers
<1>4. QED
  BY <1>3 DEF S

LEMMA DoesAgrees ==
  ASSUME NEW k \in Nat, NEW l \in Nat, NEW f, NEW g, Does(f, k), Does(g, l)
  PROVE  \A bytes \in UpTo(k) \intersect UpTo(l) : f[bytes] = g[bytes]
<1> DEFINE S == {n \in Nat : \A bytes \in UpTo(k) \intersect UpTo(l) :
                               Len(bytes) <= n => f[bytes] = g[bytes]}
<1>0. ASSUME NEW bytes \in UpTo(k) \intersect UpTo(l),
             Whole(bytes) => f[After(bytes)] = g[After(bytes)]
      PROVE  f[bytes] = g[bytes]
  <2>1. f[bytes] = Round(f, bytes) /\ g[bytes] = Round(g, bytes)
    BY DoesApply
  <2>2. bytes \in Seq(Bytes)
    BY DEF UpTo
  <2>3. QED
    BY <1>0, <2>1, <2>2, RoundLocal
<1>1. 0 \in S
  <2>1. ASSUME NEW bytes \in UpTo(k) \intersect UpTo(l), Len(bytes) <= 0
        PROVE  f[bytes] = g[bytes]
    <3>1. ~Whole(bytes)
      BY <2>1 DEF UpTo, Whole, PrefixBytes
    <3>2. QED
      BY <1>0, <3>1
  <2>2. QED
    BY <2>1
<1>2. ASSUME NEW n \in S PROVE n + 1 \in S
  <2>1. ASSUME NEW bytes \in UpTo(k) \intersect UpTo(l), Len(bytes) <= n + 1
        PROVE  f[bytes] = g[bytes]
    <3>1. ASSUME Whole(bytes) PROVE f[After(bytes)] = g[After(bytes)]
      <4>1. bytes \in Seq(Bytes) /\ Len(bytes) <= k /\ Len(bytes) <= l
        BY DEF UpTo
      <4>2. /\ After(bytes) \in Seq(Bytes)
            /\ Len(After(bytes)) < Len(bytes) /\ Len(After(bytes)) \in Nat
        BY <3>1, <4>1, RoundShortens
      <4>3. After(bytes) \in UpTo(k) \intersect UpTo(l) /\ Len(After(bytes)) <= n
        BY <2>1, <4>1, <4>2 DEF UpTo
      <4>4. QED
        BY <4>3
    <3>2. QED
      BY <1>0, <3>1
  <2>2. QED
    BY <2>1
<1>3. \A n \in Nat : n \in S
  <2>1. S \in SUBSET Nat
    OBVIOUS
  <2> HIDE DEF S
  <2>2. QED
    BY <1>1, <1>2, <2>1, AllNumbers
<1>4. QED
  <2>1. ASSUME NEW bytes \in UpTo(k) \intersect UpTo(l) PROVE f[bytes] = g[bytes]
    <3>1. Len(bytes) \in Nat
      BY DEF UpTo
    <3>2. Len(bytes) \in S
      BY <1>3, <3>1
    <3>3. QED
      BY <3>2
  <2>2. QED
    BY <2>1

\* Drain is the loop.
LEMMA DrainRound ==
  ASSUME NEW bytes \in Seq(Bytes)
  PROVE  Drain[bytes] = Round(Drain, bytes)
<1> DEFINE G(k) == CHOOSE f : Does(f, k)
           D == [b \in Seq(Bytes) |-> G(Len(b))[b]]
<1>1. \A k \in Nat : Does(G(k), k)
  BY DoesExists
<1> HIDE DEF G
<1>2. ASSUME NEW b \in Seq(Bytes) PROVE D[b] = Round(D, b)
  <2>1. Len(b) \in Nat /\ b \in UpTo(Len(b))
    BY DEF UpTo
  <2>2. D[b] = Round(G(Len(b)), b)
    <3>1. D[b] = G(Len(b))[b]
      OBVIOUS
    <3>2. Does(G(Len(b)), Len(b))
      BY <1>1, <2>1
    <3>3. G(Len(b))[b] = Round(G(Len(b)), b)
      BY <2>1, <3>2, DoesApply
    <3> HIDE DEF D
    <3>4. QED
      BY <3>1, <3>3
  <2>3. ASSUME Whole(b) PROVE G(Len(b))[After(b)] = D[After(b)]
    <3> DEFINE a == After(b)
    <3>1. a \in Seq(Bytes) /\ Len(a) < Len(b) /\ Len(a) \in Nat
      BY <2>3, RoundShortens
    <3> HIDE DEF a
    <3>2. D[a] = G(Len(a))[a]
      BY <3>1
    <3>3. a \in UpTo(Len(b)) \intersect UpTo(Len(a))
      BY <2>1, <3>1 DEF UpTo
    <3>4. Does(G(Len(b)), Len(b)) /\ Does(G(Len(a)), Len(a))
      BY <1>1, <2>1, <3>1
    <3>5. G(Len(b))[a] = G(Len(a))[a]
      BY <2>1, <3>1, <3>3, <3>4, DoesAgrees
    <3> HIDE DEF D
    <3>6. QED
      BY <3>2, <3>5 DEF a
  <2> HIDE DEF D
  <2>4. Round(G(Len(b)), b) = Round(D, b)
    BY <2>3, RoundLocal
  <2>5. QED
    BY <2>2, <2>4
<1>3. D = [b \in Seq(Bytes) |-> Round(D, b)]
  <2>1. D = [b \in Seq(Bytes) |-> D[b]]
    OBVIOUS
  <2> HIDE DEF D
  <2>2. QED
    BY <1>2, <2>1
<1> HIDE DEF D
<1>4. Drain = CHOOSE f : f = [b \in Seq(Bytes) |-> Round(f, b)]
  BY DEF Drain, Round, First, After
<1>5. Drain = [b \in Seq(Bytes) |-> Round(Drain, b)]
  BY <1>3, <1>4
<1>6. QED
  BY <1>5

-----------------------------------------------------------------------------
(* A length is read as it was written. *)

LEMMA Digits ==
  ASSUME NEW base \in Nat \ {0}, NEW n \in Nat
  PROVE  /\ n \div base \in Nat /\ n % base \in 0 .. base - 1
         /\ n = (n \div base) * base + (n % base)
<1>1. n % base \in 0 .. base - 1
  OBVIOUS
<1>2. n = base * (n \div base) + (n % base)
  OBVIOUS
<1>3. n \div base \in Int
  OBVIOUS
<1>4. n \div base >= 0
  OBVIOUS
<1>5. \A a, b \in Int : a * b = b * a
  OBVIOUS
<1>6. QED
  BY <1>1, <1>2, <1>3, <1>4, <1>5

LEMMA DivLess ==
  ASSUME NEW base \in Nat \ {0}, NEW n \in Nat, NEW m \in Nat, n < m * base
  PROVE  n \div base < m
<1> DEFINE q == n \div base
<1>1. q \in Nat /\ n % base \in 0 .. base - 1 /\ n = q * base + (n % base)
  BY Digits
<1> HIDE DEF q
<1>2. CASE q >= m
  <2>1. PICK d \in Nat : q = m + d
    <3>1. q - m \in Nat /\ q = m + (q - m)
      BY <1>1, <1>2
    <3>2. QED
      BY <3>1
  <2>2. q * base = m * base + d * base /\ d * base \in Nat /\ m * base \in Nat
    BY <2>1
  <2>3. n % base >= 0
    BY <1>1
  <2>4. QED
    BY <1>1, <2>2, <2>3
<1>3. QED
  BY <1>1, <1>2 DEF q

LEMMA PrefixRead ==
  ASSUME NEW n \in Nat, n < Base * Base * Base * Base, NEW bytes,
         \A j \in 1 .. PrefixBytes : bytes[j] = Prefix(n)[j]
  PROVE  ReadLength(bytes) = n
<1> DEFINE third == n \div Base
           second == third \div Base
           first == second \div Base
<1>1. Base \in Nat \ {0}
  BY FramingAssumption
<1>2. third \in Nat /\ n = third * Base + (n % Base)
  BY <1>1, Digits
<1>3. third < Base * Base * Base
  <2> DEFINE m == Base * Base * Base
  <2>1. m \in Nat /\ n < m * Base
    BY <1>1
  <2> HIDE DEF m
  <2>2. QED
    BY <1>1, <2>1, DivLess DEF m
<1> HIDE DEF third
<1>4. second \in Nat /\ third = second * Base + (third % Base)
  BY <1>1, <1>2, Digits
<1>5. second < Base * Base
  <2> DEFINE m == Base * Base
  <2>1. m \in Nat /\ third < m * Base
    BY <1>1, <1>3
  <2> HIDE DEF m
  <2>2. QED
    BY <1>1, <1>2, <2>1, DivLess DEF m
<1> HIDE DEF second
<1>6. first \in Nat /\ second = first * Base + (second % Base)
  BY <1>1, <1>4, Digits
<1>7. first < Base
  BY <1>1, <1>4, <1>5, DivLess
<1> HIDE DEF first
<1>8. first % Base = first
  BY <1>1, <1>6, <1>7
<1>9. Prefix(n) = <<first % Base, second % Base, third % Base, n % Base>>
  BY DEF Prefix, first, second, third
<1>10. /\ bytes[1] = first /\ bytes[2] = second % Base
       /\ bytes[3] = third % Base /\ bytes[4] = n % Base
  BY <1>8, <1>9 DEF PrefixBytes
<1>11. QED
  BY <1>2, <1>4, <1>6, <1>10 DEF ReadLength

\* A frame: a prefix and the body it announces.
Size(e) == PrefixBytes + Len(Body[e])

LEMMA FrameIs ==
  ASSUME NEW e \in Envelopes
  PROVE  /\ EncodeFrame(e) \in Seq(Bytes) /\ Len(EncodeFrame(e)) = Size(e)
         /\ Body[e] \in Seq(Bytes) /\ Len(Body[e]) \in Nat
         /\ Size(e) \in Nat /\ Size(e) >= PrefixBytes
         /\ \A j \in 1 .. PrefixBytes : EncodeFrame(e)[j] = Prefix(Len(Body[e]))[j]
         /\ \A j \in 1 .. Len(Body[e]) : EncodeFrame(e)[PrefixBytes + j] = Body[e][j]
<1> DEFINE p == Prefix(Len(Body[e]))
           b == Body[e]
<1>1. b \in Seq(Bytes) /\ Len(b) \in Nat
  BY FramingAssumption
<1>2. p \in Seq(Bytes) /\ Len(p) = PrefixBytes
  <2>1. \A n \in Nat : n % Base \in Bytes /\ n \div Base \in Nat
    BY FramingAssumption, Digits DEF Bytes
  <2> DEFINE third == Len(b) \div Base
             second == third \div Base
             first == second \div Base
  <2>2. third \in Nat /\ second \in Nat /\ first \in Nat
    BY <1>1, <2>1
  <2>3. p = <<first % Base, second % Base, third % Base, Len(b) % Base>>
    BY DEF Prefix
  <2> HIDE DEF first, second, third, p
  <2>4. first % Base \in Bytes /\ second % Base \in Bytes /\ third % Base \in Bytes
        /\ Len(b) % Base \in Bytes
    BY <1>1, <2>1, <2>2
  <2>5. QED
    BY <2>3, <2>4 DEF PrefixBytes
<1> HIDE DEF p, b
<1>3. EncodeFrame(e) = p \o b
  BY DEF EncodeFrame, p, b
<1>4. /\ p \o b \in Seq(Bytes) /\ Len(p \o b) = PrefixBytes + Len(b)
      /\ \A j \in 1 .. PrefixBytes : (p \o b)[j] = p[j]
      /\ \A j \in 1 .. Len(b) : (p \o b)[PrefixBytes + j] = b[j]
  <2>1. /\ p \o b \in Seq(Bytes) /\ Len(p \o b) = PrefixBytes + Len(b)
        /\ \A j \in 1 .. PrefixBytes + Len(b) :
             (p \o b)[j] = IF j <= PrefixBytes THEN p[j] ELSE b[j - PrefixBytes]
    BY <1>1, <1>2, ConcatProperties
  <2>2. ASSUME NEW j \in 1 .. PrefixBytes PROVE (p \o b)[j] = p[j]
    <3>1. j \in 1 .. PrefixBytes + Len(b) /\ j <= PrefixBytes
      BY <1>1 DEF PrefixBytes
    <3>2. QED
      BY <2>1, <3>1
  <2>3. ASSUME NEW j \in 1 .. Len(b) PROVE (p \o b)[PrefixBytes + j] = b[j]
    <3>1. /\ PrefixBytes + j \in 1 .. PrefixBytes + Len(b) /\ ~(PrefixBytes + j <= PrefixBytes)
          /\ (PrefixBytes + j) - PrefixBytes = j
      BY <1>1 DEF PrefixBytes
    <3>2. QED
      BY <2>1, <3>1
  <2>4. QED
    BY <2>1, <2>2, <2>3
<1>5. Size(e) = PrefixBytes + Len(b) /\ Size(e) \in Nat /\ Size(e) >= PrefixBytes
  BY <1>1 DEF Size, PrefixBytes, b
<1>6. Body[e] = b /\ Prefix(Len(Body[e])) = p
  BY DEF b, p
<1>7. QED
  BY <1>1, <1>3, <1>4, <1>5, <1>6

\* Bytes that begin with the frame of e, or with a part of it.
Begins(bytes, e) ==
  \A j \in 1 .. Size(e) : j <= Len(bytes) => bytes[j] = EncodeFrame(e)[j]

LEMMA FrameRead ==
  ASSUME NEW bytes \in Seq(Bytes), NEW e \in Envelopes, Begins(bytes, e)
  PROVE  /\ Whole(bytes) <=> Len(bytes) >= Size(e)
         /\ Whole(bytes) => ReadLength(bytes) = Len(Body[e]) /\ First(bytes) = e
<1>1. /\ Len(Body[e]) \in Nat /\ Len(Body[e]) < Base * Base * Base * Base
      /\ Body[e] \in Seq(Bytes) /\ Size(e) = PrefixBytes + Len(Body[e])
  BY FrameIs, FramingAssumption DEF Size
<1>2. ASSUME Len(bytes) >= PrefixBytes PROVE ReadLength(bytes) = Len(Body[e])
  <2>1. \A j \in 1 .. PrefixBytes : j \in 1 .. Size(e) /\ j <= Len(bytes)
    BY <1>1, <1>2 DEF PrefixBytes
  <2>2. \A j \in 1 .. PrefixBytes : bytes[j] = Prefix(Len(Body[e]))[j]
    BY <2>1, FrameIs DEF Begins
  <2>3. QED
    BY <1>1, <2>2, PrefixRead
<1>3. Whole(bytes) <=> Len(bytes) >= Size(e)
  BY <1>1, <1>2 DEF Whole, PrefixBytes
<1>4. ASSUME Whole(bytes) PROVE First(bytes) = e
  <2> DEFINE body == SubSeq(bytes, PrefixBytes + 1, PrefixBytes + ReadLength(bytes))
  <2>1. ReadLength(bytes) = Len(Body[e]) /\ Size(e) <= Len(bytes)
    BY <1>2, <1>3, <1>4 DEF Whole
  <2>2. PICK m \in Nat : m = PrefixBytes + Len(Body[e]) /\ m = Size(e)
    BY <1>1 DEF PrefixBytes
  <2>3. body = SubSeq(bytes, 5, m) /\ m - 5 + 1 = Len(Body[e]) /\ m <= Len(bytes)
    BY <1>1, <2>1, <2>2 DEF PrefixBytes
  <2>4. /\ SubSeq(bytes, 5, m) \in Seq(Bytes)
        /\ Len(SubSeq(bytes, 5, m)) = Len(Body[e])
        /\ \A j \in 1 .. Len(Body[e]) : SubSeq(bytes, 5, m)[j] = bytes[4 + j]
    <3>1. \A i \in 5 .. m : bytes[i] \in Bytes
      BY <2>2, <2>3
    <3>2. /\ SubSeq(bytes, 5, m) \in Seq(Bytes)
          /\ Len(SubSeq(bytes, 5, m)) = IF 5 <= m THEN m - 5 + 1 ELSE 0
          /\ \A j \in 1 .. m - 5 + 1 : SubSeq(bytes, 5, m)[j] = bytes[5 + j - 1]
      BY <2>2, <3>1, SubSeqProperties
    <3>3. QED
      BY <1>1, <2>2, <2>3, <3>2
  <2>5. \A j \in 1 .. Len(Body[e]) : bytes[4 + j] = Body[e][j]
    <3>1. \A j \in 1 .. Len(Body[e]) : 4 + j \in 1 .. Size(e) /\ 4 + j <= Len(bytes)
      BY <1>1, <2>1 DEF PrefixBytes
    <3>2. \A j \in 1 .. Len(Body[e]) : bytes[4 + j] = EncodeFrame(e)[4 + j]
      BY <3>1 DEF Begins
    <3>3. QED
      BY <3>2, FrameIs DEF PrefixBytes
  <2>6. body = Body[e]
    <3>1. body \in Seq(Bytes) /\ Len(body) = Len(Body[e])
      BY <2>3, <2>4
    <3>2. \A j \in 1 .. Len(body) : body[j] = Body[e][j]
      BY <2>3, <2>4, <2>5, <3>1
    <3> DEFINE b == Body[e]
    <3>3. b \in Seq(Bytes) /\ Len(body) = Len(b) /\ \A j \in 1 .. Len(body) : body[j] = b[j]
      BY <1>1, <3>1, <3>2
    <3> HIDE DEF b, body
    <3>4. body = b
      BY <3>1, <3>3, SeqEqual
    <3>5. QED
      BY <3>4 DEF b
  <2> HIDE DEF body
  <2>7. {f \in Envelopes : Body[f] = body} = {e}
    BY <2>6, FramingAssumption
  <2>8. Parse(body) = e
    BY <2>7 DEF Parse
  <2>9. QED
    BY <2>8 DEF First, body
<1>5. QED
  BY <1>2, <1>3, <1>4 DEF Whole

-----------------------------------------------------------------------------
(* A stream of frames.  Where the frames of envs after the first k end is a function *)
(* of their indices, so that nothing is defined by recursion.                        *)

Spells(t, envs, k, at) ==
  /\ at \in [k .. Len(envs) -> Int] /\ at[k] = 0
  /\ \A i \in k + 1 .. Len(envs) :
       /\ at[i] = at[i - 1] + Size(envs[i])
       /\ \A j \in 1 .. Size(envs[i]) :
            at[i - 1] + j <= Len(t) => t[at[i - 1] + j] = EncodeFrame(envs[i])[j]
  /\ \A i, m \in k .. Len(envs) : i <= m => at[i] <= at[m]
  /\ Len(t) <= at[Len(envs)]

\* t is what the envelopes of envs after the first k were written as: all of it, or
\* a first part.
Carries(t, envs, k, all) ==
  \E at : Spells(t, envs, k, at) /\ (all => Len(t) = at[Len(envs)])

\* Nothing is left only if nothing was to come.
LEMMA CarriesSome ==
  ASSUME NEW t \in Seq(Bytes), NEW envs \in Seq(Envelopes), NEW k \in 0 .. Len(envs),
         NEW all, Carries(t, envs, k, all), Len(t) > 0
  PROVE  k < Len(envs)
  BY DEF Carries, Spells

LEMMA CarriesFirst ==
  ASSUME NEW t \in Seq(Bytes), NEW envs \in Seq(Envelopes), NEW k \in 0 .. Len(envs),
         NEW all, Carries(t, envs, k, all), k < Len(envs)
  PROVE  Begins(t, envs[k + 1]) /\ (all => Len(t) >= Size(envs[k + 1]))
<1>1. PICK at : Spells(t, envs, k, at) /\ (all => Len(t) = at[Len(envs)])
  BY DEF Carries
<1>2. k + 1 \in k + 1 .. Len(envs) /\ k + 1 \in k .. Len(envs) /\ k + 1 - 1 = k
      /\ envs[k + 1] \in Envelopes /\ Size(envs[k + 1]) \in Nat
  BY FrameIs
<1>3. at[k + 1] = Size(envs[k + 1])
  BY <1>1, <1>2 DEF Spells
<1>4. \A j \in 1 .. Size(envs[k + 1]) : j <= Len(t) => t[j] = EncodeFrame(envs[k + 1])[j]
  <2>1. \A j \in 1 .. Size(envs[k + 1]) :
          at[k] + j <= Len(t) => t[at[k] + j] = EncodeFrame(envs[k + 1])[j]
    <3>1. PICK i : i = k + 1 /\ i \in k + 1 .. Len(envs) /\ i - 1 = k
      BY <1>2
    <3>2. \A j \in 1 .. Size(envs[i]) :
            at[i - 1] + j <= Len(t) => t[at[i - 1] + j] = EncodeFrame(envs[i])[j]
      BY <1>1, <3>1 DEF Spells
    <3>3. QED
      BY <3>1, <3>2
  <2>2. at[k] = 0 /\ \A j \in 1 .. Size(envs[k + 1]) : 0 + j = j
    BY <1>1, <1>2 DEF Spells
  <2>3. QED
    BY <2>1, <2>2
<1>5. ASSUME all PROVE Len(t) >= Size(envs[k + 1])
  BY <1>1, <1>2, <1>3, <1>5 DEF Spells
<1>6. QED
  BY <1>4, <1>5 DEF Begins

\* The first frame is taken away.
LEMMA CarriesRest ==
  ASSUME NEW t \in Seq(Bytes), NEW envs \in Seq(Envelopes), NEW k \in 0 .. Len(envs) - 1,
         NEW all, Carries(t, envs, k, all), Size(envs[k + 1]) <= Len(t)
  PROVE  Carries(SubSeq(t, Size(envs[k + 1]) + 1, Len(t)), envs, k + 1, all)
<1>1. PICK at : Spells(t, envs, k, at) /\ (all => Len(t) = at[Len(envs)])
  BY DEF Carries
<1> DEFINE n == Len(envs)
           l == Size(envs[k + 1])
           rest == SubSeq(t, l + 1, Len(t))
           bt == [i \in k + 1 .. n |-> at[i] - l]
<1>2. n \in Nat /\ k \in Nat /\ k + 1 <= n /\ l \in Nat /\ l <= Len(t) /\ Len(t) \in Nat
  <2>1. envs[k + 1] \in Envelopes
    OBVIOUS
  <2>2. QED
    BY <2>1, FrameIs
<1>3. /\ rest \in Seq(Bytes) /\ Len(rest) = Len(t) - l
      /\ \A j \in 1 .. Len(t) - l : rest[j] = t[l + j]
  <2>1. PICK m \in Nat : m = l + 1
    BY <1>2
  <2>2. \A i \in m .. Len(t) : t[i] \in Bytes
    BY <2>1, <1>2
  <2>3. /\ SubSeq(t, m, Len(t)) \in Seq(Bytes)
        /\ Len(SubSeq(t, m, Len(t))) = IF m <= Len(t) THEN Len(t) - m + 1 ELSE 0
        /\ \A j \in 1 .. Len(t) - m + 1 : SubSeq(t, m, Len(t))[j] = t[m + j - 1]
    BY <1>2, <2>1, <2>2, SubSeqProperties
  <2> HIDE DEF l
  <2>4. rest = SubSeq(t, m, Len(t))
    BY <2>1
  <2> HIDE DEF rest
  <2>5. \A j \in 1 .. Len(t) - l : j \in 1 .. Len(t) - m + 1 /\ m + j - 1 = l + j
    BY <1>2, <2>1
  <2>6. Len(rest) = Len(t) - l
    BY <1>2, <2>1, <2>3, <2>4
  <2>7. QED
    BY <2>3, <2>4, <2>5, <2>6
<1>4. at[k + 1] = l /\ at \in [k .. n -> Int] /\ at[k] = 0
  BY <1>1, <1>2 DEF Spells
<1> HIDE DEF l, rest
<1>5. bt \in [k + 1 .. n -> Int] /\ \A i \in k + 1 .. n : bt[i] = at[i] - l /\ at[i] \in Int
  <2>1. \A i \in k + 1 .. n : i \in k .. n
    BY <1>2
  <2>2. \A i \in k + 1 .. n : at[i] \in Int
    BY <1>4, <2>1
  <2>3. \A i \in k + 1 .. n : at[i] - l \in Int
    BY <1>2, <2>2
  <2>4. QED
    BY <2>2, <2>3
<1> HIDE DEF bt
<1>6. bt[k + 1] = 0
  BY <1>2, <1>4, <1>5
<1>7. ASSUME NEW i \in k + 1 + 1 .. n
      PROVE  /\ bt[i] = bt[i - 1] + Size(envs[i])
             /\ \A j \in 1 .. Size(envs[i]) :
                  bt[i - 1] + j <= Len(rest) => rest[bt[i - 1] + j] = EncodeFrame(envs[i])[j]
  <2>1. /\ i \in k + 1 .. n /\ i - 1 \in k + 1 .. n
        /\ envs[i] \in Envelopes /\ Size(envs[i]) \in Nat
    BY <1>2, FrameIs
  <2>2. /\ at[i] = at[i - 1] + Size(envs[i])
        /\ \A j \in 1 .. Size(envs[i]) :
             at[i - 1] + j <= Len(t) => t[at[i - 1] + j] = EncodeFrame(envs[i])[j]
    BY <1>1, <2>1 DEF Spells
  <2>3. bt[i] = bt[i - 1] + Size(envs[i])
    <3>1. /\ bt[i] = at[i] - l /\ bt[i - 1] = at[i - 1] - l
          /\ at[i] \in Int /\ at[i - 1] \in Int
      BY <1>5, <2>1
    <3>2. PICK x, y \in Int : x = at[i] /\ y = at[i - 1]
      BY <3>1
    <3>3. x - l = (y - l) + Size(envs[i])
      BY <1>2, <2>1, <2>2, <3>2
    <3>4. QED
      BY <3>1, <3>2, <3>3
  <2>4. at[i - 1] >= l
    <3>1. i - 1 \in k .. n /\ k + 1 \in k .. n /\ k + 1 <= i - 1
      BY <1>2, <2>1
    <3>2. at[k + 1] <= at[i - 1]
      BY <1>1, <3>1 DEF Spells
    <3>3. QED
      BY <1>4, <3>2
  <2>5. ASSUME NEW j \in 1 .. Size(envs[i]), bt[i - 1] + j <= Len(rest)
        PROVE  rest[bt[i - 1] + j] = EncodeFrame(envs[i])[j]
    <3>1. bt[i - 1] = at[i - 1] - l /\ at[i - 1] \in Int
      BY <1>5, <2>1
    <3>2. bt[i - 1] + j \in 1 .. Len(t) - l /\ l + (bt[i - 1] + j) = at[i - 1] + j
          /\ at[i - 1] + j <= Len(t)
      <4>1. PICK a \in Int : a = at[i - 1]
        BY <3>1
      <4>2. bt[i - 1] = a - l /\ a >= l /\ j \in Nat /\ j >= 1 /\ (a - l) + j <= Len(t) - l
        BY <1>3, <2>1, <2>4, <2>5, <3>1, <4>1
      <4>3. (a - l) + j \in 1 .. Len(t) - l /\ l + ((a - l) + j) = a + j /\ a + j <= Len(t)
        BY <1>2, <4>2
      <4>4. QED
        BY <4>1, <4>2, <4>3
    <3>3. rest[bt[i - 1] + j] = t[at[i - 1] + j]
      BY <1>3, <3>2
    <3>4. QED
      BY <2>2, <3>2, <3>3
  <2>6. QED
    BY <2>3, <2>5
<1>8. ASSUME NEW i \in k + 1 .. n, NEW m \in k + 1 .. n, i <= m PROVE bt[i] <= bt[m]
  <2>1. i \in k .. n /\ m \in k .. n
    BY <1>2
  <2>2. at[i] <= at[m]
    BY <1>1, <1>8, <2>1 DEF Spells
  <2>3. QED
    BY <1>2, <1>5, <2>2
<1>9. Len(rest) <= bt[n] /\ (all => Len(rest) = bt[n])
  <2>1. n \in k + 1 .. n /\ Len(t) <= at[n]
    BY <1>1, <1>2 DEF Spells
  <2>2. bt[n] = at[n] - l /\ at[n] \in Int
    BY <1>5, <2>1
  <2>3. PICK a \in Int : a = at[n]
    BY <2>2
  <2>4. Len(rest) <= bt[n]
    BY <1>2, <1>3, <2>1, <2>2, <2>3
  <2>5. ASSUME all PROVE Len(rest) = bt[n]
    <3>1. Len(t) = at[n]
      BY <1>1, <2>5
    <3>2. QED
      BY <1>3, <2>2, <3>1
  <2>6. QED
    BY <2>4, <2>5
<1>10. Spells(rest, envs, k + 1, bt)
  BY <1>5, <1>6, <1>7, <1>8, <1>9 DEF Spells
<1>11. Carries(rest, envs, k + 1, all)
  BY <1>9, <1>10 DEF Carries
<1>12. QED
  BY <1>11 DEF rest, l

\* The bytes of two sequences, from one of the first on.
LEMMA Onward ==
  ASSUME NEW s \in Seq(Bytes), NEW more \in Seq(Bytes), NEW l \in 0 .. Len(s)
  PROVE  /\ SubSeq(s, l + 1, Len(s)) \o more = SubSeq(s \o more, l + 1, Len(s \o more))
         /\ SubSeq(s, l + 1, Len(s)) \in Seq(Bytes)
<1> DEFINE a == SubSeq(s, l + 1, Len(s))
           t == s \o more
           b == SubSeq(t, l + 1, Len(t))
<1>1. /\ Len(s) \in Nat /\ Len(more) \in Nat /\ l \in Nat /\ l <= Len(s) /\ l + 1 \in Int
  OBVIOUS
<1>2. /\ t \in Seq(Bytes) /\ Len(t) = Len(s) + Len(more)
      /\ \A i \in 1 .. Len(s) + Len(more) :
           t[i] = IF i <= Len(s) THEN s[i] ELSE more[i - Len(s)]
  BY ConcatProperties
<1> HIDE DEF t
<1>3. PICK m \in Int : m = l + 1
  BY <1>1
<1>4. /\ SubSeq(s, m, Len(s)) \in Seq(Bytes)
      /\ Len(SubSeq(s, m, Len(s))) = IF m <= Len(s) THEN Len(s) - m + 1 ELSE 0
      /\ \A i \in 1 .. Len(s) - m + 1 : SubSeq(s, m, Len(s))[i] = s[m + i - 1]
  <2>1. \A i \in m .. Len(s) : s[i] \in Bytes
    BY <1>1, <1>3
  <2>2. QED
    BY <1>1, <2>1, SubSeqProperties
<1>5. /\ SubSeq(t, m, Len(t)) \in Seq(Bytes)
      /\ Len(SubSeq(t, m, Len(t))) = IF m <= Len(t) THEN Len(t) - m + 1 ELSE 0
      /\ \A i \in 1 .. Len(t) - m + 1 : SubSeq(t, m, Len(t))[i] = t[m + i - 1]
  <2>1. \A i \in m .. Len(t) : t[i] \in Bytes
    BY <1>1, <1>2, <1>3
  <2>2. Len(t) \in Int
    BY <1>2
  <2>3. QED
    BY <2>1, <2>2, SubSeqProperties
<1>6. a = SubSeq(s, m, Len(s)) /\ b = SubSeq(t, m, Len(t))
  BY <1>3
<1> HIDE DEF a, b
<1>7. /\ a \in Seq(Bytes) /\ Len(a) = Len(s) - l
      /\ \A i \in 1 .. Len(s) - l : a[i] = s[l + i]
  <2>1. Len(a) = Len(s) - l
    BY <1>1, <1>3, <1>4, <1>6
  <2>2. \A i \in 1 .. Len(s) - l : i \in 1 .. Len(s) - m + 1 /\ m + i - 1 = l + i
    BY <1>1, <1>3
  <2>3. QED
    BY <1>4, <1>6, <2>1, <2>2
<1>8. /\ b \in Seq(Bytes) /\ Len(b) = Len(s) - l + Len(more)
      /\ \A i \in 1 .. Len(s) - l + Len(more) : b[i] = t[l + i]
  <2>1. Len(b) = Len(s) - l + Len(more)
    <3>1. Len(b) = IF m <= Len(t) THEN Len(t) - m + 1 ELSE 0
      BY <1>5, <1>6
    <3>2. Len(t) = Len(s) + Len(more) /\ m = l + 1 /\ l <= Len(s) /\ l \in Nat
          /\ Len(s) \in Nat /\ Len(more) \in Nat
      BY <1>1, <1>2, <1>3
    <3>3. QED
      BY ONLY <3>1, <3>2
  <2>2. \A i \in 1 .. Len(s) - l + Len(more) : i \in 1 .. Len(t) - m + 1 /\ m + i - 1 = l + i
    BY <1>1, <1>2, <1>3
  <2>3. QED
    BY <1>5, <1>6, <2>1, <2>2
<1>9. /\ a \o more \in Seq(Bytes) /\ Len(a \o more) = Len(s) - l + Len(more)
      /\ \A i \in 1 .. Len(s) - l + Len(more) :
           (a \o more)[i] = IF i <= Len(s) - l THEN a[i] ELSE more[i - (Len(s) - l)]
  <2>1. a \in Seq(Bytes)
    BY <1>7
  <2>2. /\ a \o more \in Seq(Bytes) /\ Len(a \o more) = Len(a) + Len(more)
        /\ \A i \in 1 .. Len(a) + Len(more) :
             (a \o more)[i] = IF i <= Len(a) THEN a[i] ELSE more[i - Len(a)]
    BY <2>1, ConcatProperties
  <2>3. Len(a) = Len(s) - l
    BY <1>7
  <2>4. QED
    BY <2>2, <2>3
<1>10. ASSUME NEW i \in 1 .. Len(s) - l + Len(more) PROVE (a \o more)[i] = b[i]
  <2>1. b[i] = t[l + i]
    BY <1>8
  <2>2. CASE i <= Len(s) - l
    <3>1. /\ i \in 1 .. Len(s) - l /\ l + i \in 1 .. Len(s) + Len(more) /\ l + i <= Len(s)
      BY <1>1, <2>2
    <3>2. (a \o more)[i] = s[l + i] /\ t[l + i] = s[l + i]
      BY <1>2, <1>7, <1>9, <2>2, <3>1
    <3>3. QED
      BY <2>1, <3>2
  <2>3. CASE ~(i <= Len(s) - l)
    <3>1. /\ l + i \in 1 .. Len(s) + Len(more) /\ ~(l + i <= Len(s))
          /\ (l + i) - Len(s) = i - (Len(s) - l)
      BY <1>1, <2>3
    <3>2. t[l + i] = more[(l + i) - Len(s)] /\ (a \o more)[i] = more[i - (Len(s) - l)]
      BY <1>2, <1>9, <2>3, <3>1
    <3>3. QED
      BY <2>1, <3>1, <3>2
  <2>4. QED
    BY <2>2, <2>3
<1>11. a \o more = b
  BY <1>8, <1>9, <1>10, SeqEqual
<1>12. QED
  BY <1>7, <1>11 DEF a, b, t

-----------------------------------------------------------------------------
(* The loop takes out what the stream carries. *)

\* What the loop leaves of a buffer bytes with more to come, after k of envs.
Drains(bytes, more, envs, k, all) ==
  \E m \in k .. Len(envs) :
    /\ Drain[bytes].out = SubSeq(envs, k + 1, m)
    /\ Drain[bytes].rest \in Seq(Bytes) /\ ~Whole(Drain[bytes].rest)
    /\ Carries(Drain[bytes].rest \o more, envs, m, all)

LEMMA DrainStops ==
  ASSUME NEW bytes \in Seq(Bytes), NEW more \in Seq(Bytes), NEW envs \in Seq(Envelopes),
         NEW k \in 0 .. Len(envs), NEW all, Carries(bytes \o more, envs, k, all),
         ~Whole(bytes)
  PROVE  Drains(bytes, more, envs, k, all)
<1>1. Drain[bytes] = [out |-> <<>>, rest |-> bytes]
  BY DrainRound DEF Round
<1>2. k \in k .. Len(envs) /\ SubSeq(envs, k + 1, k) = <<>>
  <2>1. k \in Int /\ k + 1 \in Int /\ k < k + 1
    OBVIOUS
  <2>2. QED
    BY <2>1, SubSeqEmpty
<1>3. QED
  BY <1>1, <1>2 DEF Drains

LEMMA DrainTakes ==
  ASSUME NEW bytes \in Seq(Bytes), NEW more \in Seq(Bytes), NEW envs \in Seq(Envelopes),
         NEW k \in 0 .. Len(envs), NEW all, Carries(bytes \o more, envs, k, all),
         Whole(bytes)
  PROVE  /\ k < Len(envs) /\ First(bytes) = envs[k + 1] /\ After(bytes) \in Seq(Bytes)
         /\ Carries(After(bytes) \o more, envs, k + 1, all)
<1> DEFINE t == bytes \o more
           e == envs[k + 1]
<1>1. /\ t \in Seq(Bytes) /\ Len(t) = Len(bytes) + Len(more)
      /\ Len(bytes) \in Nat /\ Len(more) \in Nat
      /\ \A j \in 1 .. Len(bytes) : t[j] = bytes[j]
  <2>1. /\ t \in Seq(Bytes) /\ Len(t) = Len(bytes) + Len(more)
        /\ \A j \in 1 .. Len(bytes) + Len(more) :
             t[j] = IF j <= Len(bytes) THEN bytes[j] ELSE more[j - Len(bytes)]
    BY ConcatProperties
  <2>2. \A j \in 1 .. Len(bytes) : j \in 1 .. Len(bytes) + Len(more) /\ j <= Len(bytes)
    OBVIOUS
  <2> HIDE DEF t
  <2>3. QED
    BY <2>1, <2>2
<1>2. Carries(t, envs, k, all) /\ Len(bytes) >= 4
  BY DEF Whole, PrefixBytes
<1>3. k < Len(envs)
  <2>1. Len(t) > 0
    BY <1>1, <1>2
  <2> HIDE DEF t
  <2>2. QED
    BY <1>1, <1>2, <2>1, CarriesSome
<1> HIDE DEF t
<1>4. e \in Envelopes /\ Begins(t, e)
  BY <1>1, <1>2, <1>3, CarriesFirst
<1>5. Begins(bytes, e)
  <2>1. Size(e) \in Nat
    BY <1>4, FrameIs
  <2>2. ASSUME NEW j \in 1 .. Size(e), j <= Len(bytes) PROVE bytes[j] = EncodeFrame(e)[j]
    <3>1. j \in 1 .. Len(bytes) /\ j <= Len(t)
      BY <1>1, <2>1, <2>2
    <3>2. QED
      BY <1>1, <1>4, <3>1 DEF Begins
  <2>3. QED
    BY <2>2 DEF Begins
<1> HIDE DEF e
<1>6. First(bytes) = e /\ ReadLength(bytes) = Len(Body[e]) /\ Len(bytes) >= Size(e)
  BY <1>4, <1>5, FrameRead
<1>7. Size(e) \in 0 .. Len(bytes) /\ Size(e) <= Len(t) /\ Size(e) \in Nat
  BY <1>1, <1>4, <1>6, FrameIs
<1>8. After(bytes) = SubSeq(bytes, Size(e) + 1, Len(bytes))
  BY <1>6 DEF After, Size
<1>9. /\ After(bytes) \in Seq(Bytes)
      /\ After(bytes) \o more = SubSeq(t, Size(e) + 1, Len(t))
  BY <1>7, <1>8, Onward DEF t
<1>10. Carries(SubSeq(t, Size(e) + 1, Len(t)), envs, k + 1, all)
  <2>1. k \in 0 .. Len(envs) - 1
    BY <1>3
  <2>2. QED
    BY <1>1, <1>2, <1>7, <2>1, CarriesRest DEF e
<1>11. QED
  BY <1>3, <1>6, <1>9, <1>10 DEF e

LEMMA DrainLemma ==
  ASSUME NEW more \in Seq(Bytes), NEW envs \in Seq(Envelopes), NEW all,
         NEW bytes \in Seq(Bytes), NEW k \in 0 .. Len(envs),
         Carries(bytes \o more, envs, k, all)
  PROVE  Drains(bytes, more, envs, k, all)
<1> DEFINE Good(x) == \A s \in Seq(Bytes), i \in 0 .. Len(envs) :
                        Len(envs) - i = x /\ Carries(s \o more, envs, i, all)
                        => Drains(s, more, envs, i, all)
           S == {x \in Nat : Good(x)}
<1>1. ASSUME NEW s \in Seq(Bytes), NEW i \in 0 .. Len(envs), Whole(s),
             Carries(s \o more, envs, i, all), Drains(After(s), more, envs, i + 1, all)
      PROVE  Drains(s, more, envs, i, all)
  <2>1. i < Len(envs) /\ First(s) = envs[i + 1] /\ After(s) \in Seq(Bytes)
    BY <1>1, DrainTakes
  <2>2. PICK m \in i + 1 .. Len(envs) :
          /\ Drain[After(s)].out = SubSeq(envs, i + 1 + 1, m)
          /\ Drain[After(s)].rest \in Seq(Bytes) /\ ~Whole(Drain[After(s)].rest)
          /\ Carries(Drain[After(s)].rest \o more, envs, m, all)
    BY <1>1 DEF Drains
  <2>3. /\ Drain[s].out = <<envs[i + 1]>> \o SubSeq(envs, i + 1 + 1, m)
        /\ Drain[s].rest = Drain[After(s)].rest
    <3>1. Drain[s] = [out |-> <<First(s)>> \o Drain[After(s)].out, rest |-> Drain[After(s)].rest]
      BY <1>1, DrainRound DEF Round
    <3>2. QED
      BY <2>1, <2>2, <3>1
  <2>4. SubSeq(envs, i + 1, m) = <<envs[i + 1]>> \o SubSeq(envs, i + 1 + 1, m)
    <3>1. i + 1 \in 1 .. Len(envs) /\ m \in i + 1 .. Len(envs)
      BY <2>1
    <3>2. QED
      BY <3>1, SubSeqRecursiveFirst
  <2>5. m \in i .. Len(envs)
    BY <2>1
  <2>6. QED
    BY <2>2, <2>3, <2>4, <2>5 DEF Drains
<1>2. 0 \in S
  <2>1. ASSUME NEW s \in Seq(Bytes), NEW i \in 0 .. Len(envs),
               Len(envs) - i = 0, Carries(s \o more, envs, i, all)
        PROVE  Drains(s, more, envs, i, all)
    <3>1. CASE Whole(s)
      <4>1. i < Len(envs)
        BY <2>1, <3>1, DrainTakes
      <4>2. QED
        BY <2>1, <4>1
    <3>2. CASE ~Whole(s)
      BY <2>1, <3>2, DrainStops
    <3>3. QED
      BY <3>1, <3>2
  <2>2. QED
    BY <2>1
<1>3. ASSUME NEW x \in S PROVE x + 1 \in S
  <2>1. ASSUME NEW s \in Seq(Bytes), NEW i \in 0 .. Len(envs),
               Len(envs) - i = x + 1, Carries(s \o more, envs, i, all)
        PROVE  Drains(s, more, envs, i, all)
    <3>1. CASE Whole(s)
      <4>1. /\ i < Len(envs) /\ After(s) \in Seq(Bytes)
            /\ Carries(After(s) \o more, envs, i + 1, all)
        BY <2>1, <3>1, DrainTakes
      <4>2. i + 1 \in 0 .. Len(envs) /\ Len(envs) - (i + 1) = x
        BY <2>1, <4>1
      <4>3. Good(x)
        OBVIOUS
      <4>4. Drains(After(s), more, envs, i + 1, all)
        BY <4>1, <4>2, <4>3
      <4>5. QED
        BY <1>1, <2>1, <3>1, <4>4
    <3>2. CASE ~Whole(s)
      BY <2>1, <3>2, DrainStops
    <3>3. QED
      BY <3>1, <3>2
  <2>2. QED
    BY <2>1
<1>4. S \in SUBSET Nat
  OBVIOUS
<1>5. PICK x \in Nat : x = Len(envs) - k
  OBVIOUS
<1> HIDE DEF S
<1>6. x \in S
  BY <1>2, <1>3, <1>4, AllNumbers
<1>7. Good(x)
  BY <1>6 DEF S
<1>8. QED
  BY <1>5, <1>7

-----------------------------------------------------------------------------
(* A stream grows by a frame, or is cut short. *)

LEMMA CarriesNothing ==
  \A k \in Nat, envs \in Seq(Envelopes) : Len(envs) = k => Carries(<<>>, envs, k, TRUE)
<1> SUFFICES ASSUME NEW k \in Nat, NEW envs \in Seq(Envelopes), Len(envs) = k
             PROVE  Carries(<<>>, envs, k, TRUE)
  OBVIOUS
<1> DEFINE at == [i \in k .. k |-> 0]
<1>1. at \in [k .. k -> Int] /\ at[k] = 0 /\ \A i \in k .. k : at[i] = 0
  OBVIOUS
<1> HIDE DEF at
<1>2. k + 1 .. k = {} /\ Len(<<>>) = 0
  OBVIOUS
<1>3. Spells(<<>>, envs, k, at) /\ Len(<<>>) = at[Len(envs)]
  BY <1>1, <1>2 DEF Spells
<1>4. QED
  BY <1>3 DEF Carries

LEMMA CarriesMore ==
  ASSUME NEW t \in Seq(Bytes), NEW envs \in Seq(Envelopes), NEW k \in 0 .. Len(envs),
         Carries(t, envs, k, TRUE), NEW e \in Envelopes
  PROVE  Carries(t \o EncodeFrame(e), Append(envs, e), k, TRUE)
<1> DEFINE n == Len(envs)
           f == EncodeFrame(e)
           u == t \o f
           more == Append(envs, e)
<1>1. PICK at : Spells(t, envs, k, at) /\ Len(t) = at[n]
  BY DEF Carries
<1>2. n \in Nat /\ k \in Nat /\ k <= n /\ Len(t) \in Nat
  OBVIOUS
<1>3. f \in Seq(Bytes) /\ Len(f) = Size(e) /\ Size(e) \in Nat
  BY FrameIs
<1> HIDE DEF f
<1>4. /\ u \in Seq(Bytes) /\ Len(u) = Len(t) + Size(e)
      /\ \A i \in 1 .. Len(t) + Size(e) : u[i] = IF i <= Len(t) THEN t[i] ELSE f[i - Len(t)]
  BY <1>3, ConcatProperties
<1>5. /\ more \in Seq(Envelopes) /\ Len(more) = n + 1 /\ more[n + 1] = e
      /\ \A i \in 1 .. n : more[i] = envs[i]
  OBVIOUS
<1> DEFINE bt == [i \in k .. n + 1 |-> IF i = n + 1 THEN at[n] + Size(e) ELSE at[i]]
<1>6. /\ at \in [k .. n -> Int] /\ at[k] = 0
      /\ \A i, m \in k .. n : i <= m => at[i] <= at[m]
  BY <1>1, <1>2 DEF Spells
<1>7. /\ bt \in [k .. n + 1 -> Int] /\ bt[n + 1] = at[n] + Size(e)
      /\ \A i \in k .. n : bt[i] = at[i] /\ at[i] \in Int
  <2>1. n \in k .. n /\ n + 1 \in k .. n + 1 /\ at[n] \in Int /\ at[n] + Size(e) \in Int
    BY <1>2, <1>3, <1>6
  <2>2. \A i \in k .. n : i \in k .. n + 1 /\ i # n + 1
    BY <1>2
  <2>3. \A i \in k .. n + 1 : i # n + 1 => i \in k .. n
    BY <1>2
  <2>4. QED
    BY <1>6, <2>1, <2>2, <2>3
<1> HIDE DEF u, more, bt
<1>8. bt[k] = 0
  BY <1>2, <1>6, <1>7
<1>9. ASSUME NEW i \in k + 1 .. n + 1
      PROVE  /\ bt[i] = bt[i - 1] + Size(more[i])
             /\ \A j \in 1 .. Size(more[i]) :
                  bt[i - 1] + j <= Len(u) => u[bt[i - 1] + j] = EncodeFrame(more[i])[j]
  <2>1. CASE i = n + 1
    <3>1. more[i] = e /\ bt[i] = at[n] + Size(e)
      BY <1>5, <1>7, <2>1
    <3>2. i - 1 = n /\ n \in k .. n
      BY <1>2, <2>1
    <3>3. bt[i - 1] = Len(t)
      BY <1>1, <1>7, <3>2
    <3>4. ASSUME NEW j \in 1 .. Size(e) PROVE u[Len(t) + j] = f[j]
      <4>1. /\ Len(t) + j \in 1 .. Len(t) + Size(e) /\ ~(Len(t) + j <= Len(t))
            /\ (Len(t) + j) - Len(t) = j
        BY <1>2, <1>3
      <4>2. QED
        BY <1>4, <4>1
    <3>5. QED
      BY <1>1, <3>1, <3>3, <3>4 DEF f
  <2>2. CASE i # n + 1
    <3>1. i \in k + 1 .. n /\ i \in k .. n /\ i - 1 \in k .. n /\ i \in 1 .. n
      BY <1>2, <2>2
    <3>2. more[i] = envs[i] /\ bt[i] = at[i] /\ bt[i - 1] = at[i - 1]
      BY <1>5, <1>7, <3>1
    <3>3. /\ at[i] = at[i - 1] + Size(envs[i])
          /\ \A j \in 1 .. Size(envs[i]) :
               at[i - 1] + j <= Len(t) => t[at[i - 1] + j] = EncodeFrame(envs[i])[j]
      BY <1>1, <3>1 DEF Spells
    <3>4. envs[i] \in Envelopes /\ Size(envs[i]) \in Nat
      BY <3>1, FrameIs
    <3>5. 0 <= at[i - 1] /\ at[i] <= Len(t) /\ at[i] \in Int /\ at[i - 1] \in Int
      <4>1. k \in k .. n /\ n \in k .. n /\ k <= i - 1 /\ i <= n
        BY <1>2, <3>1
      <4>2. at[k] <= at[i - 1] /\ at[i] <= at[n]
        BY <1>6, <3>1, <4>1
      <4>3. QED
        BY <1>1, <1>6, <1>7, <3>1, <4>2
    <3>6. ASSUME NEW j \in 1 .. Size(envs[i])
          PROVE  u[at[i - 1] + j] = EncodeFrame(envs[i])[j]
      <4>1. PICK x \in Int : x = at[i - 1]
        BY <3>5
      <4>2. x + j \in 1 .. Len(t) + Size(e) /\ x + j <= Len(t)
        <5>1. PICK y \in Int : y = at[i]
          BY <3>5
        <5>2. x + j <= y /\ y <= Len(t) /\ x + j >= 1
          BY <3>3, <3>4, <3>5, <4>1, <5>1
        <5>3. QED
          <6>1. Len(t) \in Int /\ Size(e) >= 0 /\ Size(e) \in Int /\ x + j \in Int
            BY <1>2, <1>3, <3>4
          <6>2. QED
            BY <5>2, <6>1
      <4>3. u[x + j] = t[x + j]
        BY <1>4, <4>2
      <4>4. t[x + j] = EncodeFrame(envs[i])[j]
        BY <3>3, <4>1, <4>2
      <4>5. QED
        BY <4>1, <4>3, <4>4
    <3>7. QED
      BY <3>2, <3>3, <3>6
  <2>3. QED
    BY <2>1, <2>2
<1>10. ASSUME NEW i \in k .. n + 1, NEW m \in k .. n + 1, i <= m PROVE bt[i] <= bt[m]
  <2>1. n \in k .. n
    BY <1>2
  <2>2. CASE i = n + 1
    BY <1>2, <1>7, <1>10, <2>2
  <2>3. CASE i # n + 1 /\ m = n + 1
    <3>1. i \in k .. n /\ i <= n
      BY <1>2, <2>3
    <3>2. at[i] <= at[n]
      BY <1>6, <2>1, <3>1
    <3>3. bt[i] = at[i] /\ bt[m] = at[n] + Size(e) /\ at[i] \in Int /\ at[n] \in Int
      BY <1>7, <2>1, <2>3, <3>1
    <3>4. QED
      BY <1>3, <3>2, <3>3
  <2>4. CASE i # n + 1 /\ m # n + 1
    <3>1. i \in k .. n /\ m \in k .. n
      BY <1>2, <2>4
    <3>2. QED
      BY <1>6, <1>7, <1>10, <3>1
  <2>5. QED
    BY <2>2, <2>3, <2>4
<1>11. Len(u) = bt[n + 1]
  BY <1>1, <1>4, <1>7
<1>12. Spells(u, more, k, bt) /\ Len(u) = bt[Len(more)]
  <2>1. bt[Len(more)] = Len(u) /\ Len(u) <= bt[Len(more)]
    <3>1. Len(u) \in Int
      BY <1>4
    <3>2. QED
      BY <1>5, <1>11, <3>1
  <2>2. QED
    BY <1>5, <1>7, <1>8, <1>9, <1>10, <2>1 DEF Spells
<1>13. QED
  BY <1>12 DEF Carries, u, more, f

LEMMA CarriesLess ==
  ASSUME NEW t \in Seq(Bytes), NEW envs \in Seq(Envelopes), NEW k \in 0 .. Len(envs),
         NEW all, Carries(t, envs, k, all), NEW s \in Seq(Bytes), Len(s) <= Len(t),
         \A i \in 1 .. Len(s) : s[i] = t[i]
  PROVE  Carries(s, envs, k, FALSE)
<1>1. PICK at : Spells(t, envs, k, at)
  BY DEF Carries
<1>2. /\ Len(s) \in Nat /\ Len(t) \in Nat /\ Len(envs) \in k .. Len(envs)
      /\ at \in [k .. Len(envs) -> Int] /\ at[k] = 0
  BY <1>1 DEF Spells
<1>3. ASSUME NEW i \in k + 1 .. Len(envs), NEW j \in 1 .. Size(envs[i]),
             at[i - 1] + j <= Len(s)
      PROVE  s[at[i - 1] + j] = EncodeFrame(envs[i])[j]
  <2>1. /\ k \in k .. Len(envs) /\ i - 1 \in k .. Len(envs) /\ k <= i - 1
        /\ envs[i] \in Envelopes /\ Size(envs[i]) \in Nat
    BY FrameIs
  <2>2. at[k] <= at[i - 1]
    BY <1>1, <2>1 DEF Spells
  <2>3. PICK x \in Int : x = at[i - 1] /\ x >= 0 /\ x + j <= Len(s)
    BY <1>2, <1>3, <2>1, <2>2
  <2>4. x + j \in 1 .. Len(s) /\ x + j <= Len(t)
    BY <1>2, <2>1, <2>3
  <2>5. t[x + j] = EncodeFrame(envs[i])[j]
    BY <1>1, <2>3, <2>4 DEF Spells
  <2>6. s[x + j] = t[x + j]
    BY <2>4
  <2>7. QED
    BY <2>3, <2>5, <2>6
<1>4. Len(s) <= at[Len(envs)]
  <2>1. Len(t) <= at[Len(envs)] /\ at[Len(envs)] \in Int
    BY <1>1, <1>2 DEF Spells
  <2>2. QED
    BY <1>2, <2>1
<1>5. Spells(s, envs, k, at)
  BY <1>1, <1>3, <1>4 DEF Spells
<1>6. QED
  BY <1>5 DEF Carries

-----------------------------------------------------------------------------
(* The invariant: between the decoder and the end of the stream is what has been     *)
(* written and has not come out, all of it as long as its writer is there, and the   *)
(* decoder holds no whole frame.                                                     *)

Readings == {"clear", "malformed", "decrypted", "undecryptable", "mismatch"}

Histories ==
  /\ sent \in Seq(Envelopes)
  /\ Len(got) \in 0 .. Len(sent) /\ got = SubSeq(sent, 1, Len(got))
  /\ outcome \in Seq(Readings) /\ Len(outcome) = Len(got)
  /\ \A i \in 1 .. Len(got) : outcome[i] = Receive(got[i])

Connection ==
  /\ status \in {"open", "left", "ended"}
  /\ stream \in Seq(Bytes) /\ buffer \in Seq(Bytes)
  /\ ~Whole(buffer)
  /\ status # "ended" => Carries(buffer \o stream, sent, Len(got), status = "open")

IInv == Histories /\ Connection

LEMMA ReceiveReads == \A e : Receive(e) \in Readings
  BY DEF Receive, Read, Readings

LEMMA InitInv == Init => IInv
<1> SUFFICES ASSUME Init PROVE IInv
  OBVIOUS
<1>1. status = "open" /\ stream = <<>> /\ buffer = <<>> /\ sent = <<>> /\ got = <<>> /\ outcome = <<>>
  BY DEF Init
<1>2. Histories
  <2>1. sent \in Seq(Envelopes) /\ outcome \in Seq(Readings) /\ Len(got) = 0 /\ Len(sent) = 0
        /\ Len(outcome) = 0 /\ 1 .. 0 = {}
    BY <1>1
  <2>2. SubSeq(sent, 1, 0) = <<>>
    BY SubSeqEmpty
  <2>3. QED
    BY <1>1, <2>1, <2>2 DEF Histories
<1>3. Connection
  <2>1. stream \in Seq(Bytes) /\ buffer \in Seq(Bytes) /\ Len(buffer) = 0 /\ sent \in Seq(Envelopes)
    BY <1>1
  <2>2. ~Whole(buffer)
    BY <2>1 DEF Whole, PrefixBytes
  <2>3. buffer \o stream = <<>>
    BY <1>1
  <2>4. Carries(<<>>, sent, 0, TRUE)
    BY <1>1, <2>1, CarriesNothing
  <2>5. QED
    BY <1>1, <2>1, <2>2, <2>3, <2>4 DEF Connection
<1>4. QED
  BY <1>2, <1>3 DEF IInv

LEMMA WriteKeeps ==
  ASSUME IInv, NEW e \in Envelopes, Write(e)
  PROVE  IInv'
<1>1. /\ status = "open" /\ sent' = Append(sent, e) /\ stream' = stream \o EncodeFrame(e)
      /\ status' = status /\ buffer' = buffer /\ got' = got /\ outcome' = outcome
  BY DEF Write
<1>2. /\ sent \in Seq(Envelopes) /\ Len(got) \in 0 .. Len(sent) /\ got = SubSeq(sent, 1, Len(got))
      /\ stream \in Seq(Bytes) /\ buffer \in Seq(Bytes)
      /\ Carries(buffer \o stream, sent, Len(got), TRUE)
  BY <1>1 DEF IInv, Histories, Connection
<1>3. EncodeFrame(e) \in Seq(Bytes)
  BY FrameIs
<1>4. /\ sent' \in Seq(Envelopes) /\ Len(sent') = Len(sent) + 1
      /\ Len(got) \in 0 .. Len(sent') /\ SubSeq(sent', 1, Len(got)) = SubSeq(sent, 1, Len(got))
  <2>1. /\ Append(sent, e) \in Seq(Envelopes) /\ Len(Append(sent, e)) = Len(sent) + 1
        /\ \A i \in 1 .. Len(sent) : Append(sent, e)[i] = sent[i]
    BY <1>2
  <2>2. PICK k \in Nat : k = Len(got) /\ k <= Len(sent)
    <3>1. Len(sent) \in Nat
      BY <1>2
    <3>2. Len(got) \in Nat /\ Len(got) <= Len(sent)
      BY <1>2, <3>1
    <3>3. QED
      BY <3>2
  <2>3. \A i \in 1 .. k : Append(sent, e)[i] \in Envelopes /\ sent[i] \in Envelopes
                          /\ Append(sent, e)[i] = sent[i]
    BY <1>2, <2>1, <2>2
  <2>4. /\ SubSeq(Append(sent, e), 1, k) \in Seq(Envelopes)
        /\ Len(SubSeq(Append(sent, e), 1, k)) = k
        /\ \A i \in 1 .. k : SubSeq(Append(sent, e), 1, k)[i] = Append(sent, e)[i]
    <3>1. /\ SubSeq(Append(sent, e), 1, k) \in Seq(Envelopes)
          /\ Len(SubSeq(Append(sent, e), 1, k)) = IF 1 <= k THEN k - 1 + 1 ELSE 0
          /\ \A i \in 1 .. k - 1 + 1 : SubSeq(Append(sent, e), 1, k)[i] = Append(sent, e)[1 + i - 1]
      BY <2>2, <2>3, SubSeqProperties
    <3>2. \A i \in 1 .. k : i \in 1 .. k - 1 + 1 /\ 1 + i - 1 = i
      BY <2>2
    <3>3. QED
      BY <2>2, <3>1, <3>2
  <2>5. /\ SubSeq(sent, 1, k) \in Seq(Envelopes)
        /\ Len(SubSeq(sent, 1, k)) = k
        /\ \A i \in 1 .. k : SubSeq(sent, 1, k)[i] = sent[i]
    <3>1. /\ SubSeq(sent, 1, k) \in Seq(Envelopes)
          /\ Len(SubSeq(sent, 1, k)) = IF 1 <= k THEN k - 1 + 1 ELSE 0
          /\ \A i \in 1 .. k - 1 + 1 : SubSeq(sent, 1, k)[i] = sent[1 + i - 1]
      BY <2>2, <2>3, SubSeqProperties
    <3>2. \A i \in 1 .. k : i \in 1 .. k - 1 + 1 /\ 1 + i - 1 = i
      BY <2>2
    <3>3. QED
      BY <2>2, <3>1, <3>2
  <2>6. SubSeq(Append(sent, e), 1, k) = SubSeq(sent, 1, k)
    BY <2>2, <2>3, <2>4, <2>5, SeqEqual
  <2>7. QED
    BY <1>1, <2>1, <2>2, <2>6
<1>5. Histories'
  BY <1>1, <1>2, <1>4 DEF IInv, Histories
<1>6. Carries(buffer' \o stream', sent', Len(got'), TRUE)
  <2>1. buffer \o stream \in Seq(Bytes)
    BY <1>2, ConcatProperties
  <2>2. Carries((buffer \o stream) \o EncodeFrame(e), Append(sent, e), Len(got), TRUE)
    BY <1>2, <2>1, CarriesMore
  <2>3. (buffer \o stream) \o EncodeFrame(e) = buffer \o (stream \o EncodeFrame(e))
    BY <1>2, <1>3, Regroup
  <2>4. QED
    BY <1>1, <2>2, <2>3
<1>7. stream' \in Seq(Bytes)
  BY <1>1, <1>2, <1>3, ConcatProperties
<1>8. Connection'
  BY <1>1, <1>2, <1>6, <1>7 DEF IInv, Connection
<1>9. QED
  BY <1>5, <1>8 DEF IInv

\* What a data event with n bytes does: it delivers the envelopes of sent from the
\* one after the last up to some m.
LEMMA DataTakes ==
  ASSUME IInv, NEW n \in 1 .. Len(stream), Data(n)
  PROVE  \E m \in Len(got) .. Len(sent) :
           /\ Push(SubSeq(stream, 1, n)).out = SubSeq(sent, Len(got) + 1, m)
           /\ got' = SubSeq(sent, 1, m) /\ Len(got') = m
           /\ buffer' \in Seq(Bytes) /\ stream' \in Seq(Bytes) /\ ~Whole(buffer')
           /\ Carries(buffer' \o stream', sent, m, status = "open")
<1> DEFINE chunk == SubSeq(stream, 1, n)
           left == SubSeq(stream, n + 1, Len(stream))
           k == Len(got)
<1>1. /\ status # "ended" /\ stream' = left /\ buffer' = Push(chunk).rest
      /\ got' = got \o Push(chunk).out
  BY DEF Data
<1>2. /\ sent \in Seq(Envelopes) /\ k \in 0 .. Len(sent) /\ got = SubSeq(sent, 1, k)
      /\ stream \in Seq(Bytes) /\ buffer \in Seq(Bytes)
      /\ Carries(buffer \o stream, sent, k, status = "open")
  BY <1>1 DEF IInv, Histories, Connection
<1>3. chunk \in Seq(Bytes) /\ left \in Seq(Bytes) /\ chunk \o left = stream
  <2>1. n \in Nat /\ n >= 1 /\ n <= Len(stream) /\ Len(stream) \in Nat
    BY <1>2
  <2>2. chunk \in Seq(Bytes)
    <3>1. \A i \in 1 .. n : stream[i] \in Bytes
      BY <1>2, <2>1
    <3>2. QED
      BY <2>1, <3>1, SubSeqProperties
  <2>3. left \in Seq(Bytes)
    <3>1. \A i \in n + 1 .. Len(stream) : stream[i] \in Bytes
      BY <1>2, <2>1
    <3>2. n + 1 \in Int /\ Len(stream) \in Int
      BY <2>1
    <3>3. QED
      BY <3>1, <3>2, SubSeqProperties
  <2>4. chunk \o left = SubSeq(stream, 1, Len(stream))
    <3>1. /\ 1 \in 1 .. Len(stream) + 1 /\ n \in 1 - 1 .. Len(stream)
          /\ Len(stream) \in n .. Len(stream)
      BY <2>1
    <3>2. QED
      BY <1>2, <3>1, ConcatAdjacentSubSeq
  <2>5. SubSeq(stream, 1, Len(stream)) = stream
    BY <1>2, SubSeqFull
  <2>6. QED
    BY <2>2, <2>3, <2>4, <2>5
<1> HIDE DEF chunk, left
<1>4. buffer \o chunk \in Seq(Bytes) /\ (buffer \o chunk) \o left = buffer \o stream
  <2>1. buffer \o chunk \in Seq(Bytes)
    BY <1>2, <1>3, ConcatProperties
  <2>2. (buffer \o chunk) \o left = buffer \o (chunk \o left)
    <3>1. buffer \in Seq(Bytes) /\ chunk \in Seq(Bytes) /\ left \in Seq(Bytes)
      BY <1>2, <1>3
    <3>2. QED
      BY <3>1, Regroup
  <2>3. QED
    BY <1>3, <2>1, <2>2
<1>5. Drains(buffer \o chunk, left, sent, k, status = "open")
  BY <1>2, <1>3, <1>4, DrainLemma
<1>6. PICK m \in k .. Len(sent) :
        /\ Push(chunk).out = SubSeq(sent, k + 1, m)
        /\ Push(chunk).rest \in Seq(Bytes) /\ ~Whole(Push(chunk).rest)
        /\ Carries(Push(chunk).rest \o left, sent, m, status = "open")
  BY <1>5 DEF Drains, Push
<1>7. got' = SubSeq(sent, 1, m) /\ Len(got') = m
  <2>1. SubSeq(sent, 1, k) \o SubSeq(sent, k + 1, m) = SubSeq(sent, 1, m)
    <3>1. 1 \in 1 .. Len(sent) + 1 /\ k \in 1 - 1 .. Len(sent) /\ m \in k .. Len(sent)
      BY <1>2, <1>6
    <3>2. QED
      BY <1>2, <3>1, ConcatAdjacentSubSeq
  <2>2. got' = SubSeq(sent, 1, m)
    BY <1>1, <1>2, <1>6, <2>1
  <2>3. m \in Nat /\ m <= Len(sent)
    BY <1>2, <1>6
  <2>4. Len(SubSeq(sent, 1, m)) = m
    <3>1. \A i \in 1 .. m : sent[i] \in Envelopes
      BY <1>2, <2>3
    <3>2. Len(SubSeq(sent, 1, m)) = IF 1 <= m THEN m - 1 + 1 ELSE 0
      BY <2>3, <3>1, SubSeqProperties
    <3>3. QED
      BY <2>3, <3>2
  <2>5. QED
    BY <2>2, <2>4
<1>8. QED
  BY <1>1, <1>3, <1>6, <1>7 DEF chunk

LEMMA DataKeeps ==
  ASSUME IInv, NEW n \in 1 .. Len(stream), Data(n)
  PROVE  IInv'
<1> DEFINE out == Push(SubSeq(stream, 1, n)).out
           read == [i \in DOMAIN out |-> Receive(out[i])]
           k == Len(got)
<1>1. PICK m \in k .. Len(sent) :
        /\ out = SubSeq(sent, k + 1, m)
        /\ got' = SubSeq(sent, 1, m) /\ Len(got') = m
        /\ buffer' \in Seq(Bytes) /\ stream' \in Seq(Bytes) /\ ~Whole(buffer')
        /\ Carries(buffer' \o stream', sent, m, status = "open")
  BY DataTakes
<1>2. /\ status' = status /\ sent' = sent /\ got' = got \o out /\ outcome' = outcome \o read
  BY DEF Data
<1>3. /\ sent \in Seq(Envelopes) /\ k \in 0 .. Len(sent) /\ got = SubSeq(sent, 1, k)
      /\ outcome \in Seq(Readings) /\ Len(outcome) = k
      /\ \A i \in 1 .. k : outcome[i] = Receive(got[i])
      /\ status \in {"open", "left", "ended"}
  BY DEF IInv, Histories, Connection
<1>4. Connection'
  <2>1. Carries(buffer' \o stream', sent', Len(got'), status' = "open")
    BY <1>1, <1>2
  <2>2. QED
    BY <1>1, <1>2, <1>3, <2>1 DEF Connection
<1> HIDE DEF out
<1>5. out \in Seq(Envelopes) /\ Len(out) = m - k /\ m - k \in Nat
  <2>1. k + 1 \in Int /\ m \in Int /\ m >= k /\ k \in Nat
    BY <1>1, <1>3
  <2>2. \A i \in k + 1 .. m : sent[i] \in Envelopes
    BY <1>1, <1>3
  <2>3. /\ SubSeq(sent, k + 1, m) \in Seq(Envelopes)
        /\ Len(SubSeq(sent, k + 1, m)) = IF k + 1 <= m THEN m - (k + 1) + 1 ELSE 0
    BY <2>1, <2>2, SubSeqProperties
  <2>4. QED
    BY <1>1, <2>1, <2>3
<1>6. read \in Seq(Readings) /\ Len(read) = m - k
      /\ \A i \in 1 .. m - k : read[i] = Receive(out[i])
  <2>1. DOMAIN out = 1 .. m - k
    BY <1>5
  <2>2. read \in [1 .. m - k -> Readings]
    BY <2>1, ReceiveReads
  <2>3. \A i \in 1 .. m - k : read[i] = Receive(out[i])
    BY <2>1
  <2> HIDE DEF read
  <2>4. PICK d \in Nat : d = m - k
    BY <1>5
  <2>5. read \in Seq(Readings) /\ Len(read) = d
    BY <2>2, <2>4
  <2>6. QED
    BY <2>3, <2>4, <2>5
<1> HIDE DEF read
<1>7. got \in Seq(Envelopes)
  <2>1. \A i \in 1 .. k : sent[i] \in Envelopes
    BY <1>3
  <2>2. SubSeq(sent, 1, k) \in Seq(Envelopes)
    BY <1>3, <2>1, SubSeqProperties
  <2>3. QED
    BY <1>3, <2>2
<1>8. \A i \in 1 .. k + (m - k) :
        (got \o out)[i] = IF i <= k THEN got[i] ELSE out[i - k]
  BY <1>5, <1>7, ConcatProperties
<1>9. /\ outcome \o read \in Seq(Readings) /\ Len(outcome \o read) = k + (m - k)
      /\ \A i \in 1 .. k + (m - k) :
           (outcome \o read)[i] = IF i <= k THEN outcome[i] ELSE read[i - k]
  <2>1. /\ outcome \o read \in Seq(Readings)
        /\ Len(outcome \o read) = Len(outcome) + Len(read)
        /\ \A i \in 1 .. Len(outcome) + Len(read) :
             (outcome \o read)[i] = IF i <= Len(outcome) THEN outcome[i] ELSE read[i - Len(outcome)]
    <3> DEFINE a == outcome
    <3>1. a \in Seq(Readings) /\ read \in Seq(Readings)
      BY <1>3, <1>6
    <3> HIDE DEF a
    <3>2. /\ a \o read \in Seq(Readings) /\ Len(a \o read) = Len(a) + Len(read)
          /\ \A i \in 1 .. Len(a) + Len(read) :
               (a \o read)[i] = IF i <= Len(a) THEN a[i] ELSE read[i - Len(a)]
      BY ONLY <3>1, ConcatProperties
    <3>3. QED
      BY <3>2 DEF a
  <2>2. Len(outcome) = k /\ Len(read) = m - k
    BY <1>3, <1>6
  <2>3. QED
    BY <2>1, <2>2
<1>10. k + (m - k) = m /\ k \in Nat /\ m \in 0 .. Len(sent)
  BY <1>1, <1>3
<1>11. ASSUME NEW i \in 1 .. m PROVE outcome'[i] = Receive(got'[i])
  <2>1. i \in 1 .. k + (m - k)
    BY <1>10
  <2>2. CASE i <= k
    <3>1. i \in 1 .. k
      BY <1>10, <2>2
    <3>2. (outcome \o read)[i] = outcome[i] /\ (got \o out)[i] = got[i]
      BY <1>8, <1>9, <2>1, <2>2
    <3>3. QED
      BY <1>2, <1>3, <3>1, <3>2
  <2>3. CASE ~(i <= k)
    <3>1. i - k \in 1 .. m - k
      BY <1>10, <2>3
    <3>2. (outcome \o read)[i] = read[i - k] /\ (got \o out)[i] = out[i - k]
      BY <1>8, <1>9, <2>1, <2>3
    <3>3. QED
      BY <1>2, <1>6, <3>1, <3>2
  <2>4. QED
    BY <2>2, <2>3
<1>12. Histories'
  <2>1. /\ sent' \in Seq(Envelopes) /\ Len(got') \in 0 .. Len(sent')
        /\ got' = SubSeq(sent', 1, Len(got'))
    BY <1>1, <1>2, <1>3, <1>10
  <2>2. outcome' \in Seq(Readings) /\ Len(outcome') = Len(got')
    BY <1>1, <1>2, <1>9, <1>10
  <2>3. \A i \in 1 .. Len(got') : outcome'[i] = Receive(got'[i])
    BY <1>1, <1>11
  <2>4. QED
    BY <2>1, <2>2, <2>3 DEF Histories
<1>13. QED
  BY <1>4, <1>12 DEF IInv

LEMMA LeaveKeeps ==
  ASSUME IInv, Leave
  PROVE  IInv'
<1>1. PICK n \in 0 .. Len(stream) : stream' = SubSeq(stream, 1, n)
  BY DEF Leave
<1>2. /\ status = "open" /\ status' = "left"
      /\ buffer' = buffer /\ sent' = sent /\ got' = got /\ outcome' = outcome
  BY DEF Leave
<1>3. /\ sent \in Seq(Envelopes) /\ Len(got) \in 0 .. Len(sent)
      /\ stream \in Seq(Bytes) /\ buffer \in Seq(Bytes) /\ ~Whole(buffer)
      /\ Carries(buffer \o stream, sent, Len(got), TRUE)
  BY <1>2 DEF IInv, Histories, Connection
<1>4. /\ stream' \in Seq(Bytes) /\ Len(stream') = n /\ n \in Nat /\ n <= Len(stream)
      /\ \A i \in 1 .. n : stream'[i] = stream[i]
  <2>1. n \in Nat /\ n <= Len(stream)
    BY <1>3
  <2>2. \A i \in 1 .. n : stream[i] \in Bytes
    BY <1>3, <2>1
  <2>3. /\ SubSeq(stream, 1, n) \in Seq(Bytes)
        /\ Len(SubSeq(stream, 1, n)) = IF 1 <= n THEN n - 1 + 1 ELSE 0
        /\ \A i \in 1 .. n - 1 + 1 : SubSeq(stream, 1, n)[i] = stream[1 + i - 1]
    BY <2>1, <2>2, SubSeqProperties
  <2>4. \A i \in 1 .. n : i \in 1 .. n - 1 + 1 /\ 1 + i - 1 = i
    BY <2>1
  <2>5. QED
    BY <1>1, <2>1, <2>3, <2>4
<1>5. /\ buffer \o stream \in Seq(Bytes) /\ Len(buffer \o stream) = Len(buffer) + Len(stream)
      /\ \A i \in 1 .. Len(buffer) + Len(stream) :
           (buffer \o stream)[i] = IF i <= Len(buffer) THEN buffer[i] ELSE stream[i - Len(buffer)]
  BY <1>3, ConcatProperties
<1>6. /\ buffer \o stream' \in Seq(Bytes) /\ Len(buffer \o stream') = Len(buffer) + n
      /\ \A i \in 1 .. Len(buffer) + n :
           (buffer \o stream')[i] = IF i <= Len(buffer) THEN buffer[i] ELSE stream'[i - Len(buffer)]
  <2> DEFINE x == stream'
  <2>1. x \in Seq(Bytes) /\ Len(x) = n
    BY <1>4
  <2> HIDE DEF x
  <2>2. /\ buffer \o x \in Seq(Bytes) /\ Len(buffer \o x) = Len(buffer) + Len(x)
        /\ \A i \in 1 .. Len(buffer) + Len(x) :
             (buffer \o x)[i] = IF i <= Len(buffer) THEN buffer[i] ELSE x[i - Len(buffer)]
    BY <1>3, <2>1, ConcatProperties
  <2>3. QED
    BY <2>1, <2>2 DEF x
<1>7. Len(buffer) \in Nat /\ Len(stream) \in Nat
  BY <1>3
<1>8. ASSUME NEW i \in 1 .. Len(buffer) + n PROVE (buffer \o stream')[i] = (buffer \o stream)[i]
  <2>1. i \in 1 .. Len(buffer) + Len(stream)
    BY <1>4, <1>7
  <2>2. CASE i <= Len(buffer)
    BY <1>5, <1>6, <2>1, <2>2
  <2>3. CASE ~(i <= Len(buffer))
    <3>1. i - Len(buffer) \in 1 .. n
      BY <1>4, <1>7, <2>3
    <3>2. QED
      BY <1>4, <1>5, <1>6, <2>1, <2>3, <3>1
  <2>4. QED
    BY <2>2, <2>3
<1>9. Carries(buffer \o stream', sent, Len(got), FALSE)
  <2> DEFINE s == buffer \o stream'
             t == buffer \o stream
  <2>1. /\ s \in Seq(Bytes) /\ t \in Seq(Bytes) /\ Len(s) <= Len(t)
        /\ \A i \in 1 .. Len(s) : s[i] = t[i]
    BY <1>4, <1>5, <1>6, <1>7, <1>8
  <2>2. Carries(t, sent, Len(got), TRUE)
    BY <1>3
  <2> HIDE DEF s, t
  <2>3. Carries(s, sent, Len(got), FALSE)
    BY <1>3, <2>1, <2>2, CarriesLess
  <2>4. QED
    BY <2>3 DEF s
<1>10. Histories'
  BY <1>2 DEF IInv, Histories
<1>11. Connection'
  BY <1>2, <1>3, <1>4, <1>9 DEF Connection
<1>12. QED
  BY <1>10, <1>11 DEF IInv

LEMMA EndKeeps ==
  ASSUME IInv, End
  PROVE  IInv'
<1>1. /\ status' = "ended" /\ stream' = <<>> /\ buffer' = <<>>
      /\ sent' = sent /\ got' = got /\ outcome' = outcome
  BY DEF End
<1>2. stream' \in Seq(Bytes) /\ buffer' \in Seq(Bytes) /\ Len(buffer') = 0
  BY <1>1
<1>3. ~Whole(buffer')
  BY <1>2 DEF Whole, PrefixBytes
<1>4. Histories'
  BY <1>1 DEF IInv, Histories
<1>5. QED
  BY <1>1, <1>2, <1>3, <1>4 DEF IInv, Connection

LEMMA NextKeeps == IInv /\ [Next]_vars => IInv'
<1> SUFFICES ASSUME IInv, [Next]_vars PROVE IInv'
  OBVIOUS
<1>1. ASSUME NEW e \in Envelopes, Write(e) PROVE IInv'
  BY <1>1, WriteKeeps
<1>2. ASSUME NEW n \in 1 .. Len(stream), Data(n) PROVE IInv'
  BY <1>2, DataKeeps
<1>3. CASE Leave
  BY <1>3, LeaveKeeps
<1>4. CASE End
  BY <1>4, EndKeeps
<1>5. CASE UNCHANGED vars
  BY <1>5 DEF vars, IInv, Histories, Connection
<1>6. QED
  BY <1>1, <1>2, <1>3, <1>4, <1>5 DEF Next

LEMMA Invariance == Spec => []IInv
  BY InitInv, NextKeeps, PTL DEF Spec

-----------------------------------------------------------------------------
(* The connection implements Channel. *)

LEMMA InitRefines == Init => Abstract!Init
  BY DEF Init, Abstract!Init

LEMMA DataDelivers ==
  ASSUME IInv, NEW n \in 1 .. Len(stream), Data(n)
  PROVE  Abstract!Deliver \/ UNCHANGED Abstract!vars
<1>1. PICK m \in Len(got) .. Len(sent) : got' = SubSeq(sent, 1, m)
  BY DataTakes
<1>2. sent' = sent /\ status' = status /\ status # "ended"
  BY DEF Data
<1>3. got = SubSeq(sent, 1, Len(got)) /\ Len(got) \in 0 .. Len(sent) /\ sent \in Seq(Envelopes)
  BY DEF IInv, Histories
<1>4. CASE m = Len(got)
  BY <1>1, <1>2, <1>3, <1>4 DEF Abstract!vars
<1>5. CASE m # Len(got)
  <2>1. m \in Len(got) + 1 .. Len(sent)
    <3>1. Len(sent) \in Nat
      BY <1>3
    <3>2. Len(got) \in Nat
      BY <1>3, <3>1
    <3>3. m \in Int /\ m >= Len(got) /\ m <= Len(sent)
      BY <1>1, <3>1, <3>2
    <3>4. QED
      BY <1>5, <3>1, <3>2, <3>3
  <2>2. QED
    BY <1>1, <1>2, <2>1 DEF Abstract!Deliver
<1>6. QED
  BY <1>4, <1>5

LEMMA NextRefines == IInv /\ [Next]_vars => [Abstract!Next]_(Abstract!vars)
<1> SUFFICES ASSUME IInv, [Next]_vars PROVE Abstract!Next \/ UNCHANGED Abstract!vars
  OBVIOUS
<1>1. ASSUME NEW e \in Envelopes, Write(e) PROVE Abstract!Next
  BY <1>1 DEF Write, Abstract!Write, Abstract!Next
<1>2. ASSUME NEW n \in 1 .. Len(stream), Data(n)
      PROVE  Abstract!Next \/ UNCHANGED Abstract!vars
  BY <1>2, DataDelivers DEF Abstract!Next
<1>3. CASE Leave
  BY <1>3 DEF Leave, Abstract!Leave, Abstract!Next
<1>4. CASE End
  BY <1>4 DEF End, Abstract!End, Abstract!Next
<1>5. CASE UNCHANGED vars
  BY <1>5 DEF vars, Abstract!vars
<1>6. QED
  BY <1>1, <1>2, <1>3, <1>4, <1>5 DEF Next

\* unicast-framing.ts:8: the decoder "yields exactly the complete envelopes": each that
\* was written comes out at most once, whole and in the order written, however the
\* stream is cut and whenever its writer ends, and never a part of one.  (That it comes
\* out at all is the fairness part of ImplementsChannel.)
THEOREM FramingImplementsChannel == Spec => Abstract!SafeSpec
  BY InitRefines, NextRefines, Invariance, PTL DEF Spec, Abstract!SafeSpec

LEMMA InvHoldsBack == IInv => NothingHeldBack
<1> SUFFICES ASSUME IInv, status = "open", stream = <<>> PROVE got = sent
  BY DEF NothingHeldBack
<1>1. /\ sent \in Seq(Envelopes) /\ Len(got) \in 0 .. Len(sent) /\ got = SubSeq(sent, 1, Len(got))
      /\ buffer \in Seq(Bytes) /\ ~Whole(buffer)
      /\ Carries(buffer \o stream, sent, Len(got), TRUE)
  BY DEF IInv, Histories, Connection
<1>2. Carries(buffer, sent, Len(got), TRUE)
  <2>1. buffer \o stream = buffer
    BY <1>1, ConcatEmptySeq
  <2>2. QED
    BY <1>1, <2>1
<1>3. CASE Len(got) < Len(sent)
  <2>1. Begins(buffer, sent[Len(got) + 1]) /\ Len(buffer) >= Size(sent[Len(got) + 1])
    BY <1>1, <1>2, <1>3, CarriesFirst
  <2>2. sent[Len(got) + 1] \in Envelopes
    BY <1>1, <1>3
  <2>3. Whole(buffer)
    BY <1>1, <2>1, <2>2, FrameRead
  <2>4. QED
    BY <1>1, <2>3
<1>4. CASE ~(Len(got) < Len(sent))
  <2>1. Len(got) = Len(sent)
    BY <1>1, <1>4
  <2>2. QED
    BY <1>1, <2>1, SubSeqFull
<1>5. QED
  BY <1>3, <1>4

\* What has arrived of a connection that lasts has come out of the decoder: no complete
\* envelope waits in its buffer for the next data event.
THEOREM DecoderHoldsNothingBack == Spec => []NothingHeldBack
  BY Invariance, InvHoldsBack, PTL

-----------------------------------------------------------------------------
(* What is built is read. *)

LEMMA MalformedReported ==
  ASSUME NEW e, Malformed(e)
  PROVE  ValidateEnvelope(e) = "MALFORMED_CRYPTO_FIELDS"
<1> DEFINE failing == {i \in DOMAIN Checks(e) : Checks(e)[i].fails}
<1>1. Checks(e)[1].fails
  BY DEF Checks, Malformed
<1>2. DOMAIN Checks(e) = 1 .. 6 /\ Checks(e)[1].code = "MALFORMED_CRYPTO_FIELDS"
  BY DEF Checks
<1>3. Min(failing) = 1
  <2>1. 1 \in failing /\ \A i \in failing : i \in Int /\ 1 <= i
    BY <1>1, <1>2
  <2> HIDE DEF failing
  <2>2. \A x : x \in failing /\ (\A i \in failing : x <= i) <=> x = 1
    BY <2>1
  <2>3. QED
    BY <2>2 DEF Min
<1>4. failing # {}
  BY <1>1, <1>2
<1> HIDE DEF failing
<1>5. QED
  BY <1>2, <1>3, <1>4 DEF ValidateEnvelope, failing

LEMMA OtherwiseNot ==
  ASSUME NEW e, ~Malformed(e)
  PROVE  ValidateEnvelope(e) # "MALFORMED_CRYPTO_FIELDS"
<1> DEFINE failing == {i \in DOMAIN Checks(e) : Checks(e)[i].fails}
<1>1. DOMAIN Checks(e) = 1 .. 6 /\ Checks(e)[1].fails = Malformed(e)
      /\ \A i \in 2 .. 6 : Checks(e)[i].code # "MALFORMED_CRYPTO_FIELDS"
  BY DEF Checks
<1>2. failing \subseteq 2 .. 6
  BY <1>1
<1> HIDE DEF failing
<1>3. CASE failing = {}
  BY <1>3 DEF ValidateEnvelope, failing
<1>4. CASE failing # {}
  <2>1. Min(failing) \in failing
    <3>1. PICK i \in failing : \A j \in failing : i <= j
      <4>1. CASE 2 \in failing
        BY <1>2, <4>1
      <4>2. CASE 2 \notin failing /\ 3 \in failing
        <5>1. failing \subseteq 3 .. 6
          BY <1>2, <4>2
        <5>2. QED
          BY <4>2, <5>1
      <4>3. CASE 2 \notin failing /\ 3 \notin failing /\ 4 \in failing
        <5>1. failing \subseteq 4 .. 6
          BY <1>2, <4>3
        <5>2. QED
          BY <4>3, <5>1
      <4>4. CASE 2 \notin failing /\ 3 \notin failing /\ 4 \notin failing
        <5>1. failing \subseteq 5 .. 6
          BY <1>2, <4>4
        <5>2. CASE 5 \in failing
          BY <5>1, <5>2
        <5>3. CASE 5 \notin failing
          <6>1. \A j \in failing : j = 6
            BY <5>1, <5>3
          <6>2. QED
            BY <1>4, <6>1
        <5>4. QED
          BY <5>2, <5>3
      <4>5. QED
        BY <4>1, <4>2, <4>3, <4>4
    <3>2. QED
      BY <3>1 DEF Min
  <2>2. QED
    BY <1>1, <1>2, <1>4, <2>1 DEF ValidateEnvelope, failing
<1>5. QED
  BY <1>3, <1>4

LEMMA BuiltIsRead ==
  ASSUME NEW e, Built(e)
  PROVE  Read(e) = IF e.encrypted THEN "decrypted" ELSE "clear"
<1>1. PICK r : \/ e = BuildEnvelope("unicast", r, Undefined, Undefined)
               \/ e = EncryptOutbound(BuildEnvelope("unicast", r, Undefined, Undefined))
  BY DEF Built
<1>2. CASE e = BuildEnvelope("unicast", r, Undefined, Undefined)
  <2>1. e.encrypted = FALSE
    BY <1>2 DEF BuildEnvelope
  <2>2. QED
    BY <2>1 DEF Read
<1>3. CASE e = EncryptOutbound(BuildEnvelope("unicast", r, Undefined, Undefined))
  <2>1. e.encrypted = TRUE /\ e.iv = SomeText /\ e.authTag = SomeText
    BY <1>3 DEF EncryptOutbound, BuildEnvelope
  <2>2. ~Missing(SomeText)
    BY EnvelopeAssumption DEF Missing, SomeText, NoText
  <2>3. ~Malformed(e) /\ Opens(e)
    BY <2>1, <2>2 DEF Malformed, Opens
  <2>4. QED
    BY <2>1, <2>3, OtherwiseNot DEF Read
<1>4. QED
  BY <1>1, <1>2, <1>3

LEMMA InvReads == IInv => ReadsWhatIsBuilt
<1> SUFFICES ASSUME IInv, NEW i \in DOMAIN got, got[i].recipientId = Me
             PROVE  /\ Built(got[i]) =>
                         outcome[i] = IF got[i].encrypted THEN "decrypted" ELSE "clear"
                    /\ got[i].encrypted /\ (Missing(got[i].iv) \/ Missing(got[i].authTag))
                         => outcome[i] = "malformed"
  BY DEF ReadsWhatIsBuilt
<1>1. i \in 1 .. Len(got)
  <2>1. /\ sent \in Seq(Envelopes) /\ Len(got) \in 0 .. Len(sent)
        /\ got = SubSeq(sent, 1, Len(got))
    BY DEF IInv, Histories
  <2>2. \A j \in 1 .. Len(got) : sent[j] \in Envelopes
    BY <2>1
  <2>3. SubSeq(sent, 1, Len(got)) \in Seq(Envelopes)
    BY <2>1, <2>2, SubSeqProperties
  <2>4. got \in Seq(Envelopes)
    BY <2>1, <2>3
  <2>5. QED
    BY <2>4
<1>2. outcome[i] = Read(got[i])
  BY <1>1 DEF IInv, Histories, Receive
<1>3. ASSUME Built(got[i])
      PROVE  outcome[i] = IF got[i].encrypted THEN "decrypted" ELSE "clear"
  BY <1>2, <1>3, BuiltIsRead
<1>4. ASSUME got[i].encrypted, Missing(got[i].iv) \/ Missing(got[i].authTag)
      PROVE  outcome[i] = "malformed"
  BY <1>2, <1>4, MalformedReported DEF Malformed, Read
<1>5. QED
  BY <1>3, <1>4

\* BR-15, BR-16: what an agent has built, plain or encrypted, comes out at its addressee
\* as one it can read, and an encrypted envelope without its iv or its tag is reported as
\* malformed and not decrypted, for any encoding of the envelopes.
THEOREM BuiltEnvelopesAreRead == Spec => []ReadsWhatIsBuilt
  BY Invariance, InvReads, PTL
=============================================================================

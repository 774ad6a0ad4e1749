-------------------------- MODULE DashboardProofs --------------------------
(***************************************************************************)
(* Proofs about Dashboard, for any agents, sizes of the log and of the     *)
(* feed, and any number of events: the feed and the log are one history,   *)
(* and the graph animates each event once.                                 *)
(***************************************************************************)
EXTENDS Dashboard, SequenceTheorems, WellFoundedInduction, TLAPS

Event == [n : Nat, ts : Nat \ {0}, logged : BOOLEAN]

\* What is in the dashboard, and what is on its way to it, in one row.
Line == buffer \o wire

LEMMA EventAt ==
  ASSUME NEW s \in Seq(Event), NEW i \in DOMAIN s
  PROVE  s[i] \in Event /\ s[i].n \in Nat /\ s[i].ts \in Nat /\ s[i].ts > 0
<1>1. s[i] \in Event
  OBVIOUS
<1>2. QED
  BY <1>1 DEF Event

-----------------------------------------------------------------------------
(* A part of a sequence: t is s from the place after the d-th on, as far as it goes. *)

Cut(t, s, d) ==
  /\ Len(t) + d <= Len(s)
  /\ \A i \in 1 .. Len(t) : t[i] = s[d + i]

CutEnd(t, s, d) == Cut(t, s, d) /\ Len(t) + d = Len(s)

\* The events of a sequence, by their numbers.
Has(s, n) == \E i \in DOMAIN s : s[i].n = n

\* No event is twice in a sequence.
Distinct(s) == \A i, j \in DOMAIN s : s[i].n = s[j].n => i = j

\* Each event is later than the one before.
Rising(s) == \A i, j \in DOMAIN s : i < j => s[i].ts < s[j].ts

LEMMA CutIndex ==
  ASSUME NEW s \in Seq(Event), NEW t \in Seq(Event), NEW d \in Nat, Cut(t, s, d)
  PROVE  /\ \A i \in DOMAIN t : /\ i \in 1 .. Len(t) /\ d + i \in DOMAIN s /\ t[i] = s[d + i]
                                /\ d + i \in Nat
         /\ CutEnd(t, s, d) => \A j \in DOMAIN s : j > d => j - d \in DOMAIN t /\ t[j - d] = s[j]
<1>1. DOMAIN t = 1 .. Len(t) /\ DOMAIN s = 1 .. Len(s) /\ Len(t) \in Nat /\ Len(s) \in Nat
  OBVIOUS
<1>2. Len(t) + d <= Len(s) /\ \A i \in 1 .. Len(t) : t[i] = s[d + i]
  BY DEF Cut
<1>3. \A i \in 1 .. Len(t) : d + i \in 1 .. Len(s) /\ d + i \in Nat
  BY <1>1, <1>2
<1>4. ASSUME Len(t) + d = Len(s), NEW j \in 1 .. Len(s), j > d
      PROVE  j - d \in 1 .. Len(t) /\ t[j - d] = s[j]
  <2>1. j - d \in 1 .. Len(t) /\ d + (j - d) = j
    BY <1>1, <1>4
  <2>2. t[j - d] = s[d + (j - d)]
    BY <1>2, <2>1
  <2>3. QED
    BY <2>1, <2>2
<1>5. QED
  BY <1>1, <1>2, <1>3, <1>4 DEF CutEnd

LEMMA CutHas ==
  ASSUME NEW s \in Seq(Event), NEW t \in Seq(Event), NEW d \in Nat, Cut(t, s, d),
         NEW n, Has(t, n)
  PROVE  Has(s, n)
  BY CutIndex DEF Has

LEMMA CutDistinct ==
  ASSUME NEW s \in Seq(Event), NEW t \in Seq(Event), NEW d \in Nat, Cut(t, s, d), Distinct(s)
  PROVE  Distinct(t)
<1> SUFFICES ASSUME NEW i \in DOMAIN t, NEW j \in DOMAIN t, t[i].n = t[j].n PROVE i = j
  BY DEF Distinct
<1>1. d + i \in DOMAIN s /\ d + j \in DOMAIN s /\ s[d + i].n = s[d + j].n
  BY CutIndex
<1>2. d + i = d + j
  BY <1>1 DEF Distinct
<1>3. i \in Int /\ j \in Int
  BY CutIndex
<1>4. QED
  BY <1>2, <1>3

LEMMA CutRising ==
  ASSUME NEW s \in Seq(Event), NEW t \in Seq(Event), NEW d \in Nat, Cut(t, s, d), Rising(s)
  PROVE  Rising(t)
<1> SUFFICES ASSUME NEW i \in DOMAIN t, NEW j \in DOMAIN t, i < j PROVE t[i].ts < t[j].ts
  BY DEF Rising
<1>1. d + i \in DOMAIN s /\ d + j \in DOMAIN s /\ t[i] = s[d + i] /\ t[j] = s[d + j]
  BY CutIndex
<1>2. d + i < d + j
  BY CutIndex
<1>3. QED
  BY <1>1, <1>2 DEF Rising

LEMMA CutSame ==
  ASSUME NEW s \in Seq(Event), NEW t \in Seq(Event), NEW d \in Nat, Cut(t, s, d),
         NEW g \in Seq(Event), NEW h \in Seq(Event), NEW e \in Nat, Cut(h, g, e),
         SameOrder(s, g)
  PROVE  SameOrder(t, h)
<1> SUFFICES ASSUME NEW i \in DOMAIN t, NEW j \in DOMAIN t, NEW k \in DOMAIN h, NEW l \in DOMAIN h,
                    t[i] = h[k], t[j] = h[l]
             PROVE  i < j <=> k < l
  BY DEF SameOrder
<1>1. /\ d + i \in DOMAIN s /\ d + j \in DOMAIN s /\ t[i] = s[d + i] /\ t[j] = s[d + j]
      /\ i \in Int /\ j \in Int
  BY CutIndex
<1>2. /\ e + k \in DOMAIN g /\ e + l \in DOMAIN g /\ h[k] = g[e + k] /\ h[l] = g[e + l]
      /\ k \in Int /\ l \in Int
  BY CutIndex
<1>3. d + i < d + j <=> e + k < e + l
  BY <1>1, <1>2 DEF SameOrder
<1>4. (d + i < d + j <=> i < j) /\ (e + k < e + l <=> k < l)
  <2>1. \A z \in Nat : \A x, y \in Int : z + x < z + y <=> x < y
    OBVIOUS
  <2>2. i \in Int /\ j \in Int /\ k \in Int /\ l \in Int
    BY <1>1, <1>2
  <2>3. QED
    BY <2>1, <2>2
<1>5. QED
  BY <1>3, <1>4

LEMMA CutSelf ==
  ASSUME NEW s \in Seq(Event)
  PROVE  CutEnd(s, s, 0)
  BY DEF Cut, CutEnd

\* The latest n of a sequence.
LEMMA LatestIs ==
  ASSUME NEW s \in Seq(Event), NEW n \in Nat
  PROVE  /\ Latest(s, n) \in Seq(Event)
         /\ \E d \in 0 .. Len(s) : CutEnd(Latest(s, n), s, d) /\ Latest(s, n) = SubSeq(s, d + 1, Len(s))
         /\ n > 0 /\ s # <<>> => Latest(s, n) # <<>>
<1> DEFINE d == IF Len(s) > n THEN Len(s) - n ELSE 0
<1>1. d \in 0 .. Len(s) /\ Len(s) \in Nat /\ (n > 0 /\ Len(s) > 0 => d < Len(s))
  OBVIOUS
<1>2. Latest(s, n) = SubSeq(s, d + 1, Len(s))
  BY DEF Latest
<1> HIDE DEF d
<1>3. PICK m \in Int : m = d + 1
  BY <1>1
<1>4. /\ SubSeq(s, m, Len(s)) \in Seq(Event)
      /\ Len(SubSeq(s, m, Len(s))) = IF m <= Len(s) THEN Len(s) - m + 1 ELSE 0
      /\ \A i \in 1 .. Len(s) - m + 1 : SubSeq(s, m, Len(s))[i] = s[m + i - 1]
  <2>1. \A i \in m .. Len(s) : s[i] \in Event
    BY <1>1, <1>3
  <2>2. Len(s) \in Int
    BY <1>1
  <2>3. QED
    BY <2>1, <2>2, SubSeqProperties
<1> DEFINE t == SubSeq(s, m, Len(s))
<1>5. Len(t) + d = Len(s)
  BY <1>1, <1>3, <1>4
<1>6. \A i \in 1 .. Len(t) : t[i] = s[d + i]
  <2>1. \A i \in 1 .. Len(t) : i \in 1 .. Len(s) - m + 1 /\ m + i - 1 = d + i
    BY <1>1, <1>3, <1>5
  <2>2. QED
    BY <1>4, <2>1
<1>7. CutEnd(t, s, d)
  <2>1. Len(t) + d <= Len(s)
    BY <1>1, <1>5
  <2>2. QED
    BY <1>5, <1>6, <2>1 DEF Cut, CutEnd
<1>8. ASSUME n > 0, s # <<>> PROVE t # <<>>
  <2>1. Len(s) > 0
    BY <1>8
  <2>2. Len(t) > 0
    BY <1>1, <1>4, <1>5, <1>8, <2>1
  <2> HIDE DEF t
  <2>3. QED
    BY <2>2
<1>9. QED
  BY <1>1, <1>2, <1>3, <1>4, <1>7, <1>8

-----------------------------------------------------------------------------
(* One more event in the feed, in the log, or in both. *)

LEMMA AppendIs ==
  ASSUME NEW s \in Seq(Event), NEW e \in Event
  PROVE  /\ Append(s, e) \in Seq(Event)
         /\ DOMAIN Append(s, e) = 1 .. Len(s) + 1 /\ DOMAIN s = 1 .. Len(s) /\ Len(s) \in Nat
         /\ Append(s, e)[Len(s) + 1] = e /\ Len(Append(s, e)) = Len(s) + 1
         /\ \A i \in DOMAIN s : /\ Append(s, e)[i] = s[i] /\ i \in DOMAIN Append(s, e)
                                /\ i \in Nat /\ i < Len(s) + 1
         /\ \A i \in DOMAIN Append(s, e) : i = Len(s) + 1 \/ i \in DOMAIN s
  OBVIOUS

LEMMA AppendHas ==
  ASSUME NEW s \in Seq(Event), NEW e \in Event, NEW n
  PROVE  Has(Append(s, e), n) <=> Has(s, n) \/ n = e.n
<1>1. /\ Len(s) + 1 \in DOMAIN Append(s, e) /\ Append(s, e)[Len(s) + 1] = e
      /\ \A i \in DOMAIN s : Append(s, e)[i] = s[i] /\ i \in DOMAIN Append(s, e)
      /\ \A i \in DOMAIN Append(s, e) : i = Len(s) + 1 \/ i \in DOMAIN s
  BY AppendIs
<1>2. QED
  BY <1>1 DEF Has

LEMMA AppendDistinct ==
  ASSUME NEW s \in Seq(Event), NEW e \in Event, Distinct(s), ~Has(s, e.n)
  PROVE  Distinct(Append(s, e))
<1> DEFINE t == Append(s, e)
<1> SUFFICES ASSUME NEW i \in DOMAIN t, NEW j \in DOMAIN t, t[i].n = t[j].n PROVE i = j
  BY DEF Distinct
<1>1. /\ t[Len(s) + 1] = e /\ \A k \in DOMAIN s : t[k] = s[k]
      /\ \A k \in DOMAIN t : k = Len(s) + 1 \/ k \in DOMAIN s
  BY AppendIs
<1> HIDE DEF t
<1>2. QED
  BY <1>1 DEF Distinct, Has

LEMMA AppendRising ==
  ASSUME NEW s \in Seq(Event), NEW e \in Event, Rising(s),
         \A i \in DOMAIN s : s[i].ts < e.ts
  PROVE  Rising(Append(s, e))
<1> DEFINE t == Append(s, e)
<1> SUFFICES ASSUME NEW i \in DOMAIN t, NEW j \in DOMAIN t, i < j PROVE t[i].ts < t[j].ts
  BY DEF Rising
<1>1. /\ t[Len(s) + 1] = e /\ \A k \in DOMAIN s : t[k] = s[k] /\ k \in Nat /\ k < Len(s) + 1
      /\ \A k \in DOMAIN t : k = Len(s) + 1 \/ k \in DOMAIN s
      /\ Len(s) \in Nat
  BY AppendIs
<1> HIDE DEF t
<1>2. i \in DOMAIN s
  BY <1>1
<1>3. QED
  BY <1>1, <1>2 DEF Rising

\* What only one of the two gets leaves their order as it was.
LEMMA SameAppend ==
  ASSUME NEW s \in Seq(Event), NEW g \in Seq(Event), NEW e \in Event,
         SameOrder(s, g), ~Has(s, e.n), ~Has(g, e.n)
  PROVE  /\ SameOrder(Append(s, e), g) /\ SameOrder(s, Append(g, e))
         /\ SameOrder(Append(s, e), Append(g, e))
<1> DEFINE t == Append(s, e)
           h == Append(g, e)
<1>1. /\ t[Len(s) + 1] = e /\ \A k \in DOMAIN s : t[k] = s[k] /\ k \in Nat /\ k < Len(s) + 1
      /\ \A k \in DOMAIN t : k = Len(s) + 1 \/ k \in DOMAIN s
      /\ Len(s) \in Nat
  BY AppendIs
<1>2. /\ h[Len(g) + 1] = e /\ \A k \in DOMAIN g : h[k] = g[k] /\ k \in Nat /\ k < Len(g) + 1
      /\ \A k \in DOMAIN h : k = Len(g) + 1 \/ k \in DOMAIN g
      /\ Len(g) \in Nat
  BY AppendIs
<1> HIDE DEF t, h
<1>3. (\A k \in DOMAIN s : s[k] # e) /\ (\A k \in DOMAIN g : g[k] # e)
  BY DEF Has
<1>4. SameOrder(t, g)
  <2> SUFFICES ASSUME NEW i \in DOMAIN t, NEW j \in DOMAIN t, NEW k \in DOMAIN g, NEW l \in DOMAIN g,
                      t[i] = g[k], t[j] = g[l]
               PROVE  i < j <=> k < l
    BY DEF SameOrder
  <2>1. i \in DOMAIN s /\ j \in DOMAIN s
    BY <1>1, <1>3
  <2>2. QED
    BY <1>1, <2>1 DEF SameOrder
<1>5. SameOrder(s, h)
  <2> SUFFICES ASSUME NEW i \in DOMAIN s, NEW j \in DOMAIN s, NEW k \in DOMAIN h, NEW l \in DOMAIN h,
                      s[i] = h[k], s[j] = h[l]
               PROVE  i < j <=> k < l
    BY DEF SameOrder
  <2>1. k \in DOMAIN g /\ l \in DOMAIN g
    BY <1>2, <1>3
  <2>2. QED
    BY <1>2, <2>1 DEF SameOrder
<1>6. SameOrder(t, h)
  <2> SUFFICES ASSUME NEW i \in DOMAIN t, NEW j \in DOMAIN t, NEW k \in DOMAIN h, NEW l \in DOMAIN h,
                      t[i] = h[k], t[j] = h[l]
               PROVE  i < j <=> k < l
    BY DEF SameOrder
  <2>1. (i = Len(s) + 1 <=> k = Len(g) + 1) /\ (j = Len(s) + 1 <=> l = Len(g) + 1)
    BY <1>1, <1>2, <1>3
  <2>2. CASE i # Len(s) + 1 /\ j # Len(s) + 1
    <3>1. i \in DOMAIN s /\ j \in DOMAIN s /\ k \in DOMAIN g /\ l \in DOMAIN g
      BY <1>1, <1>2, <2>1, <2>2
    <3>2. s[i] = g[k] /\ s[j] = g[l]
      BY <1>1, <1>2, <3>1
    <3>3. QED
      BY <3>1, <3>2 DEF SameOrder
  <2>3. CASE i = Len(s) + 1
    <3>1. k = Len(g) + 1 /\ ~(i < j) /\ ~(k < l)
      BY <1>1, <1>2, <2>1, <2>3
    <3>2. QED
      BY <3>1
  <2>4. CASE i # Len(s) + 1 /\ j = Len(s) + 1
    <3>1. l = Len(g) + 1 /\ i \in DOMAIN s /\ k \in DOMAIN g
      BY <1>1, <1>2, <2>1, <2>4
    <3>2. i < j /\ k < l
      BY <1>1, <1>2, <2>4, <3>1
    <3>3. QED
      BY <3>2
  <2>5. QED
    BY <2>2, <2>3, <2>4
<1>7. QED
  BY <1>4, <1>5, <1>6 DEF t, h

AllLoggable(g) == \A k \in DOMAIN g : Loggable(g[k])

LEMMA EndAppend ==
  ASSUME NEW s \in Seq(Event), NEW g \in Seq(Event), NEW e \in Event, AllLoggable(g),
         CommonEnd(s, g)
  PROVE  /\ Loggable(e) => CommonEnd(Append(s, e), Append(g, e))
         /\ ~Loggable(e) => CommonEnd(Append(s, e), g)
<1> DEFINE t == Append(s, e)
           h == Append(g, e)
<1>1. /\ t[Len(s) + 1] = e /\ Len(s) + 1 \in DOMAIN t /\ Len(s) \in Nat
      /\ \A k \in DOMAIN s : t[k] = s[k] /\ k \in Nat /\ k < Len(s) + 1 /\ k \in DOMAIN t
      /\ \A k \in DOMAIN t : k = Len(s) + 1 \/ k \in DOMAIN s
  BY AppendIs
<1>2. /\ h[Len(g) + 1] = e /\ Len(g) + 1 \in DOMAIN h /\ Len(g) \in Nat
      /\ \A k \in DOMAIN g : h[k] = g[k] /\ k \in Nat /\ k < Len(g) + 1 /\ k \in DOMAIN h
      /\ \A k \in DOMAIN h : k = Len(g) + 1 \/ k \in DOMAIN g
  BY AppendIs
<1> HIDE DEF t, h
<1>3. ASSUME Loggable(e) PROVE CommonEnd(t, h)
  <2>1. ASSUME NEW i \in DOMAIN t, Loggable(t[i]), \A k \in DOMAIN h : h[k] # t[i],
               NEW k \in DOMAIN h
        PROVE  \E j \in DOMAIN t : i < j /\ t[j] = h[k]
    <3>1. i \in DOMAIN s /\ i < Len(s) + 1 /\ Loggable(s[i]) /\ \A l \in DOMAIN g : g[l] # s[i]
      BY <1>1, <1>2, <2>1
    <3>2. CASE k = Len(g) + 1
      BY <1>1, <1>2, <3>1, <3>2
    <3>3. CASE k \in DOMAIN g
      <4>1. \E j \in DOMAIN s : i < j /\ s[j] = g[k]
        BY <3>1, <3>3 DEF CommonEnd
      <4>2. QED
        BY <1>1, <1>2, <3>3, <4>1
    <3>4. QED
      BY <1>2, <3>2, <3>3
  <2>2. ASSUME NEW k \in DOMAIN h, \A i \in DOMAIN t : t[i] # h[k],
               NEW i \in DOMAIN t, Loggable(t[i])
        PROVE  \E l \in DOMAIN h : k < l /\ h[l] = t[i]
    <3>1. k \in DOMAIN g /\ k < Len(g) + 1 /\ \A j \in DOMAIN s : s[j] # g[k]
      BY <1>1, <1>2, <2>2
    <3>2. CASE i = Len(s) + 1
      BY <1>1, <1>2, <3>1, <3>2
    <3>3. CASE i \in DOMAIN s
      <4>1. \E l \in DOMAIN g : k < l /\ g[l] = s[i]
        BY <1>1, <2>2, <3>1, <3>3 DEF CommonEnd
      <4>2. QED
        BY <1>1, <1>2, <3>3, <4>1
    <3>4. QED
      BY <1>1, <3>2, <3>3
  <2>3. QED
    BY <2>1, <2>2 DEF CommonEnd
<1>4. ASSUME ~Loggable(e) PROVE CommonEnd(t, g)
  <2>1. ASSUME NEW i \in DOMAIN t, Loggable(t[i]), \A k \in DOMAIN g : g[k] # t[i],
               NEW k \in DOMAIN g
        PROVE  \E j \in DOMAIN t : i < j /\ t[j] = g[k]
    <3>1. i \in DOMAIN s /\ t[i] = s[i]
      BY <1>1, <1>4, <2>1
    <3>2. \E j \in DOMAIN s : i < j /\ s[j] = g[k]
      BY <2>1, <3>1 DEF CommonEnd
    <3>3. QED
      BY <1>1, <3>2
  <2>2. ASSUME NEW k \in DOMAIN g, \A i \in DOMAIN t : t[i] # g[k],
               NEW i \in DOMAIN t, Loggable(t[i])
        PROVE  \E l \in DOMAIN g : k < l /\ g[l] = t[i]
    <3>1. i \in DOMAIN s /\ t[i] = s[i]
      BY <1>1, <1>4, <2>2
    <3>2. \A j \in DOMAIN s : s[j] # g[k]
      BY <1>1, <2>2
    <3>3. QED
      BY <2>2, <3>1, <3>2 DEF CommonEnd
  <2>3. QED
    BY <2>1, <2>2 DEF CommonEnd
<1>5. QED
  BY <1>3, <1>4 DEF t, h

-----------------------------------------------------------------------------
(* The oldest leave the feed, or the log. *)

LEMMA EndDropShown ==
  ASSUME NEW s \in Seq(Event), NEW g \in Seq(Event), AllLoggable(g),
         SameOrder(s, g), CommonEnd(s, g),
         NEW t \in Seq(Event), NEW d \in Nat, CutEnd(t, s, d)
  PROVE  CommonEnd(t, g)
<1>1. /\ \A i \in DOMAIN t : d + i \in DOMAIN s /\ t[i] = s[d + i] /\ d + i \in Nat /\ i \in Nat /\ i > 0
      /\ \A j \in DOMAIN s : j > d => j - d \in DOMAIN t /\ t[j - d] = s[j]
      /\ \A j \in DOMAIN s : j \in Nat
  <2>1. Cut(t, s, d)
    BY DEF CutEnd
  <2>2. QED
    BY <2>1, CutIndex
<1>2. ASSUME NEW i \in DOMAIN t, Loggable(t[i]), \A k \in DOMAIN g : g[k] # t[i],
             NEW k \in DOMAIN g
      PROVE  \E j \in DOMAIN t : i < j /\ t[j] = g[k]
  <2>1. PICK j \in DOMAIN s : d + i < j /\ s[j] = g[k]
    <3>1. /\ d + i \in DOMAIN s /\ Loggable(s[d + i])
          /\ \A l \in DOMAIN g : g[l] # s[d + i]
      BY <1>1, <1>2
    <3>2. QED
      BY <1>2, <3>1 DEF CommonEnd
  <2>2. j > d /\ i < j - d
    BY <1>1, <2>1
  <2>3. QED
    BY <1>1, <2>1, <2>2
<1>3. ASSUME NEW k \in DOMAIN g, \A i \in DOMAIN t : t[i] # g[k],
             NEW i \in DOMAIN t, Loggable(t[i])
      PROVE  \E l \in DOMAIN g : k < l /\ g[l] = t[i]
  <2>1. CASE \A j \in DOMAIN s : s[j] # g[k]
    <3>1. d + i \in DOMAIN s /\ Loggable(s[d + i]) /\ t[i] = s[d + i]
      BY <1>1, <1>3
    <3>2. QED
      BY <2>1, <3>1 DEF CommonEnd
  <2>2. ASSUME NEW j \in DOMAIN s, s[j] = g[k] PROVE \E l \in DOMAIN g : k < l /\ g[l] = t[i]
    <3>1. ~(j > d)
      BY <1>1, <1>3, <2>2
    <3>2. j < d + i /\ d + i \in DOMAIN s /\ t[i] = s[d + i]
      BY <1>1, <3>1
    <3>3. CASE \A l \in DOMAIN g : g[l] # s[d + i]
      <4>1. PICK m \in DOMAIN s : d + i < m /\ s[m] = g[k]
        BY <1>3, <3>2, <3>3 DEF CommonEnd
      <4>2. m > d
        BY <1>1, <4>1
      <4>3. QED
        BY <1>1, <1>3, <4>1, <4>2
    <3>4. ASSUME NEW l \in DOMAIN g, g[l] = s[d + i] PROVE k < l
      BY <2>2, <3>2, <3>4 DEF SameOrder
    <3>5. QED
      BY <3>2, <3>3, <3>4
  <2>3. QED
    BY <2>1, <2>2
<1>4. QED
  BY <1>2, <1>3 DEF CommonEnd

LEMMA EndDropLog ==
  ASSUME NEW s \in Seq(Event), NEW g \in Seq(Event), AllLoggable(g),
         SameOrder(s, g), CommonEnd(s, g),
         NEW h \in Seq(Event), NEW d \in Nat, CutEnd(h, g, d)
  PROVE  CommonEnd(s, h)
<1>1. /\ \A i \in DOMAIN h : d + i \in DOMAIN g /\ h[i] = g[d + i] /\ d + i \in Nat /\ i \in Nat /\ i > 0
      /\ \A j \in DOMAIN g : j > d => j - d \in DOMAIN h /\ h[j - d] = g[j]
      /\ \A j \in DOMAIN g : j \in Nat
  <2>1. Cut(h, g, d)
    BY DEF CutEnd
  <2>2. QED
    BY <2>1, CutIndex
<1>2. ASSUME NEW k \in DOMAIN h, \A i \in DOMAIN s : s[i] # h[k],
             NEW i \in DOMAIN s, Loggable(s[i])
      PROVE  \E l \in DOMAIN h : k < l /\ h[l] = s[i]
  <2>1. PICK l \in DOMAIN g : d + k < l /\ g[l] = s[i]
    <3>1. d + k \in DOMAIN g /\ \A j \in DOMAIN s : s[j] # g[d + k]
      BY <1>1, <1>2
    <3>2. QED
      BY <1>2, <3>1 DEF CommonEnd
  <2>2. l > d /\ k < l - d
    BY <1>1, <2>1
  <2>3. QED
    BY <1>1, <2>1, <2>2
<1>3. ASSUME NEW i \in DOMAIN s, Loggable(s[i]), \A k \in DOMAIN h : h[k] # s[i],
             NEW k \in DOMAIN h
      PROVE  \E j \in DOMAIN s : i < j /\ s[j] = h[k]
  <2>1. CASE \A l \in DOMAIN g : g[l] # s[i]
    BY <1>1, <1>3, <2>1 DEF CommonEnd
  <2>2. ASSUME NEW l \in DOMAIN g, g[l] = s[i] PROVE \E j \in DOMAIN s : i < j /\ s[j] = h[k]
    <3>1. ~(l > d)
      BY <1>1, <1>3, <2>2
    <3>2. l < d + k /\ d + k \in DOMAIN g /\ h[k] = g[d + k]
      BY <1>1, <3>1
    <3>3. CASE \A j \in DOMAIN s : s[j] # g[d + k]
      <4>1. PICK m \in DOMAIN g : d + k < m /\ g[m] = s[i]
        BY <1>3, <3>2, <3>3 DEF CommonEnd
      <4>2. m > d
        BY <1>1, <4>1
      <4>3. QED
        BY <1>1, <1>3, <4>1, <4>2
    <3>4. ASSUME NEW j \in DOMAIN s, s[j] = g[d + k] PROVE i < j
      BY <2>2, <3>2, <3>4 DEF SameOrder
    <3>5. QED
      BY <3>2, <3>3, <3>4
  <2>3. QED
    BY <2>1, <2>2
<1>4. QED
  BY <1>2, <1>3 DEF CommonEnd

-----------------------------------------------------------------------------
(* The effect of the graph. *)

LEMMA LatestExists ==
  ASSUME NEW k \in Nat, NEW S \in SUBSET (1 .. k), S # {}
  PROVE  Max(S) \in S /\ \A i \in S : i <= Max(S)
<1> DEFINE R == {k - i : i \in S}
<1>1. R \subseteq Nat /\ R # {}
  <2>1. \A i \in S : k - i \in Nat
    OBVIOUS
  <2>2. QED
    BY <2>1
<1>2. PICK x \in R : \A y \in R : ~(<<y, x>> \in OpToRel(<, Nat))
  BY <1>1, WFMin, NatLessThanWellFounded
<1>3. PICK m \in S : x = k - m
  BY <1>2
<1>4. ASSUME NEW i \in S PROVE i <= m
  <2>1. k - i \in R /\ k - i \in Nat /\ k - m \in Nat /\ i \in Int /\ m \in Int
    OBVIOUS
  <2>2. ~(k - i < k - m)
    BY <1>2, <1>3, <2>1 DEF OpToRel
  <2>3. QED
    BY <2>1, <2>2
<1>5. QED
  BY <1>4 DEF Max

LEMMA RisingLast ==
  ASSUME NEW s \in Seq(Event), Rising(s), NEW i \in DOMAIN s
  PROVE  s # <<>> /\ Len(s) \in DOMAIN s /\ s[i].ts <= Last(s).ts /\ Last(s).ts \in Nat
<1>1. i \in 1 .. Len(s) /\ Len(s) \in DOMAIN s /\ s # <<>> /\ Last(s) = s[Len(s)]
  BY DEF Last
<1>2. s[i].ts \in Nat /\ s[Len(s)].ts \in Nat
  BY <1>1, EventAt
<1>3. i < Len(s) \/ i = Len(s)
  BY <1>1
<1>4. QED
  BY <1>1, <1>2, <1>3 DEF Rising

LEMMA EffectDoes ==
  ASSUME NEW evs \in Seq(Event), NEW seen \in Nat, NEW flows \in SUBSET Nat,
         Effect(evs, seen, flows)
  PROVE  /\ graph' \in [shown : BOOLEAN, lastSeen : Nat, flows : SUBSET Nat]
         /\ graph'.shown
         /\ \A n : n \in graph'.flows <=>
                     n \in flows \/ \E i \in DOMAIN evs : evs[i].n = n /\ evs[i].ts > seen
         /\ again' <=> again \/ \E i \in DOMAIN evs : evs[i].ts > seen /\ evs[i].n \in flows
         /\ Rising(evs) =>
              graph'.lastSeen = IF evs # <<>> /\ Last(evs).ts > seen THEN Last(evs).ts ELSE seen
<1> DEFINE fresh == Fresh(evs, seen)
           new == {evs[i].n : i \in fresh}
           last == IF fresh = {} THEN seen ELSE evs[Max(fresh)].ts
<1>1. /\ graph' = [shown |-> TRUE, flows |-> flows \union new, lastSeen |-> last]
      /\ again' = (again \/ new \intersect flows # {})
  BY DEF Effect
<1>2. fresh = {i \in DOMAIN evs : evs[i].ts > seen} /\ fresh \in SUBSET (1 .. Len(evs))
  BY DEF Fresh
<1> HIDE DEF fresh
<1>3. fresh # {} => Max(fresh) \in fresh /\ \A i \in fresh : i <= Max(fresh)
  <2>1. Len(evs) \in Nat
    OBVIOUS
  <2>2. QED
    BY <1>2, <2>1, LatestExists
<1>4. new \in SUBSET Nat /\ last \in Nat
  <2>1. \A i \in fresh : evs[i].n \in Nat /\ evs[i].ts \in Nat
    BY <1>2, EventAt
  <2>2. QED
    BY <1>3, <2>1
<1>5. \A n : n \in new <=> \E i \in DOMAIN evs : evs[i].n = n /\ evs[i].ts > seen
  BY <1>2
<1>6. ASSUME Rising(evs)
      PROVE  last = IF evs # <<>> /\ Last(evs).ts > seen THEN Last(evs).ts ELSE seen
  <2>1. CASE fresh = {}
    <3>1. ~(evs # <<>> /\ Last(evs).ts > seen)
      <4>1. ASSUME evs # <<>> PROVE ~(Last(evs).ts > seen)
        <5>1. Len(evs) \in DOMAIN evs
          BY <4>1
        <5>2. QED
          BY <1>2, <2>1, <5>1 DEF Last
      <4>2. QED
        BY <4>1
    <3>2. QED
      BY <2>1, <3>1
  <2>2. CASE fresh # {}
    <3>1. PICK i \in DOMAIN evs : evs[i].ts > seen /\ i \in 1 .. Len(evs)
      BY <1>2, <2>2
    <3>2. /\ evs # <<>> /\ Len(evs) \in DOMAIN evs /\ Last(evs).ts \in Nat
          /\ evs[i].ts <= Last(evs).ts
      BY <1>6, RisingLast
    <3>3. evs[i].ts \in Nat
      BY EventAt
    <3>4. Last(evs).ts > seen
      BY <3>1, <3>2, <3>3
    <3>5. Len(evs) \in fresh
      BY <1>2, <3>2, <3>4 DEF Last
    <3>6. Max(fresh) = Len(evs)
      <4>1. Max(fresh) \in 1 .. Len(evs) /\ Len(evs) <= Max(fresh)
        BY <1>2, <1>3, <2>2, <3>5
      <4>2. QED
        BY <4>1
    <3>7. QED
      BY <2>2, <3>2, <3>4, <3>6 DEF Last
  <2>3. QED
    BY <2>1, <2>2
<1> HIDE DEF new, last
<1>7. graph'.shown = TRUE /\ graph'.flows = flows \union new /\ graph'.lastSeen = last
  BY <1>1
<1>8. graph' \in [shown : BOOLEAN, lastSeen : Nat, flows : SUBSET Nat]
  BY <1>1, <1>4
<1>9. \A n : n \in graph'.flows <=>
               n \in flows \/ \E i \in DOMAIN evs : evs[i].n = n /\ evs[i].ts > seen
  BY <1>5, <1>7
<1>10. again' <=> again \/ \E i \in DOMAIN evs : evs[i].ts > seen /\ evs[i].n \in flows
  <2>1. new \intersect flows # {} <=> \E n \in flows : n \in new
    OBVIOUS
  <2>2. QED
    BY <1>1, <1>5, <2>1
<1>11. QED
  BY <1>6, <1>7, <1>8, <1>9, <1>10

-----------------------------------------------------------------------------
(* The invariant. *)

TypesOK ==
  /\ now \in Nat \ {0} /\ count \in Nat
  /\ channel \in [Agents -> Seq(Event)]
  /\ log \in Seq(Event) /\ wire \in Seq(Event)
  /\ buffer \in Seq(Event) /\ events \in Seq(Event)
  /\ graph \in [shown : BOOLEAN, lastSeen : Nat, flows : SUBSET Nat]

\* What has left the agents' channels.
Known(n) == Has(log, n) \/ Has(Line, n) \/ Has(events, n) \/ n \in graph.flows

\* An event is on one channel, or known; on its way to the dashboard, or there.
Numbers ==
  /\ \A a \in Agents : Distinct(channel[a])
  /\ \A a, b \in Agents, n \in Nat : Has(channel[a], n) /\ Has(channel[b], n) => a = b
  /\ \A a \in Agents, n \in Nat : Has(channel[a], n) => n <= count /\ ~Known(n)
  /\ \A n \in Nat : Known(n) => n <= count
  /\ Distinct(Line)
  /\ \A i \in DOMAIN wire : ~Has(events, wire[i].n) /\ wire[i].n \notin graph.flows

History ==
  /\ AllLoggable(log)
  /\ SameOrder(Line, log)
  /\ ~lost => socket /\ CommonEnd(Line, log)

\* What is rendered is the buffer of an earlier moment.
Rendered ==
  /\ Rising(events)
  /\ events # <<>> => buffer # <<>> /\ Last(events).ts <= Last(buffer).ts
  /\ \A i \in DOMAIN buffer :
       Has(events, buffer[i].n) <=> events # <<>> /\ buffer[i].ts <= Last(events).ts

\* lastSeen divides the buffer in what has been animated and what has not.
Animated ==
  /\ \A i \in DOMAIN buffer : buffer[i].n \in graph.flows <=> buffer[i].ts <= graph.lastSeen
  /\ \A i \in DOMAIN events : events[i].n \in graph.flows
  /\ IF buffer = <<>> THEN graph.lastSeen = 0 ELSE graph.lastSeen <= Last(buffer).ts

Screen ==
  ~disorder => /\ ~again
               /\ Rising(buffer) /\ Rendered
               /\ graph.shown => Animated

Inv == TypesOK /\ Numbers /\ History /\ Screen

LEMMA InitInv == Init => Inv
<1> SUFFICES ASSUME Init PROVE Inv
  OBVIOUS
<1>1. /\ now = 1 /\ count = 0 /\ channel = [a \in Agents |-> <<>>]
      /\ log = <<>> /\ wire = <<>> /\ buffer = <<>> /\ events = <<>>
      /\ socket = TRUE /\ graph = NotShown /\ lost = FALSE /\ again = FALSE
  BY DEF Init
<1>2. \A n : ~Has(<<>>, n)
  BY DEF Has
<1>3. Line = <<>> /\ graph.shown = FALSE /\ graph.flows = {}
  BY <1>1 DEF Line, NotShown
<1>4. TypesOK
  BY <1>1 DEF TypesOK, NotShown
<1>5. \A n : ~Known(n)
  BY <1>1, <1>2, <1>3 DEF Known
<1>6. Distinct(<<>>) /\ Rising(<<>>) /\ SameOrder(<<>>, <<>>) /\ CommonEnd(<<>>, <<>>)
      /\ AllLoggable(<<>>)
  BY DEF Distinct, Rising, SameOrder, CommonEnd, AllLoggable
<1>7. Numbers
  BY <1>1, <1>2, <1>3, <1>5, <1>6 DEF Numbers
<1>8. History
  BY <1>1, <1>3, <1>6 DEF History
<1>9. Screen
  BY <1>1, <1>3, <1>6 DEF Screen, Rendered
<1>10. QED
  BY <1>4, <1>7, <1>8, <1>9 DEF Inv

-----------------------------------------------------------------------------
(* The steps. *)

LEMMA LineIs ==
  ASSUME TypesOK
  PROVE  /\ Line \in Seq(Event) /\ Len(Line) = Len(buffer) + Len(wire)
         /\ Len(buffer) \in Nat /\ Len(wire) \in Nat
         /\ Cut(buffer, Line, 0) /\ CutEnd(wire, Line, Len(buffer))
<1>1. buffer \in Seq(Event) /\ wire \in Seq(Event) /\ Len(buffer) \in Nat /\ Len(wire) \in Nat
  BY DEF TypesOK
<1>2. /\ Line \in Seq(Event) /\ Len(Line) = Len(buffer) + Len(wire)
      /\ \A i \in 1 .. Len(buffer) + Len(wire) :
           Line[i] = IF i <= Len(buffer) THEN buffer[i] ELSE wire[i - Len(buffer)]
  BY <1>1, ConcatProperties DEF Line
<1>3. Cut(buffer, Line, 0)
  <2>1. \A i \in 1 .. Len(buffer) :
          i \in 1 .. Len(buffer) + Len(wire) /\ i <= Len(buffer) /\ 0 + i = i
    BY <1>1
  <2>2. Len(buffer) + 0 <= Len(Line)
    BY <1>1, <1>2
  <2>3. QED
    BY <1>2, <2>1, <2>2 DEF Cut
<1>4. CutEnd(wire, Line, Len(buffer))
  <2>1. \A i \in 1 .. Len(wire) : /\ Len(buffer) + i \in 1 .. Len(buffer) + Len(wire)
                                  /\ ~(Len(buffer) + i <= Len(buffer))
                                  /\ (Len(buffer) + i) - Len(buffer) = i
    BY <1>1
  <2>2. \A i \in 1 .. Len(wire) : wire[i] = Line[Len(buffer) + i]
    BY <1>2, <2>1
  <2>3. Len(wire) + Len(buffer) = Len(Line) /\ Len(wire) + Len(buffer) <= Len(Line)
    BY <1>1, <1>2
  <2>4. QED
    BY <2>2, <2>3 DEF Cut, CutEnd
<1>5. QED
  BY <1>1, <1>2, <1>3, <1>4

\* What is in the dashboard is not on its way to it.
LEMMA Apart ==
  ASSUME Inv, NEW i \in DOMAIN wire
  PROVE  ~Has(buffer, wire[i].n)
<1>1. TypesOK /\ Distinct(Line)
  BY DEF Inv, Numbers
<1>2. /\ Line \in Seq(Event) /\ buffer \in Seq(Event) /\ wire \in Seq(Event)
      /\ Cut(buffer, Line, 0) /\ Cut(wire, Line, Len(buffer)) /\ Len(buffer) \in Nat
  BY <1>1, LineIs DEF TypesOK, CutEnd
<1>3. /\ i \in 1 .. Len(wire) /\ Len(buffer) + i \in DOMAIN Line
      /\ wire[i] = Line[Len(buffer) + i]
  BY <1>2, CutIndex
<1>4. ASSUME NEW j \in DOMAIN buffer, buffer[j].n = wire[i].n PROVE FALSE
  <2>1. j \in 1 .. Len(buffer) /\ 0 + j \in DOMAIN Line /\ buffer[j] = Line[0 + j]
    BY <1>2, CutIndex
  <2>2. 0 + j = Len(buffer) + i
    BY <1>1, <1>3, <1>4, <2>1 DEF Distinct
  <2>3. QED
    BY <1>2, <1>3, <2>1, <2>2
<1>5. QED
  BY <1>4 DEF Has

LEMMA KnownHas ==
  ASSUME TypesOK, NEW n
  PROVE  (Has(buffer, n) => Known(n)) /\ (Has(wire, n) => Known(n))
<1>1. /\ Line \in Seq(Event) /\ buffer \in Seq(Event) /\ wire \in Seq(Event) /\ 0 \in Nat
      /\ Cut(buffer, Line, 0) /\ Cut(wire, Line, Len(buffer)) /\ Len(buffer) \in Nat
  BY LineIs DEF TypesOK, CutEnd
<1>2. Has(buffer, n) => Has(Line, n)
  BY <1>1, CutHas
<1>3. Has(wire, n) => Has(Line, n)
  BY <1>1, CutHas
<1>4. QED
  BY <1>2, <1>3 DEF Known

\* A step that takes no event from an agent, nor adds one.
LEMMA NumbersKept ==
  ASSUME Numbers, channel' = channel, count' = count,
         \A n \in Nat : Known(n)' => Known(n), Distinct(Line)',
         (\A i \in DOMAIN wire : ~Has(events, wire[i].n) /\ wire[i].n \notin graph.flows)'
  PROVE  Numbers'
  BY DEF Numbers

\* An agent's next event has not been seen.
LEMMA EmitKeeps ==
  ASSUME Inv, NEW a \in Agents, NEW logged \in BOOLEAN, NEW t, Emit(a, logged, t)
  PROVE  Inv'
<1> DEFINE e == [n |-> count + 1, ts |-> t, logged |-> logged]
<1>1. /\ t \in {now, now + 1} /\ now' = t /\ count' = count + 1
      /\ channel' = [channel EXCEPT ![a] = Append(@, e)]
      /\ log' = log /\ wire' = wire /\ buffer' = buffer /\ events' = events /\ graph' = graph
      /\ socket' = socket /\ lost' = lost /\ disorder' = disorder /\ again' = again
  BY DEF Emit, screen
<1>2. /\ now \in Nat \ {0} /\ count \in Nat /\ channel \in [Agents -> Seq(Event)]
      /\ TypesOK /\ Numbers
  BY DEF Inv, TypesOK
<1>3. t \in Nat \ {0} /\ e \in Event /\ e.n = count + 1
  BY <1>1, <1>2 DEF Event
<1> HIDE DEF e
<1>4. TypesOK'
  BY <1>1, <1>2, <1>3 DEF TypesOK
<1>5. /\ \A b \in Agents : channel[b] \in Seq(Event)
      /\ \A b \in Agents : channel'[b] = IF b = a THEN Append(channel[a], e) ELSE channel[b]
  BY <1>1, <1>2
<1>6. \A b \in Agents, n \in Nat :
        Has(channel'[b], n) <=> Has(channel[b], n) \/ (b = a /\ n = count + 1)
  <2>1. \A n : Has(Append(channel[a], e), n) <=> Has(channel[a], n) \/ n = count + 1
    BY <1>3, <1>5, AppendHas
  <2>2. QED
    BY <1>5, <2>1
<1>7. (\A n : Known(n)' <=> Known(n)) /\ Line' = Line
  BY <1>1 DEF Known, Line
<1>8. /\ \A b, c \in Agents, n \in Nat : Has(channel[b], n) /\ Has(channel[c], n) => b = c
      /\ \A b \in Agents, n \in Nat : Has(channel[b], n) => n <= count /\ ~Known(n)
      /\ \A n \in Nat : Known(n) => n <= count
      /\ \A b \in Agents : Distinct(channel[b])
  BY <1>2 DEF Numbers
<1>9. /\ count + 1 \in Nat /\ ~(count + 1 <= count)
      /\ \A n \in Nat : n <= count => n <= count + 1
  BY <1>2
<1>10. ~Known(count + 1) /\ \A b \in Agents : ~Has(channel[b], count + 1)
  BY <1>8, <1>9
<1>11. \A b \in Agents : Distinct(channel'[b])
  <2>1. Distinct(Append(channel[a], e))
    BY <1>3, <1>5, <1>8, <1>10, AppendDistinct
  <2>2. QED
    BY <1>5, <1>8, <2>1
<1>12. \A b, c \in Agents, n \in Nat : Has(channel'[b], n) /\ Has(channel'[c], n) => b = c
  BY <1>6, <1>8, <1>10
<1>13. \A b \in Agents, n \in Nat : Has(channel'[b], n) => n <= count' /\ ~Known(n)'
  BY <1>1, <1>6, <1>7, <1>8, <1>9, <1>10
<1>14. \A n \in Nat : Known(n)' => n <= count'
  BY <1>1, <1>7, <1>8, <1>9
<1>15. Numbers'
  <2>1. /\ Distinct(Line)'
        /\ (\A i \in DOMAIN wire : ~Has(events, wire[i].n) /\ wire[i].n \notin graph.flows)'
    BY <1>1, <1>2, <1>7 DEF Numbers
  <2>2. QED
    BY <1>11, <1>12, <1>13, <1>14, <2>1 DEF Numbers
<1>16. History' /\ Screen'
  BY <1>1, <1>7 DEF Inv, History, Screen, Rendered, Animated
<1>17. QED
  BY <1>4, <1>15, <1>16 DEF Inv

\* What is logged and published goes to the ends of the log and of the feed.
LEMMA SinkKeeps ==
  ASSUME Inv, NEW a \in Agents, Sink(a)
  PROVE  Inv'
<1> DEFINE e == Head(channel[a])
<1>1. /\ channel[a] # <<>> /\ log' = Ingest(e) /\ wire' = (IF socket THEN Append(wire, e) ELSE wire)
      /\ channel' = [channel EXCEPT ![a] = Tail(@)]
      /\ now' = now /\ count' = count /\ buffer' = buffer /\ events' = events /\ graph' = graph
      /\ socket' = socket /\ lost' = lost /\ disorder' = disorder /\ again' = again
  BY DEF Sink, Publish, screen
<1>2. /\ channel \in [Agents -> Seq(Event)] /\ log \in Seq(Event) /\ wire \in Seq(Event)
      /\ buffer \in Seq(Event) /\ TypesOK /\ Numbers /\ History
  BY DEF Inv, TypesOK
<1>3. /\ \A b \in Agents : channel[b] \in Seq(Event)
      /\ \A b \in Agents : channel'[b] = IF b = a THEN Tail(channel[a]) ELSE channel[b]
  BY <1>1, <1>2
<1>4. /\ e \in Event /\ 1 \in DOMAIN channel[a] /\ channel[a][1] = e /\ e.n \in Nat
      /\ Tail(channel[a]) \in Seq(Event) /\ CutEnd(Tail(channel[a]), channel[a], 1)
  <2> DEFINE c == channel[a]
  <2>1. c \in Seq(Event) /\ c # <<>>
    BY <1>1, <1>3
  <2> HIDE DEF c
  <2>2. 1 \in DOMAIN c /\ Head(c) = c[1] /\ Len(c) \in Nat
    BY <2>1
  <2>3. /\ Tail(c) \in Seq(Event) /\ Len(Tail(c)) = Len(c) - 1
        /\ \A i \in 1 .. Len(Tail(c)) : Tail(c)[i] = c[i + 1]
    BY <2>1, HeadTailProperties
  <2>4. \A i \in 1 .. Len(Tail(c)) : i + 1 = 1 + i
    BY <2>2, <2>3
  <2>5. CutEnd(Tail(c), c, 1)
    BY <2>2, <2>3, <2>4 DEF Cut, CutEnd
  <2>6. QED
    BY <2>1, <2>2, <2>3, <2>5, EventAt DEF c
<1>5. /\ \A b \in Agents, n \in Nat : Has(channel'[b], n) => Has(channel[b], n)
      /\ \A b \in Agents : ~Has(channel'[b], e.n)
      /\ \A b \in Agents : Distinct(channel'[b])
  <2> DEFINE c == channel[a]
  <2>1. c \in Seq(Event) /\ Tail(c) \in Seq(Event) /\ Cut(Tail(c), c, 1) /\ Distinct(c) /\ 1 \in Nat
    BY <1>2, <1>3, <1>4 DEF CutEnd, Numbers
  <2>2. 1 \in DOMAIN c /\ c[1] = e
    BY <1>4
  <2> HIDE DEF c, e
  <2>3. \A n : Has(Tail(c), n) => Has(c, n)
    BY <2>1, CutHas
  <2>4. Distinct(Tail(c))
    BY <2>1, CutDistinct
  <2>5. ~Has(Tail(c), e.n)
    <3>1. ASSUME NEW i \in DOMAIN Tail(c), Tail(c)[i].n = e.n PROVE FALSE
      <4>1. 1 + i \in DOMAIN c /\ Tail(c)[i] = c[1 + i] /\ i \in 1 .. Len(Tail(c))
        BY <2>1, CutIndex
      <4>2. 1 + i = 1
        BY <2>1, <2>2, <3>1, <4>1 DEF Distinct
      <4>3. QED
        BY <4>1, <4>2
    <3>2. QED
      BY <3>1 DEF Has
  <2>6. \A b \in Agents : b # a => ~Has(channel[b], e.n)
    <3>1. Has(channel[a], e.n)
      BY <2>2 DEF Has, c
    <3>2. QED
      BY <1>2, <1>4, <3>1 DEF Numbers
  <2>7. \A b \in Agents : channel'[b] = IF b = a THEN Tail(c) ELSE channel[b]
    BY <1>3 DEF c
  <2>8. \A b \in Agents : Distinct(channel[b])
    BY <1>2 DEF Numbers
  <2>9. QED
    BY <2>3, <2>4, <2>5, <2>6, <2>7, <2>8 DEF c
<1>6. ~Known(e.n) /\ e.n <= count
  <2>1. Has(channel[a], e.n)
    BY <1>4 DEF Has
  <2>2. QED
    BY <1>2, <1>4, <2>1 DEF Numbers
<1> HIDE DEF e
<1>7. ~Has(log, e.n) /\ ~Has(Line, e.n)
  BY <1>6 DEF Known
<1>8. wire' \in Seq(Event) /\ Line \in Seq(Event) /\ Line' = IF socket THEN Append(Line, e) ELSE Line
  <2>1. Append(wire, e) \in Seq(Event) /\ Line \in Seq(Event)
    BY <1>2, <1>4, LineIs
  <2>2. buffer \o Append(wire, e) = Append(buffer \o wire, e)
    BY <1>2, <1>4
  <2>3. QED
    BY <1>1, <1>2, <2>1, <2>2 DEF Line
<1>9. PICK more \in {log, Append(log, e)} :
        /\ more = IF Loggable(e) THEN Append(log, e) ELSE log
        /\ \E d \in Nat : CutEnd(log', more, d)
        /\ more \in Seq(Event) /\ log' \in Seq(Event)
  <2>1. CASE Loggable(e)
    <3>1. Append(log, e) \in Seq(Event) /\ MaxLog \in Nat
      BY <1>2, <1>4, DashboardAssumption
    <3>2. log' = Latest(Append(log, e), MaxLog)
      BY <1>1, <2>1 DEF Ingest
    <3>3. /\ log' \in Seq(Event)
          /\ \E d \in 0 .. Len(Append(log, e)) : CutEnd(log', Append(log, e), d)
      BY <3>1, <3>2, LatestIs
    <3>4. QED
      BY <2>1, <3>1, <3>3
  <2>2. CASE ~Loggable(e)
    <3>1. log' = log
      BY <1>1, <2>2 DEF Ingest
    <3>2. CutEnd(log', log, 0)
      BY <1>2, <3>1, CutSelf
    <3>3. QED
      BY <1>2, <2>2, <3>1, <3>2
  <2>3. QED
    BY <2>1, <2>2
<1>10. PICK d \in Nat : CutEnd(log', more, d)
  BY <1>9
<1>11. AllLoggable(more) /\ \A n : Has(more, n) => Has(log, n) \/ n = e.n
  <2>1. AllLoggable(log)
    BY <1>2 DEF History
  <2>2. Loggable(e) => AllLoggable(Append(log, e))
    BY <1>2, <1>4, <2>1, AppendIs DEF AllLoggable
  <2>3. \A n : Has(Append(log, e), n) <=> Has(log, n) \/ n = e.n
    BY <1>2, <1>4, AppendHas
  <2>4. QED
    BY <1>9, <2>1, <2>2, <2>3
<1>12. AllLoggable(log') /\ \A n : Has(log', n) => Has(log, n) \/ n = e.n
  <2>1. Cut(log', more, d)
    BY <1>10 DEF CutEnd
  <2>2. \A n : Has(log', n) => Has(more, n)
    BY <1>9, <2>1, CutHas
  <2>3. \A i \in DOMAIN log' : d + i \in DOMAIN more /\ log'[i] = more[d + i]
    BY <1>9, <2>1, CutIndex
  <2>4. AllLoggable(log')
    BY <1>11, <2>3 DEF AllLoggable
  <2>5. QED
    BY <1>11, <2>2, <2>4
<1>13. SameOrder(Line', log')
  <2>1. SameOrder(Line, log)
    BY <1>2 DEF History
  <2>2. /\ SameOrder(Append(Line, e), log) /\ SameOrder(Line, Append(log, e))
        /\ SameOrder(Append(Line, e), Append(log, e))
    BY <1>2, <1>4, <1>7, <1>8, <2>1, SameAppend
  <2>3. SameOrder(Line', more)
    BY <1>8, <1>9, <2>1, <2>2
  <2>4. Line' \in Seq(Event) /\ Cut(Line', Line', 0) /\ Cut(log', more, d)
    <3>1. Line' \in Seq(Event)
      BY <1>4, <1>8
    <3>2. CutEnd(Line', Line', 0)
      BY <3>1, CutSelf
    <3>3. QED
      BY <1>10, <3>1, <3>2 DEF CutEnd
  <2>5. QED
    BY <1>9, <2>3, <2>4, CutSame
<1>14. ASSUME ~lost PROVE CommonEnd(Line', log')
  <2>1. socket /\ CommonEnd(Line, log) /\ AllLoggable(log) /\ SameOrder(Line, log)
    BY <1>2, <1>14 DEF History
  <2>2. Line' = Append(Line, e)
    BY <1>8, <2>1
  <2>3. CommonEnd(Line', more)
    BY <1>2, <1>4, <1>8, <1>9, <2>1, <2>2, EndAppend
  <2>4. SameOrder(Line', more)
    BY <1>2, <1>4, <1>7, <1>8, <1>9, <2>1, <2>2, SameAppend
  <2>5. Line' \in Seq(Event)
    BY <1>4, <1>8, <2>2
  <2>6. QED
    BY <1>9, <1>10, <1>11, <2>3, <2>4, <2>5, EndDropLog
<1>15. History'
  BY <1>1, <1>2, <1>12, <1>13, <1>14 DEF History
<1>16. \A n : Known(n)' => Known(n) \/ n = e.n
  <2>1. \A n : Has(Line', n) => Has(Line, n) \/ n = e.n
    BY <1>4, <1>8, AppendHas
  <2>2. QED
    BY <1>1, <1>12, <2>1 DEF Known
<1>17. Distinct(Line')
  <2>1. Distinct(Line)
    BY <1>2 DEF Numbers
  <2>2. QED
    BY <1>4, <1>7, <1>8, <2>1, AppendDistinct
<1>18. \A i \in DOMAIN wire' : ~Has(events', wire'[i].n) /\ wire'[i].n \notin graph'.flows
  <2>1. /\ \A i \in DOMAIN wire : ~Has(events, wire[i].n) /\ wire[i].n \notin graph.flows
        /\ ~Has(events, e.n) /\ e.n \notin graph.flows
    BY <1>2, <1>6 DEF Numbers, Known
  <2>2. \A i \in DOMAIN wire' : wire'[i] = e \/ (i \in DOMAIN wire /\ wire'[i] = wire[i])
    BY <1>1, <1>2, <1>4, AppendIs
  <2>3. QED
    BY <1>1, <2>1, <2>2
<1>19. Numbers'
  <2>1. /\ \A b, c \in Agents, n \in Nat : Has(channel[b], n) /\ Has(channel[c], n) => b = c
        /\ \A b \in Agents, n \in Nat : Has(channel[b], n) => n <= count /\ ~Known(n)
        /\ \A n \in Nat : Known(n) => n <= count
    BY <1>2 DEF Numbers
  <2>2. \A b, c \in Agents, n \in Nat : Has(channel'[b], n) /\ Has(channel'[c], n) => b = c
    BY <1>5, <2>1
  <2>3. \A b \in Agents, n \in Nat : Has(channel'[b], n) => n <= count' /\ ~Known(n)'
    BY <1>1, <1>5, <1>16, <2>1
  <2>4. \A n \in Nat : Known(n)' => n <= count'
    BY <1>1, <1>6, <1>16, <2>1
  <2>5. QED
    BY <1>5, <1>17, <1>18, <2>2, <2>3, <2>4 DEF Numbers
<1>20. TypesOK'
  <2>1. channel' \in [Agents -> Seq(Event)]
    BY <1>1, <1>2, <1>4
  <2>2. QED
    BY <1>1, <1>2, <1>8, <1>9, <2>1 DEF TypesOK
<1>21. Screen'
  BY <1>1 DEF Inv, Screen, Rendered, Animated
<1>22. QED
  BY <1>15, <1>19, <1>20, <1>21 DEF Inv

\* A message moves from the wire to the buffer, and the oldest may leave it.
LEMMA MessageLine ==
  ASSUME TypesOK, wire # <<>>, NEW old \in Seq(Event), NEW d \in 0 .. Len(buffer),
         CutEnd(old, buffer, d)
  PROVE  /\ Append(old, Head(wire)) \o Tail(wire) \in Seq(Event)
         /\ CutEnd(Append(old, Head(wire)) \o Tail(wire), Line, d)
<1> DEFINE e == Head(wire)
           b == Append(old, e)
           w == Tail(wire)
           t == b \o w
<1>1. /\ wire \in Seq(Event) /\ buffer \in Seq(Event) /\ Line \in Seq(Event)
      /\ Len(Line) = Len(buffer) + Len(wire)
      /\ Cut(buffer, Line, 0) /\ Cut(wire, Line, Len(buffer))
      /\ Len(buffer) \in Nat /\ Len(wire) \in Nat /\ Len(old) \in Nat /\ d \in Nat
  BY LineIs DEF TypesOK, CutEnd
<1>2. e \in Event /\ e = wire[1] /\ 1 \in 1 .. Len(wire) /\ Len(wire) >= 1
  BY <1>1
<1>3. /\ w \in Seq(Event) /\ Len(w) = Len(wire) - 1 /\ Len(w) \in Nat
      /\ \A i \in 1 .. Len(w) : w[i] = wire[i + 1]
  BY <1>1, HeadTailProperties
<1> HIDE DEF e, w
<1>4. /\ b \in Seq(Event) /\ Len(b) = Len(old) + 1 /\ b[Len(old) + 1] = e
      /\ \A i \in 1 .. Len(old) : b[i] = old[i]
  BY <1>2, AppendProperties
<1> HIDE DEF b
<1>5. /\ t \in Seq(Event) /\ Len(t) = Len(b) + Len(w)
      /\ \A i \in 1 .. Len(b) + Len(w) : t[i] = IF i <= Len(b) THEN b[i] ELSE w[i - Len(b)]
  BY <1>3, <1>4, ConcatProperties
<1> HIDE DEF t
<1>6. /\ Len(old) + d = Len(buffer) /\ \A i \in 1 .. Len(old) : old[i] = buffer[d + i]
  BY DEF CutEnd, Cut
<1>7. /\ \A i \in 1 .. Len(buffer) : buffer[i] = Line[i]
      /\ \A i \in 1 .. Len(wire) : wire[i] = Line[Len(buffer) + i]
  <2>1. \A i \in 1 .. Len(buffer) : buffer[i] = Line[0 + i] /\ 0 + i = i
    BY <1>1 DEF Cut
  <2>2. QED
    BY <1>1, <2>1 DEF Cut
<1>8. PICK x, y \in Nat : x = Len(old) /\ y = Len(w)
  BY <1>1, <1>3
<1>9. /\ Len(b) = x + 1 /\ Len(wire) = y + 1 /\ x + d = Len(buffer) /\ Len(t) = x + 1 + y
      /\ Len(Line) = x + d + y + 1 /\ Len(t) + d = Len(Line)
  <2>1. Len(b) = x + 1 /\ Len(t) = Len(b) + y
    BY <1>4, <1>5, <1>8
  <2>2. y = Len(wire) - 1 /\ Len(wire) \in Nat
    BY <1>1, <1>3, <1>8
  <2>3. x + d = Len(buffer) /\ Len(Line) = Len(buffer) + Len(wire)
    BY <1>1, <1>6, <1>8
  <2>4. d \in Nat
    BY <1>1
  <2>5. Len(wire) = y + 1
    BY <2>2
  <2>6. Len(t) = x + 1 + y /\ Len(Line) = x + d + y + 1
    BY <2>1, <2>3, <2>4, <2>5
  <2>7. Len(t) + d = Len(Line)
    BY <2>4, <2>6
  <2>8. QED
    BY <2>1, <2>3, <2>5, <2>6, <2>7
<1>10. ASSUME NEW i \in 1 .. Len(t) PROVE t[i] = Line[d + i]
  <2>1. i \in Nat /\ i >= 1 /\ i <= x + 1 + y /\ i \in 1 .. Len(b) + Len(w)
    BY <1>5, <1>8, <1>9
  <2>2. d \in Nat /\ x \in Nat /\ y \in Nat
    BY <1>1, <1>8
  <2>3. CASE i <= x
    <3>1. i \in 1 .. x /\ i <= x + 1 /\ d + i \in 1 .. x + d
      BY <2>1, <2>2, <2>3
    <3>2. t[i] = b[i]
      BY <1>5, <1>9, <2>1, <3>1
    <3>3. b[i] = old[i] /\ old[i] = buffer[d + i]
      BY <1>4, <1>6, <1>8, <3>1
    <3>4. buffer[d + i] = Line[d + i]
      BY <1>7, <1>9, <3>1
    <3>5. QED
      BY <3>2, <3>3, <3>4
  <2>4. CASE i = x + 1
    <3>1. d + i = (x + d) + 1
      BY <2>2, <2>4
    <3>2. t[i] = b[x + 1] /\ b[x + 1] = wire[1]
      <4>1. x + 1 <= x + 1
        BY <2>2
      <4>2. QED
        BY <1>2, <1>4, <1>5, <1>8, <1>9, <2>1, <2>4, <4>1
    <3>3. wire[1] = Line[(x + d) + 1]
      BY <1>2, <1>7, <1>9
    <3>4. QED
      BY <3>1, <3>2, <3>3
  <2>5. CASE i > x + 1
    <3>1. PICK k \in Nat : k = i - (x + 1) /\ k \in 1 .. y /\ k + 1 \in 1 .. y + 1
                           /\ (x + d) + (k + 1) = d + i
      <4>1. /\ i - (x + 1) \in 1 .. y /\ i - (x + 1) \in Nat /\ (i - (x + 1)) + 1 \in 1 .. y + 1
            /\ (x + d) + ((i - (x + 1)) + 1) = d + i
        BY <2>1, <2>2, <2>5
      <4>2. QED
        BY <4>1
    <3>2. t[i] = w[k]
      <4>1. ~(i <= x + 1)
        BY <2>1, <2>2, <2>5
      <4>2. QED
        BY <1>5, <1>9, <2>1, <3>1, <4>1
    <3>3. w[k] = wire[k + 1]
      BY <1>3, <1>8, <3>1
    <3>4. wire[k + 1] = Line[(x + d) + (k + 1)]
      BY <1>7, <1>9, <3>1
    <3>5. QED
      BY <3>1, <3>2, <3>3, <3>4
  <2>6. QED
    BY <2>1, <2>2, <2>3, <2>4, <2>5
<1>11. CutEnd(t, Line, d)
  <2>1. Len(t) + d <= Len(Line)
    BY <1>9, <1>1
  <2>2. QED
    BY <1>9, <1>10, <2>1 DEF Cut, CutEnd
<1>12. QED
  BY <1>5, <1>11 DEF t, b, e, w

\* A buffer to which a later event is added, while the screen does not change.
LEMMA MessageScreen ==
  ASSUME Inv, wire # <<>>, NEW old \in Seq(Event), NEW d \in Nat, Cut(old, buffer, d),
         ~disorder, ~(buffer # <<>> /\ Head(wire).ts <= Last(buffer).ts),
         buffer' = Append(old, Head(wire)), events' = events, graph' = graph, again' = again
  PROVE  /\ ~again' /\ Rising(buffer') /\ Rendered'
         /\ graph'.shown => Animated'
<1> DEFINE e == Head(wire)
           b == Append(old, e)
<1>1. /\ wire \in Seq(Event) /\ buffer \in Seq(Event) /\ events \in Seq(Event)
      /\ graph \in [shown : BOOLEAN, lastSeen : Nat, flows : SUBSET Nat]
  BY DEF Inv, TypesOK
<1>2. /\ ~again /\ Rising(buffer) /\ Rendered /\ (graph.shown => Animated)
  BY DEF Inv, Screen
<1>3. e \in Event /\ e.ts \in Nat /\ e.ts > 0 /\ 1 \in DOMAIN wire /\ e = wire[1]
  <2>1. 1 \in DOMAIN wire /\ e = wire[1]
    BY <1>1
  <2>2. QED
    BY <1>1, <2>1, EventAt
<1>4. ~Has(events, e.n) /\ e.n \notin graph.flows
  BY <1>3 DEF Inv, Numbers
<1>5. buffer # <<>> => Last(buffer).ts < e.ts /\ Last(buffer).ts \in Nat
  <2>1. ASSUME buffer # <<>> PROVE Last(buffer).ts < e.ts /\ Last(buffer).ts \in Nat
    <3>1. Len(buffer) \in DOMAIN buffer /\ Last(buffer) = buffer[Len(buffer)]
      BY <1>1, <2>1 DEF Last
    <3>2. Last(buffer).ts \in Nat
      BY <1>1, <3>1, EventAt
    <3>3. QED
      BY <1>3, <2>1, <3>2
  <2>2. QED
    BY <2>1
<1> HIDE DEF e
<1>6. \A i \in DOMAIN buffer : buffer[i].ts < e.ts
  <2>1. ASSUME NEW i \in DOMAIN buffer PROVE buffer[i].ts < e.ts
    <3>1. buffer # <<>> /\ buffer[i].ts <= Last(buffer).ts
      BY <1>1, <1>2, RisingLast
    <3>2. buffer[i].ts \in Nat
      BY <1>1, EventAt
    <3>3. QED
      BY <1>3, <1>5, <3>1, <3>2
  <2>2. QED
    BY <2>1
<1>7. Rising(b)
  <2>1. Rising(old)
    BY <1>1, <1>2, CutRising
  <2>2. \A i \in DOMAIN old : old[i].ts < e.ts
    BY <1>1, <1>6, CutIndex
  <2>3. QED
    BY <1>3, <2>1, <2>2, AppendRising
<1>8. /\ b \in Seq(Event) /\ b # <<>> /\ Last(b) = e
      /\ \A i \in DOMAIN b : b[i] = e \/ \E j \in DOMAIN buffer : b[i] = buffer[j]
  <2>1. /\ DOMAIN b = 1 .. Len(old) + 1 /\ b[Len(old) + 1] = e /\ Len(b) = Len(old) + 1
        /\ \A i \in DOMAIN b : i = Len(old) + 1 \/ i \in DOMAIN old
        /\ \A i \in DOMAIN old : b[i] = old[i]
    BY <1>3, AppendIs
  <2>2. \A i \in DOMAIN old : \E j \in DOMAIN buffer : old[i] = buffer[j]
    BY <1>1, CutIndex
  <2>3. b \in Seq(Event) /\ b # <<>>
    BY <1>3, AppendProperties
  <2> HIDE DEF b
  <2>4. QED
    BY <2>1, <2>2, <2>3 DEF Last
<1>9. buffer' = b /\ graph'.flows = graph.flows /\ graph'.lastSeen = graph.lastSeen
  BY DEF e
<1> HIDE DEF b
<1>10. Rendered'
  <2>1. /\ Rising(events) /\ (events # <<>> => buffer # <<>> /\ Last(events).ts <= Last(buffer).ts)
        /\ \A i \in DOMAIN buffer :
             Has(events, buffer[i].n) <=> events # <<>> /\ buffer[i].ts <= Last(events).ts
    BY <1>2 DEF Rendered
  <2>2. events # <<>> => Last(events).ts <= e.ts /\ ~(e.ts <= Last(events).ts)
    <3>1. ASSUME events # <<>> PROVE Last(events).ts <= e.ts /\ ~(e.ts <= Last(events).ts)
      <4>1. Len(events) \in DOMAIN events /\ Last(events) = events[Len(events)]
        BY <1>1, <3>1 DEF Last
      <4>2. Last(events).ts \in Nat
        BY <1>1, <4>1, EventAt
      <4>3. QED
        BY <1>3, <1>5, <2>1, <3>1, <4>2
    <3>2. QED
      BY <3>1
  <2>3. \A i \in DOMAIN b :
          Has(events, b[i].n) <=> events # <<>> /\ b[i].ts <= Last(events).ts
    BY <1>4, <1>8, <2>1, <2>2
  <2>4. QED
    BY <1>8, <1>9, <2>1, <2>2, <2>3 DEF Rendered
<1>11. ASSUME graph.shown PROVE Animated'
  <2>1. /\ \A i \in DOMAIN buffer : buffer[i].n \in graph.flows <=> buffer[i].ts <= graph.lastSeen
        /\ \A i \in DOMAIN events : events[i].n \in graph.flows
        /\ IF buffer = <<>> THEN graph.lastSeen = 0 ELSE graph.lastSeen <= Last(buffer).ts
    BY <1>2, <1>11 DEF Animated
  <2>2. graph.lastSeen \in Nat /\ graph.lastSeen <= e.ts /\ ~(e.ts <= graph.lastSeen)
    BY <1>1, <1>3, <1>5, <2>1
  <2>3. \A i \in DOMAIN b : b[i].n \in graph.flows <=> b[i].ts <= graph.lastSeen
    BY <1>4, <1>8, <2>1, <2>2
  <2>4. QED
    BY <1>8, <1>9, <2>1, <2>2, <2>3 DEF Animated
<1>12. QED
  BY <1>2, <1>7, <1>9, <1>10, <1>11

LEMMA MessageKeeps ==
  ASSUME Inv, OnMessage
  PROVE  Inv'
<1> DEFINE old == Latest(buffer, Limit - 1)
<1>1. /\ wire # <<>> /\ buffer' = Append(old, Head(wire)) /\ wire' = Tail(wire)
      /\ disorder' = (disorder \/ (buffer # <<>> /\ Head(wire).ts <= Last(buffer).ts))
      /\ now' = now /\ count' = count /\ channel' = channel /\ log' = log /\ socket' = socket
      /\ events' = events /\ graph' = graph /\ again' = again /\ lost' = lost
  BY DEF OnMessage, screen
<1>2. /\ wire \in Seq(Event) /\ buffer \in Seq(Event) /\ log \in Seq(Event)
      /\ TypesOK /\ Numbers /\ History
  BY DEF Inv, TypesOK
<1>3. old \in Seq(Event) /\ \E d \in 0 .. Len(buffer) : CutEnd(old, buffer, d)
  <2>1. Limit - 1 \in Nat
    BY DashboardAssumption
  <2>2. QED
    BY <1>2, <2>1, LatestIs
<1> HIDE DEF old
<1>4. PICK d \in 0 .. Len(buffer) : CutEnd(old, buffer, d)
  BY <1>3
<1>5. d \in Nat /\ Len(buffer) \in Nat
  BY <1>2
<1>6. Line' \in Seq(Event) /\ CutEnd(Line', Line, d) /\ Cut(Line', Line, d) /\ Line \in Seq(Event)
  <2>1. Line' = Append(old, Head(wire)) \o Tail(wire)
    BY <1>1 DEF Line
  <2>2. Line' \in Seq(Event) /\ CutEnd(Line', Line, d)
    BY <1>1, <1>2, <1>3, <1>4, <2>1, MessageLine
  <2>3. Cut(Line', Line, d)
    BY <2>2 DEF CutEnd
  <2>4. QED
    BY <1>2, <2>2, <2>3, LineIs
<1>7. TypesOK'
  <2>1. Head(wire) \in Event /\ Tail(wire) \in Seq(Event)
    BY <1>1, <1>2, HeadTailProperties
  <2>2. Append(old, Head(wire)) \in Seq(Event)
    BY <1>3, <2>1, AppendProperties
  <2>3. QED
    BY <1>1, <1>2, <2>1, <2>2 DEF TypesOK
<1>8. Numbers'
  <2>1. \A n : Has(Line', n) => Has(Line, n)
    BY <1>5, <1>6, CutHas
  <2>2. \A n \in Nat : Known(n)' => Known(n)
    BY <1>1, <2>1 DEF Known
  <2>3. Distinct(Line')
    BY <1>2, <1>5, <1>6, CutDistinct DEF Numbers
  <2>4. \A i \in DOMAIN wire' : \E j \in DOMAIN wire : wire'[i] = wire[j]
    <3>1. /\ Tail(wire) \in Seq(Event) /\ Len(Tail(wire)) = Len(wire) - 1
          /\ \A i \in 1 .. Len(Tail(wire)) : Tail(wire)[i] = wire[i + 1]
      BY <1>1, <1>2, HeadTailProperties
    <3> DEFINE w == Tail(wire)
    <3>2. w \in Seq(Event) /\ Len(w) = Len(wire) - 1 /\ \A i \in 1 .. Len(w) : w[i] = wire[i + 1]
      BY <3>1
    <3> HIDE DEF w
    <3>3. \A i \in DOMAIN w : i \in 1 .. Len(w) /\ i + 1 \in DOMAIN wire
      BY <1>2, <3>2
    <3>4. \A i \in DOMAIN w : \E j \in DOMAIN wire : w[i] = wire[j]
      BY <3>2, <3>3
    <3>5. QED
      BY <1>1, <3>4 DEF w
  <2>5. \A i \in DOMAIN wire : ~Has(events, wire[i].n) /\ wire[i].n \notin graph.flows
    BY <1>2 DEF Numbers
  <2>6. \A i \in DOMAIN wire' : ~Has(events', wire'[i].n) /\ wire'[i].n \notin graph'.flows
    BY <1>1, <2>4, <2>5
  <2>7. QED
    BY <1>1, <1>2, <2>2, <2>3, <2>6, NumbersKept
<1>9. History'
  <2>1. AllLoggable(log) /\ SameOrder(Line, log) /\ (~lost => socket /\ CommonEnd(Line, log))
    BY <1>2 DEF History
  <2>2. SameOrder(Line', log)
    <3>1. Cut(log, log, 0)
      BY <1>2, CutSelf DEF CutEnd
    <3>2. QED
      BY <1>2, <1>5, <1>6, <2>1, <3>1, CutSame
  <2>3. ~lost => CommonEnd(Line', log)
    BY <1>2, <1>5, <1>6, <2>1, EndDropShown
  <2>4. QED
    BY <1>1, <2>1, <2>2, <2>3 DEF History
<1>10. Screen'
  <2>1. ASSUME ~disorder'
        PROVE  ~again' /\ Rising(buffer') /\ Rendered' /\ (graph'.shown => Animated')
    <3>1. ~disorder /\ ~(buffer # <<>> /\ Head(wire).ts <= Last(buffer).ts)
      BY <1>1, <2>1
    <3>2. Cut(old, buffer, d)
      BY <1>4 DEF CutEnd
    <3>3. QED
      BY <1>1, <1>3, <1>5, <3>1, <3>2, MessageScreen
  <2>2. QED
    BY <2>1 DEF Screen
<1>11. QED
  BY <1>7, <1>8, <1>9, <1>10 DEF Inv

\* What was on its way does not come.
LEMMA CloseKeeps ==
  ASSUME Inv, OnClose
  PROVE  Inv'
<1>1. /\ wire' = <<>> /\ lost' = TRUE
      /\ now' = now /\ count' = count /\ channel' = channel /\ log' = log /\ buffer' = buffer
      /\ events' = events /\ graph' = graph /\ again' = again /\ disorder' = disorder
  BY DEF OnClose, screen
<1>2. /\ buffer \in Seq(Event) /\ log \in Seq(Event) /\ TypesOK /\ Numbers /\ History
  BY DEF Inv, TypesOK
<1>3. /\ Line' = buffer /\ Line \in Seq(Event) /\ Cut(buffer, Line, 0)
  <2>1. buffer \o <<>> = buffer
    BY <1>2, ConcatEmptySeq
  <2>2. QED
    BY <1>1, <1>2, <2>1, LineIs DEF Line
<1>4. TypesOK'
  BY <1>1, <1>2 DEF TypesOK
<1>5. Numbers'
  <2>1. \A n \in Nat : Known(n)' => Known(n)
    <3>1. \A n : Has(Line', n) => Has(Line, n)
      BY <1>2, <1>3, CutHas
    <3>2. QED
      BY <1>1, <3>1 DEF Known
  <2>2. Distinct(Line')
    BY <1>2, <1>3, CutDistinct DEF Numbers
  <2>3. \A i \in DOMAIN wire' : ~Has(events', wire'[i].n) /\ wire'[i].n \notin graph'.flows
    BY <1>1
  <2>4. QED
    BY <1>1, <1>2, <2>1, <2>2, <2>3, NumbersKept
<1>6. History'
  <2>1. Cut(log, log, 0)
    BY <1>2, CutSelf DEF CutEnd
  <2>2. SameOrder(Line', log)
    BY <1>2, <1>3, <2>1, CutSame DEF History
  <2>3. QED
    BY <1>1, <1>2, <2>2 DEF History
<1>7. Screen'
  BY <1>1 DEF Inv, Screen, Rendered, Animated
<1>8. QED
  BY <1>4, <1>5, <1>6, <1>7 DEF Inv

LEMMA ConnectKeeps ==
  ASSUME Inv, Connect
  PROVE  Inv'
<1>1. /\ socket' = TRUE
      /\ now' = now /\ count' = count /\ channel' = channel /\ log' = log /\ wire' = wire
      /\ buffer' = buffer /\ events' = events /\ graph' = graph /\ again' = again
      /\ lost' = lost /\ disorder' = disorder
  BY DEF Connect, feed, screen
<1>2. Line' = Line /\ \A n : Known(n)' <=> Known(n)
  BY <1>1 DEF Line, Known
<1>3. TypesOK' /\ Numbers'
  BY <1>1, <1>2 DEF Inv, TypesOK, Numbers
<1>4. History' /\ Screen'
  BY <1>1, <1>2 DEF Inv, History, Screen, Rendered, Animated
<1>5. QED
  BY <1>3, <1>4 DEF Inv

-----------------------------------------------------------------------------
(* The steps of the screen. *)

\* The feed and the log stay as they are, and the screen shows what the dashboard has.
LEMMA ScreenKeeps ==
  ASSUME Inv, now' = now, count' = count, channel' = channel, log' = log, wire' = wire,
         buffer' = buffer, socket' = socket, lost' = lost,
         events' \in Seq(Event), graph' \in [shown : BOOLEAN, lastSeen : Nat, flows : SUBSET Nat],
         \A n : Has(events', n) => Has(buffer, n) \/ Has(events, n),
         \A n : n \in graph'.flows => n \in graph.flows \/ Has(buffer, n) \/ Has(events, n),
         Screen'
  PROVE  Inv'
<1>1. TypesOK /\ Numbers /\ History
  BY DEF Inv
<1>2. Line' = Line
  BY DEF Line
<1>3. \A n \in Nat : Known(n)' => Known(n)
  <2>1. \A n : Has(buffer, n) => Known(n)
    BY <1>1, KnownHas
  <2>2. QED
    BY <1>2, <2>1 DEF Known
<1>4. \A i \in DOMAIN wire' : ~Has(events', wire'[i].n) /\ wire'[i].n \notin graph'.flows
  <2>1. \A i \in DOMAIN wire : ~Has(buffer, wire[i].n)
    BY Apart
  <2>2. \A i \in DOMAIN wire : ~Has(events, wire[i].n) /\ wire[i].n \notin graph.flows
    BY <1>1 DEF Numbers
  <2>3. QED
    BY <2>1, <2>2
<1>5. Distinct(Line)'
  BY <1>1, <1>2 DEF Numbers
<1>6. Numbers'
  BY <1>1, <1>3, <1>4, <1>5, NumbersKept
<1>7. TypesOK'
  BY <1>1 DEF TypesOK
<1>8. History'
  BY <1>1, <1>2 DEF History
<1>9. QED
  BY <1>6, <1>7, <1>8 DEF Inv

LEMMA RenderKeeps ==
  ASSUME Inv, Render
  PROVE  Inv'
<1>1. /\ events' = buffer
      /\ IF graph.shown THEN Effect(buffer, graph.lastSeen, graph.flows)
         ELSE graph' = graph /\ again' = again
      /\ now' = now /\ count' = count /\ channel' = channel /\ log' = log /\ wire' = wire
      /\ buffer' = buffer /\ socket' = socket /\ lost' = lost /\ disorder' = disorder
  BY DEF Render, feed
<1>2. /\ buffer \in Seq(Event) /\ graph.lastSeen \in Nat /\ graph.flows \in SUBSET Nat
      /\ graph \in [shown : BOOLEAN, lastSeen : Nat, flows : SUBSET Nat]
  BY DEF Inv, TypesOK
<1>3. ASSUME Rising(buffer) PROVE Rendered'
  <2>1. \A i \in DOMAIN buffer :
          Has(buffer, buffer[i].n) /\ buffer # <<>> /\ buffer[i].ts <= Last(buffer).ts
    BY <1>2, <1>3, RisingLast DEF Has
  <2>2. buffer # <<>> => Last(buffer).ts <= Last(buffer).ts
    <3>1. ASSUME buffer # <<>> PROVE Last(buffer).ts <= Last(buffer).ts
      <4>1. Len(buffer) \in DOMAIN buffer
        BY <1>2, <3>1
      <4>2. Last(buffer).ts \in Nat
        BY <1>2, <1>3, <4>1, RisingLast
      <4>3. QED
        BY <4>2
    <3>2. QED
      BY <3>1
  <2>3. QED
    BY <1>1, <1>3, <2>1, <2>2 DEF Rendered
<1>4. CASE ~graph.shown
  <2>1. graph' = graph /\ again' = again
    BY <1>1, <1>4
  <2>2. Screen'
    BY <1>1, <1>3, <1>4, <2>1 DEF Inv, Screen
  <2>3. QED
    BY <1>1, <1>2, <2>1, <2>2, ScreenKeeps
<1>5. CASE graph.shown
  <2>1. Effect(buffer, graph.lastSeen, graph.flows)
    BY <1>1, <1>5
  <2>2. /\ graph' \in [shown : BOOLEAN, lastSeen : Nat, flows : SUBSET Nat]
        /\ \A n : n \in graph'.flows <=>
                    n \in graph.flows
                    \/ \E i \in DOMAIN buffer : buffer[i].n = n /\ buffer[i].ts > graph.lastSeen
        /\ again' <=> again \/ \E i \in DOMAIN buffer :
                                 buffer[i].ts > graph.lastSeen /\ buffer[i].n \in graph.flows
        /\ Rising(buffer) =>
             graph'.lastSeen = IF buffer # <<>> /\ Last(buffer).ts > graph.lastSeen
                               THEN Last(buffer).ts ELSE graph.lastSeen
    BY <1>2, <2>1, EffectDoes
  <2>3. ASSUME ~disorder
        PROVE  ~again' /\ Rising(buffer) /\ Animated'
    <3>1. /\ ~again /\ Rising(buffer)
          /\ \A i \in DOMAIN buffer : buffer[i].n \in graph.flows <=> buffer[i].ts <= graph.lastSeen
          /\ IF buffer = <<>> THEN graph.lastSeen = 0 ELSE graph.lastSeen <= Last(buffer).ts
      BY <1>5, <2>3 DEF Inv, Screen, Animated
    <3>2. \A i \in DOMAIN buffer : buffer[i].ts \in Nat
      BY <1>2, EventAt
    <3>3. ~again'
      BY <1>2, <2>2, <3>1, <3>2
    <3>4. \A i \in DOMAIN buffer : buffer[i].n \in graph'.flows
      BY <1>2, <2>2, <3>1, <3>2
    <3>5. IF buffer = <<>> THEN graph'.lastSeen = 0 ELSE graph'.lastSeen = Last(buffer).ts
      <4>1. CASE buffer = <<>>
        BY <2>2, <3>1, <4>1
      <4>2. CASE buffer # <<>>
        <5>1. Len(buffer) \in DOMAIN buffer
          BY <1>2, <4>2
        <5>2. Last(buffer).ts \in Nat
          BY <1>2, <3>1, <5>1, RisingLast
        <5>3. QED
          BY <1>2, <2>2, <3>1, <4>2, <5>2
      <4>3. QED
        BY <4>1, <4>2
    <3>6. \A i \in DOMAIN buffer :
            buffer # <<>> /\ buffer[i].ts <= Last(buffer).ts /\ Last(buffer).ts \in Nat
      BY <1>2, <3>1, RisingLast
    <3>7. IF buffer = <<>> THEN graph'.lastSeen = 0 ELSE graph'.lastSeen <= Last(buffer).ts
      <4>1. graph'.lastSeen \in Nat
        BY <2>2
      <4>2. QED
        BY <3>5, <4>1
    <3>8. Animated'
      BY <1>1, <3>4, <3>5, <3>6, <3>7 DEF Animated
    <3>9. QED
      BY <3>1, <3>3, <3>8
  <2>4. Screen'
    BY <1>1, <1>3, <2>3 DEF Screen
  <2>5. \A n : n \in graph'.flows => n \in graph.flows \/ Has(buffer, n) \/ Has(events, n)
    BY <2>2 DEF Has
  <2>6. \A n : Has(events', n) => Has(buffer, n) \/ Has(events, n)
    BY <1>1
  <2>7. events' \in Seq(Event)
    BY <1>1, <1>2
  <2>8. QED
    BY <1>1, <2>2, <2>4, <2>5, <2>6, <2>7, ScreenKeeps
<1>6. QED
  BY <1>4, <1>5

\* The graph begins with what is rendered, which may be behind the buffer.
LEMMA MountKeeps ==
  ASSUME Inv, Mount
  PROVE  Inv'
<1>1. /\ ~graph.shown /\ Effect(events, 0, {})
      /\ now' = now /\ count' = count /\ channel' = channel /\ log' = log /\ wire' = wire
      /\ buffer' = buffer /\ events' = events
      /\ socket' = socket /\ lost' = lost /\ disorder' = disorder
  BY DEF Mount, feed
<1>2. buffer \in Seq(Event) /\ events \in Seq(Event)
  BY DEF Inv, TypesOK
<1>3. /\ graph' \in [shown : BOOLEAN, lastSeen : Nat, flows : SUBSET Nat]
      /\ \A n : n \in graph'.flows <=>
                  n \in {} \/ \E i \in DOMAIN events : events[i].n = n /\ events[i].ts > 0
      /\ again' <=> again \/ \E i \in DOMAIN events : events[i].ts > 0 /\ events[i].n \in {}
      /\ Rising(events) =>
           graph'.lastSeen = IF events # <<>> /\ Last(events).ts > 0 THEN Last(events).ts ELSE 0
  <2>1. 0 \in Nat /\ {} \in SUBSET Nat
    OBVIOUS
  <2>2. QED
    BY <1>1, <1>2, <2>1, EffectDoes
<1>4. \A n : n \in graph'.flows <=> Has(events, n)
  <2>1. \A i \in DOMAIN events : events[i].ts > 0
    BY <1>2, EventAt
  <2>2. QED
    BY <1>3, <2>1 DEF Has
<1>5. again' <=> again
  BY <1>3
<1>6. ASSUME ~disorder PROVE ~again' /\ Rising(buffer') /\ Rendered' /\ Animated'
  <2>1. ~again /\ Rising(buffer) /\ Rendered
    BY <1>6 DEF Inv, Screen
  <2>2. /\ Rising(events) /\ (events # <<>> => buffer # <<>> /\ Last(events).ts <= Last(buffer).ts)
        /\ \A i \in DOMAIN buffer :
             Has(events, buffer[i].n) <=> events # <<>> /\ buffer[i].ts <= Last(events).ts
    BY <2>1 DEF Rendered
  <2>3. Rendered'
    BY <1>1, <2>1 DEF Rendered
  <2>4. graph'.lastSeen = IF events # <<>> THEN Last(events).ts ELSE 0
    <3>1. events # <<>> => Last(events).ts > 0
      <4>1. ASSUME events # <<>> PROVE Last(events).ts > 0
        <5>1. Len(events) \in DOMAIN events /\ Last(events) = events[Len(events)]
          BY <1>2, <4>1 DEF Last
        <5>2. QED
          BY <1>2, <5>1, EventAt
      <4>2. QED
        BY <4>1
    <3>2. QED
      BY <1>3, <2>2, <3>1
  <2>5. \A i \in DOMAIN buffer : buffer[i].n \in graph'.flows <=> buffer[i].ts <= graph'.lastSeen
    <3>1. \A i \in DOMAIN buffer : buffer[i].ts \in Nat /\ buffer[i].ts > 0
      BY <1>2, EventAt
    <3>2. CASE events = <<>>
      BY <1>4, <2>2, <2>4, <3>1, <3>2
    <3>3. CASE events # <<>>
      BY <1>4, <2>2, <2>4, <3>3
    <3>4. QED
      BY <3>2, <3>3
  <2>6. \A i \in DOMAIN events : events[i].n \in graph'.flows
    BY <1>4 DEF Has
  <2>7. IF buffer = <<>> THEN graph'.lastSeen = 0 ELSE graph'.lastSeen <= Last(buffer).ts
    <3>1. CASE events = <<>>
      <4>1. graph'.lastSeen = 0
        BY <2>4, <3>1
      <4>2. buffer # <<>> => 0 <= Last(buffer).ts
        <5>1. ASSUME buffer # <<>> PROVE 0 <= Last(buffer).ts
          <6>1. Len(buffer) \in DOMAIN buffer
            BY <1>2, <5>1
          <6>2. Last(buffer).ts \in Nat
            BY <1>2, <2>1, <6>1, RisingLast
          <6>3. QED
            BY <6>2
        <5>2. QED
          BY <5>1
      <4>3. QED
        BY <4>1, <4>2
    <3>2. CASE events # <<>>
      BY <2>2, <2>4, <3>2
    <3>3. QED
      BY <3>1, <3>2
  <2>8. Animated'
    BY <1>1, <2>5, <2>6, <2>7 DEF Animated
  <2>9. QED
    BY <1>1, <1>5, <2>1, <2>3, <2>8
<1>7. Screen'
  BY <1>1, <1>6 DEF Screen
<1>8. \A n : n \in graph'.flows => n \in graph.flows \/ Has(buffer, n) \/ Has(events, n)
  BY <1>4
<1>9. QED
  BY <1>1, <1>2, <1>3, <1>7, <1>8, ScreenKeeps

LEMMA UnmountKeeps ==
  ASSUME Inv, Unmount
  PROVE  Inv'
<1>1. /\ graph' = NotShown /\ again' = FALSE
      /\ now' = now /\ count' = count /\ channel' = channel /\ log' = log /\ wire' = wire
      /\ buffer' = buffer /\ events' = events
      /\ socket' = socket /\ lost' = lost /\ disorder' = disorder
  BY DEF Unmount, feed
<1>2. /\ graph'.shown = FALSE /\ graph'.flows = {}
      /\ graph' \in [shown : BOOLEAN, lastSeen : Nat, flows : SUBSET Nat]
  BY <1>1 DEF NotShown
<1>3. Screen'
  BY <1>1, <1>2 DEF Inv, Screen, Rendered
<1>4. events' \in Seq(Event)
  BY <1>1 DEF Inv, TypesOK
<1>5. QED
  BY <1>1, <1>2, <1>3, <1>4, ScreenKeeps

LEMMA NextKeeps == Inv /\ [Next]_vars => Inv'
<1> SUFFICES ASSUME Inv, [Next]_vars PROVE Inv'
  OBVIOUS
<1>1. CASE OnMessage
  BY <1>1, MessageKeeps
<1>2. CASE OnClose
  BY <1>2, CloseKeeps
<1>3. CASE Connect
  BY <1>3, ConnectKeeps
<1>4. CASE Render
  BY <1>4, RenderKeeps
<1>5. CASE Mount
  BY <1>5, MountKeeps
<1>6. CASE Unmount
  BY <1>6, UnmountKeeps
<1>7. ASSUME NEW a \in Agents, Sink(a) PROVE Inv'
  BY <1>7, SinkKeeps
<1>8. ASSUME NEW a \in Agents, NEW logged \in BOOLEAN, NEW t, Emit(a, logged, t) PROVE Inv'
  BY <1>8, EmitKeeps
<1>9. CASE UNCHANGED vars
  <2>1. /\ now' = now /\ count' = count /\ channel' = channel /\ log' = log /\ wire' = wire
        /\ buffer' = buffer /\ events' = events /\ graph' = graph /\ again' = again
        /\ socket' = socket /\ lost' = lost /\ disorder' = disorder
    BY <1>9 DEF vars
  <2>2. Line' = Line /\ \A n : Known(n)' <=> Known(n)
    BY <2>1 DEF Line, Known
  <2>3. TypesOK' /\ Numbers'
    BY <2>1, <2>2 DEF Inv, TypesOK, Numbers
  <2>4. History' /\ Screen'
    BY <2>1, <2>2 DEF Inv, History, Screen, Rendered, Animated
  <2>5. QED
    BY <2>3, <2>4 DEF Inv
<1>10. QED
  BY <1>1, <1>2, <1>3, <1>4, <1>5, <1>6, <1>7, <1>8, <1>9 DEF Next

LEMMA Invariance == Spec => []Inv
  BY InitInv, NextKeeps, PTL DEF Spec

-----------------------------------------------------------------------------

\* What the dashboard shows and what the control plane has logged are one history,
\* however large the two are and however often the socket is lost: what they share is in
\* the same order, and while it has been up one is the end of the other.
THEOREM FeedAgrees == Spec => []FeedMatchesLog
<1>1. Inv => FeedMatchesLog
  BY DEF Inv, History, Line, FeedMatchesLog
<1>2. QED
  BY <1>1, Invariance, PTL

\* As long as each event of the feed is later than the one before, the graph animates
\* each that has been rendered, and none twice while it is on screen, wherever it was
\* mounted and however renderings and arrivals interleave.
THEOREM GraphAnimatesOnce == Spec => []AnimatedOnce
<1>1. Inv => AnimatedOnce
  BY DEF Inv, Screen, Animated, AnimatedOnce
<1>2. QED
  BY <1>1, Invariance, PTL
=============================================================================

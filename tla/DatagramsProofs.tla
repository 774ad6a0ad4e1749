-------------------------- MODULE DatagramsProofs --------------------------
(***************************************************************************)
(* Proofs about Datagrams, for every set of sends, groups and TTLs and     *)
(* every size of an octet: the report of a send is true, what leaves is    *)
(* well formed and to where it may go, a datagram leaves with the TTL it   *)
(* states, and an ephemeral socket ends with its send.                     *)
(***************************************************************************)
EXTENDS Datagrams, FiniteSetTheorems, TLAPS

\* What the socket of a send is while it waits: an ephemeral one has the TTL of the
\* envelope, and so has the shared one unless another send has crossed this one.
Sound(s) ==
  /\ At(s, "binding") => ~send[s].shared
  /\ At(s, "multicast") /\ ~send[s].shared => own[s] = send[s].ttl
  /\ At(s, "multicast") /\ send[s].shared =>
       joined /\ (crossed[s] \/ osTtl = send[s].ttl)
  /\ own[s] # NoTtl =>
       \/ At(s, "binding")
       \/ At(s, "multicast") /\ ~send[s].shared
       \/ At(s, "failed") /\ ~Valid(send[s].ttl)

\* A send that is reported has put one datagram on the network, any other none.
Reported(s) ==
  IF At(s, "sent")
  THEN \E d \in Datagram :
         /\ wire[s] = {d} /\ d.address = send[s].address
         /\ d.address = "group" /\ ~crossed[s] => d.ttl = d.field
  ELSE wire[s] = {}

Inv == TypeOK /\ \A s \in Sends : Sound(s) /\ Reported(s)

-----------------------------------------------------------------------------

\* The verdict of the validator is a code, or that there is nothing wrong.
LEMMA LeastFails ==
  ASSUME NEW F \in SUBSET (1 .. 6), F # {}
  PROVE  Min(F) \in F
<1>1. \E x \in F : \A y \in F : x <= y
  <2>1. CASE 1 \in F
    BY <2>1
  <2>2. CASE 1 \notin F /\ 2 \in F
    BY <2>2
  <2>3. CASE 1 \notin F /\ 2 \notin F /\ 3 \in F
    BY <2>3
  <2>4. CASE 1 \notin F /\ 2 \notin F /\ 3 \notin F /\ 4 \in F
    BY <2>4
  <2>5. CASE 1 \notin F /\ 2 \notin F /\ 3 \notin F /\ 4 \notin F
    <3>1. \A y \in F : y \in {5, 6}
      BY <2>5
    <3>2. CASE 5 \in F
      BY <3>1, <3>2
    <3>3. CASE 5 \notin F
      <4>1. PICK z \in F : TRUE
        OBVIOUS
      <4>2. 6 \in F /\ \A y \in F : y = 6
        BY <3>1, <3>3, <4>1
      <4>3. QED
        BY <4>2
    <3>4. QED
      BY <3>2, <3>3
  <2>6. QED
    BY <2>1, <2>2, <2>3, <2>4, <2>5
<1>2. QED
  BY <1>1 DEF Min

\* Six checks, whatever they find.
LEMMA CodesType ==
  ASSUME NEW f1, NEW f2, NEW f3, NEW f4, NEW f5, NEW f6, NEW C,
         C = << [code |-> "MALFORMED_CRYPTO_FIELDS", fails |-> f1],
                [code |-> "STRAY_CRYPTO_FIELDS", fails |-> f2],
                [code |-> "MISSING_RECIPIENT", fails |-> f3],
                [code |-> "MISSING_GROUP_ADDRESS", fails |-> f4],
                [code |-> "GROUP_ADDRESS_OUT_OF_RANGE", fails |-> f5],
                [code |-> "TTL_ON_NON_MULTICAST", fails |-> f6] >>
  PROVE  /\ DOMAIN C = 1 .. 6 /\ \A i \in 1 .. 6 : C[i].code \in ValidationCode
         /\ ~f1 /\ ~f2 /\ ~f3 /\ ~f4 /\ ~f5 /\ ~f6 => \A i \in 1 .. 6 : ~C[i].fails
<1>1. DOMAIN C = 1 .. 6
  OBVIOUS
<1>2. /\ C[1].code \in ValidationCode /\ C[2].code \in ValidationCode
      /\ C[3].code \in ValidationCode /\ C[4].code \in ValidationCode
      /\ C[5].code \in ValidationCode /\ C[6].code \in ValidationCode
  BY DEF ValidationCode
<1>3. \A i \in 1 .. 6 : i \in {1, 2, 3, 4, 5, 6}
  OBVIOUS
<1>4. ASSUME ~f1, ~f2, ~f3, ~f4, ~f5, ~f6
      PROVE  ~C[1].fails /\ ~C[2].fails /\ ~C[3].fails /\ ~C[4].fails /\ ~C[5].fails
             /\ ~C[6].fails
  BY <1>4
<1>5. QED
  BY <1>1, <1>2, <1>3, <1>4

LEMMA VerdictType == ASSUME NEW env PROVE ValidateEnvelope(env) \in ValidationCode
<1> DEFINE C == Checks(env)
           F == {i \in DOMAIN C : C[i].fails}
<1>1. DOMAIN C = 1 .. 6 /\ \A i \in 1 .. 6 : C[i].code \in ValidationCode
  <2> DEFINE f1 == Malformed(env)
             f2 == ~env.encrypted /\ (env.iv # Undefined \/ env.authTag # Undefined)
             f3 == env.mode = "unicast" /\ Missing(env.recipientId)
             f4 == env.mode = "multicast" /\ env.groupAddress = Undefined
             f5 == env.mode = "multicast" /\ ~IsMulticastAddress(env.groupAddress)
             f6 == env.mode # "multicast" /\ env.ttl # Undefined
  <2>1. C = << [code |-> "MALFORMED_CRYPTO_FIELDS", fails |-> f1],
               [code |-> "STRAY_CRYPTO_FIELDS", fails |-> f2],
               [code |-> "MISSING_RECIPIENT", fails |-> f3],
               [code |-> "MISSING_GROUP_ADDRESS", fails |-> f4],
               [code |-> "GROUP_ADDRESS_OUT_OF_RANGE", fails |-> f5],
               [code |-> "TTL_ON_NON_MULTICAST", fails |-> f6] >>
    BY Zenon DEF Checks
  <2> HIDE DEF f1, f2, f3, f4, f5, f6, C
  <2>2. QED
    BY <2>1, CodesType
<1>2. F # {} => Min(F) \in 1 .. 6
  BY <1>1, LeastFails
<1>3. ValidateEnvelope(env) = IF F = {} THEN "OK" ELSE C[Min(F)].code
  BY DEF ValidateEnvelope
<1>4. QED
  <2> HIDE DEF F, C
  <2>1. QED
    BY <1>1, <1>2, <1>3 DEF ValidationCode

\* What fails no check is found well.
LEMMA VerdictOk ==
  ASSUME NEW env, ~Malformed(env),
         ~(~env.encrypted /\ (env.iv # Undefined \/ env.authTag # Undefined)),
         ~(env.mode = "unicast" /\ Missing(env.recipientId)),
         ~(env.mode = "multicast" /\ env.groupAddress = Undefined),
         ~(env.mode = "multicast" /\ ~IsMulticastAddress(env.groupAddress)),
         ~(env.mode # "multicast" /\ env.ttl # Undefined)
  PROVE  ValidateEnvelope(env) = "OK"
<1> DEFINE C == Checks(env)
<1>1. DOMAIN C = 1 .. 6 /\ \A i \in 1 .. 6 : ~C[i].fails
  <2> DEFINE f1 == Malformed(env)
             f2 == ~env.encrypted /\ (env.iv # Undefined \/ env.authTag # Undefined)
             f3 == env.mode = "unicast" /\ Missing(env.recipientId)
             f4 == env.mode = "multicast" /\ env.groupAddress = Undefined
             f5 == env.mode = "multicast" /\ ~IsMulticastAddress(env.groupAddress)
             f6 == env.mode # "multicast" /\ env.ttl # Undefined
  <2>1. C = << [code |-> "MALFORMED_CRYPTO_FIELDS", fails |-> f1],
               [code |-> "STRAY_CRYPTO_FIELDS", fails |-> f2],
               [code |-> "MISSING_RECIPIENT", fails |-> f3],
               [code |-> "MISSING_GROUP_ADDRESS", fails |-> f4],
               [code |-> "GROUP_ADDRESS_OUT_OF_RANGE", fails |-> f5],
               [code |-> "TTL_ON_NON_MULTICAST", fails |-> f6] >>
    BY Zenon DEF Checks
  <2>2. ~f1 /\ ~f2 /\ ~f3 /\ ~f4 /\ ~f5 /\ ~f6
    OBVIOUS
  <2> HIDE DEF f1, f2, f3, f4, f5, f6, C
  <2>3. QED
    BY <2>1, <2>2, CodesType
<1>2. {i \in DOMAIN C : C[i].fails} = {}
  <2> HIDE DEF C
  <2>1. QED
    BY <1>1
<1>3. QED
  BY <1>2 DEF ValidateEnvelope

\* What an agent builds, for a group that passes the check and for all.
LEMMA MulticastIsWell ==
  ASSUME NEW g \in Passing, NEW ttl, NEW encrypted \in BOOLEAN, NEW env,
         env = StampTtl(BuildEnvelope("multicast", Undefined, g, Undefined), ttl)
  PROVE  ValidateEnvelope(IF encrypted THEN EncryptOutbound(env) ELSE env) = "OK"
<1>1. env = [mode |-> "multicast", recipientId |-> Undefined, groupAddress |-> g, ttl |-> ttl,
             encrypted |-> FALSE, iv |-> Undefined, authTag |-> Undefined]
  BY DEF StampTtl, BuildEnvelope
<1>2. PICK sent : sent = IF encrypted THEN EncryptOutbound(env) ELSE env
  OBVIOUS
<1>3. /\ sent.mode = "multicast" /\ sent.groupAddress = g
      /\ \/ sent.encrypted = TRUE /\ sent.iv = SomeText /\ sent.authTag = SomeText
         \/ sent.encrypted = FALSE /\ sent.iv = Undefined /\ sent.authTag = Undefined
  BY <1>1, <1>2 DEF EncryptOutbound
<1>4. ~Missing(SomeText)
  BY EnvelopeAssumption DEF Missing, SomeText, NoText
<1>5. IsMulticastAddress(g) /\ g # Undefined
  BY DatagramsAssumption DEF Passing
<1>6. ValidateEnvelope(sent) = "OK"
  BY <1>3, <1>4, <1>5, VerdictOk DEF Malformed
<1>7. QED
  BY <1>2, <1>6

LEMMA BroadcastIsWell ==
  ASSUME NEW env, env = BuildEnvelope("broadcast", Undefined, Undefined, Undefined)
  PROVE  ValidateEnvelope(env) = "OK"
<1>1. /\ env.mode = "broadcast" /\ env.ttl = Undefined /\ env.encrypted = FALSE
      /\ env.iv = Undefined /\ env.authTag = Undefined
  BY DEF BuildEnvelope
<1>2. QED
  BY <1>1, VerdictOk DEF Malformed

-----------------------------------------------------------------------------
(* The range of an address is that of its first four bits. *)

\* Bit operations on integers that fit.
LEMMA Wraps ==
  ASSUME Space \in Nat, NEW n \in 0 .. Space - 1
  PROVE  Unsigned(n) = n /\ Unsigned(n - Space) = n /\ Signed(n) \in {n, n - Space}
  BY DEF Unsigned, Signed

LEMMA Fits ==
  ASSUME Space \in Nat, NEW n \in Nat, 2 * (n + 1) <= Space
  PROVE  Signed(n) = n
  BY DEF Signed

\* A number of one more octet.
LEMMA OneMore ==
  ASSUME NEW b \in Nat, NEW m \in Nat, NEW n \in 0 .. m - 1, NEW o \in 0 .. b - 1
  PROVE  n * b + o \in 0 .. m * b - 1
<1>1. PICK d \in Nat : n + 1 + d = m
  <2>1. m - n - 1 \in Nat
    OBVIOUS
  <2>2. QED
    BY <2>1
<1>2. m * b = n * b + b + d * b
  BY <1>1
<1>3. n * b \in Nat /\ d * b \in Nat
  OBVIOUS
<1>4. QED
  BY <1>2, <1>3

\* What the four octets are together.
Value(p) ==
  ((p[1] * OctetSize + p[2]) * OctetSize + p[3]) * OctetSize + p[4]

\* The sizes of the numbers of one octet to four.
LEMMA Sizes ==
  /\ OctetSize \in Nat /\ OctetSize >= 16
  /\ OctetSize * OctetSize \in Nat /\ OctetSize * OctetSize * OctetSize \in Nat
  /\ Space \in Nat
  /\ 2 * OctetSize <= Space /\ 2 * (OctetSize * OctetSize) <= Space
  /\ 2 * (OctetSize * OctetSize * OctetSize) <= Space
<1>1. OctetSize \in Nat /\ OctetSize >= 16
  BY EnvelopeAssumption, DatagramsAssumption
<1> DEFINE b == OctetSize
           b2 == b * b
           b3 == b2 * b
<1>2. \A n \in Nat : n * b \in Nat /\ n * b >= 2 * n
  BY <1>1
<1>3. b2 \in Nat /\ b2 >= 2 * b
  BY <1>1, <1>2
<1> HIDE DEF b2
<1>4. b3 \in Nat /\ b3 >= 2 * b2
  BY <1>2, <1>3
<1> HIDE DEF b3
<1>5. b3 * b \in Nat /\ b3 * b >= 2 * b3
  BY <1>2, <1>4
<1>6. Space = b3 * b
  BY DEF Space, b3, b2
<1>7. 2 * b <= Space /\ 2 * b2 <= Space /\ 2 * b3 <= Space
  BY <1>1, <1>3, <1>4, <1>5, <1>6
<1>8. QED
  BY <1>1, <1>3, <1>4, <1>5, <1>6, <1>7 DEF b2, b3

\* The shifts overflow in the last round only, and >>> 0 puts that right.
LEMMA ShiftsUp ==
  ASSUME NEW p, IsAddress(p)
  PROVE  Ipv4ToInt(p) = Value(p) /\ Value(p) \in 0 .. Space - 1
<1> DEFINE b == OctetSize
           n2 == p[1] * b + p[2]
           n3 == n2 * b + p[3]
           n4 == n3 * b + p[4]
<1>1. p[1] \in Octets /\ p[2] \in Octets /\ p[3] \in Octets /\ p[4] \in Octets
  BY DEF IsAddress
<1>2. p[1] \in 0 .. b - 1
  BY <1>1 DEF Octets
<1>3. n2 \in 0 .. b * b - 1
  BY <1>1, <1>2, Sizes, OneMore DEF Octets
<1> HIDE DEF n2
<1>4. n3 \in 0 .. b * b * b - 1
  <2> DEFINE m == b * b
  <2> HIDE DEF m
  <2>1. m \in Nat /\ n2 \in 0 .. m - 1
    BY <1>3, Sizes DEF m
  <2>2. n3 \in 0 .. m * b - 1
    BY <1>1, <2>1, Sizes, OneMore DEF Octets
  <2>3. QED
    BY <2>2 DEF m
<1> HIDE DEF n3
<1>5. n4 \in 0 .. Space - 1
  <2> DEFINE m == b * b * b
  <2> HIDE DEF m
  <2>1. m \in Nat /\ n3 \in 0 .. m - 1
    BY <1>4, Sizes DEF m
  <2>2. n4 \in 0 .. m * b - 1
    BY <1>1, <2>1, Sizes, OneMore DEF Octets
  <2>3. QED
    BY <2>2 DEF m, Space
<1> HIDE DEF n4
<1>6. Shift(0, p[1]) = p[1]
  <2>1. 0 * OctetSize + p[1] = p[1]
    BY <1>2, Sizes
  <2>2. p[1] \in Nat /\ 2 * (p[1] + 1) <= Space
    BY <1>2, Sizes
  <2>3. Signed(p[1]) = p[1]
    BY <2>2, Fits, Sizes
  <2>4. QED
    BY <2>1, <2>3 DEF Shift
<1>7. Shift(p[1], p[2]) = n2
  <2>1. n2 \in Nat /\ 2 * (n2 + 1) <= Space
    <3> DEFINE m == b * b
    <3> HIDE DEF m
    <3>1. m \in Nat /\ n2 \in 0 .. m - 1 /\ 2 * m <= Space
      BY <1>3, Sizes DEF m
    <3>2. QED
      BY <3>1, Sizes
  <2>2. Signed(n2) = n2
    BY <2>1, Fits, Sizes
  <2>3. QED
    BY <2>2 DEF Shift, n2
<1>8. Shift(n2, p[3]) = n3
  <2>1. n3 \in Nat /\ 2 * (n3 + 1) <= Space
    <3> DEFINE m == b * b * b
    <3> HIDE DEF m
    <3>1. m \in Nat /\ n3 \in 0 .. m - 1 /\ 2 * m <= Space
      BY <1>4, Sizes DEF m
    <3>2. QED
      BY <3>1, Sizes
  <2>2. Signed(n3) = n3
    BY <2>1, Fits, Sizes
  <2>3. QED
    BY <2>2 DEF Shift, n3
<1>9. Shift(n3, p[4]) = Signed(n4)
  BY DEF Shift, n4
<1>10. Unsigned(Signed(n4)) = n4
  BY <1>5, Wraps, Sizes
<1>11. Ipv4ToInt(p) = n4
  BY <1>6, <1>7, <1>8, <1>9, <1>10 DEF Ipv4ToInt, Shifted
<1>12. Value(p) = n4
  BY DEF Value, n4, n3, n2
<1>13. QED
  BY <1>5, <1>11, <1>12

\* 224.0.0.0/4, as integers and as the first four bits.
LEMMA RangeIsPrefix ==
  ASSUME NEW g
  PROVE  IsMulticastAddress(g) <=> InRange(g)
<1>1. InRange(g) <=> IsAddress(g) /\ g[1] \div (OctetSize \div 16) = 14
  BY DEF InRange, IsAddress
<1>2. ASSUME IsAddress(g)
      PROVE  Ipv4ToInt(g) \in CidrLow .. CidrHigh <=> g[1] \div (OctetSize \div 16) = 14
  <2>1. PICK k \in Nat : OctetSize = 16 * k /\ k > 0 /\ OctetSize \div 16 = k
    <3>1. OctetSize \div 16 \in Nat /\ OctetSize = 16 * (OctetSize \div 16)
      BY EnvelopeAssumption, DatagramsAssumption
    <3>2. QED
      BY <3>1, Sizes
  <2> DEFINE b3 == OctetSize * OctetSize * OctetSize
             low == (g[2] * OctetSize + g[3]) * OctetSize + g[4]
             first == g[1]
             v == Ipv4ToInt(g)
  <2>2. g[1] \in Octets /\ g[2] \in Octets /\ g[3] \in Octets /\ g[4] \in Octets
    BY <1>2 DEF IsAddress
  <2>3. low \in 0 .. b3 - 1
    <3> DEFINE m == OctetSize * OctetSize
               n == g[2] * OctetSize + g[3]
    <3>1. n \in 0 .. m - 1
      BY <2>2, Sizes, OneMore DEF Octets
    <3>2. m \in Nat
      BY Sizes
    <3> HIDE DEF m, n
    <3>3. n * OctetSize + g[4] \in 0 .. m * OctetSize - 1
      BY <2>2, <3>1, <3>2, Sizes, OneMore DEF Octets
    <3>4. QED
      BY <3>3 DEF m, n
  <2>4. v = first * b3 + low
    <3>1. v = Value(g)
      BY <1>2, ShiftsUp
    <3>2. \A o, p, q, r, b \in Nat :
            ((o * b + p) * b + q) * b + r = o * (b * b * b) + ((p * b + q) * b + r)
      OBVIOUS
    <3>3. g[1] \in Nat /\ g[2] \in Nat /\ g[3] \in Nat /\ g[4] \in Nat
      BY <2>2, Sizes DEF Octets
    <3>4. Value(g) = first * b3 + low
      BY <3>2, <3>3, Sizes DEF Value
    <3>5. QED
      BY <3>1, <3>4
  <2>5. b3 \in Nat /\ b3 > 0
    <3>1. \A b \in Nat : b > 0 => b * b * b > 0
      OBVIOUS
    <3>2. QED
      BY <3>1, Sizes
  <2>6. Space \div 16 = k * b3
    <3>1. Space = b3 * OctetSize
      BY DEF Space
    <3> HIDE DEF b3
    <3>2. Space = 16 * (k * b3)
      BY <2>1, <2>5, <3>1
    <3>3. k * b3 \in Nat
      BY <2>5
    <3>4. \A n \in Nat : (16 * n) \div 16 = n
      OBVIOUS
    <3>5. QED
      BY <3>2, <3>3, <3>4
  <2>7. first \in Nat
    BY <2>2, Sizes DEF Octets
  <2> HIDE DEF b3, low, first, v
  <2>8. v \in CidrLow .. CidrHigh <=> 14 * (k * b3) <= v /\ v < 15 * (k * b3)
    <3>1. v \in Int /\ k * b3 \in Int
      BY <2>3, <2>4, <2>5, <2>7
    <3>2. QED
      BY <2>6, <3>1 DEF CidrLow, CidrHigh
  <2>9. 14 * (k * b3) <= v <=> 14 * k <= first
    <3>1. CASE 14 * k <= first
      <4>1. PICK d \in Nat : first = 14 * k + d
        <5>1. first - 14 * k \in Nat
          BY <2>7, <3>1
        <5>2. QED
          BY <2>7, <5>1
      <4>2. first * b3 = 14 * (k * b3) + d * b3 /\ d * b3 \in Nat
        BY <2>5, <4>1
      <4>3. QED
        BY <2>3, <2>4, <2>5, <3>1, <4>2
    <3>2. CASE ~(14 * k <= first)
      <4>1. PICK d \in Nat : 14 * k = first + 1 + d
        <5>1. 14 * k - first - 1 \in Nat
          BY <2>7, <3>2
        <5>2. 14 * k = first + 1 + (14 * k - first - 1)
          BY <2>7
        <5>3. QED
          BY <5>1, <5>2
      <4>2. 14 * (k * b3) = first * b3 + b3 + d * b3 /\ d * b3 \in Nat
        BY <2>5, <2>7, <4>1
      <4>3. first * b3 \in Nat
        BY <2>5, <2>7
      <4>4. QED
        BY <2>3, <2>4, <2>5, <3>2, <4>2, <4>3
    <3>3. QED
      BY <3>1, <3>2
  <2>10. v < 15 * (k * b3) <=> first < 15 * k
    <3>1. CASE 15 * k <= first
      <4>1. PICK d \in Nat : first = 15 * k + d
        <5>1. first - 15 * k \in Nat
          BY <2>7, <3>1
        <5>2. QED
          BY <2>7, <5>1
      <4>2. first * b3 = 15 * (k * b3) + d * b3 /\ d * b3 \in Nat
        BY <2>5, <4>1
      <4>3. QED
        BY <2>3, <2>4, <2>5, <2>7, <3>1, <4>2
    <3>2. CASE ~(15 * k <= first)
      <4>1. PICK d \in Nat : 15 * k = first + 1 + d
        <5>1. 15 * k - first - 1 \in Nat
          BY <2>7, <3>2
        <5>2. 15 * k = first + 1 + (15 * k - first - 1)
          BY <2>7
        <5>3. QED
          BY <5>1, <5>2
      <4>2. 15 * (k * b3) = first * b3 + b3 + d * b3 /\ d * b3 \in Nat
        BY <2>5, <2>7, <4>1
      <4>3. first * b3 \in Nat
        BY <2>5, <2>7
      <4>4. QED
        BY <2>3, <2>4, <2>5, <2>7, <3>2, <4>2, <4>3
    <3>3. QED
      BY <3>1, <3>2
  <2>11. first \div k = 14 <=> 14 * k <= first /\ first < 15 * k
    BY <2>1, <2>7
  <2>12. QED
    BY <2>1, <2>8, <2>9, <2>10, <2>11 DEF first, v
<1>3. QED
  BY <1>1, <1>2 DEF IsMulticastAddress

-----------------------------------------------------------------------------

LEMMA BuildsType ==
  ASSUME TypeOK, NEW s \in Sends, NEW env, NEW encrypted, Builds(s, env, encrypted)
  PROVE  verdict' \in [Sends -> ValidationCode \union {"none"}]
<1>1. PICK v \in ValidationCode : verdict' = [verdict EXCEPT ![s] = v]
  BY VerdictType DEF Builds
<1>2. QED
  BY <1>1 DEF TypeOK

LEMMA RangedType ==
  ASSUME TypeOK, NEW s \in Sends, NEW g, Ranged(s, g)
  PROVE  ranged' \in [Sends -> BOOLEAN]
<1>1. InRange(g) \in BOOLEAN
  BY DEF InRange
<1>2. QED
  BY <1>1 DEF Ranged, TypeOK

\* A send that moves keeps the rest of its state, and every other send keeps all of it.
LEMMA GoesType ==
  ASSUME send \in [Sends -> Send], NEW s \in Sends, NEW where \in Awaits \union Outcomes,
         Goes(s, where)
  PROVE  /\ send' \in [Sends -> Send]
         /\ send'[s] = [send[s] EXCEPT !.at = where]
         /\ send'[s].at = where /\ send'[s].ttl = send[s].ttl
         /\ send'[s].shared = send[s].shared /\ send'[s].address = send[s].address
         /\ \A x \in Sends : x # s => send'[x] = send[x]
  BY DEF Goes, Send

LEMMA ReportsType ==
  ASSUME send \in [Sends -> Send], NEW s \in Sends, NEW address \in Addresses,
         Reports(s, address)
  PROVE  /\ send' \in [Sends -> Send]
         /\ send'[s].at = "sent" /\ send'[s].ttl = send[s].ttl
         /\ send'[s].shared = send[s].shared /\ send'[s].address = address
         /\ \A x \in Sends : x # s => send'[x] = send[x]
  BY DEF Reports, Send, Outcomes

LEMMA DepartsType ==
  ASSUME TypeOK, NEW s \in Sends, NEW address \in Addresses, NEW ttl \in TtlValues,
         Departs(s, address, ttl)
  PROVE  \E d \in Datagram :
           /\ wire' = [wire EXCEPT ![s] = @ \union {d}]
           /\ wire' \in [Sends -> SUBSET Datagram]
           /\ d.address = address /\ d.ttl = ttl /\ d.field = send[s].ttl
<1>1. PICK d : d = [address |-> address, ttl |-> ttl, field |-> send[s].ttl]
  OBVIOUS
<1>2. d \in Datagram
  BY <1>1 DEF Datagram, TypeOK, Send
<1>3. wire' = [wire EXCEPT ![s] = @ \union {d}]
  BY <1>1 DEF Departs
<1>4. wire' \in [Sends -> SUBSET Datagram]
  BY <1>2, <1>3 DEF TypeOK
<1>5. QED
  BY <1>1, <1>2, <1>3, <1>4

\* A send whose own state and whose socket's state a step leaves alone.
Untouched(x) ==
  /\ send'[x] = send[x] /\ own'[x] = own[x] /\ wire'[x] = wire[x]
  /\ crossed'[x] = crossed[x] /\ joined' = joined /\ osTtl' = osTtl

LEMMA UntouchedKept ==
  ASSUME NEW x \in Sends, Sound(x), Reported(x), Untouched(x)
  PROVE  Sound(x)' /\ Reported(x)'
  BY DEF Sound, Reported, Untouched, At

\* So a step of one send is about that send.
LEMMA OthersKept ==
  ASSUME Inv, TypeOK', NEW s \in Sends, Sound(s)', Reported(s)',
         \A x \in Sends : x # s => Untouched(x)
  PROVE  Inv'
<1>1. ASSUME NEW x \in Sends PROVE Sound(x)' /\ Reported(x)'
  BY <1>1, UntouchedKept DEF Inv
<1>2. QED
  BY <1>1 DEF Inv

\* The sends that end before anything is sent, and those that wait for no socket: what
\* is kept is the socket, the wire and the TTLs.
Still ==
  UNCHANGED <<dropRate, denied, defaultTtl, joined, osTtl, own, wire, crossed>>

LEMMA StillKept ==
  ASSUME Inv, NEW s \in Sends, Still, ranged' \in [Sends -> BOOLEAN],
         verdict' \in [Sends -> ValidationCode \union {"none"}],
         ~At(s, "binding"), ~At(s, "multicast"), ~At(s, "sent"),
         At(s, "failed") => Valid(send[s].ttl),
         NEW where \in (Awaits \union Outcomes) \ {"binding", "multicast", "sent"},
         Goes(s, where)
  PROVE  Inv'
<1>1. send \in [Sends -> Send]
  BY DEF Inv, TypeOK
<1>2. /\ send' \in [Sends -> Send] /\ send'[s].at = where
      /\ \A x \in Sends : x # s => send'[x] = send[x]
  BY <1>1, GoesType
<1>3. TypeOK'
  BY <1>2 DEF Inv, TypeOK, Still
<1>4. own[s] = NoTtl /\ wire[s] = {}
  BY DEF Inv, Sound, Reported, At
<1>5. Sound(s)' /\ Reported(s)'
  BY <1>2, <1>4 DEF Sound, Reported, Still, At
<1>6. \A x \in Sends : x # s => Untouched(x)
  BY <1>2 DEF Untouched, Still
<1>7. QED
  BY <1>3, <1>5, <1>6, OthersKept

LEMMA BeginEnds ==
  ASSUME Inv, NEW s \in Sends,
         \/ Dropped(s) \/ Unsendable(s) \/ SendBroadcast(s)
         \/ \E g \in Groups : Rejected(s, g)
  PROVE  Inv'
<1>1. TypeOK
  BY DEF Inv
<1>2. /\ Still /\ At(s, "idle")
      /\ \E where \in {"dropped", "failed", "denied", "limited", "rejected"} : Goes(s, where)
  BY DEF Dropped, Unsendable, SendBroadcast, Rejected, Still
<1>3. /\ ranged' \in [Sends -> BOOLEAN]
      /\ verdict' \in [Sends -> ValidationCode \union {"none"}]
  <2>1. CASE Dropped(s) \/ Unsendable(s)
    BY <1>1, <2>1 DEF Dropped, Unsendable, checked, TypeOK
  <2>2. CASE SendBroadcast(s)
    BY <1>1, <2>2, BuildsType DEF SendBroadcast, TypeOK
  <2>3. ASSUME NEW g \in Groups, Rejected(s, g)
        PROVE  ranged' \in [Sends -> BOOLEAN] /\ verdict' = verdict
    BY <1>1, <2>3, RangedType DEF Rejected
  <2>4. QED
    BY <1>1, <2>1, <2>2, <2>3 DEF TypeOK
<1>4. PICK where \in {"dropped", "failed", "denied", "limited", "rejected"} : Goes(s, where)
  BY <1>2
<1>5. where \in (Awaits \union Outcomes) \ {"binding", "multicast", "sent"}
  BY DEF Awaits, Outcomes
<1>6. ~At(s, "binding") /\ ~At(s, "multicast") /\ ~At(s, "sent") /\ ~At(s, "failed")
  BY <1>2 DEF At
<1>7. QED
  BY <1>2, <1>3, <1>4, <1>5, <1>6, StillKept

\* Both attempts of a broadcast that fail.
LEMMA BroadcastFails ==
  ASSUME Inv, NEW s \in Sends, LimitedFails(s) \/ DirectedFails(s)
  PROVE  Inv'
<1>1. /\ Still /\ checked' = checked /\ (At(s, "limited") \/ At(s, "fallback"))
      /\ \E where \in {"denied", "fallback", "failed"} : Goes(s, where)
  BY DEF LimitedFails, DirectedFails, Still, checked
<1>2. PICK where \in {"denied", "fallback", "failed"} : Goes(s, where)
  BY <1>1
<1>3. where \in (Awaits \union Outcomes) \ {"binding", "multicast", "sent"}
  BY DEF Awaits, Outcomes
<1>4. ~At(s, "binding") /\ ~At(s, "multicast") /\ ~At(s, "sent") /\ ~At(s, "failed")
  BY <1>1 DEF At
<1>5. /\ ranged' \in [Sends -> BOOLEAN]
      /\ verdict' \in [Sends -> ValidationCode \union {"none"}]
  BY <1>1 DEF checked, Inv, TypeOK
<1>6. QED
  BY <1>1, <1>2, <1>3, <1>4, <1>5, StillKept

\* The types of what a command asks for.
LEMMA AskedTtl ==
  ASSUME TypeOK, NEW given \in Ttls \union {NoTtl}
  PROVE  (IF given = NoTtl THEN defaultTtl ELSE given) \in TtlValues
  BY DEF TypeOK, TtlValues

LEMMA WaitingType ==
  ASSUME NEW s \in Sends, NEW ttl \in TtlValues, NEW where \in {"binding", "multicast"},
         NEW shared \in BOOLEAN, send \in [Sends -> Send],
         send' = [send EXCEPT ![s] = Waiting(s, ttl, where, shared)]
  PROVE  /\ send' \in [Sends -> Send]
         /\ send'[s].at = where /\ send'[s].ttl = ttl /\ send'[s].shared = shared
         /\ \A x \in Sends : x # s => send'[x] = send[x]
<1>1. PICK w : w = Waiting(s, ttl, where, shared)
  OBVIOUS
<1>2. w \in Send /\ w.at = where /\ w.ttl = ttl /\ w.shared = shared
  BY <1>1 DEF Waiting, Send, Awaits
<1>3. QED
  BY <1>1, <1>2

\* A send through the group's socket: whoever waits on it meanwhile is crossed, if the
\* TTL is another.
LEMMA SharedKept ==
  ASSUME Inv, NEW s \in Sends, NEW given \in Ttls \union {NoTtl}, NEW g \in Groups,
         NEW encrypted \in BOOLEAN, SendShared(s, given, g, encrypted)
  PROVE  Inv'
<1>1. TypeOK /\ At(s, "idle") /\ joined /\ own[s] = NoTtl /\ wire[s] = {}
  BY DEF Inv, SendShared, Sound, Reported, At
<1>2. PICK ttl \in TtlValues : ttl = IF given = NoTtl THEN defaultTtl ELSE given
  BY <1>1, AskedTtl
<1>3. /\ ranged' \in [Sends -> BOOLEAN]
      /\ verdict' \in [Sends -> ValidationCode \union {"none"}]
  BY <1>1, RangedType, BuildsType DEF SendShared, BuildsMulticast
<1>4. CASE Valid(ttl)
  <2>1. /\ osTtl' = ttl /\ crossed' = CrossedBy(s, ttl)
        /\ send' = [send EXCEPT ![s] = Waiting(s, ttl, "multicast", TRUE)]
        /\ UNCHANGED <<dropRate, denied, defaultTtl, joined, own, wire>>
    BY <1>2, <1>4 DEF SendShared
  <2>2. /\ send' \in [Sends -> Send]
        /\ send'[s].at = "multicast" /\ send'[s].ttl = ttl /\ send'[s].shared = TRUE
        /\ \A x \in Sends : x # s => send'[x] = send[x]
    BY <1>1, <2>1, WaitingType DEF TypeOK
  <2>3. /\ crossed' \in [Sends -> BOOLEAN]
        /\ \A x \in Sends : crossed[x] => crossed'[x]
        /\ \A x \in Sends : x # s /\ ~(At(x, "multicast") /\ send[x].shared) =>
             (crossed'[x] <=> crossed[x])
        /\ \A x \in Sends : x # s /\ At(x, "multicast") /\ send[x].shared =>
             crossed'[x] \/ ttl = send[x].ttl
    <3>1. \A x \in Sends : crossed[x] \in BOOLEAN
      BY <1>1 DEF TypeOK
    <3>2. QED
      BY <2>1, <3>1 DEF CrossedBy
  <2>4. TypeOK'
    BY <1>1, <1>2, <1>3, <2>1, <2>2, <2>3 DEF TypeOK
  <2>5. Sound(s)' /\ Reported(s)'
    BY <1>1, <2>1, <2>2 DEF Sound, Reported, At
  <2>6. ASSUME NEW x \in Sends, x # s PROVE Sound(x)' /\ Reported(x)'
    <3>1. Sound(x) /\ Reported(x)
      BY DEF Inv
    <3>2. send'[x] = send[x] /\ own'[x] = own[x] /\ wire'[x] = wire[x] /\ joined'
      BY <1>1, <2>1, <2>2, <2>6
    <3>3. Sound(x)'
      BY <2>1, <2>3, <2>6, <3>1, <3>2 DEF Sound, At
    <3>4. Reported(x)'
      BY <2>3, <2>6, <3>1, <3>2 DEF Reported, At
    <3>5. QED
      BY <3>3, <3>4
  <2>7. QED
    BY <2>4, <2>5, <2>6 DEF Inv
<1>5. CASE ~Valid(ttl)
  <2>1. Still /\ Goes(s, "failed")
    BY <1>2, <1>5 DEF SendShared, Still
  <2>2. /\ ~At(s, "binding") /\ ~At(s, "multicast") /\ ~At(s, "sent") /\ ~At(s, "failed")
        /\ "failed" \in (Awaits \union Outcomes) \ {"binding", "multicast", "sent"}
    BY <1>1 DEF At, Outcomes
  <2>3. QED
    BY <1>3, <2>1, <2>2, StillKept
<1>6. QED
  BY <1>4, <1>5

LEMMA OwnKept ==
  ASSUME Inv, NEW s \in Sends, NEW given \in Ttls \union {NoTtl}, NEW g \in Groups,
         NEW encrypted \in BOOLEAN, SendOwn(s, given, g, encrypted)
  PROVE  Inv'
<1>1. TypeOK /\ At(s, "idle") /\ wire[s] = {}
  BY DEF Inv, SendOwn, Reported, At
<1>2. PICK ttl \in TtlValues : ttl = IF given = NoTtl THEN defaultTtl ELSE given
  BY <1>1, AskedTtl
<1>3. /\ ranged' \in [Sends -> BOOLEAN]
      /\ verdict' \in [Sends -> ValidationCode \union {"none"}]
  BY <1>1, RangedType, BuildsType DEF SendOwn, BuildsMulticast
<1>4. /\ send' = [send EXCEPT ![s] = Waiting(s, ttl, "binding", FALSE)]
      /\ own' = [own EXCEPT ![s] = DefaultTtl]
      /\ UNCHANGED <<dropRate, denied, defaultTtl, joined, osTtl, wire, crossed>>
  BY <1>2 DEF SendOwn
<1>5. /\ send' \in [Sends -> Send]
      /\ send'[s].at = "binding" /\ send'[s].ttl = ttl /\ send'[s].shared = FALSE
      /\ \A x \in Sends : x # s => send'[x] = send[x]
  BY <1>1, <1>4, WaitingType DEF TypeOK
<1>6. own' \in [Sends -> TtlValues \union {NoTtl}]
      /\ \A x \in Sends : x # s => own'[x] = own[x]
  BY <1>1, <1>4 DEF TypeOK, TtlValues
<1>7. TypeOK'
  BY <1>1, <1>3, <1>4, <1>5, <1>6 DEF TypeOK
<1>8. Sound(s)' /\ Reported(s)'
  BY <1>1, <1>4, <1>5 DEF Sound, Reported, At
<1>9. \A x \in Sends : x # s => Untouched(x)
  BY <1>4, <1>5, <1>6 DEF Untouched
<1>10. QED
  BY <1>7, <1>8, <1>9, OthersKept

LEMMA BoundKept ==
  ASSUME Inv, NEW s \in Sends, Bound(s)
  PROVE  Inv'
<1>1. /\ TypeOK /\ At(s, "binding") /\ ~send[s].shared /\ wire[s] = {}
      /\ send[s].ttl \in TtlValues
  BY DEF Inv, Bound, Sound, Reported, At, TypeOK, Send
<1>2. UNCHANGED <<dropRate, denied, defaultTtl, joined, osTtl, wire, crossed, ranged, verdict>>
  BY DEF Bound, checked
<1>3. PICK where \in {"multicast", "failed"} : Goes(s, where)
  BY DEF Bound
<1>4. /\ send' \in [Sends -> Send] /\ send'[s].at = where /\ send'[s].ttl = send[s].ttl
      /\ send'[s].shared = send[s].shared
      /\ \A x \in Sends : x # s => send'[x] = send[x]
  <2>1. where \in Awaits \union Outcomes
    BY DEF Awaits, Outcomes
  <2>2. QED
    BY <1>1, <1>3, <2>1, GoesType DEF TypeOK
<1>5. /\ own' \in [Sends -> TtlValues \union {NoTtl}]
      /\ \A x \in Sends : x # s => own'[x] = own[x]
  BY <1>1 DEF Bound, TypeOK
<1>6. \/ Valid(send[s].ttl) /\ where = "multicast" /\ own'[s] = send[s].ttl
      \/ ~Valid(send[s].ttl) /\ where = "failed"
  <2>1. CASE Valid(send[s].ttl)
    <3>1. Goes(s, "multicast") /\ own' = [own EXCEPT ![s] = send[s].ttl]
      BY <2>1 DEF Bound
    <3>2. send'[s].at = "multicast" /\ own'[s] = send[s].ttl
      BY <1>1, <3>1, GoesType DEF TypeOK, Awaits
    <3>3. QED
      BY <1>4, <2>1, <3>2
  <2>2. CASE ~Valid(send[s].ttl)
    <3>1. Goes(s, "failed")
      BY <2>2 DEF Bound
    <3>2. send'[s].at = "failed"
      BY <1>1, <3>1, GoesType DEF TypeOK, Outcomes
    <3>3. QED
      BY <1>4, <2>2, <3>2
  <2>3. QED
    BY <2>1, <2>2
<1>7. TypeOK'
  BY <1>1, <1>2, <1>4, <1>5 DEF TypeOK
<1>8. Sound(s)' /\ Reported(s)'
  BY <1>1, <1>2, <1>4, <1>6 DEF Sound, Reported, At
<1>9. \A x \in Sends : x # s => Untouched(x)
  BY <1>2, <1>4, <1>5 DEF Untouched
<1>10. QED
  BY <1>7, <1>8, <1>9, OthersKept

\* A datagram that leaves, with the event that reports it.
LEMMA SentKept ==
  ASSUME Inv, NEW s \in Sends, ~At(s, "sent"), NEW address \in Addresses, NEW ttl \in TtlValues,
         Departs(s, address, ttl), Reports(s, address),
         own' \in [Sends -> TtlValues \union {NoTtl}], own'[s] = NoTtl,
         \A x \in Sends : x # s => own'[x] = own[x],
         UNCHANGED <<dropRate, denied, defaultTtl, joined, osTtl, crossed, ranged, verdict>>,
         address = "group" /\ ~crossed[s] => ttl = send[s].ttl
  PROVE  Inv'
<1>1. TypeOK /\ wire[s] = {}
  BY DEF Inv, Reported
<1>2. /\ send' \in [Sends -> Send]
      /\ send'[s].at = "sent" /\ send'[s].address = address
      /\ \A x \in Sends : x # s => send'[x] = send[x]
  BY <1>1, ReportsType DEF TypeOK
<1>3. PICK d \in Datagram :
        /\ wire' = [wire EXCEPT ![s] = @ \union {d}]
        /\ wire' \in [Sends -> SUBSET Datagram]
        /\ d.address = address /\ d.ttl = ttl /\ d.field = send[s].ttl
  BY <1>1, DepartsType
<1>4. wire'[s] = {d} /\ \A x \in Sends : x # s => wire'[x] = wire[x]
  BY <1>1, <1>3 DEF TypeOK
<1>5. TypeOK'
  BY <1>1, <1>2, <1>3 DEF TypeOK
<1>6. Sound(s)' /\ Reported(s)'
  BY <1>2, <1>3, <1>4 DEF Sound, Reported, At
<1>7. \A x \in Sends : x # s => Untouched(x)
  BY <1>2, <1>4 DEF Untouched
<1>8. QED
  BY <1>5, <1>6, <1>7, OthersKept

LEMMA MulticastSentKept == ASSUME Inv, NEW s \in Sends, MulticastSent(s) PROVE Inv'
<1>1. TypeOK /\ At(s, "multicast") /\ Sound(s) /\ send[s] \in Send
  BY DEF Inv, MulticastSent, TypeOK
<1>2. PICK ttl \in TtlValues :
        /\ ttl = IF send[s].shared THEN osTtl ELSE own[s]
        /\ ~crossed[s] => ttl = send[s].ttl
  <2>1. osTtl \in TtlValues /\ send[s].ttl \in TtlValues /\ send[s].shared \in BOOLEAN
    BY <1>1 DEF TypeOK, Send
  <2>2. QED
    BY <1>1, <2>1 DEF Sound
<1>3. /\ own' \in [Sends -> TtlValues \union {NoTtl}] /\ own'[s] = NoTtl
      /\ \A x \in Sends : x # s => own'[x] = own[x]
  BY <1>1 DEF MulticastSent, TypeOK
<1>4. /\ Departs(s, "group", ttl) /\ Reports(s, "group") /\ "group" \in Addresses
      /\ UNCHANGED <<dropRate, denied, defaultTtl, joined, osTtl, crossed, ranged, verdict>>
  BY <1>2 DEF MulticastSent, Addresses, checked
<1>5. ~At(s, "sent")
  BY <1>1 DEF At
<1>6. QED
  BY <1>2, <1>3, <1>4, <1>5, SentKept

LEMMA BroadcastSent == ASSUME Inv, NEW s \in Sends, LimitedSent(s) \/ DirectedSent(s)
                       PROVE  Inv'
<1>1. PICK address \in {"limited", "directed"} :
        Departs(s, address, DefaultTtl) /\ Reports(s, address)
  BY DEF LimitedSent, DirectedSent
<1>2. /\ At(s, "limited") \/ At(s, "fallback")
      /\ own' = own
      /\ UNCHANGED <<dropRate, denied, defaultTtl, joined, osTtl, crossed, ranged, verdict>>
  BY DEF LimitedSent, DirectedSent, checked
<1>3. own[s] = NoTtl /\ own' \in [Sends -> TtlValues \union {NoTtl}] /\ ~At(s, "sent")
  BY <1>2 DEF Inv, TypeOK, Sound, At
<1>4. address \in Addresses /\ DefaultTtl \in TtlValues /\ address # "group"
  BY DEF Addresses, TtlValues
<1>5. QED
  BY <1>1, <1>2, <1>3, <1>4, SentKept

LEMMA MulticastFailsKept == ASSUME Inv, NEW s \in Sends, MulticastFails(s) PROVE Inv'
<1>1. TypeOK /\ At(s, "multicast") /\ wire[s] = {}
  BY DEF Inv, MulticastFails, Reported, At
<1>2. /\ Goes(s, "failed") /\ own' = [own EXCEPT ![s] = NoTtl]
      /\ UNCHANGED <<dropRate, denied, defaultTtl, joined, osTtl, wire, crossed, ranged, verdict>>
  BY DEF MulticastFails, checked
<1>3. /\ send' \in [Sends -> Send] /\ send'[s].at = "failed"
      /\ \A x \in Sends : x # s => send'[x] = send[x]
  BY <1>1, <1>2, GoesType DEF TypeOK, Outcomes
<1>4. /\ own' \in [Sends -> TtlValues \union {NoTtl}] /\ own'[s] = NoTtl
      /\ \A x \in Sends : x # s => own'[x] = own[x]
  BY <1>1, <1>2 DEF TypeOK
<1>5. TypeOK'
  BY <1>1, <1>2, <1>3, <1>4 DEF TypeOK
<1>6. Sound(s)' /\ Reported(s)'
  BY <1>1, <1>2, <1>3, <1>4 DEF Sound, Reported, At
<1>7. \A x \in Sends : x # s => Untouched(x)
  BY <1>2, <1>3, <1>4 DEF Untouched
<1>8. QED
  BY <1>5, <1>6, <1>7, OthersKept

\* The dials touch no send, and a socket that is made or closed is nobody's: who waits
\* on the group's socket when it is closed hangs.
LEMMA DialKept == ASSUME Inv, Dial PROVE Inv'
<1>1. /\ UNCHANGED <<joined, osTtl, send, own, wire, crossed, ranged, verdict>>
      /\ dropRate' \in Rates /\ denied' \in BOOLEAN /\ defaultTtl' \in TtlValues
  BY DEF Dial, SetDropRate, SetSimulateDenied, SetDefaultTtl, checked, Inv, TypeOK, TtlValues
<1>2. TypeOK'
  BY <1>1 DEF Inv, TypeOK
<1>3. \A x \in Sends : Untouched(x)
  BY <1>1 DEF Untouched
<1>4. QED
  BY <1>2, <1>3, UntouchedKept DEF Inv

LEMMA JoinKept == ASSUME Inv, Join PROVE Inv'
<1>1. /\ ~joined /\ joined' = TRUE /\ osTtl' = DefaultTtl
      /\ UNCHANGED <<dropRate, denied, defaultTtl, send, own, wire, crossed, ranged, verdict>>
  BY DEF Join, checked
<1>2. TypeOK'
  BY <1>1 DEF Inv, TypeOK, TtlValues
<1>3. ASSUME NEW x \in Sends PROVE Sound(x)' /\ Reported(x)'
  <2>1. Sound(x) /\ Reported(x)
    BY DEF Inv
  <2>2. QED
    BY <1>1, <2>1 DEF Sound, Reported, At
<1>4. QED
  BY <1>2, <1>3 DEF Inv

LEMMA LeaveKept == ASSUME Inv, Leave PROVE Inv'
<1>1. /\ joined /\ joined' = FALSE /\ osTtl' = DefaultTtl
      /\ UNCHANGED <<dropRate, denied, defaultTtl, own, wire, crossed, ranged, verdict>>
  BY DEF Leave, checked
<1>2. ASSUME NEW x \in Sends
      PROVE  /\ send'[x] \in Send
             /\ send'[x].ttl = send[x].ttl /\ send'[x].shared = send[x].shared
             /\ send'[x].address = send[x].address
             /\ send'[x].at = IF At(x, "multicast") /\ send[x].shared THEN "hung"
                                                                       ELSE send[x].at
  <2>1. send[x] \in Send
    BY DEF Inv, TypeOK
  <2>2. CASE At(x, "multicast") /\ send[x].shared
    <3>1. send'[x] = [send[x] EXCEPT !.at = "hung"]
      BY <2>2 DEF Leave
    <3>2. QED
      BY <2>1, <2>2, <3>1 DEF Send, Outcomes
  <2>3. CASE ~(At(x, "multicast") /\ send[x].shared)
    <3>1. send'[x] = send[x]
      BY <2>3 DEF Leave
    <3>2. QED
      BY <2>1, <2>3, <3>1
  <2>4. QED
    BY <2>2, <2>3
<1>3. send' \in [Sends -> Send]
  BY <1>2 DEF Leave
<1>4. TypeOK'
  BY <1>1, <1>3 DEF Inv, TypeOK, TtlValues
<1>5. ASSUME NEW x \in Sends PROVE Sound(x)' /\ Reported(x)'
  <2>1. Sound(x) /\ Reported(x)
    BY DEF Inv
  <2>2. QED
    BY <1>1, <1>2, <2>1 DEF Sound, Reported, At
<1>6. QED
  BY <1>4, <1>5 DEF Inv

LEMMA InvInit == Init => Inv
<1>1. ASSUME Init PROVE Inv
  <2>1. Fresh \in Send /\ Fresh.at = "idle" /\ Fresh.shared = FALSE
    BY DEF Fresh, Send, Awaits, TtlValues
  <2>2. \A s \in Sends : send[s] = Fresh /\ own[s] = NoTtl /\ wire[s] = {}
    BY <1>1 DEF Init
  <2>3. \A s \in Sends : Sound(s) /\ Reported(s)
    BY <2>1, <2>2 DEF Sound, Reported, At
  <2>4. TypeOK
    BY <1>1, <2>1 DEF Init, TypeOK, Rates, TtlValues
  <2>5. QED
    BY <2>3, <2>4 DEF Inv
<1>2. QED
  BY <1>1

LEMMA InvNext == Inv /\ [Next]_vars => Inv'
<1> SUFFICES ASSUME Inv, [Next]_vars PROVE Inv'
  OBVIOUS
<1>1. ASSUME NEW s \in Sends, Begin(s) PROVE Inv'
  BY <1>1, BeginEnds, SharedKept, OwnKept DEF Begin
<1>2. ASSUME NEW s \in Sends, Progress(s) PROVE Inv'
  BY <1>2, BoundKept, MulticastSentKept, MulticastFailsKept, BroadcastSent, BroadcastFails
     DEF Progress
<1>3. CASE UNCHANGED vars
  <2>1. TypeOK' /\ \A x \in Sends : Untouched(x)
    BY <1>3 DEF vars, Inv, TypeOK, Untouched
  <2>2. QED
    BY <2>1, UntouchedKept DEF Inv
<1>4. QED
  BY <1>1, <1>2, <1>3, DialKept, JoinKept, LeaveKept DEF Next

LEMMA InvAlways == Spec => []Inv
  BY InvInit, InvNext, PTL DEF Spec

-----------------------------------------------------------------------------

\* What was checked of a send before it waits, and when it has ended.
Vouched(s) ==
  /\ At(s, "rejected") => ~ranged[s]
  /\ At(s, "binding") \/ At(s, "multicast") => ranged[s] /\ verdict[s] = "OK"
  /\ At(s, "limited") \/ At(s, "fallback") => verdict[s] = "OK"
  /\ At(s, "sent") => verdict[s] = "OK" /\ (send[s].address = "group" => ranged[s])

Vouching == \A s \in Sends : Vouched(s)

\* A send that moves on with the verdict it has.
LEMMA MovesOn ==
  ASSUME TypeOK, NEW s \in Sends, UNCHANGED <<ranged, verdict>>, Vouched(s),
         NEW where \in Awaits \union Outcomes, Goes(s, where),
         \/ where \in {"dropped", "failed", "denied"}
         \/ At(s, "binding") /\ where = "multicast"
         \/ At(s, "limited") /\ where = "fallback"
  PROVE  Vouched(s)'
<1>1. send'[s].at = where
  BY GoesType DEF TypeOK
<1>2. QED
  BY <1>1 DEF Vouched, At

LEMMA BeginVouches ==
  ASSUME TypeOK, NEW s \in Sends, Vouched(s), Begin(s)
  PROVE  Vouched(s)'
<1>1. CASE Dropped(s) \/ Unsendable(s)
  <2>1. PICK where \in {"dropped", "failed"} : Goes(s, where)
    BY <1>1 DEF Dropped, Unsendable
  <2>2. UNCHANGED <<ranged, verdict>> /\ where \in Awaits \union Outcomes
    BY <1>1 DEF Dropped, Unsendable, checked, Outcomes
  <2>3. QED
    BY <2>1, <2>2, MovesOn
<1>2. CASE SendBroadcast(s)
  <2>1. PICK where \in {"denied", "limited"} : Goes(s, where)
    BY <1>2 DEF SendBroadcast
  <2>2. send'[s].at = where
    BY <2>1, GoesType DEF TypeOK, Awaits, Outcomes
  <2>3. verdict'[s] = "OK"
    <3>1. PICK env : env = BuildEnvelope("broadcast", Undefined, Undefined, Undefined)
      OBVIOUS
    <3>2. verdict' = [verdict EXCEPT ![s] = ValidateEnvelope(env)]
      BY <1>2, <3>1 DEF SendBroadcast, Builds
    <3>3. QED
      BY <3>1, <3>2, BroadcastIsWell DEF TypeOK
  <2>4. QED
    BY <2>1, <2>2, <2>3 DEF Vouched, At
<1>3. ASSUME NEW g \in Groups, Rejected(s, g) PROVE Vouched(s)'
  <2>1. Goes(s, "rejected") /\ "rejected" \in Awaits \union Outcomes
    BY <1>3 DEF Rejected, Outcomes
  <2>2. send'[s].at = "rejected"
    BY <2>1, GoesType DEF TypeOK
  <2>3. ~InRange(g)
    BY <1>3, RangeIsPrefix DEF Rejected, Passing
  <2>4. ranged'[s] = InRange(g)
    BY <1>3 DEF Rejected, Ranged, TypeOK
  <2>5. QED
    BY <2>2, <2>3, <2>4 DEF Vouched, At
<1>4. ASSUME NEW g \in Groups, NEW given \in Ttls \union {NoTtl}, NEW encrypted \in BOOLEAN,
             SendShared(s, given, g, encrypted) \/ SendOwn(s, given, g, encrypted)
      PROVE  Vouched(s)'
  <2>1. PICK ttl \in TtlValues : ttl = IF given = NoTtl THEN defaultTtl ELSE given
    BY AskedTtl
  <2>2. PICK env : env = StampTtl(BuildEnvelope("multicast", Undefined, g, Undefined), ttl)
    OBVIOUS
  <2>3. g \in Passing /\ Ranged(s, g) /\ Builds(s, env, encrypted)
    BY <1>4, <2>1, <2>2 DEF SendShared, SendOwn, BuildsMulticast
  <2>4. ranged'[s]
    <3>1. InRange(g)
      BY <2>3, RangeIsPrefix DEF Passing
    <3>2. QED
      BY <2>3, <3>1 DEF Ranged, TypeOK
  <2>5. verdict'[s] = "OK"
    BY <2>2, <2>3, MulticastIsWell DEF Builds, TypeOK
  <2>6. send'[s].at \in {"multicast", "binding", "failed"}
    <3>1. send' = [send EXCEPT ![s] = Waiting(s, ttl, "multicast", TRUE)] =>
            send'[s].at = "multicast"
      BY WaitingType DEF TypeOK
    <3>2. send' = [send EXCEPT ![s] = Waiting(s, ttl, "binding", FALSE)] =>
            send'[s].at = "binding"
      BY WaitingType DEF TypeOK
    <3>3. Goes(s, "failed") => send'[s].at = "failed"
      BY GoesType DEF TypeOK, Outcomes
    <3>4. \/ send' = [send EXCEPT ![s] = Waiting(s, ttl, "multicast", TRUE)]
          \/ send' = [send EXCEPT ![s] = Waiting(s, ttl, "binding", FALSE)]
          \/ Goes(s, "failed")
      BY <1>4, <2>1 DEF SendShared, SendOwn
    <3>5. QED
      BY <3>1, <3>2, <3>3, <3>4
  <2>7. QED
    BY <2>4, <2>5, <2>6 DEF Vouched, At
<1>5. QED
  BY <1>1, <1>2, <1>3, <1>4 DEF Begin

LEMMA ProgressVouches ==
  ASSUME TypeOK, NEW s \in Sends, Vouched(s), Progress(s)
  PROVE  Vouched(s)'
<1>1. UNCHANGED <<ranged, verdict>>
  BY DEF Progress, Bound, MulticastSent, MulticastFails, LimitedSent, LimitedFails,
         DirectedSent, DirectedFails, checked
<1>2. CASE Bound(s)
  <2>1. At(s, "binding") /\ \E where \in {"multicast", "failed"} : Goes(s, where)
    BY <1>2 DEF Bound
  <2>2. QED
    BY <1>1, <2>1, MovesOn DEF Awaits, Outcomes
<1>3. CASE LimitedFails(s) \/ DirectedFails(s) \/ MulticastFails(s)
  <2>1. \/ Goes(s, "failed") \/ Goes(s, "denied")
        \/ At(s, "limited") /\ Goes(s, "fallback")
    BY <1>3 DEF LimitedFails, DirectedFails, MulticastFails
  <2>2. QED
    BY <1>1, <2>1, MovesOn DEF Awaits, Outcomes
<1>4. CASE MulticastSent(s) \/ LimitedSent(s) \/ DirectedSent(s)
  <2>1. PICK address \in Addresses :
          /\ Reports(s, address)
          /\ \/ At(s, "multicast")
             \/ (At(s, "limited") \/ At(s, "fallback")) /\ address # "group"
    BY <1>4 DEF MulticastSent, LimitedSent, DirectedSent, Addresses
  <2>2. send'[s].at = "sent" /\ send'[s].address = address
    BY <2>1, ReportsType DEF TypeOK
  <2>3. QED
    BY <1>1, <2>1, <2>2 DEF Vouched, At
<1>5. QED
  BY <1>2, <1>3, <1>4 DEF Progress

\* What is known of a send is not changed by the steps of another.
LEMMA OthersVouched ==
  ASSUME TypeOK, NEW s \in Sends, Begin(s) \/ Progress(s), NEW x \in Sends, x # s
  PROVE  send'[x] = send[x] /\ ranged'[x] = ranged[x] /\ verdict'[x] = verdict[x]
<1>1. send'[x] = send[x]
  <2>1. \A r : send' = [send EXCEPT ![s] = r] => send'[x] = send[x]
    BY DEF TypeOK
  <2>2. CASE \E where : Goes(s, where)
    BY <2>2 DEF Goes, TypeOK
  <2>3. CASE \E address : Reports(s, address)
    BY <2>3 DEF Reports, TypeOK
  <2>4. CASE Begin(s)
    <3>1. ASSUME NEW g \in Groups, NEW given \in Ttls \union {NoTtl},
                 NEW encrypted \in BOOLEAN,
                 SendShared(s, given, g, encrypted) \/ SendOwn(s, given, g, encrypted)
          PROVE  (\E r : send' = [send EXCEPT ![s] = r]) \/ \E where : Goes(s, where)
      BY <3>1 DEF SendShared, SendOwn
    <3>2. \/ Dropped(s) \/ Unsendable(s) \/ SendBroadcast(s) \/ (\E g \in Groups : Rejected(s, g))
          => \E where : Goes(s, where)
      BY DEF Dropped, Unsendable, SendBroadcast, Rejected
    <3>3. QED
      BY <2>1, <2>2, <2>4, <3>1, <3>2 DEF Begin
  <2>5. CASE Progress(s)
    <3>1. (\E where : Goes(s, where)) \/ \E address : Reports(s, address)
      BY <2>5 DEF Progress, Bound, MulticastSent, MulticastFails, LimitedSent, LimitedFails,
                  DirectedSent, DirectedFails
    <3>2. QED
      BY <2>2, <2>3, <3>1
  <2>6. QED
    BY <2>4, <2>5
<1>2. ranged'[x] = ranged[x]
  <2>1. ASSUME NEW g, Ranged(s, g) PROVE ranged'[x] = ranged[x]
    BY <2>1 DEF Ranged, TypeOK
  <2>2. CASE Begin(s)
    BY <2>1, <2>2
       DEF Begin, Dropped, Unsendable, SendBroadcast, Rejected, SendShared, SendOwn, checked
  <2>3. CASE Progress(s)
    BY <2>3 DEF Progress, Bound, MulticastSent, MulticastFails, LimitedSent, LimitedFails,
                DirectedSent, DirectedFails, checked
  <2>4. QED
    BY <2>2, <2>3
<1>3. verdict'[x] = verdict[x]
  <2>1. ASSUME NEW env, NEW encrypted, Builds(s, env, encrypted) PROVE verdict'[x] = verdict[x]
    BY <2>1 DEF Builds, TypeOK
  <2>2. CASE Begin(s)
    BY <2>1, <2>2
       DEF Begin, Dropped, Unsendable, SendBroadcast, Rejected, SendShared, SendOwn, checked,
           BuildsMulticast
  <2>3. CASE Progress(s)
    BY <2>3 DEF Progress, Bound, MulticastSent, MulticastFails, LimitedSent, LimitedFails,
                DirectedSent, DirectedFails, checked
  <2>4. QED
    BY <2>2, <2>3
<1>4. QED
  BY <1>1, <1>2, <1>3

LEMMA VouchingNext == Inv /\ Vouching /\ [Next]_vars => Vouching'
<1> SUFFICES ASSUME Inv, Vouching, [Next]_vars, NEW x \in Sends PROVE Vouched(x)'
  BY DEF Vouching
<1>1. TypeOK /\ Vouched(x)
  BY DEF Inv, Vouching
<1>2. ASSUME send'[x] = send[x], ranged'[x] = ranged[x], verdict'[x] = verdict[x]
      PROVE  Vouched(x)'
  BY <1>1, <1>2 DEF Vouched, At
<1>3. ASSUME NEW s \in Sends, Begin(s) \/ Progress(s) PROVE Vouched(x)'
  <2>1. CASE x = s
    BY <1>1, <1>3, <2>1, BeginVouches, ProgressVouches
  <2>2. CASE x # s
    BY <1>1, <1>2, <1>3, <2>2, OthersVouched
  <2>3. QED
    BY <2>1, <2>2
<1>4. CASE Dial \/ Join
  BY <1>2, <1>4 DEF Dial, SetDropRate, SetSimulateDenied, SetDefaultTtl, Join, checked
<1>5. CASE Leave
  <2>1. ranged' = ranged /\ verdict' = verdict
    BY <1>5 DEF Leave, checked
  <2>2. send'[x] = send[x] \/ send'[x] = [send[x] EXCEPT !.at = "hung"]
    BY <1>5 DEF Leave
  <2>3. send[x] \in Send
    BY <1>1 DEF TypeOK
  <2>4. CASE send'[x] = [send[x] EXCEPT !.at = "hung"]
    <3>1. send'[x].at = "hung"
      BY <2>3, <2>4 DEF Send
    <3>2. QED
      BY <3>1 DEF Vouched, At
  <2>5. QED
    BY <1>2, <2>1, <2>2, <2>4
<1>6. CASE UNCHANGED vars
  BY <1>2, <1>6 DEF vars
<1>7. QED
  BY <1>3, <1>4, <1>5, <1>6 DEF Next

LEMMA VouchingAlways == Spec => []Vouching
<1>1. Init => Vouching
  BY DEF Init, Fresh, Vouching, Vouched, At
<1>2. QED
  BY <1>1, VouchingNext, InvAlways, PTL DEF Spec

-----------------------------------------------------------------------------

\* Every variable keeps its type; what validateEnvelope says is one of its codes.
THEOREM TypeCorrect == Spec => []TypeOK
<1>1. Inv => TypeOK
  BY DEF Inv
<1>2. QED
  BY <1>1, InvAlways, PTL

\* BR-12, BR-13, BR-23 (sendMulticast, sendBroadcast, shouldDrop): however the sends are
\* interleaved and the dials turned, a send reported as sent put one datagram on the
\* network, to the address of its report, and any other none.
THEOREM ReportsTellTheTruth == Spec => []ReportsAreTrue
<1>1. Inv => ReportsAreTrue
  <2>1. ASSUME Inv, NEW s \in Sends, At(s, "sent")
        PROVE  /\ {d.address : d \in wire[s]} = {send[s].address}
               /\ Cardinality(wire[s]) = 1
    <3>1. PICK d \in Datagram : wire[s] = {d} /\ d.address = send[s].address
      BY <2>1 DEF Inv, Reported
    <3>2. Cardinality({d}) = 1
      BY FS_Singleton
    <3>3. QED
      BY <3>1, <3>2
  <2>2. ASSUME Inv, NEW s \in Sends, ~At(s, "sent") PROVE wire[s] = {}
    BY <2>2 DEF Inv, Reported
  <2>3. QED
    BY <2>1, <2>2 DEF ReportsAreTrue
<1>2. QED
  BY <1>1, InvAlways, PTL

\* BR-10 (isMulticastAddress, validateEnvelope): whatever the size of an octet is, the
\* shifts and comparisons reject what lies outside 224.0.0.0/4 and nothing else, and every
\* multicast or broadcast that leaves is an envelope the validator accepts.
THEOREM OnlyGoodEnvelopesLeave == Spec => []GoodEnvelopesLeave
<1>1. Inv /\ Vouching => GoodEnvelopesLeave
  <2>1. ASSUME Inv, Vouching, NEW s \in Sends
        PROVE  /\ At(s, "rejected") => ~ranged[s]
               /\ wire[s] # {} => verdict[s] = "OK"
               /\ (\E d \in wire[s] : d.address = "group") => ranged[s]
    <3>1. Vouched(s) /\ Reported(s)
      BY <2>1 DEF Inv, Vouching
    <3>2. QED
      BY <3>1 DEF Vouched, Reported
  <2>2. QED
    BY <2>1 DEF GoodEnvelopesLeave
<1>2. QED
  BY <1>1, InvAlways, VouchingAlways, PTL

\* BR-08, COND-20 (stampTtl, setMulticastTTL): a multicast datagram has the TTL of its
\* envelope, unless a send through the same socket set another meanwhile.
THEOREM StampedTtlLeaves == Spec => []TtlIsStamped
<1>1. Inv => TtlIsStamped
  <2>1. ASSUME Inv, NEW s \in Sends, ~crossed[s], NEW d \in wire[s], d.address = "group"
        PROVE  d.ttl = d.field
    BY <2>1 DEF Inv, Reported
  <2>2. QED
    BY <2>1 DEF TtlIsStamped
<1>2. QED
  BY <1>1, InvAlways, PTL

\* The ephemeral socket of a send (sendMulticast's finally) is closed when the send ends,
\* but for a TTL the operating system refused.
THEOREM EphemeralSocketsClose == Spec => []SocketsClosed
<1>1. Inv => SocketsClosed
  BY DEF Inv, Sound, SocketsClosed
<1>2. QED
  BY <1>1, InvAlways, PTL
=============================================================================

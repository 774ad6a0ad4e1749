--------------------------- MODULE UnicastProofs ---------------------------
(***************************************************************************)
(* Proofs about Unicast, for every set of agents, ports and connection     *)
(* objects and every bound on the numbers and the spawns.                  *)
(***************************************************************************)
EXTENDS Unicast, TLAPS

ConnTable == [Agents -> [Conns -> Conn]]

LEMMA FreeType == FreeConn \in Conn /\ 0 \in Numbers
  BY UnicastAssumption DEF FreeConn, Conn, Statuses, Numbers

\* The fields of a connection object.
LEMMA ConnFields ==
  ASSUME TypeOK, NEW a \in Agents, NEW c \in Conns
  PROVE  /\ conns[a][c] \in Conn
         /\ conns[a][c].status \in Statuses
         /\ conns[a][c].to \in Agents \union {NoAgent}
         /\ conns[a][c].at \in Agents \union {NoAgent}
         /\ conns[a][c].q \in Seq(Message)
  BY DEF TypeOK, Conn

\* A connection object with one message more, and with one less.
LEMMA AppendType ==
  ASSUME NEW k \in Conn, NEW m \in Message
  PROVE  LET l == [k EXCEPT !.q = Append(@, m)]
         IN /\ l \in Conn
            /\ l.status = k.status /\ l.to = k.to /\ l.at = k.at
            /\ l.q = Append(k.q, m)
<1>1. Append(k.q, m) \in Seq(Message)
  BY DEF Conn
<1>2. QED
  BY <1>1, Zenon DEF Conn

LEMMA TailType ==
  ASSUME NEW k \in Conn, k.q # <<>>
  PROVE  LET l == [k EXCEPT !.q = Tail(@)]
         IN /\ l \in Conn
            /\ l.status = k.status /\ l.to = k.to /\ l.at = k.at
            /\ l.q = Tail(k.q)
<1>1. k.q \in Seq(Message) /\ Tail(k.q) \in Seq(Message)
  BY DEF Conn
<1>2. QED
  BY <1>1, Zenon DEF Conn

\* ... and one that has found its far end.
LEMMA OpenedType ==
  ASSUME NEW k \in Conn, NEW x \in Agents
  PROVE  LET l == [k EXCEPT !.status = "open", !.at = x]
         IN /\ l \in Conn
            /\ l.status = "open" /\ l.to = k.to /\ l.at = x
            /\ l.q = k.q
<1>1. "open" \in Statuses
  BY DEF Statuses
<1>2. QED
  BY <1>1, Zenon DEF Conn

\* What a message put at the end of a queue makes of it.
LEMMA Longer ==
  ASSUME NEW s \in Seq(Message), NEW m \in Message
  PROVE  LET t == Append(s, m)
         IN /\ Len(s) \in Nat /\ Len(t) = Len(s) + 1
            /\ \A i \in 1 .. Len(s) : t[i] = s[i]
            /\ t[Len(s) + 1] = m
OBVIOUS

\* An update outside a function's domain leaves it in its set.
LEMMA OutsideUpdate ==
  ASSUME NEW S, NEW T, NEW f \in [S -> T], NEW x, x \notin S, NEW v
  PROVE  [f EXCEPT ![x] = v] \in [S -> T]
  OBVIOUS

\* Changing one connection object changes no other.
LEMMA ConnUpdate ==
  ASSUME NEW t \in ConnTable, NEW a \in Agents, NEW c \in Conns, NEW k \in Conn
  PROVE  /\ [t EXCEPT ![a][c] = k] \in ConnTable
         /\ \A x \in Agents, d \in Conns :
              [t EXCEPT ![a][c] = k][x][d] = IF x = a /\ d = c THEN k ELSE t[x][d]
  BY DEF ConnTable

\* The same of a flag of an ordered pair of agents.
LEMMA FlagUpdate ==
  ASSUME NEW t \in [Agents -> [Agents -> BOOLEAN]], NEW a \in Agents, NEW b \in Agents,
         NEW v \in BOOLEAN
  PROVE  /\ [t EXCEPT ![a][b] = v] \in [Agents -> [Agents -> BOOLEAN]]
         /\ [t EXCEPT ![a][b] = v][a][b] = v
         /\ \A x, y \in Agents : <<x, y>> # <<a, b>> =>
              [t EXCEPT ![a][b] = v][x][y] = t[x][y]
  OBVIOUS

\* The object a new connection gets is one of the agent's.
LEMMA NewConnType ==
  ASSUME NEW a \in Agents
  PROVE  NewConn(a) \in Conns
  BY UnicastAssumption DEF NewConn

\* What a send does to the connections: nothing, one more message on the one in the
\* map, or one object more.
Appended(a, b, m, c) ==
  /\ c = clients[a][b] /\ c # NoConn /\ conns[a][c].status = "open"
  /\ conns' = [conns EXCEPT ![a][c] = [conns[a][c] EXCEPT !.q = Append(@, m)]]

Dialled(a, b, m, c) ==
  /\ clients[a][b] = NoConn /\ conns[a][c].status = "free"
  /\ conns' = [conns EXCEPT ![a][c] = [status |-> "connecting", to |-> b,
                                       port |-> book[a][b], at |-> NoAgent, q |-> <<m>>]]

\* ... and if the pair stays undisturbed it was written, or is the first to connect.
Orderly(a, b, m) ==
  \/ \E c \in Conns : Appended(a, b, m, c)
  \/ \E c \in Conns : Dialled(a, b, m, c) /\ Connecting(a, b) = {}

LEMMA TransmitCases ==
  ASSUME TypeOK, NEW a \in Agents, NEW b \in Agents, NEW m \in Message,
         NEW u \in BOOLEAN, Transmit(a, b, m, u)
  PROVE  /\ orderly' \in [Agents -> [Agents -> BOOLEAN]]
         /\ \A x, y \in Agents : x # a \/ y # b => (orderly'[x][y] => orderly[x][y])
         /\ orderly'[a][b] => orderly[a][b] /\ u
         /\ \/ conns' = conns
            \/ \E c \in Conns : Appended(a, b, m, c)
            \/ \E c \in Conns : Dialled(a, b, m, c)
         /\ orderly'[a][b] => Orderly(a, b, m)
<1>0. /\ conns \in ConnTable /\ clients[a][b] \in Conns \union {NoConn}
      /\ orderly \in [Agents -> [Agents -> BOOLEAN]]
  BY DEF TypeOK, ConnTable
<1> DEFINE Flags(v) == /\ orderly' \in [Agents -> [Agents -> BOOLEAN]]
                       /\ \A x, y \in Agents : x # a \/ y # b
                                                => (orderly'[x][y] => orderly[x][y])
                       /\ orderly'[a][b] = v
<1>f. ASSUME NEW v \in BOOLEAN, orderly' = [orderly EXCEPT ![a][b] = v]
      PROVE  Flags(v)
  BY <1>0, <1>f
<1> HIDE DEF Flags
<1>1. CASE /\ clients[a][b] # NoConn
           /\ LET c == clients[a][b]
                  alive == conns[a][c].status = "open"
              IN /\ conns' = IF alive THEN [conns EXCEPT ![a][c].q = Append(@, m)]
                            ELSE conns
                 /\ orderly' = [orderly EXCEPT ![a][b] = @ /\ u /\ alive]
  <2> DEFINE c == clients[a][b]
             alive == conns[a][c].status = "open"
             v == orderly[a][b] /\ u /\ alive
  <2>1. c \in Conns
    BY <1>0, <1>1
  <2>2. v \in BOOLEAN /\ orderly' = [orderly EXCEPT ![a][b] = v]
    BY <1>1
  <2>3. Flags(v)
    BY <1>f, <2>2
  <2>4. CASE alive
    <3>1. conns' = [conns EXCEPT ![a][c] = [conns[a][c] EXCEPT !.q = Append(@, m)]]
      BY <1>0, <1>1, <2>1, <2>4 DEF ConnTable
    <3>2. QED
      BY <1>1, <2>1, <2>3, <2>4, <3>1 DEF Appended, Orderly, Flags
  <2>5. CASE ~alive
    BY <1>1, <2>3, <2>5 DEF Flags
  <2>6. QED
    BY <2>4, <2>5
<1>2. CASE /\ clients[a][b] = NoConn /\ book[a][b] # NoPort
           /\ LET c == NewConn(a) IN
                /\ conns[a][c].status = "free"
                /\ conns' = [conns EXCEPT ![a][c] =
                               [status |-> "connecting", to |-> b, port |-> book[a][b],
                                at |-> NoAgent, q |-> <<m>>]]
           /\ orderly' = [orderly EXCEPT ![a][b] = /\ @ /\ u
                                                   /\ Connecting(a, b) = {}]
  <2> DEFINE v == orderly[a][b] /\ u /\ Connecting(a, b) = {}
  <2>1. v \in BOOLEAN /\ orderly' = [orderly EXCEPT ![a][b] = v]
    BY <1>2
  <2>2. Flags(v)
    BY <1>f, <2>1
  <2>3. QED
    BY <1>2, <2>2, NewConnType DEF Dialled, Orderly, Flags
<1>3. CASE /\ clients[a][b] = NoConn /\ book[a][b] = NoPort
           /\ orderly' = [orderly EXCEPT ![a][b] = FALSE]
           /\ UNCHANGED conns
  <2>1. Flags(FALSE)
    BY <1>3, <1>f
  <2>2. QED
    BY <1>3, <2>1 DEF Flags
<1>4. QED
  BY <1>1, <1>2, <1>3 DEF Transmit

LEMMA TransmitType ==
  ASSUME TypeOK, NEW a \in Agents, NEW b \in Agents, NEW m \in Message,
         NEW u \in BOOLEAN, Transmit(a, b, m, u)
  PROVE  conns' \in ConnTable /\ orderly' \in [Agents -> [Agents -> BOOLEAN]]
<1>0. conns \in ConnTable
  BY DEF TypeOK, ConnTable
<1>1. ASSUME NEW c \in Conns, Appended(a, b, m, c)
      PROVE  conns' \in ConnTable
  <2>1. [conns[a][c] EXCEPT !.q = Append(@, m)] \in Conn
    BY ConnFields, AppendType
  <2>2. QED
    BY <1>0, <1>1, <2>1, ConnUpdate DEF Appended
<1>2. ASSUME NEW c \in Conns, Dialled(a, b, m, c)
      PROVE  conns' \in ConnTable
  <2>1. [status |-> "connecting", to |-> b, port |-> book[a][b], at |-> NoAgent,
         q |-> <<m>>] \in Conn
    BY DEF Conn, Statuses, TypeOK, Book
  <2>2. QED
    BY <1>0, <1>2, <2>1, ConnUpdate DEF Dialled
<1>3. QED
  BY <1>0, <1>1, <1>2, TransmitCases

-----------------------------------------------------------------------------
(* Type correctness. *)

LEMMA InitType == Init => TypeOK
  BY FreeType, UnicastAssumption DEF Init, TypeOK, EmptyBook, Zeros, Book

LEMMA AfterDeathType ==
  ASSUME TypeOK, NEW a \in Agents, NEW x \in Agents, NEW c \in Conns
  PROVE  AfterDeath(x, conns[x][c], a) \in Conn
<1>1. [conns[x][c] EXCEPT !.status = "left"] \in Conn
  BY ConnFields DEF Conn, Statuses
<1>2. [conns[x][c] EXCEPT !.status = "lost", !.q = <<>>] \in Conn
  <2>1. "lost" \in Statuses /\ <<>> \in Seq(Message)
    BY DEF Statuses
  <2>2. QED
    BY <2>1, ConnFields, Zenon DEF Conn
<1>3. QED
  BY <1>1, <1>2, FreeType, ConnFields DEF AfterDeath

\* The number a send takes is within the width, and the message is one.
LEMMA NextNumber ==
  ASSUME TypeOK, NEW a \in Agents, NEW b \in Agents
  PROVE  /\ Send(a, b) => /\ seqCounters[a][b] + 1 \in Numbers
                          /\ Numbered(a, seqCounters[a][b] + 1, FALSE) \in Message
         /\ LegacySend(a, b) => /\ legacySeq[a] + 1 \in Numbers
                                /\ Numbered(a, legacySeq[a] + 1, TRUE) \in Message
<1>1. ASSUME NEW n \in Numbers, n < MaxSeq PROVE n + 1 \in Numbers
  BY <1>1, UnicastAssumption DEF Numbers
<1>2. seqCounters[a][b] \in Numbers /\ legacySeq[a] \in Numbers
  BY DEF TypeOK
<1>3. ASSUME NEW n \in Numbers, NEW legacy \in BOOLEAN, a \in Senders
      PROVE  Numbered(a, n, legacy) \in Message
  BY <1>3 DEF Numbered, Message, Sources, TypeOK
<1>4. QED
  BY <1>1, <1>2, <1>3 DEF Send, LegacySend

LEMMA NextType == TypeOK /\ [Next]_vars => TypeOK'
<1> SUFFICES ASSUME TypeOK, [Next]_vars PROVE TypeOK'
  OBVIOUS
<1>0. conns \in ConnTable /\ EmptyBook \in Book /\ Zeros \in [Agents -> Numbers]
  BY FreeType DEF TypeOK, ConnTable, EmptyBook, Book, Zeros
<1>1. ASSUME NEW a \in Agents, NEW p \in Ports, Spawn(a, p)
      PROVE  TypeOK'
  <2>1. Peers(a, p) \in Book
    BY DEF Peers, Book, TypeOK
  <2>2. mail' \in [Agents -> Seq(Book)]
    BY <1>1, <2>1 DEF Spawn, lives, TypeOK
  <2>3. spawned' \in 0 .. MaxSpawns /\ life' \in [Senders -> Nat]
    BY <1>1, UnicastAssumption DEF Spawn, lives, TypeOK
  <2>4. QED
    BY <1>1, <2>2, <2>3 DEF Spawn, lives, TypeOK, Book
<1>2. ASSUME NEW a \in Agents, PeerUpdate(a) PROVE TypeOK'
  <2>1. mail[a] \in Seq(Book) /\ mail[a] # <<>>
    BY <1>2 DEF PeerUpdate, lives, TypeOK
  <2>2. Head(mail[a]) \in Book /\ Tail(mail[a]) \in Seq(Book)
    BY <2>1
  <2>3. QED
    BY <1>2, <2>2 DEF PeerUpdate, lives, TypeOK
<1>3. ASSUME NEW a \in Agents, Die(a) PROVE TypeOK'
  <2>1. conns' \in ConnTable
    BY <1>3, AfterDeathType DEF Die, ConnTable
  <2>2. /\ clients' \in [Agents -> [Agents -> Conns \union {NoConn}]]
        /\ silent' \in [Agents -> [Agents -> BOOLEAN]]
    BY <1>3 DEF Die, lives, TypeOK
  <2>5. got' \in [Agents -> [Agents -> Seq(Message)]]
    BY <1>3 DEF Die, TypeOK
  <2>3. orderly' \in [Agents -> [Agents -> BOOLEAN]]
    BY <1>3 DEF Die, lives, TypeOK
  <2>4. QED
    <3>1. /\ up' \in [Agents -> BOOLEAN]
          /\ port' \in Book
          /\ book' \in [Agents -> Book]
          /\ mail' \in [Agents -> Seq(Book)]
      BY <1>0, <1>3 DEF Die, lives, TypeOK, Book
    <3>2. /\ seqCounters' \in [Agents -> [Agents -> Numbers]]
          /\ legacySeq' \in [Agents -> Numbers]
          /\ lastSeen' \in [Agents -> [Agents -> Numbers]]
          /\ spawned' \in 0 .. MaxSpawns /\ life' \in [Senders -> Nat]
      BY <1>0, <1>3, FreeType DEF Die, lives, TypeOK
    <3>3. QED
      BY <2>1, <2>2, <2>3, <2>5, <3>1, <3>2 DEF TypeOK, ConnTable
<1>4. ASSUME NEW a \in Agents, NEW b \in Agents, Send(a, b) PROVE TypeOK'
  <2>1. /\ seqCounters[a][b] + 1 \in Numbers
        /\ Numbered(a, seqCounters[a][b] + 1, FALSE) \in Message
    BY <1>4, NextNumber
  <2>2. conns' \in ConnTable /\ orderly' \in [Agents -> [Agents -> BOOLEAN]]
    BY <1>4, <2>1, TransmitType DEF Send
  <2>3. QED
    BY <1>4, <2>1, <2>2 DEF Send, lives, TypeOK, ConnTable
<1>5. ASSUME NEW a \in Agents, NEW b \in Agents, LegacySend(a, b) PROVE TypeOK'
  <2>1. legacySeq[a] + 1 \in Numbers /\ Numbered(a, legacySeq[a] + 1, TRUE) \in Message
    BY <1>5, NextNumber
  <2>2. conns' \in ConnTable /\ orderly' \in [Agents -> [Agents -> BOOLEAN]]
    BY <1>5, <2>1, TransmitType DEF LegacySend
  <2>3. QED
    BY <1>5, <2>1, <2>2 DEF LegacySend, lives, TypeOK, ConnTable
<1>6. ASSUME NEW a \in Agents, NEW c \in Conns, NEW x \in Agents, Connected(a, c, x)
      PROVE  TypeOK'
  <2>1. [conns[a][c] EXCEPT !.status = "open", !.at = x] \in Conn
    BY ConnFields DEF Conn, Statuses
  <2>2. conns' = [conns EXCEPT ![a][c] =
                    [conns[a][c] EXCEPT !.status = "open", !.at = x]]
    BY <1>0, <1>6 DEF Connected, ConnTable
  <2>3. conns' \in ConnTable
    BY <1>0, <2>1, <2>2, ConnUpdate
  <2>4. clients' \in [Agents -> [Agents -> Conns \union {NoConn}]]
    BY <1>6 DEF Connected, lives, TypeOK
  <2>5. orderly' \in [Agents -> [Agents -> BOOLEAN]]
    BY <1>6 DEF Connected, lives, TypeOK
  <2>6. QED
    BY <1>6, <2>3, <2>4, <2>5 DEF Connected, lives, TypeOK, ConnTable
<1>7. ASSUME NEW a \in Agents, NEW c \in Conns, Refused(a, c) PROVE TypeOK'
  <2>1. conns' \in ConnTable
    BY <1>0, <1>7, FreeType, ConnUpdate DEF Refused
  <2>2. orderly' \in [Agents -> [Agents -> BOOLEAN]]
    BY <1>7 DEF Refused, lives, TypeOK
  <2>3. QED
    BY <1>7, <2>1, <2>2 DEF Refused, lives, TypeOK, ConnTable
<1>8. ASSUME NEW a \in Agents, NEW c \in Conns, Closed(a, c) PROVE TypeOK'
  <2>1. conns' \in ConnTable
    BY <1>0, <1>8, FreeType, ConnUpdate DEF Closed
  <2>2. clients' \in [Agents -> [Agents -> Conns \union {NoConn}]]
    <3>1. CASE conns[a][c].to \in Agents
      BY <1>8, <3>1 DEF Closed, lives, TypeOK
    <3>2. CASE conns[a][c].to \notin Agents
      <4>1. /\ clients[a] \in [Agents -> Conns \union {NoConn}]
            /\ clients' = [clients EXCEPT ![a] = [clients[a] EXCEPT ![conns[a][c].to] =
                  IF @ = c THEN NoConn ELSE @]]
        BY <1>8 DEF Closed, lives, TypeOK
      <4>2. QED
        BY <3>2, <4>1, OutsideUpdate DEF TypeOK
    <3>3. QED
      BY <3>1, <3>2
  <2>3. QED
    BY <1>8, <2>1, <2>2 DEF Closed, lives, TypeOK, ConnTable
<1>9. ASSUME NEW a \in Agents, NEW c \in Conns, Abandon(a, c) PROVE TypeOK'
  <2>1. conns' \in ConnTable
    BY <1>0, <1>9, FreeType, ConnUpdate DEF Abandon
  <2>2. QED
    BY <1>9, <2>1 DEF Abandon, lives, TypeOK, ConnTable
<1>10. ASSUME NEW a \in Agents, NEW c \in Conns, Receive(a, c) PROVE TypeOK'
  <2> DEFINE k == conns[a][c]
             m == Head(k.q)
  <2>1. /\ k \in Conn /\ k.q \in Seq(Message) /\ k.q # <<>>
        /\ k.to \in Agents \union {NoAgent}
    BY <1>10, ConnFields DEF Receive
  <2>2. m \in Message /\ Tail(k.q) \in Seq(Message)
    BY <2>1
  <2>3. m.n \in Numbers
    BY <2>2 DEF Message
  <2>4. conns' = [conns EXCEPT ![a][c] = [k EXCEPT !.q = Tail(@)]]
    BY <1>0, <1>10 DEF Receive, ConnTable
  <2>5. conns' \in ConnTable
    <3>1. [k EXCEPT !.q = Tail(@)] \in Conn
      BY <2>1, TailType
    <3>2. QED
      BY <1>0, <2>4, <3>1, ConnUpdate
  <2>6. CASE k.at # k.to
    BY <1>10, <2>5, <2>6 DEF Receive, lives, TypeOK, ConnTable
  <2>7. CASE k.at = k.to
    <3>1. /\ lastSeen' = [lastSeen EXCEPT ![k.at][a] = Highest(@, m.n)]
          /\ silent' = [silent EXCEPT ![k.at][a] = @ /\ ~Anomalous(k.at, a, m.n)]
          /\ got' = [got EXCEPT ![k.at][a] = IF silent'[k.at][a] THEN Append(@, m)
                                                               ELSE <<>>]
      BY <1>10, <2>7 DEF Receive
    <3>2. lastSeen' \in [Agents -> [Agents -> Numbers]]
      BY <2>3, <3>1 DEF TypeOK, Highest
    <3>3. silent' \in [Agents -> [Agents -> BOOLEAN]]
      BY <3>1 DEF TypeOK
    <3>4. got' \in [Agents -> [Agents -> Seq(Message)]]
      <4>1. CASE k.at \in Agents
        <5> DEFINE g == IF silent'[k.at][a] THEN Append(got[k.at][a], m) ELSE <<>>
        <5>1. g \in Seq(Message)
          BY <2>2, <4>1 DEF TypeOK
        <5>2. got' = [got EXCEPT ![k.at][a] = g]
          BY <3>1, <4>1 DEF TypeOK
        <5> HIDE DEF g
        <5>3. QED
          BY <4>1, <5>1, <5>2 DEF TypeOK
      <4>2. CASE k.at \notin Agents
        BY <3>1, <4>2 DEF TypeOK
      <4>3. QED
        BY <4>1, <4>2
    <3>5. QED
      BY <1>10, <2>5, <3>2, <3>3, <3>4 DEF Receive, lives, TypeOK, ConnTable
  <2>8. QED
    BY <2>6, <2>7
<1>11. CASE UNCHANGED vars
  BY <1>11 DEF vars, TypeOK
<1>12. QED
  BY <1>1, <1>2, <1>3, <1>4, <1>5, <1>6, <1>7, <1>8, <1>9, <1>10, <1>11 DEF Next

\* Every variable of the model keeps to its type: in particular the numbers that are
\* counted, written and remembered stay within the width the sender counts in.
THEOREM TypeCorrect == Spec => []TypeOK
<1>1. QED
  BY InitType, NextType, PTL DEF Spec

-----------------------------------------------------------------------------
(* The map and the connections it names. *)

\* A connection object is either unused or for a recipient, and has a far end once
\* it has been accepted.
ConnsSound ==
  \A a \in Agents, c \in Conns :
    /\ conns[a][c].status = "free" <=> conns[a][c].to = NoAgent
    /\ conns[a][c].at = NoAgent <=> conns[a][c].status \in {"free", "connecting"}

\* The map names connections to the agent it names them for, which can be written to
\* or whose close event is still to come.
EntriesLive ==
  \A a, b \in Agents : clients[a][b] # NoConn =>
    /\ conns[a][clients[a][b]].status \in {"open", "lost"}
    /\ conns[a][clients[a][b]].to = b

LEMMA ConnEnds ==
  ASSUME TypeOK, ConnsSound, NEW a \in Agents, NEW c \in Conns
  PROVE  /\ conns[a][c].status # "free" => conns[a][c].to \in Agents
         /\ conns[a][c].status \notin {"free", "connecting"} => conns[a][c].at \in Agents
<1>1. /\ conns[a][c].to \in Agents \union {NoAgent}
      /\ conns[a][c].at \in Agents \union {NoAgent}
  BY ConnFields
<1>2. QED
  BY <1>1 DEF ConnsSound

\* What a death makes of a connection object of x.
LEMMA DeathFields ==
  ASSUME NEW a \in Agents, NEW x \in Agents, NEW k \in Conn
  PROVE  LET l == AfterDeath(x, k, a)
         IN \/ l = FreeConn /\ (x = a \/ k.status = "left")
            \/ /\ l.status = "left" /\ l.to = k.to /\ l.at = k.at
               /\ x = a /\ k.status = "open"
            \/ /\ l.status = "lost" /\ l.to = k.to /\ l.at = k.at
               /\ x # a /\ k.at = a /\ k.status = "open"
            \/ /\ l = k
               /\ x = a => k.status \in {"free", "left"}
               /\ x # a /\ k.at = a => k.status # "open"
<1>1. /\ k.status \in Statuses
      /\ [k EXCEPT !.status = "left"].status = "left"
      /\ [k EXCEPT !.status = "left"].to = k.to
      /\ [k EXCEPT !.status = "left"].at = k.at
  BY DEF Conn
<1>2. /\ [k EXCEPT !.status = "lost", !.q = <<>>].status = "lost"
      /\ [k EXCEPT !.status = "lost", !.q = <<>>].to = k.to
      /\ [k EXCEPT !.status = "lost", !.q = <<>>].at = k.at
  BY DEF Conn
<1>3. CASE x = a
  BY <1>1, <1>3 DEF AfterDeath, Statuses
<1>4. CASE x # a
  BY <1>1, <1>2, <1>4 DEF AfterDeath, Statuses
<1>5. QED
  BY <1>3, <1>4

LEMMA SoundInit == Init => ConnsSound /\ EntriesLive
  BY DEF Init, ConnsSound, EntriesLive, FreeConn

\* Freeing an object after which no entry names it.
LEMMA FreedSound ==
  ASSUME TypeOK, ConnsSound, EntriesLive, NEW a \in Agents, NEW c \in Conns,
         conns' = [conns EXCEPT ![a][c] = FreeConn],
         \A x, b \in Agents : /\ clients'[x][b] \in {clients[x][b], NoConn}
                              /\ clients'[a][b] # c
  PROVE  (ConnsSound /\ EntriesLive)'
<1>0. /\ conns \in ConnTable /\ FreeConn \in Conn
      /\ FreeConn.status = "free" /\ FreeConn.to = NoAgent /\ FreeConn.at = NoAgent
  BY FreeType DEF TypeOK, ConnTable, FreeConn
<1>1. \A x \in Agents, d \in Conns :
        conns'[x][d] = IF x = a /\ d = c THEN FreeConn ELSE conns[x][d]
  BY <1>0, ConnUpdate
<1>2. ConnsSound'
  BY <1>0, <1>1 DEF ConnsSound
<1>3. ASSUME NEW x \in Agents, NEW b \in Agents, clients'[x][b] # NoConn
      PROVE  /\ conns'[x][clients'[x][b]].status \in {"open", "lost"}
             /\ conns'[x][clients'[x][b]].to = b
  <2>1. /\ clients'[x][b] = clients[x][b] /\ clients[x][b] \in Conns
        /\ ~(x = a /\ clients[x][b] = c)
    BY <1>3 DEF TypeOK
  <2>2. conns'[x][clients'[x][b]] = conns[x][clients[x][b]]
    BY <1>1, <2>1
  <2>3. QED
    BY <2>1, <2>2, <1>3 DEF EntriesLive
<1>4. QED
  BY <1>2, <1>3 DEF EntriesLive

LEMMA TransmitSound ==
  ASSUME TypeOK, ConnsSound, EntriesLive,
         NEW a \in Agents, NEW b \in Agents, NEW m \in Message, NEW u \in BOOLEAN,
         Transmit(a, b, m, u), UNCHANGED clients
  PROVE  (ConnsSound /\ EntriesLive)'
<1>0. conns \in ConnTable
      /\ clients \in [Agents -> [Agents -> Conns \union {NoConn}]]
      /\ NoAgent \notin Agents /\ NoConn \notin Conns
  BY UnicastAssumption DEF TypeOK, ConnTable
<1>1. CASE conns' = conns
  BY <1>1 DEF ConnsSound, EntriesLive
<1>2. ASSUME NEW c \in Conns, Appended(a, b, m, c)
      PROVE  (ConnsSound /\ EntriesLive)'
  <2> DEFINE l == [conns[a][c] EXCEPT !.q = Append(@, m)]
  <2>1. /\ l \in Conn /\ l.status = conns[a][c].status /\ l.to = conns[a][c].to
        /\ l.at = conns[a][c].at
    BY ConnFields, AppendType
  <2> HIDE DEF l
  <2>2. \A x \in Agents, d \in Conns :
          conns'[x][d] = IF x = a /\ d = c THEN l ELSE conns[x][d]
    BY <1>0, <1>2, <2>1, ConnUpdate DEF Appended, l
  <2>3. QED
    <3>1. \A x \in Agents, d \in Conns : /\ conns'[x][d].status = conns[x][d].status
                                         /\ conns'[x][d].to = conns[x][d].to
                                         /\ conns'[x][d].at = conns[x][d].at
      BY <2>1, <2>2
    <3>2. ConnsSound'
      BY <3>1 DEF ConnsSound
    <3>3. EntriesLive'
      BY <1>0, <3>1 DEF EntriesLive
    <3>4. QED
      BY <3>2, <3>3
<1>3. ASSUME NEW c \in Conns, Dialled(a, b, m, c)
      PROVE  (ConnsSound /\ EntriesLive)'
  <2> DEFINE l == [status |-> "connecting", to |-> b, port |-> book[a][b],
                   at |-> NoAgent, q |-> <<m>>]
  <2>1. l \in Conn /\ l.status = "connecting" /\ l.to = b /\ l.at = NoAgent
    BY DEF Conn, Statuses, TypeOK, Book
  <2> HIDE DEF l
  <2>2. \A x \in Agents, d \in Conns :
          conns'[x][d] = IF x = a /\ d = c THEN l ELSE conns[x][d]
    <3>1. conns' = [conns EXCEPT ![a][c] = l]
      BY <1>3 DEF Dialled, l
    <3>2. QED
      BY <1>0, <2>1, <3>1, ConnUpdate
  <2>3. QED
    BY <1>0, <1>3, <2>1, <2>2 DEF ConnsSound, EntriesLive, Dialled
<1>4. QED
  BY <1>1, <1>2, <1>3, TransmitCases

LEMMA SoundNext ==
  TypeOK /\ ConnsSound /\ EntriesLive /\ [Next]_vars => (ConnsSound /\ EntriesLive)'
<1> SUFFICES ASSUME TypeOK, ConnsSound, EntriesLive, [Next]_vars
             PROVE  (ConnsSound /\ EntriesLive)'
  OBVIOUS
<1>0. /\ conns \in ConnTable
      /\ clients \in [Agents -> [Agents -> Conns \union {NoConn}]]
      /\ FreeConn.status = "free" /\ FreeConn.to = NoAgent /\ FreeConn.at = NoAgent
      /\ FreeConn \in Conn /\ NoAgent \notin Agents /\ NoConn \notin Conns
  BY FreeType, UnicastAssumption DEF TypeOK, ConnTable, FreeConn
<1>1. ASSUME NEW a \in Agents, Die(a) PROVE (ConnsSound /\ EntriesLive)'
  <2>1. \A x \in Agents, c \in Conns : conns'[x][c] = AfterDeath(x, conns[x][c], a)
    BY <1>1 DEF Die
  <2>2. \A x, b \in Agents : clients'[x][b] = IF x = a THEN NoConn ELSE clients[x][b]
    BY <1>0, <1>1 DEF Die
  <2>3. ConnsSound'
    BY <1>0, <2>1, DeathFields, ConnFields DEF ConnsSound
  <2>4. ASSUME NEW x \in Agents, NEW b \in Agents, clients'[x][b] # NoConn
        PROVE  /\ conns'[x][clients'[x][b]].status \in {"open", "lost"}
               /\ conns'[x][clients'[x][b]].to = b
    <3> DEFINE d == clients[x][b]
    <3>1. x # a /\ clients'[x][b] = d /\ d # NoConn /\ d \in Conns
      BY <1>0, <2>2, <2>4
    <3>2. conns[x][d].status \in {"open", "lost"} /\ conns[x][d].to = b
      BY <3>1 DEF EntriesLive
    <3>3. conns'[x][d].status \in {"open", "lost"} /\ conns'[x][d].to = b
      BY <2>1, <3>1, <3>2, DeathFields, ConnFields
    <3>4. QED
      BY <3>1, <3>3
  <2>5. QED
    BY <2>3, <2>4 DEF EntriesLive
<1>2. ASSUME NEW a \in Agents, NEW b \in Agents, Send(a, b)
      PROVE  (ConnsSound /\ EntriesLive)'
  <2>1. Numbered(a, seqCounters[a][b] + 1, FALSE) \in Message
    BY <1>2, NextNumber
  <2>2. QED
    BY <1>2, <2>1, TransmitSound DEF Send
<1>3. ASSUME NEW a \in Agents, NEW b \in Agents, LegacySend(a, b)
      PROVE  (ConnsSound /\ EntriesLive)'
  <2>1. Numbered(a, legacySeq[a] + 1, TRUE) \in Message
    BY <1>3, NextNumber
  <2>2. QED
    BY <1>3, <2>1, TransmitSound DEF LegacySend
<1>4. ASSUME NEW a \in Agents, NEW c \in Conns, NEW x \in Agents, Connected(a, c, x)
      PROVE  (ConnsSound /\ EntriesLive)'
  <2> DEFINE l == [conns[a][c] EXCEPT !.status = "open", !.at = x]
             b == conns[a][c].to
  <2>1. l \in Conn /\ l.status = "open" /\ l.to = b /\ l.at = x
    BY ConnFields, OpenedType
  <2>2. b \in Agents
    BY <1>4, ConnFields DEF Connected, ConnsSound
  <2>3. conns' = [conns EXCEPT ![a][c] = l] /\ clients' = [clients EXCEPT ![a][b] = c]
    BY <1>0, <1>4 DEF Connected, ConnTable
  <2> HIDE DEF l
  <2>4. \A y \in Agents, d \in Conns :
          conns'[y][d] = IF y = a /\ d = c THEN l ELSE conns[y][d]
    BY <1>0, <2>1, <2>3, ConnUpdate
  <2>5. \A y, d \in Agents :
          clients'[y][d] = IF y = a /\ d = b THEN c ELSE clients[y][d]
    BY <1>0, <2>2, <2>3
  <2>6. ConnsSound'
    BY <1>0, <2>1, <2>2, <2>4 DEF ConnsSound
  <2>7. ASSUME NEW y \in Agents, NEW d \in Agents, clients'[y][d] # NoConn
        PROVE  /\ conns'[y][clients'[y][d]].status \in {"open", "lost"}
               /\ conns'[y][clients'[y][d]].to = d
    <3>1. CASE y = a /\ d = b
      BY <2>1, <2>4, <2>5, <3>1
    <3>2. CASE ~(y = a /\ d = b)
      <4>1. /\ clients'[y][d] = clients[y][d] /\ clients[y][d] \in Conns
            /\ ~(y = a /\ clients[y][d] = c)
        BY <1>0, <1>4, <2>5, <2>7, <3>2 DEF EntriesLive, Connected
      <4>2. QED
        BY <2>4, <2>7, <4>1 DEF EntriesLive
    <3>3. QED
      BY <3>1, <3>2
  <2>8. QED
    BY <2>6, <2>7 DEF EntriesLive
<1>5. ASSUME NEW a \in Agents, NEW c \in Conns, Refused(a, c)
      PROVE  (ConnsSound /\ EntriesLive)'
  <2>1. \A x, b \in Agents : /\ clients'[x][b] \in {clients[x][b], NoConn}
                             /\ clients'[a][b] # c
    <3>1. UNCHANGED clients /\ conns[a][c].status = "connecting"
      BY <1>5 DEF Refused
    <3>2. QED
      BY <1>0, <3>1 DEF EntriesLive
  <2>2. conns' = [conns EXCEPT ![a][c] = FreeConn]
    BY <1>5 DEF Refused
  <2>3. QED
    BY <2>1, <2>2, FreedSound
<1>6. ASSUME NEW a \in Agents, NEW c \in Conns, Closed(a, c)
      PROVE  (ConnsSound /\ EntriesLive)'
  <2> DEFINE b == conns[a][c].to
  <2>1. \A x, d \in Agents : clients'[x][d] = IF x = a /\ d = b /\ clients[a][b] = c
                                              THEN NoConn ELSE clients[x][d]
    <3>1. clients' = [clients EXCEPT ![a] = [clients[a] EXCEPT ![b] =
                        IF @ = c THEN NoConn ELSE @]]
      BY <1>0, <1>6 DEF Closed
    <3>2. QED
      BY <1>0, <3>1
  <2>2. \A d \in Agents : clients[a][d] = c => d = b
    BY <1>0 DEF EntriesLive
  <2>3. \A x, d \in Agents : /\ clients'[x][d] \in {clients[x][d], NoConn}
                             /\ clients'[a][d] # c
    BY <1>0, <2>1, <2>2
  <2>4. QED
    BY <1>6, <2>3, FreedSound DEF Closed
<1>7. ASSUME NEW a \in Agents, NEW c \in Conns, Abandon(a, c)
      PROVE  (ConnsSound /\ EntriesLive)'
  <2>1. \A x, b \in Agents : /\ clients'[x][b] \in {clients[x][b], NoConn}
                             /\ clients'[a][b] # c
    BY <1>0, <1>7 DEF Abandon, EntriesLive
  <2>2. QED
    BY <1>7, <2>1, FreedSound DEF Abandon
<1>8. ASSUME NEW a \in Agents, NEW c \in Conns, Receive(a, c)
      PROVE  (ConnsSound /\ EntriesLive)'
  <2> DEFINE l == [conns[a][c] EXCEPT !.q = Tail(@)]
  <2>1. /\ l \in Conn /\ l.status = conns[a][c].status /\ l.to = conns[a][c].to
        /\ l.at = conns[a][c].at
    BY <1>8, ConnFields, TailType DEF Receive
  <2>2. conns' = [conns EXCEPT ![a][c] = l] /\ UNCHANGED clients
    BY <1>0, <1>8 DEF Receive, ConnTable
  <2> HIDE DEF l
  <2>3. \A x \in Agents, d \in Conns :
          conns'[x][d] = IF x = a /\ d = c THEN l ELSE conns[x][d]
    BY <1>0, <2>1, <2>2, ConnUpdate
  <2>4. QED
    BY <1>0, <2>1, <2>2, <2>3 DEF ConnsSound, EntriesLive
<1>9. ASSUME UNCHANGED <<clients, conns>> PROVE (ConnsSound /\ EntriesLive)'
  BY <1>9 DEF ConnsSound, EntriesLive
<1>10. QED
  BY <1>1, <1>2, <1>3, <1>4, <1>5, <1>6, <1>7, <1>8, <1>9
  DEF Next, vars, Spawn, PeerUpdate

\* What a step does to an object in the map, and to its entry.
LEMMA EntryStep ==
  ASSUME TypeOK, ConnsSound, EntriesLive, Next
  PROVE  EntriesFollow
<1> SUFFICES ASSUME NEW x \in Agents, NEW y \in Agents, clients[x][y] # NoConn
             PROVE  clients'[x][y] # NoConn
                      <=> conns'[x][clients[x][y]].status \in {"open", "lost"}
  BY DEF EntriesFollow
<1> DEFINE k == clients[x][y]
<1>0. /\ conns \in ConnTable
      /\ clients \in [Agents -> [Agents -> Conns \union {NoConn}]]
      /\ k \in Conns /\ NoConn \notin Conns
      /\ FreeConn \in Conn /\ FreeConn.status = "free"
  BY FreeType, UnicastAssumption DEF TypeOK, ConnTable, FreeConn
<1>1. conns[x][k].status \in {"open", "lost"} /\ conns[x][k].to = y
  BY DEF EntriesLive
<1> HIDE DEF k
<1>2. ASSUME clients'[x][y] # NoConn, conns'[x][k].status = conns[x][k].status
      PROVE  clients'[x][y] # NoConn <=> conns'[x][k].status \in {"open", "lost"}
  BY <1>1, <1>2
<1>3. ASSUME NEW a \in Agents, Die(a)
      PROVE  clients'[x][y] # NoConn <=> conns'[x][k].status \in {"open", "lost"}
  <2>1. /\ conns'[x][k] = AfterDeath(x, conns[x][k], a)
        /\ clients'[x][y] = IF x = a THEN NoConn ELSE clients[x][y]
    BY <1>0, <1>3 DEF Die
  <2>2. QED
    BY <1>0, <1>1, <2>1, DeathFields, ConnFields
<1>4. ASSUME NEW a \in Agents, NEW b \in Agents, NEW m \in Message, NEW u \in BOOLEAN,
             Transmit(a, b, m, u), UNCHANGED clients
      PROVE  clients'[x][y] # NoConn <=> conns'[x][k].status \in {"open", "lost"}
  <2>1. ASSUME NEW c \in Conns, Appended(a, b, m, c)
        PROVE  conns'[x][k].status = conns[x][k].status
    <3> DEFINE l == [conns[a][c] EXCEPT !.q = Append(@, m)]
    <3>1. l \in Conn /\ l.status = conns[a][c].status
      BY ConnFields, AppendType
    <3> HIDE DEF l
    <3>2. conns' = [conns EXCEPT ![a][c] = l]
      BY <2>1 DEF Appended, l
    <3>3. \A z \in Agents, d \in Conns :
            conns'[z][d] = IF z = a /\ d = c THEN l ELSE conns[z][d]
      BY <1>0, <3>1, <3>2, ConnUpdate
    <3>4. QED
      BY <1>0, <3>1, <3>3
  <2>2. ASSUME NEW c \in Conns, Dialled(a, b, m, c)
        PROVE  conns'[x][k] = conns[x][k]
    <3>1. ~(x = a /\ k = c)
      BY <1>1, <2>2 DEF Dialled
    <3>2. QED
      BY <1>0, <2>2, <3>1 DEF Dialled, ConnTable
  <2>3. \/ conns' = conns
        \/ \E c \in Conns : Appended(a, b, m, c)
        \/ \E c \in Conns : Dialled(a, b, m, c)
    BY <1>4, TransmitCases
  <2>4. conns'[x][k].status = conns[x][k].status
    BY <2>1, <2>2, <2>3
  <2>5. clients'[x][y] # NoConn
    BY <1>4
  <2>6. QED
    BY <1>2, <2>4, <2>5
<1>5. ASSUME NEW a \in Agents, NEW b \in Agents, Send(a, b) \/ LegacySend(a, b)
      PROVE  clients'[x][y] # NoConn <=> conns'[x][k].status \in {"open", "lost"}
  BY <1>4, <1>5, NextNumber DEF Send, LegacySend
<1>6. ASSUME NEW a \in Agents, NEW c \in Conns, NEW z \in Agents, Connected(a, c, z)
      PROVE  clients'[x][y] # NoConn <=> conns'[x][k].status \in {"open", "lost"}
  <2>1. ~(x = a /\ k = c)
    BY <1>1, <1>6 DEF Connected
  <2>2. conns'[x][k] = conns[x][k]
    BY <1>0, <1>6, <2>1 DEF Connected, ConnTable
  <2>3. clients'[x][y] # NoConn
    BY <1>0, <1>6 DEF Connected
  <2>4. QED
    BY <1>2, <2>2, <2>3
<1>7. ASSUME NEW a \in Agents, NEW c \in Conns, Refused(a, c) \/ Abandon(a, c)
      PROVE  clients'[x][y] # NoConn <=> conns'[x][k].status \in {"open", "lost"}
  <2>1. ~(x = a /\ k = c)
    BY <1>1, <1>7 DEF Refused, Abandon
  <2>2. conns'[x][k] = conns[x][k] /\ UNCHANGED clients
    BY <1>0, <1>7, <2>1 DEF Refused, Abandon, ConnTable
  <2>3. QED
    BY <1>2, <2>2
<1>8. ASSUME NEW a \in Agents, NEW c \in Conns, Closed(a, c)
      PROVE  clients'[x][y] # NoConn <=> conns'[x][k].status \in {"open", "lost"}
  <2>1. /\ conns' = [conns EXCEPT ![a][c] = FreeConn]
        /\ clients' = [clients EXCEPT ![a] = [clients[a] EXCEPT ![conns[a][c].to] =
                         IF @ = c THEN NoConn ELSE @]]
    BY <1>0, <1>8 DEF Closed
  <2>2. CASE x = a /\ k = c
    <3>1. conns'[x][k].status = "free"
      BY <1>0, <2>1, <2>2 DEF ConnTable
    <3>2. clients'[x][y] = NoConn
      BY <1>0, <1>1, <2>1, <2>2 DEF k
    <3>3. QED
      BY <3>1, <3>2
  <2>3. CASE ~(x = a /\ k = c)
    <3>1. conns'[x][k] = conns[x][k]
      BY <1>0, <2>1, <2>3 DEF ConnTable
    <3>2. clients'[x][y] = clients[x][y]
      BY <1>0, <2>1, <2>3 DEF k
    <3>3. QED
      BY <1>2, <3>1, <3>2
  <2>4. QED
    BY <2>2, <2>3
<1>9. ASSUME NEW a \in Agents, NEW c \in Conns, Receive(a, c)
      PROVE  clients'[x][y] # NoConn <=> conns'[x][k].status \in {"open", "lost"}
  <2> DEFINE l == [conns[a][c] EXCEPT !.q = Tail(@)]
  <2>1. l \in Conn /\ l.status = conns[a][c].status
    BY <1>9, ConnFields, TailType DEF Receive
  <2>2. conns' = [conns EXCEPT ![a][c] = l] /\ UNCHANGED clients
    BY <1>0, <1>9 DEF Receive, ConnTable
  <2> HIDE DEF l
  <2>3. conns'[x][k] = IF x = a /\ k = c THEN l ELSE conns[x][k]
    BY <1>0, <2>1, <2>2, ConnUpdate
  <2>4. QED
    BY <1>2, <2>1, <2>2, <2>3
<1>10. ASSUME UNCHANGED <<clients, conns>>
       PROVE  clients'[x][y] # NoConn <=> conns'[x][k].status \in {"open", "lost"}
  BY <1>2, <1>10
<1>11. QED
  BY <1>3, <1>5, <1>6, <1>7, <1>8, <1>9, <1>10 DEF Next, Spawn, PeerUpdate, k

\* An entry leaves the map with its own connection and no other, and no connection that
\* is done with leaves its entry behind.
THEOREM MapNamesLiveConnections == Spec => ClientsSound
<1> DEFINE I == TypeOK /\ ConnsSound /\ EntriesLive
<1>1. Init => I
  BY InitType, SoundInit
<1>2. I /\ [Next]_vars => I'
  BY NextType, SoundNext
<1>3. I /\ [Next]_vars => [EntriesFollow]_vars
  BY EntryStep
<1> HIDE DEF I
<1>4. QED
  BY <1>1, <1>2, <1>3, PTL DEF Spec, ClientsSound

-----------------------------------------------------------------------------
(* What a receiver has passed on. *)

\* As long as a sender has caused no anomaly, what was passed on of it is numbered from 1
\* without a gap, and the checker remembers how much that is: neither is inductive
\* without the other.
HistoryKept ==
  \A r, s \in Agents : silent[r][s] =>
    /\ lastSeen[r][s] = Len(got[r][s])
    /\ \A i \in DOMAIN got[r][s] : got[r][s][i].n = i

LEMMA HistoryInit == Init => HistoryKept
  BY DEF Init, Zeros, HistoryKept

\* A history with one message more.
LEMMA Counted ==
  ASSUME NEW h \in Seq(Message), NEW m \in Message, m.n = Len(h) + 1,
         \A i \in DOMAIN h : h[i].n = i
  PROVE  /\ Len(Append(h, m)) = m.n
         /\ \A i \in DOMAIN Append(h, m) : Append(h, m)[i].n = i
<1> DEFINE g == Append(h, m)
<1>1. /\ Len(h) \in Nat /\ Len(g) = Len(h) + 1 /\ g[Len(h) + 1] = m
      /\ \A i \in 1 .. Len(h) : g[i] = h[i]
  BY Longer
<1>2. DOMAIN g = 1 .. Len(h) + 1 /\ DOMAIN h = 1 .. Len(h)
  OBVIOUS
<1> HIDE DEF g
<1>3. \A i \in DOMAIN g : g[i].n = i
  BY <1>1, <1>2
<1>4. QED
  BY <1>1, <1>3 DEF g

LEMMA HistoryNext == TypeOK /\ ConnsSound /\ HistoryKept /\ [Next]_vars => HistoryKept'
<1> SUFFICES ASSUME TypeOK, ConnsSound, HistoryKept, [Next]_vars PROVE HistoryKept'
  OBVIOUS
<1>0. /\ lastSeen \in [Agents -> [Agents -> Numbers]]
      /\ silent \in [Agents -> [Agents -> BOOLEAN]]
      /\ got \in [Agents -> [Agents -> Seq(Message)]]
  BY DEF TypeOK
<1>1. ASSUME NEW a \in Agents, Die(a) PROVE HistoryKept'
  <2>1. \A r, s \in Agents :
          IF r = a THEN lastSeen'[r][s] = 0 /\ got'[r][s] = <<>>
          ELSE /\ lastSeen'[r][s] = lastSeen[r][s] /\ got'[r][s] = got[r][s]
               /\ silent'[r][s] = silent[r][s]
    BY <1>0, <1>1 DEF Die, Zeros
  <2>2. QED
    BY <2>1 DEF HistoryKept
<1>2. ASSUME NEW a \in Agents, NEW c \in Conns, Receive(a, c) PROVE HistoryKept'
  <2> DEFINE k == conns[a][c]
             m == Head(k.q)
             r == k.at
  <2>1. CASE r # k.to
    BY <1>2, <2>1 DEF Receive, HistoryKept
  <2>2. CASE r = k.to
    <3>1. r \in Agents /\ m \in Message /\ m.n \in Numbers
      <4>1. k.status \in {"open", "left"} /\ k.q # <<>>
        BY <1>2 DEF Receive
      <4>2. r \in Agents
        BY <4>1, ConnEnds
      <4>3. m \in Message
        BY <4>1, ConnFields
      <4>4. QED
        BY <4>2, <4>3 DEF Message
    <3>2. /\ lastSeen' = [lastSeen EXCEPT ![r][a] = Highest(@, m.n)]
          /\ silent' = [silent EXCEPT ![r][a] = @ /\ ~Anomalous(r, a, m.n)]
          /\ got' = [got EXCEPT ![r][a] = IF silent'[r][a] THEN Append(@, m) ELSE <<>>]
      BY <1>2, <2>2 DEF Receive
    <3> HIDE DEF m, r
    <3>3. \A x, s \in Agents : <<x, s>> # <<r, a>> =>
            /\ lastSeen'[x][s] = lastSeen[x][s] /\ got'[x][s] = got[x][s]
            /\ silent'[x][s] = silent[x][s]
      BY <1>0, <3>1, <3>2
    <3>4. ASSUME silent'[r][a]
          PROVE  /\ lastSeen'[r][a] = Len(got'[r][a])
                 /\ \A i \in DOMAIN got'[r][a] : got'[r][a][i].n = i
      <4>1. silent[r][a] /\ m.n = lastSeen[r][a] + 1
        BY <1>0, <3>1, <3>2, <3>4 DEF Anomalous
      <4>2. /\ lastSeen[r][a] = Len(got[r][a])
            /\ \A i \in DOMAIN got[r][a] : got[r][a][i].n = i
        BY <3>1, <4>1 DEF HistoryKept
      <4>3. got'[r][a] = Append(got[r][a], m)
        BY <1>0, <3>1, <3>2, <3>4
      <4>4. lastSeen'[r][a] = m.n
        BY <1>0, <3>1, <3>2, <4>1 DEF Highest, Numbers
      <4>5. got[r][a] \in Seq(Message)
        BY <1>0, <3>1
      <4>6. QED
        BY <3>1, <4>1, <4>2, <4>3, <4>4, <4>5, Counted
    <3>5. QED
      BY <3>3, <3>4 DEF HistoryKept
  <2>3. QED
    BY <2>1, <2>2
<1>3. ASSUME UNCHANGED <<lastSeen, got, silent>> PROVE HistoryKept'
  BY <1>3 DEF HistoryKept
<1>4. ASSUME NEW a \in Agents, NEW b \in Agents, Send(a, b) \/ LegacySend(a, b)
      PROVE  UNCHANGED <<lastSeen, got, silent>>
  BY <1>4 DEF Send, LegacySend
<1>5. ASSUME NEW a \in Agents, NEW p \in Ports, Spawn(a, p)
      PROVE  UNCHANGED <<lastSeen, got, silent>>
  BY <1>5 DEF Spawn
<1>6. ASSUME NEW a \in Agents, NEW c \in Conns, NEW x \in Agents, Connected(a, c, x)
      PROVE  UNCHANGED <<lastSeen, got, silent>>
  BY <1>6 DEF Connected
<1>7. ASSUME NEW a \in Agents, NEW c \in Conns,
             Refused(a, c) \/ Closed(a, c) \/ Abandon(a, c) \/ PeerUpdate(a)
      PROVE  UNCHANGED <<lastSeen, got, silent>>
  BY <1>7 DEF Refused, Closed, Abandon, PeerUpdate
<1>8. QED
  BY <1>1, <1>2, <1>3, <1>4, <1>5, <1>6, <1>7, UnicastAssumption DEF Next, vars

\* BR-03: while an agent reports no anomaly of a sender, nothing of what one counter of
\* the sender numbers is lost, doubled or overtaken between two messages of it that the
\* agent passed on one after the other, nor before the first of all; where the counter
\* changes, by a restart of the sender or by the 1.2 interface, silence promises order
\* only.
THEOREM SilenceIsOrder == Spec => []SilenceMeansOrder
<1> DEFINE I == TypeOK /\ ConnsSound /\ EntriesLive /\ HistoryKept
<1>1. Init => I
  BY InitType, SoundInit, HistoryInit
<1>2. I /\ [Next]_vars => I'
  BY NextType, SoundNext, HistoryNext
<1>3. I => SilenceMeansOrder
  <2> SUFFICES ASSUME TypeOK, HistoryKept, NEW r \in Agents, NEW s \in Agents,
                      silent[r][s]
               PROVE  LET h == got[r][s] IN
                      /\ \A j \in DOMAIN h : h[j].n = j
                      /\ \A i, j \in DOMAIN h : i < j => /\ h[i].n < h[j].n
                                                         /\ h[j].n - h[i].n = j - i
    BY DEF SilenceMeansOrder
  <2>1. \A i \in DOMAIN got[r][s] : got[r][s][i].n = i
    BY DEF HistoryKept
  <2>2. QED
    BY <2>1
<1> HIDE DEF I
<1>4. QED
  BY <1>1, <1>2, <1>3, PTL DEF Spec

-----------------------------------------------------------------------------
(* Undisturbed traffic. *)

\* What holds from a to b as long as nothing has disturbed it: one connection object
\* at most is for b; it is being set up, or it is open, at b and in the map; it
\* carries what b has yet to see, in order; and if there is none b has seen all.
Intact(a, b) ==
  /\ silent[b][a]
  /\ \A c, d \in Conns : conns[a][c].to = b /\ conns[a][d].to = b => c = d
  /\ seqCounters[a][b] = 0 => \A c \in Conns : conns[a][c].to # b
  /\ (\A c \in Conns : conns[a][c].to # b) => lastSeen[b][a] = seqCounters[a][b]
  /\ \A c \in Conns : conns[a][c].to = b =>
       /\ \/ conns[a][c].status = "connecting"
          \/ conns[a][c].status = "open" /\ conns[a][c].at = b /\ clients[a][b] = c
       /\ lastSeen[b][a] + Len(conns[a][c].q) = seqCounters[a][b]
       /\ \A i \in 1 .. Len(conns[a][c].q) : conns[a][c].q[i].n = lastSeen[b][a] + i

Undisturbed == \A a, b \in Agents : orderly[a][b] => Intact(a, b)

LEMMA UndisturbedInit == Init => Undisturbed
<1>1. ASSUME Init, NEW a \in Agents, NEW b \in Agents PROVE Intact(a, b)
  <2>1. \A c \in Conns : conns[a][c].to # b
    BY <1>1, UnicastAssumption DEF Init, FreeConn
  <2>2. /\ silent[b][a] /\ lastSeen[b][a] = 0 /\ seqCounters[a][b] = 0
    BY <1>1 DEF Init, Zeros
  <2>3. QED
    BY <2>1, <2>2 DEF Intact
<1>2. QED
  BY <1>1 DEF Undisturbed

\* A step that changes neither the counters of a pair nor an object that is, or will
\* be, for its recipient keeps it intact.
LEMMA IntactKept ==
  ASSUME NEW a \in Agents, NEW b \in Agents, Intact(a, b),
         silent'[b][a] = silent[b][a], lastSeen'[b][a] = lastSeen[b][a],
         seqCounters'[a][b] = seqCounters[a][b], clients'[a][b] = clients[a][b],
         \A c \in Conns : conns'[a][c].to = b \/ conns[a][c].to = b
                            => conns'[a][c] = conns[a][c]
  PROVE  Intact(a, b)'
<1>1. \A c \in Conns : (conns'[a][c].to = b) <=> (conns[a][c].to = b)
  OBVIOUS
<1>2. silent'[b][a]
  BY DEF Intact
<1>3. \A c, d \in Conns : conns'[a][c].to = b /\ conns'[a][d].to = b => c = d
  BY <1>1 DEF Intact
<1>4. /\ seqCounters'[a][b] = 0 => \A c \in Conns : conns'[a][c].to # b
      /\ (\A c \in Conns : conns'[a][c].to # b) => lastSeen'[b][a] = seqCounters'[a][b]
  BY <1>1 DEF Intact
<1>5. ASSUME NEW c \in Conns, conns'[a][c].to = b
      PROVE  /\ \/ conns'[a][c].status = "connecting"
                \/ /\ conns'[a][c].status = "open" /\ conns'[a][c].at = b
                   /\ clients'[a][b] = c
             /\ lastSeen'[b][a] + Len(conns'[a][c].q) = seqCounters'[a][b]
             /\ \A i \in 1 .. Len(conns'[a][c].q) :
                  conns'[a][c].q[i].n = lastSeen'[b][a] + i
  BY <1>1, <1>5 DEF Intact
<1>6. QED
  BY <1>2, <1>3, <1>4, <1>5 DEF Intact

\* No object is for the recipient, before or after the step: what is left to show.
LEMMA IntactEmpty ==
  ASSUME NEW a \in Agents, NEW b \in Agents, silent'[b][a],
         lastSeen'[b][a] = seqCounters'[a][b],
         \A c \in Conns : conns'[a][c].to # b
  PROVE  Intact(a, b)'
  BY DEF Intact

\* One object is for the recipient after the step.
LEMMA IntactOne ==
  ASSUME NEW a \in Agents, NEW b \in Agents, NEW c \in Conns, silent'[b][a],
         conns'[a][c].to = b, \A d \in Conns : conns'[a][d].to = b => d = c,
         \/ conns'[a][c].status = "connecting"
         \/ conns'[a][c].status = "open" /\ conns'[a][c].at = b /\ clients'[a][b] = c,
         seqCounters'[a][b] # 0,
         lastSeen'[b][a] + Len(conns'[a][c].q) = seqCounters'[a][b],
         \A i \in 1 .. Len(conns'[a][c].q) : conns'[a][c].q[i].n = lastSeen'[b][a] + i
  PROVE  Intact(a, b)'
<1>1. \A d, e \in Conns : conns'[a][d].to = b /\ conns'[a][e].to = b => d = e
  OBVIOUS
<1>2. ASSUME NEW d \in Conns, conns'[a][d].to = b PROVE d = c
  BY <1>2
<1>3. QED
  BY <1>1, <1>2 DEF Intact

LEMMA UndisturbedDie ==
  ASSUME TypeOK, ConnsSound, Undisturbed, NEW d \in Agents, Die(d)
  PROVE  Undisturbed'
<1> SUFFICES ASSUME NEW a \in Agents, NEW b \in Agents, orderly'[a][b]
             PROVE  Intact(a, b)'
  BY DEF Undisturbed
<1>1. /\ orderly[a][b]
      /\ a = d => seqCounters[a][b] = 0
      /\ b = d => seqCounters[a][b] = 0
  BY DEF Die
<1>2. Intact(a, b)
  BY <1>1 DEF Undisturbed
<1>3. /\ seqCounters'[a][b] = IF a = d THEN 0 ELSE seqCounters[a][b]
      /\ lastSeen'[b][a] = IF b = d THEN 0 ELSE lastSeen[b][a]
      /\ silent'[b][a] = IF b = d THEN TRUE ELSE silent[b][a]
      /\ clients'[a][b] = IF a = d THEN NoConn ELSE clients[a][b]
  BY DEF Die, TypeOK, Zeros
<1>4. \A c \in Conns : conns'[a][c] = AfterDeath(a, conns[a][c], d)
  BY DEF Die
<1>5. \A c \in Conns : conns'[a][c].to \in {conns[a][c].to, NoAgent}
  BY <1>4, DeathFields, ConnFields DEF FreeConn
<1>6. CASE a = d \/ b = d
  <2>1. \A c \in Conns : conns[a][c].to # b
    BY <1>1, <1>2, <1>6 DEF Intact
  <2>2. \A c \in Conns : conns'[a][c].to # b
    BY <1>5, <2>1, UnicastAssumption
  <2>3. lastSeen[b][a] = 0 /\ silent[b][a]
    BY <1>1, <1>2, <1>6, <2>1 DEF Intact
  <2>4. silent'[b][a] /\ lastSeen'[b][a] = seqCounters'[a][b]
    BY <1>1, <1>3, <1>6, <2>3
  <2>5. QED
    BY <2>2, <2>4, IntactEmpty
<1>7. CASE a # d /\ b # d
  <2>1. ASSUME NEW c \in Conns, conns'[a][c].to = b \/ conns[a][c].to = b
        PROVE  conns'[a][c] = conns[a][c]
    <3>1. conns[a][c].to = b
      BY <1>5, <2>1, UnicastAssumption
    <3>2. /\ conns[a][c].status \in {"connecting", "open"} /\ conns[a][c].at # d
      BY <1>2, <1>7, <3>1, UnicastAssumption DEF Intact, ConnsSound
    <3>3. QED
      BY <1>4, <1>7, <3>2 DEF AfterDeath
  <2>2. QED
    BY <1>2, <1>3, <1>7, <2>1, IntactKept
<1>8. QED
  BY <1>6, <1>7

\* A send to b leaves the objects for other recipients alone.
LEMMA TransmitOthers ==
  ASSUME TypeOK, ConnsSound, EntriesLive,
         NEW a \in Agents, NEW b \in Agents, NEW m \in Message, NEW u \in BOOLEAN,
         Transmit(a, b, m, u), NEW x \in Agents, NEW y \in Agents, x # a \/ y # b
  PROVE  /\ orderly'[x][y] => orderly[x][y]
         /\ \A c \in Conns : conns'[x][c].to = y \/ conns[x][c].to = y
                               => conns'[x][c] = conns[x][c]
<1>0. conns \in ConnTable /\ NoAgent \notin Agents
  BY UnicastAssumption DEF TypeOK, ConnTable
<1>1. orderly'[x][y] => orderly[x][y]
  BY TransmitCases
<1>2. ASSUME NEW c \in Conns, Appended(a, b, m, c)
      PROVE  \A d \in Conns : conns'[x][d].to = y \/ conns[x][d].to = y
                                => conns'[x][d] = conns[x][d]
  <2> DEFINE l == [conns[a][c] EXCEPT !.q = Append(@, m)]
  <2>1. l \in Conn /\ l.to = conns[a][c].to
    BY ConnFields, AppendType
  <2> HIDE DEF l
  <2>2. \A z \in Agents, d \in Conns :
          conns'[z][d] = IF z = a /\ d = c THEN l ELSE conns[z][d]
    BY <1>0, <1>2, <2>1, ConnUpdate DEF Appended, l
  <2>3. conns[a][c].to = b
    BY <1>2 DEF Appended, EntriesLive
  <2>4. QED
    BY <2>1, <2>2, <2>3
<1>3. ASSUME NEW c \in Conns, Dialled(a, b, m, c)
      PROVE  \A d \in Conns : conns'[x][d].to = y \/ conns[x][d].to = y
                                => conns'[x][d] = conns[x][d]
  <2> DEFINE l == [status |-> "connecting", to |-> b, port |-> book[a][b],
                   at |-> NoAgent, q |-> <<m>>]
  <2>1. l \in Conn /\ l.to = b
    BY DEF Conn, Statuses, TypeOK, Book
  <2> HIDE DEF l
  <2>2. \A z \in Agents, d \in Conns :
          conns'[z][d] = IF z = a /\ d = c THEN l ELSE conns[z][d]
    <3>1. conns' = [conns EXCEPT ![a][c] = l]
      BY <1>3 DEF Dialled, l
    <3>2. QED
      BY <1>0, <2>1, <3>1, ConnUpdate
  <2>3. conns[a][c].to = NoAgent
    BY <1>3 DEF Dialled, ConnsSound
  <2>4. QED
    BY <1>0, <2>1, <2>2, <2>3
<1>4. QED
  BY <1>1, <1>2, <1>3, TransmitCases

LEMMA UndisturbedSend ==
  ASSUME TypeOK, ConnsSound, EntriesLive, Undisturbed,
         NEW a \in Agents, NEW b \in Agents, Send(a, b)
  PROVE  Undisturbed'
<1> DEFINE n == seqCounters[a][b] + 1
           m == Numbered(a, n, FALSE)
           u == TRUE
<1>0. /\ n \in Numbers /\ m \in Message /\ m.n = n /\ u \in BOOLEAN /\ Transmit(a, b, m, u)
      /\ UNCHANGED <<lastSeen, clients, silent>>
      /\ seqCounters' = [seqCounters EXCEPT ![a][b] = n]
      /\ conns \in ConnTable /\ orderly \in [Agents -> [Agents -> BOOLEAN]]
      /\ seqCounters \in [Agents -> [Agents -> Numbers]]
      /\ NoAgent \notin Agents
  <2>1. n \in Numbers /\ m \in Message /\ m.n = n
    BY NextNumber DEF Numbered
  <2>2. /\ Transmit(a, b, m, u) /\ UNCHANGED <<lastSeen, clients, silent>>
        /\ seqCounters' = [seqCounters EXCEPT ![a][b] = n]
    BY DEF Send, TypeOK
  <2>3. QED
    BY <2>1, <2>2, UnicastAssumption DEF TypeOK, ConnTable
<1> HIDE DEF n, m, u
<1>1. ASSUME NEW x \in Agents, NEW y \in Agents, x # a \/ y # b, orderly'[x][y]
      PROVE  Intact(x, y)'
  <2>1. /\ orderly[x][y]
        /\ \A c \in Conns : conns'[x][c].to = y \/ conns[x][c].to = y
                              => conns'[x][c] = conns[x][c]
    <3>1. orderly'[x][y] => orderly[x][y]
      BY <1>0, <1>1, TransmitOthers
    <3>2. \A c \in Conns : conns'[x][c].to = y \/ conns[x][c].to = y
                              => conns'[x][c] = conns[x][c]
      BY <1>0, <1>1, TransmitOthers
    <3>3. QED
      BY <1>1, <3>1, <3>2
  <2>2. seqCounters'[x][y] = seqCounters[x][y]
    BY <1>0, <1>1
  <2>3. Intact(x, y)
    BY <2>1 DEF Undisturbed
  <2>4. QED
    BY <1>0, <2>1, <2>2, <2>3, IntactKept
<1>2. ASSUME orderly'[a][b] PROVE Intact(a, b)'
  <2>1. Intact(a, b)
    BY <1>0, <1>2, TransmitCases DEF Undisturbed
  <2>2. ASSUME NEW c \in Conns, Appended(a, b, m, c)
        PROVE  Intact(a, b)'
    <3> DEFINE l == [conns[a][c] EXCEPT !.q = Append(@, m)]
               q == conns[a][c].q
    <3>1. /\ l \in Conn /\ l.status = conns[a][c].status /\ l.to = conns[a][c].to
          /\ l.at = conns[a][c].at /\ l.q = Append(q, m)
      BY <1>0, ConnFields, AppendType
    <3> HIDE DEF l
    <3>2. \A d \in Conns : conns'[a][d] = IF d = c THEN l ELSE conns[a][d]
      <4>1. conns' = [conns EXCEPT ![a][c] = l]
        BY <2>2 DEF Appended, l
      <4>2. QED
        BY <1>0, <3>1, <4>1 DEF ConnTable
    <3>4. conns[a][c].to = b /\ conns[a][c].status = "open" /\ clients[a][b] = c
      BY <2>2 DEF Appended, EntriesLive
    <3>5. \A d \in Conns : conns[a][d].to = b => d = c
      BY <2>1, <3>4 DEF Intact
    <3>6. \A d \in Conns : conns'[a][d].to = b => d = c
      BY <3>2, <3>5
    <3>7. /\ lastSeen[b][a] + Len(q) = seqCounters[a][b] /\ conns[a][c].at = b
          /\ \A i \in 1 .. Len(q) : q[i].n = lastSeen[b][a] + i
      BY <2>1, <3>4 DEF Intact
    <3>8. q \in Seq(Message) /\ lastSeen[b][a] \in Nat /\ seqCounters[a][b] \in Nat
      <4>1. q \in Seq(Message)
        BY ConnFields
      <4>2. QED
        BY <4>1 DEF TypeOK, Numbers
    <3>9. /\ lastSeen[b][a] + Len(l.q) = n /\ n # 0
          /\ \A i \in 1 .. Len(l.q) : l.q[i].n = lastSeen[b][a] + i
      <4>0. q \in Seq(Message) /\ m \in Message /\ m.n = n /\ l.q = Append(q, m)
        BY <1>0, <3>1, <3>8
      <4>a. lastSeen[b][a] + Len(q) = seqCounters[a][b]
        BY <3>7
      <4> HIDE DEF q
      <4>1. /\ Len(l.q) = Len(q) + 1 /\ Len(q) \in Nat
            /\ \A i \in 1 .. Len(q) : l.q[i] = q[i]
            /\ l.q[Len(q) + 1] = m
        BY <4>0, Longer
      <4>2. lastSeen[b][a] + (Len(q) + 1) = n
        <5>1. lastSeen[b][a] \in Nat /\ Len(q) \in Nat
          BY <3>8, <4>1
        <5>2. QED
          BY <4>a, <5>1 DEF n
      <4>3. ASSUME NEW i \in 1 .. Len(q) + 1 PROVE l.q[i].n = lastSeen[b][a] + i
        <5>1. CASE i = Len(q) + 1
          <6>1. l.q[i].n = n
            BY <4>0, <4>1, <5>1
          <6>2. lastSeen[b][a] + i = n
            BY <4>2, <5>1
          <6>3. QED
            BY <6>1, <6>2
        <5>2. CASE i # Len(q) + 1
          <6>1. i \in 1 .. Len(q)
            BY <4>1, <5>2
          <6>2. QED
            BY <3>7, <4>1, <6>1
        <5>3. QED
          BY <5>1, <5>2
      <4>4. QED
        BY <3>8, <4>1, <4>2, <4>3
    <3>10. seqCounters'[a][b] = n
      BY <1>0
    <3>11. /\ silent'[b][a] /\ conns'[a][c] = l
          /\ lastSeen' = lastSeen /\ clients' = clients
      BY <1>0, <2>1, <3>2 DEF Intact
    <3>12. /\ conns'[a][c].to = b
          /\ conns'[a][c].status = "open" /\ conns'[a][c].at = b /\ clients'[a][b] = c
          /\ seqCounters'[a][b] # 0
          /\ lastSeen'[b][a] + Len(conns'[a][c].q) = seqCounters'[a][b]
          /\ \A i \in 1 .. Len(conns'[a][c].q) : conns'[a][c].q[i].n = lastSeen'[b][a] + i
      BY <3>1, <3>4, <3>7, <3>9, <3>10, <3>11
    <3>13. QED
      BY <3>6, <3>11, <3>12, IntactOne
  <2>3. ASSUME NEW c \in Conns, Dialled(a, b, m, c),
               Connecting(a, b) = {}
        PROVE  Intact(a, b)'
    <3> DEFINE l == [status |-> "connecting", to |-> b, port |-> book[a][b],
                     at |-> NoAgent, q |-> <<m>>]
    <3>1. l \in Conn /\ l.status = "connecting" /\ l.to = b /\ l.q = <<m>>
      BY <1>0 DEF Conn, Statuses, TypeOK, Book
    <3>2. conns' = [conns EXCEPT ![a][c] = l]
      BY <2>3 DEF Dialled
    <3> HIDE DEF l
    <3>3. \A d \in Conns : conns'[a][d] = IF d = c THEN l ELSE conns[a][d]
      BY <1>0, <3>1, <3>2 DEF ConnTable
    <3>6. \A d \in Conns : conns[a][d].to # b
      BY <2>1, <2>3, UnicastAssumption DEF Intact, Connecting, Dialled
    <3>7. \A d \in Conns : conns'[a][d].to = b => d = c
      BY <3>3, <3>6
    <3>8. lastSeen[b][a] = seqCounters[a][b] /\ silent[b][a]
      BY <2>1, <3>6 DEF Intact
    <3>9. seqCounters'[a][b] = n /\ n # 0 /\ lastSeen[b][a] + 1 = n
      BY <1>0, <3>8 DEF n, Numbers
    <3>10. Len(l.q) = 1 /\ l.q[1].n = n
      BY <1>0, <3>1
    <3>11. conns'[a][c] = l /\ lastSeen' = lastSeen /\ silent' = silent
      BY <1>0, <3>3
    <3>12. /\ lastSeen'[b][a] + Len(l.q) = seqCounters'[a][b]
           /\ \A i \in 1 .. Len(l.q) : l.q[i].n = lastSeen'[b][a] + i
      BY <3>9, <3>10, <3>11
    <3>13. /\ silent'[b][a] /\ conns'[a][c].to = b
          /\ conns'[a][c].status = "connecting" /\ seqCounters'[a][b] # 0
          /\ lastSeen'[b][a] + Len(conns'[a][c].q) = seqCounters'[a][b]
          /\ \A i \in 1 .. Len(conns'[a][c].q) : conns'[a][c].q[i].n = lastSeen'[b][a] + i
      BY <3>1, <3>8, <3>9, <3>11, <3>12
    <3>14. QED
      BY <3>7, <3>13, IntactOne
  <2>4. Orderly(a, b, m)
    BY <1>0, <1>2, TransmitCases
  <2>5. QED
    BY <2>2, <2>3, <2>4 DEF Orderly
<1>3. QED
  BY <1>1, <1>2 DEF Undisturbed

LEMMA UndisturbedLegacySend ==
  ASSUME TypeOK, ConnsSound, EntriesLive, Undisturbed,
         NEW a \in Agents, NEW b \in Agents, LegacySend(a, b)
  PROVE  Undisturbed'
<1> DEFINE m == Numbered(a, legacySeq[a] + 1, TRUE)
           u == FALSE
<1>0. /\ m \in Message /\ u \in BOOLEAN /\ Transmit(a, b, m, u)
      /\ UNCHANGED <<lastSeen, clients, silent, seqCounters>>
  <2>1. m \in Message
    BY NextNumber
  <2>2. QED
    BY <2>1 DEF LegacySend
<1> HIDE DEF m, u
<1>1. ~orderly'[a][b]
  BY <1>0, TransmitCases DEF u
<1>2. ASSUME NEW x \in Agents, NEW y \in Agents, x # a \/ y # b, orderly'[x][y]
      PROVE  Intact(x, y)'
  <2>1. /\ orderly[x][y]
        /\ \A c \in Conns : conns'[x][c].to = y \/ conns[x][c].to = y
                              => conns'[x][c] = conns[x][c]
    <3>1. orderly'[x][y] => orderly[x][y]
      BY <1>0, <1>2, TransmitOthers
    <3>2. \A c \in Conns : conns'[x][c].to = y \/ conns[x][c].to = y
                              => conns'[x][c] = conns[x][c]
      BY <1>0, <1>2, TransmitOthers
    <3>3. QED
      BY <1>2, <3>1, <3>2
  <2>2. QED
    BY <1>0, <2>1, IntactKept DEF Undisturbed
<1>3. QED
  BY <1>1, <1>2 DEF Undisturbed

LEMMA UndisturbedConnected ==
  ASSUME TypeOK, ConnsSound, EntriesLive, Undisturbed,
         NEW a \in Agents, NEW c \in Conns, NEW x \in Agents, Connected(a, c, x)
  PROVE  Undisturbed'
<1>0. PICK b \in Agents : b = conns[a][c].to
  <2>1. conns[a][c].status = "connecting"
    BY DEF Connected
  <2>2. conns[a][c].to \in Agents
    BY <2>1, ConnEnds
  <2>3. QED
    BY <2>2
<1>k. PICK k \in Conn : k = conns[a][c]
  BY ConnFields
<1> DEFINE l == [k EXCEPT !.status = "open", !.at = x]
<1>1. /\ l \in Conn /\ l.status = "open" /\ l.to = b /\ l.at = x
      /\ l.q = conns[a][c].q
  <2>1. /\ l \in Conn /\ l.status = "open" /\ l.to = k.to /\ l.at = x
        /\ l.q = k.q
    BY OpenedType
  <2>2. QED
    BY <1>0, <1>k, <2>1
<1>2. b \in Agents /\ conns[a][c].to = b /\ conns[a][c].status = "connecting"
  BY <1>0 DEF Connected
<1>3. /\ conns' = [conns EXCEPT ![a][c] = l]
      /\ clients' = [clients EXCEPT ![a][b] = c]
      /\ orderly' = [orderly EXCEPT ![a][b] = @ /\ x = b]
      /\ UNCHANGED <<lastSeen, silent, seqCounters>>
  BY <1>0, <1>k DEF Connected, TypeOK
<1>4. /\ conns \in ConnTable /\ orderly \in [Agents -> [Agents -> BOOLEAN]]
      /\ clients \in [Agents -> [Agents -> Conns \union {NoConn}]]
  BY DEF TypeOK, ConnTable
<1> HIDE DEF l
<1>5. \A y \in Agents, d \in Conns :
        conns'[y][d] = IF y = a /\ d = c THEN l ELSE conns[y][d]
  <2>1. conns' = [conns EXCEPT ![a][c] = l] /\ conns \in ConnTable
    BY <1>3, <1>4
  <2>2. QED
    BY <1>1, <2>1 DEF ConnTable
<1>6. ASSUME NEW y \in Agents, NEW z \in Agents, y # a \/ z # b, orderly'[y][z]
      PROVE  Intact(y, z)'
  <2>1. orderly[y][z] /\ clients'[y][z] = clients[y][z]
    BY <1>2, <1>3, <1>4, <1>6
  <2>2. \A d \in Conns : conns'[y][d].to = z \/ conns[y][d].to = z
                           => conns'[y][d] = conns[y][d]
    BY <1>1, <1>2, <1>5, <1>6
  <2>3. QED
    BY <1>3, <2>1, <2>2, IntactKept DEF Undisturbed
<1>7. ASSUME orderly'[a][b] PROVE Intact(a, b)'
  <2>1. orderly[a][b] /\ x = b
    BY <1>2, <1>3, <1>4, <1>7
  <2>2. Intact(a, b)
    BY <1>2, <2>1 DEF Undisturbed
  <2>3. /\ silent[b][a] /\ seqCounters[a][b] # 0
        /\ \A d \in Conns : conns[a][d].to = b => d = c
        /\ lastSeen[b][a] + Len(l.q) = seqCounters[a][b]
        /\ \A i \in 1 .. Len(l.q) : l.q[i].n = lastSeen[b][a] + i
    BY <1>1, <1>2, <2>2 DEF Intact
  <2>4. \A d \in Conns : conns'[a][d].to = b => d = c
    BY <1>5, <2>3
  <2>5. conns'[a][c] = l /\ clients'[a][b] = c
    BY <1>2, <1>3, <1>4, <1>5
  <2>6. /\ silent'[b][a] /\ seqCounters'[a][b] # 0
        /\ conns'[a][c].to = b
        /\ conns'[a][c].status = "open" /\ conns'[a][c].at = b /\ clients'[a][b] = c
        /\ lastSeen'[b][a] + Len(conns'[a][c].q) = seqCounters'[a][b]
        /\ \A i \in 1 .. Len(conns'[a][c].q) : conns'[a][c].q[i].n = lastSeen'[b][a] + i
    BY <1>1, <1>3, <2>1, <2>3, <2>5
  <2>7. QED
    BY <1>2, <2>4, <2>6, IntactOne
<1>8. QED
  BY <1>6, <1>7 DEF Undisturbed

\* Freeing an object disturbs at most the pair it was for.
LEMMA FreedIntact ==
  ASSUME TypeOK, Undisturbed, NEW a \in Agents, NEW c \in Conns,
         conns' = [conns EXCEPT ![a][c] = FreeConn],
         UNCHANGED <<lastSeen, silent, seqCounters>>,
         NEW x \in Agents, NEW y \in Agents, orderly[x][y],
         clients'[x][y] = clients[x][y],
         x # a \/ y # conns[a][c].to
  PROVE  Intact(x, y)'
<1>1. conns \in ConnTable /\ FreeConn \in Conn /\ FreeConn.to # y
  BY FreeType, UnicastAssumption DEF TypeOK, ConnTable, FreeConn
<1>2. \A z \in Agents, d \in Conns :
        conns'[z][d] = IF z = a /\ d = c THEN FreeConn ELSE conns[z][d]
  BY <1>1, ConnUpdate
<1>3. \A d \in Conns : conns'[x][d].to = y \/ conns[x][d].to = y
                         => conns'[x][d] = conns[x][d]
  BY <1>1, <1>2
<1>4. QED
  BY <1>3, IntactKept DEF Undisturbed

LEMMA UndisturbedFreed ==
  ASSUME TypeOK, ConnsSound, Undisturbed, NEW a \in Agents, NEW c \in Conns,
         Refused(a, c) \/ Closed(a, c) \/ Abandon(a, c)
  PROVE  Undisturbed'
<1> DEFINE b == conns[a][c].to
<1>1. /\ conns' = [conns EXCEPT ![a][c] = FreeConn]
      /\ UNCHANGED <<lastSeen, silent, seqCounters>>
  BY DEF Refused, Closed, Abandon
<1>2. /\ conns[a][c].status \in {"connecting", "lost", "left"}
      /\ b \in Agents
  BY ConnFields DEF Refused, Closed, Abandon, ConnsSound
<1>3. /\ orderly \in [Agents -> [Agents -> BOOLEAN]]
      /\ clients \in [Agents -> [Agents -> Conns \union {NoConn}]]
  BY DEF TypeOK
<1>4. ASSUME NEW x \in Agents, NEW y \in Agents, x # a \/ y # b, orderly'[x][y]
      PROVE  orderly[x][y] /\ clients'[x][y] = clients[x][y]
  BY <1>2, <1>3, <1>4 DEF Refused, Closed, Abandon
<1>5. ~orderly'[a][b]
  <2>1. CASE Refused(a, c)
    BY <1>2, <1>3, <2>1 DEF Refused
  <2>2. CASE Closed(a, c) \/ Abandon(a, c)
    <3>1. orderly' = orderly /\ conns[a][c].status \in {"lost", "left"}
      BY <2>2 DEF Closed, Abandon
    <3>2. ~orderly[a][b]
      BY <1>2, <3>1 DEF Undisturbed, Intact
    <3>3. QED
      BY <3>1, <3>2
  <2>3. QED
    BY <2>1, <2>2
<1>6. ASSUME NEW x \in Agents, NEW y \in Agents, orderly'[x][y]
      PROVE  Intact(x, y)'
  <2>1. x # a \/ y # b
    BY <1>5, <1>6
  <2>2. orderly[x][y] /\ clients'[x][y] = clients[x][y]
    BY <1>4, <1>6, <2>1
  <2>3. QED
    BY <1>1, <2>1, <2>2, FreedIntact
<1>7. QED
  BY <1>6 DEF Undisturbed

LEMMA UndisturbedReceive ==
  ASSUME TypeOK, ConnsSound, EntriesLive, Undisturbed,
         NEW a \in Agents, NEW c \in Conns, Receive(a, c)
  PROVE  Undisturbed'
<1> DEFINE k == conns[a][c]
           l == [k EXCEPT !.q = Tail(@)]
           m == Head(k.q)
<1>0. PICK b \in Agents : b = k.to
  BY ConnFields DEF Receive, ConnsSound
<1>1. /\ l \in Conn /\ l.status = k.status /\ l.to = k.to /\ l.at = k.at
      /\ l.q = Tail(k.q)
  BY ConnFields, TailType DEF Receive
<1>2. /\ b \in Agents /\ k.to = b /\ k.status \in {"open", "left"} /\ k.q # <<>>
      /\ k.q \in Seq(Message)
  BY <1>0, ConnFields DEF Receive
<1>3. /\ conns \in ConnTable
      /\ lastSeen \in [Agents -> [Agents -> Numbers]]
      /\ silent \in [Agents -> [Agents -> BOOLEAN]]
  BY DEF TypeOK, ConnTable
<1>4. /\ conns' = [conns EXCEPT ![a][c] = l]
      /\ UNCHANGED <<orderly, clients, seqCounters>>
  BY <1>3 DEF Receive, ConnTable
<1> HIDE DEF l
<1>5. \A y \in Agents, d \in Conns :
        conns'[y][d] = IF y = a /\ d = c THEN l ELSE conns[y][d]
  <2>1. conns' = [conns EXCEPT ![a][c] = l] /\ conns \in ConnTable
    BY <1>3, <1>4
  <2>2. QED
    BY <1>1, <2>1, ConnUpdate
<1>6. ASSUME NEW x \in Agents, NEW y \in Agents, x # a \/ y # b, orderly'[x][y]
      PROVE  Intact(x, y)'
  <2>1. \A d \in Conns : conns'[x][d].to = y \/ conns[x][d].to = y
                           => conns'[x][d] = conns[x][d]
    BY <1>1, <1>2, <1>5, <1>6
  <2>2. lastSeen'[y][x] = lastSeen[y][x] /\ silent'[y][x] = silent[y][x]
    <3>1. CASE k.at # b
      BY <1>2, <3>1 DEF Receive
    <3>2. CASE k.at = b
      <4>1. /\ lastSeen' = [lastSeen EXCEPT ![b][a] = Highest(@, m.n)]
            /\ silent' = [silent EXCEPT ![b][a] = @ /\ ~Anomalous(b, a, m.n)]
        BY <1>2, <3>2 DEF Receive
      <4> HIDE DEF m
      <4>2. QED
        BY <1>3, <1>6, <4>1
    <3>3. QED
      BY <3>1, <3>2
  <2>3. Intact(x, y)
    BY <1>4, <1>6 DEF Undisturbed
  <2>4. QED
    BY <1>4, <2>1, <2>2, <2>3, IntactKept
<1>7. ASSUME orderly'[a][b] PROVE Intact(a, b)'
  <2>1. Intact(a, b)
    BY <1>2, <1>4, <1>7 DEF Undisturbed
  <2>2. /\ silent[b][a] /\ seqCounters[a][b] # 0
        /\ \A d \in Conns : conns[a][d].to = b => d = c
        /\ k.status = "open" /\ k.at = b /\ clients[a][b] = c
        /\ lastSeen[b][a] + Len(k.q) = seqCounters[a][b]
        /\ \A i \in 1 .. Len(k.q) : k.q[i].n = lastSeen[b][a] + i
    BY <1>2, <2>1 DEF Intact
  <2>3. lastSeen[b][a] \in Nat /\ seqCounters[a][b] \in Nat
    BY <1>2, <1>3 DEF TypeOK, Numbers
  <2>4. /\ lastSeen' = [lastSeen EXCEPT ![b][a] = Highest(@, m.n)]
        /\ silent' = [silent EXCEPT ![b][a] = @ /\ ~Anomalous(b, a, m.n)]
    BY <1>2, <2>2 DEF Receive
  <2>5. /\ Len(k.q) \in Nat /\ Len(k.q) > 0 /\ m = k.q[1]
        /\ Len(l.q) = Len(k.q) - 1
        /\ \A i \in 1 .. Len(k.q) - 1 : l.q[i] = k.q[i + 1]
    BY <1>1, <1>2
  <2> HIDE DEF m, k
  <2>6. m.n = lastSeen[b][a] + 1
    BY <2>2, <2>5
  <2>7. lastSeen'[b][a] = lastSeen[b][a] + 1 /\ silent'[b][a]
    <3>1. Highest(lastSeen[b][a], m.n) = lastSeen[b][a] + 1 /\ ~Anomalous(b, a, m.n)
      BY <2>3, <2>6 DEF Highest, Anomalous
    <3>2. QED
      BY <1>2, <1>3, <2>2, <2>4, <3>1
  <2>8. lastSeen'[b][a] + Len(l.q) = seqCounters'[a][b]
    <3>1. seqCounters'[a][b] = lastSeen[b][a] + Len(k.q)
      BY <1>4, <2>2
    <3>2. PICK s \in Nat, e \in Nat : s = lastSeen[b][a] /\ e = Len(l.q)
      BY <2>3, <2>5
    <3>3. Len(k.q) = e + 1 /\ lastSeen'[b][a] = s + 1
      BY <2>5, <2>7, <3>2
    <3>4. seqCounters'[a][b] = s + (e + 1)
      BY <3>1, <3>2, <3>3
    <3>5. s + (e + 1) = (s + 1) + e
      OBVIOUS
    <3>6. QED
      BY <3>2, <3>3, <3>4, <3>5
  <2>9. ASSUME NEW i \in 1 .. Len(l.q) PROVE l.q[i].n = lastSeen'[b][a] + i
    <3>1. i + 1 \in 1 .. Len(k.q) /\ l.q[i] = k.q[i + 1]
      BY <2>5
    <3>2. k.q[i + 1].n = lastSeen[b][a] + (i + 1)
      BY <2>2, <3>1
    <3>3. PICK s \in Nat : s = lastSeen[b][a] /\ i \in Nat
      BY <2>3, <2>5
    <3>4. s + (i + 1) = (s + 1) + i
      BY <3>3
    <3>5. QED
      BY <2>7, <3>1, <3>2, <3>3, <3>4
  <2>10. \A d \in Conns : conns'[a][d].to = b => d = c
    BY <1>5, <2>2
  <2>11. conns'[a][c] = l
    BY <1>5
  <2>12. /\ silent'[b][a] /\ seqCounters'[a][b] # 0
         /\ conns'[a][c].to = b
         /\ conns'[a][c].status = "open" /\ conns'[a][c].at = b
         /\ clients'[a][b] = c
         /\ lastSeen'[b][a] + Len(conns'[a][c].q) = seqCounters'[a][b]
         /\ \A i \in 1 .. Len(conns'[a][c].q) : conns'[a][c].q[i].n = lastSeen'[b][a] + i
    BY <1>1, <1>2, <1>4, <2>2, <2>7, <2>8, <2>9, <2>11
  <2>13. QED
    BY <1>2, <2>10, <2>12, IntactOne
<1>8. QED
  BY <1>6, <1>7 DEF Undisturbed

LEMMA UndisturbedNext ==
  TypeOK /\ ConnsSound /\ EntriesLive /\ Undisturbed /\ [Next]_vars => Undisturbed'
<1> SUFFICES ASSUME TypeOK, ConnsSound, EntriesLive, Undisturbed, [Next]_vars
             PROVE  Undisturbed'
  OBVIOUS
<1>1. ASSUME UNCHANGED <<orderly, silent, lastSeen, seqCounters, clients, conns>>
      PROVE  Undisturbed'
  BY <1>1 DEF Undisturbed, Intact
<1>2. ASSUME NEW a \in Agents, NEW p \in Ports, Spawn(a, p) PROVE Undisturbed'
  BY <1>1, <1>2 DEF Spawn
<1>3. ASSUME NEW a \in Agents, PeerUpdate(a) PROVE Undisturbed'
  BY <1>1, <1>3 DEF PeerUpdate
<1>4. CASE UNCHANGED vars
  BY <1>1, <1>4 DEF vars
<1>5. QED
  BY <1>2, <1>3, <1>4, UndisturbedDie, UndisturbedSend, UndisturbedLegacySend,
     UndisturbedConnected, UndisturbedFreed, UndisturbedReceive DEF Next

LEMMA UndisturbedAlways == Spec => [](Undisturbed /\ ConnsSound /\ EntriesLive /\ TypeOK)
<1> DEFINE I == Undisturbed /\ ConnsSound /\ EntriesLive /\ TypeOK
<1>1. Init => I
  BY InitType, SoundInit, UndisturbedInit
<1>2. I /\ [Next]_vars => I'
  BY NextType, SoundNext, UndisturbedNext
<1> HIDE DEF I
<1>3. Spec => []I
  BY <1>1, <1>2, PTL DEF Spec
<1>4. QED
  BY <1>3 DEF I

\* BR-02: as long as no two connects to the recipient overlap, no send fails, neither
\* process ends and the 1.2 interface is not used, no anomaly is reported.
THEOREM AnomaliesHaveCauses == Spec => []AnomalyHasCause
<1>1. Undisturbed => AnomalyHasCause
  BY DEF Undisturbed, Intact, AnomalyHasCause
<1>2. QED
  BY <1>1, UndisturbedAlways, PTL

\* A1.2: the open connection of an undisturbed pair is the one in the map.
THEOREM OneConnectionEach == Spec => []OneConnection
<1>1. Undisturbed => OneConnection
  BY DEF Undisturbed, Intact, OneConnection
<1>2. QED
  BY <1>1, UndisturbedAlways, PTL
=============================================================================

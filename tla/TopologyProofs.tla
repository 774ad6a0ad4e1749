--------------------------- MODULE TopologyProofs ---------------------------
(***************************************************************************)
(* Proofs about Topology, for every set of ids, every demo and any number  *)
(* of requests and processes: the books of the agents converge, no two     *)
(* demos are spawned at once, and (the second part) the dials settle.      *)
(***************************************************************************)
EXTENDS Topology, SequenceTheorems, WellFoundedInduction, TLAPS

States == {"unused", "starting", "running", "exited", "gone"}

Process == [id : Ids, state : States]

Book == [Ids -> 0 .. MaxProcs]

Update == [type : {"peer-update"}, peers : Book]
Order == [type : {"cmd"}, req : Reqs, value : Values]

Request == [kind : {"idle", "spawn", "demo", "dial"}, proc : 0 .. MaxProcs,
            todo : Seq(Ids), value : Values]

TypeOK ==
  /\ agents \in Seq(Procs)
  /\ forks \in 0 .. MaxProcs
  /\ proc \in [Procs -> Process]
  /\ book \in [Procs -> Book]
  /\ dial \in [Procs -> Values]
  /\ inbox \in [Procs -> Seq(Update \union Order)]
  /\ outbox \in [Procs -> Seq(Reqs \union {"ready"})]
  /\ req \in [Reqs -> Request]
  /\ pending \in Seq(Reqs)
  /\ latest \in [value : Values, told : SUBSET Procs]
  /\ torn \in BOOLEAN /\ late \in BOOLEAN /\ crashed \in BOOLEAN

-----------------------------------------------------------------------------
(* Sequences and the map of the children. *)

LEMMA LeastOf ==
  ASSUME NEW I \in SUBSET Nat, I # {}
  PROVE  Min(I) \in I /\ \A j \in I : Min(I) <= j
<1>1. PICK x \in I : \A y \in I : ~(<<y, x>> \in OpToRel(<, Nat))
  BY WFMin, NatLessThanWellFounded
<1>2. ASSUME NEW y \in I PROVE x <= y
  <2>1. x \in Nat /\ y \in Nat
    OBVIOUS
  <2>2. CASE y < x
    <3>1. <<y, x>> \in OpToRel(<, Nat)
      BY <2>1, <2>2 DEF OpToRel
    <3>2. QED
      BY <1>1, <3>1
  <2>3. QED
    BY <2>1, <2>2
<1>3. QED
  BY <1>2 DEF Min

LEMMA RemoveAtType ==
  ASSUME NEW S, NEW s \in Seq(S), NEW n \in DOMAIN s
  PROVE  LET t == RemoveAt(s, n)
         IN  /\ t \in Seq(S) /\ Len(t) = Len(s) - 1
             /\ \A m \in 1 .. Len(s) - 1 : t[m] = IF m < n THEN s[m] ELSE s[m + 1]
<1> DEFINE a == SubSeq(s, 1, n - 1)
           b == SubSeq(s, n + 1, Len(s))
<1>1. n \in 1 .. Len(s) /\ Len(s) \in Nat
  OBVIOUS
<1>2. /\ a \in Seq(S) /\ Len(a) = n - 1
      /\ \A m \in 1 .. n - 1 : a[m] = s[m]
  BY <1>1
<1>3. /\ b \in Seq(S) /\ Len(b) = Len(s) - n
      /\ \A m \in 1 .. Len(s) - n : b[m] = s[n + m]
  BY <1>1
<1> HIDE DEF a, b
<1>0. /\ a \o b \in Seq(S) /\ Len(a \o b) = Len(a) + Len(b)
      /\ \A i \in 1 .. Len(a) + Len(b) : (a \o b)[i] = IF i <= Len(a) THEN a[i] ELSE b[i - Len(a)]
  BY <1>2, <1>3, ConcatProperties
<1>4. a \o b \in Seq(S) /\ Len(a \o b) = Len(s) - 1
  BY <1>0, <1>1, <1>2, <1>3
<1>5. ASSUME NEW m \in 1 .. Len(s) - 1
      PROVE  (a \o b)[m] = IF m < n THEN s[m] ELSE s[m + 1]
  <2>1. CASE m < n
    <3>1. m \in 1 .. Len(a) + Len(b) /\ m <= Len(a) /\ m \in 1 .. n - 1
      BY <1>1, <1>2, <1>3, <2>1
    <3>2. QED
      BY <1>0, <1>2, <2>1, <3>1
  <2>2. CASE m >= n
    <3>1. m - (n - 1) \in 1 .. Len(s) - n /\ n + (m - (n - 1)) = m + 1
      BY <1>1, <2>2
    <3>2. (a \o b)[m] = b[m - (n - 1)]
      <4>1. m \in 1 .. Len(a) + Len(b) /\ ~(m <= Len(a))
        BY <1>1, <1>2, <1>3, <2>2
      <4>2. QED
        BY <1>0, <1>2, <4>1
    <3>3. ~(m < n)
      BY <1>1, <2>2
    <3>4. QED
      BY <1>3, <3>1, <3>2, <3>3
  <2>3. m < n \/ m >= n
    BY <1>1
  <2>4. QED
    BY <2>1, <2>2, <2>3
<1>6. RemoveAt(s, n) = a \o b
  BY DEF RemoveAt, a, b
<1>7. QED
  BY <1>4, <1>5, <1>6

\* The map has one child for an id, so that each child is the one of its id.
OneEach ==
  \A m, n \in DOMAIN agents : proc[agents[m]].id = proc[agents[n]].id => m = n

LEMMA ChildOfType ==
  ASSUME TypeOK, NEW i, InMap(i)
  PROVE  ChildOf(i) \in Children /\ ChildOf(i) \in Procs /\ proc[ChildOf(i)].id = i
<1>1. \E p \in Children : proc[p].id = i
  BY DEF InMap
<1>2. ChildOf(i) \in Children /\ proc[ChildOf(i)].id = i
  BY <1>1 DEF ChildOf
<1>3. Children \subseteq Procs
  BY DEF TypeOK, Children
<1>4. QED
  BY <1>2, <1>3

LEMMA ChildOfUnique ==
  ASSUME TypeOK, OneEach, NEW q \in Children
  PROVE  InMap(proc[q].id) /\ ChildOf(proc[q].id) = q
<1>1. InMap(proc[q].id)
  BY DEF InMap
<1>2. ChildOf(proc[q].id) \in Children /\ proc[ChildOf(proc[q].id)].id = proc[q].id
  BY <1>1, ChildOfType
<1>3. QED
  BY <1>1, <1>2 DEF OneEach, Children

LEMMA PeersType ==
  ASSUME TypeOK
  PROVE  Peers \in Book /\ (OneEach => \A q \in Children : Peers[proc[q].id] = q)
<1>1. \A i \in Ids : (IF InMap(i) THEN ChildOf(i) ELSE NoProc) \in 0 .. MaxProcs
  BY ChildOfType, TopologyAssumption DEF Procs, NoProc
<1>2. Peers \in Book
  BY <1>1 DEF Peers, Book
<1>3. ASSUME OneEach, NEW q \in Children PROVE Peers[proc[q].id] = q
  <2>1. proc[q].id \in Ids
    BY DEF TypeOK, Children, Process
  <2>2. QED
    BY <1>3, <2>1, ChildOfUnique DEF Peers
<1>4. QED
  BY <1>2, <1>3

\* Where Turn finds the next agent that is there.
LEMMA NextThere ==
  ASSUME NEW todo \in Seq(Ids), NEW n, n = SelectInSeq(todo, InMap)
  PROVE  /\ n \in 0 .. Len(todo)
         /\ n # 0 => InMap(todo[n])
         /\ \A m \in 1 .. Len(todo) : (n = 0 \/ m < n) => ~InMap(todo[m])
<1> DEFINE I == {m \in 1 .. Len(todo) : InMap(todo[m])}
<1>1. n = IF I # {} THEN Min(I) ELSE 0
  BY DEF SelectInSeq
<1>2. I \in SUBSET Nat /\ I \subseteq 1 .. Len(todo)
  OBVIOUS
<1>3. CASE I = {}
  BY <1>1, <1>3
<1>4. CASE I # {}
  <2>1. n \in I /\ \A m \in I : n <= m
    BY <1>1, <1>2, <1>4, LeastOf
  <2>2. n \in 1 .. Len(todo) /\ InMap(todo[n])
    BY <2>1
  <2>3. ASSUME NEW m \in 1 .. Len(todo), m < n PROVE ~InMap(todo[m])
    <3>1. ~(n <= m)
      BY <2>2, <2>3
    <3>2. m \notin I
      BY <2>1, <3>1
    <3>3. QED
      BY <3>2
  <2>4. n # 0 /\ n \in 0 .. Len(todo)
    BY <2>2
  <2>5. QED
    BY <2>2, <2>3, <2>4
<1>5. QED
  BY <1>3, <1>4

-----------------------------------------------------------------------------
(* The types of the steps' parts. *)

LEMMA IdleType ==
  /\ Idle \in Request
  /\ \A k \in {"spawn", "demo", "dial"}, p \in Procs, s \in Seq(Ids), v \in Values :
       [kind |-> k, proc |-> p, todo |-> s, value |-> v] \in Request
<1>1. 0 \in 0 .. MaxProcs /\ 0 \in Values /\ <<>> \in Seq(Ids)
  BY TopologyAssumption DEF Values
<1>2. Procs \subseteq 0 .. MaxProcs
  BY TopologyAssumption DEF Procs
<1>3. Idle \in Request
  BY <1>1 DEF Idle, Request, NoProc
<1>4. QED
  BY <1>2, <1>3 DEF Request

\* The children stay in their order, and one that is forked comes last.
LEMMA AppendChild ==
  ASSUME agents \in Seq(Procs), NEW p \in Procs, agents' = Append(agents, p)
  PROVE  /\ agents' \in Seq(Procs)
         /\ Len(agents') = Len(agents) + 1
         /\ agents'[Len(agents) + 1] = p
         /\ \A n \in 1 .. Len(agents) : agents'[n] = agents[n]
         /\ Children' = Children \union {p}
<1>1. /\ agents' \in Seq(Procs) /\ Len(agents') = Len(agents) + 1
      /\ agents'[Len(agents) + 1] = p
      /\ \A n \in 1 .. Len(agents) : agents'[n] = agents[n]
  OBVIOUS
<1>2. DOMAIN agents = 1 .. Len(agents) /\ DOMAIN agents' = 1 .. Len(agents) + 1
      /\ Len(agents) \in Nat
  BY <1>1
<1>3. ASSUME NEW q \in Children' PROVE q \in Children \union {p}
  <2>1. PICK n \in DOMAIN agents' : q = agents'[n]
    BY DEF Children
  <2>2. n \in 1 .. Len(agents) \/ n = Len(agents) + 1
    BY <1>2
  <2>3. QED
    BY <1>1, <1>2, <2>1, <2>2 DEF Children
<1>4. ASSUME NEW q \in Children PROVE q \in Children'
  <2>1. PICK n \in DOMAIN agents : q = agents[n]
    BY DEF Children
  <2>2. n \in 1 .. Len(agents) /\ n \in DOMAIN agents'
    BY <1>2
  <2>3. QED
    BY <1>1, <2>1, <2>2 DEF Children
<1>5. p \in Children'
  <2>1. Len(agents) + 1 \in DOMAIN agents'
    BY <1>2
  <2>2. QED
    BY <1>1, <2>1 DEF Children
<1>6. QED
  BY <1>1, <1>3, <1>4, <1>5

LEMMA ForkCases ==
  ASSUME TypeOK, NEW r \in Reqs, NEW kind \in {"spawn", "demo"}, NEW i \in Ids,
         NEW todo \in Seq(Ids), Fork(r, kind, i, todo)
  PROVE  \E p \in Procs :
           /\ p = forks + 1 /\ forks' = p /\ forks' \in 0 .. MaxProcs
           /\ agents' = Append(agents, p) /\ agents' \in Seq(Procs)
           /\ proc' = [proc EXCEPT ![p] = [id |-> i, state |-> "starting"]]
           /\ proc' \in [Procs -> Process]
           /\ req' = [req EXCEPT ![r] = [kind |-> kind, proc |-> p, todo |-> todo, value |-> 0]]
           /\ req' \in [Reqs -> Request]
<1>1. PICK p : /\ p = forks + 1 /\ p <= MaxProcs /\ forks' = p
               /\ agents' = Append(agents, p)
               /\ proc' = [proc EXCEPT ![p] = [id |-> i, state |-> "starting"]]
               /\ req' = [req EXCEPT ![r] = [kind |-> kind, proc |-> p, todo |-> todo,
                                             value |-> 0]]
  BY DEF Fork
<1>2. p \in Procs /\ forks' \in 0 .. MaxProcs
  BY <1>1, TopologyAssumption DEF TypeOK, Procs
<1>3. agents' \in Seq(Procs)
  BY <1>1, <1>2, AppendChild DEF TypeOK
<1>4. proc' \in [Procs -> Process]
  BY <1>1, <1>2 DEF TypeOK, Process, States
<1>5. [kind |-> kind, proc |-> p, todo |-> todo, value |-> 0] \in Request
  <2>1. 0 \in Values
    BY TopologyAssumption DEF Values
  <2>2. QED
    BY <1>2, <2>1, IdleType
<1>6. req' \in [Reqs -> Request]
  BY <1>1, <1>5 DEF TypeOK
<1>7. QED
  BY <1>1, <1>2, <1>3, <1>4, <1>6

\* A request's turn ends it, is the end of the control plane, or sends its command to
\* one of the children.
Sends(r, v, waiting, p, rest) ==
  /\ req' = [req EXCEPT ![r] = [kind |-> "dial", proc |-> p, todo |-> rest, value |-> v]]
  /\ inbox' = [inbox EXCEPT ![p] = Append(@, [type |-> "cmd", req |-> r, value |-> v])]
  /\ pending' = Append(waiting, r)
  /\ UNCHANGED crashed

Ends(r, waiting) ==
  req' = [req EXCEPT ![r] = Idle] /\ pending' = waiting /\ UNCHANGED <<inbox, crashed>>

Falls == crashed' = TRUE /\ UNCHANGED <<req, inbox, pending>>

LEMMA TurnCases ==
  ASSUME TypeOK, NEW r \in Reqs, NEW v \in Values, NEW todo \in Seq(Ids), NEW waiting,
         Turn(r, v, todo, waiting)
  PROVE  \/ Ends(r, waiting)
         \/ Falls
         \/ \E p \in Children, rest \in Seq(Ids) : Sends(r, v, waiting, p, rest)
<1>1. PICK n : n = SelectInSeq(todo, InMap)
  OBVIOUS
<1>2. n \in 0 .. Len(todo) /\ (n # 0 => InMap(todo[n]))
  BY <1>1, NextThere
<1>3. CASE n = 0
  BY <1>1, <1>3 DEF Turn, Ends
<1>4. CASE n # 0
  <2>1. PICK p : p = ChildOf(todo[n])
    OBVIOUS
  <2>2. p \in Children
    BY <1>2, <1>4, <2>1, ChildOfType
  <2>3. CASE Dead(p)
    BY <1>1, <1>4, <2>1, <2>3 DEF Turn, Falls
  <2>4. CASE ~Dead(p)
    <3>1. PICK rest : rest = SubSeq(todo, n + 1, Len(todo))
      OBVIOUS
    <3>2. rest \in Seq(Ids)
      BY <1>2, <1>4, <3>1
    <3>3. /\ req' = [req EXCEPT ![r] = [kind |-> "dial", proc |-> p, todo |-> rest,
                                        value |-> v]]
          /\ inbox' = [inbox EXCEPT ![p] = Append(@, [type |-> "cmd", req |-> r, value |-> v])]
          /\ pending' = Append(waiting, r)
          /\ UNCHANGED crashed
      BY <1>1, <1>4, <2>1, <2>4, <3>1 DEF Turn
    <3>4. Sends(r, v, waiting, p, rest)
      BY <3>3 DEF Sends
    <3>5. QED
      BY <2>2, <3>2, <3>4
  <2>5. QED
    BY <2>3, <2>4
<1>5. QED
  BY <1>3, <1>4

LEMMA TurnType ==
  ASSUME TypeOK, NEW r \in Reqs, NEW v \in Values, NEW todo \in Seq(Ids),
         NEW waiting \in Seq(Reqs), Turn(r, v, todo, waiting)
  PROVE  /\ req' \in [Reqs -> Request]
         /\ inbox' \in [Procs -> Seq(Update \union Order)]
         /\ pending' \in Seq(Reqs)
         /\ crashed' \in BOOLEAN
<1>1. CASE Ends(r, waiting)
  BY <1>1, IdleType DEF Ends, TypeOK
<1>2. CASE Falls
  BY <1>2 DEF Falls, TypeOK
<1>3. ASSUME NEW p \in Children, NEW rest \in Seq(Ids), Sends(r, v, waiting, p, rest)
      PROVE  /\ req' \in [Reqs -> Request]
             /\ inbox' \in [Procs -> Seq(Update \union Order)]
             /\ pending' \in Seq(Reqs)
             /\ crashed' \in BOOLEAN
  <2>1. p \in Procs
    BY DEF TypeOK, Children
  <2>2. req' \in [Reqs -> Request]
    <3>1. [kind |-> "dial", proc |-> p, todo |-> rest, value |-> v] \in Request
      BY <2>1, IdleType
    <3>2. QED
      BY <1>3, <3>1 DEF Sends, TypeOK
  <2>3. inbox' \in [Procs -> Seq(Update \union Order)]
    <3>1. PICK m : m = [type |-> "cmd", req |-> r, value |-> v]
      OBVIOUS
    <3>2. m \in Update \union Order
      BY <3>1 DEF Order
    <3>3. inbox[p] \in Seq(Update \union Order)
      BY <2>1 DEF TypeOK
    <3>4. Append(inbox[p], m) \in Seq(Update \union Order)
      BY <3>2, <3>3
    <3>5. inbox' = [inbox EXCEPT ![p] = Append(inbox[p], m)]
      BY <1>3, <2>1, <3>1 DEF Sends, TypeOK
    <3>6. QED
      BY <2>1, <3>4, <3>5 DEF TypeOK
  <2>4. QED
    BY <1>3, <2>2, <2>3 DEF Sends, TypeOK
<1>4. QED
  BY <1>1, <1>2, <1>3, TurnCases

-----------------------------------------------------------------------------
(* The types of the steps. *)

LEMMA InitType == Init => TypeOK
<1> SUFFICES ASSUME Init PROVE TypeOK
  OBVIOUS
<1>1. Ids # {}
  BY TopologyAssumption
<1>2. (CHOOSE i \in Ids : TRUE) \in Ids
  BY <1>1
<1>3. [id |-> CHOOSE i \in Ids : TRUE, state |-> "unused"] \in Process
  BY <1>2 DEF Process, States
<1>4. NoBook \in Book /\ 0 \in Values /\ 0 \in 0 .. MaxProcs
  BY TopologyAssumption DEF NoBook, Book, NoProc, Values
<1>5. /\ proc \in [Procs -> Process] /\ book \in [Procs -> Book] /\ dial \in [Procs -> Values]
      /\ req \in [Reqs -> Request]
  BY <1>3, <1>4, IdleType DEF Init
<1>6. /\ agents \in Seq(Procs) /\ pending \in Seq(Reqs) /\ forks \in 0 .. MaxProcs
      /\ inbox \in [Procs -> Seq(Update \union Order)]
      /\ outbox \in [Procs -> Seq(Reqs \union {"ready"})]
  BY <1>4 DEF Init
<1>7. latest \in [value : Values, told : SUBSET Procs]
  BY <1>4 DEF Init
<1>8. torn \in BOOLEAN /\ late \in BOOLEAN /\ crashed \in BOOLEAN
  BY DEF Init
<1>9. QED
  BY <1>5, <1>6, <1>7, <1>8 DEF TypeOK

LEMMA OutboxType ==
  ASSUME TypeOK, NEW p \in Procs, outbox[p] # <<>>
  PROVE  /\ Head(outbox[p]) \in Reqs \union {"ready"}
         /\ [outbox EXCEPT ![p] = Tail(@)] \in [Procs -> Seq(Reqs \union {"ready"})]
<1>1. outbox[p] \in Seq(Reqs \union {"ready"})
  BY DEF TypeOK
<1>2. Head(outbox[p]) \in Reqs \union {"ready"} /\ Tail(outbox[p]) \in Seq(Reqs \union {"ready"})
  BY <1>1
<1>3. QED
  BY <1>2 DEF TypeOK

LEMMA BroadcastType ==
  ASSUME TypeOK, BroadcastPeers
  PROVE  inbox' \in [Procs -> Seq(Update \union Order)]
<1>1. PICK m : m = [type |-> "peer-update", peers |-> Peers]
  OBVIOUS
<1>2. m \in Update \union Order
  BY <1>1, PeersType DEF Update
<1>3. \A p \in Procs : /\ inbox[p] \in Seq(Update \union Order)
                       /\ Append(inbox[p], m) \in Seq(Update \union Order)
  BY <1>2 DEF TypeOK
<1>4. inbox' = [p \in Procs |-> IF p \in Children THEN Append(inbox[p], m) ELSE inbox[p]]
  BY <1>1 DEF BroadcastPeers
<1>5. QED
  BY <1>3, <1>4

LEMMA SpawnNextType ==
  ASSUME TypeOK, NEW r \in Reqs, SpawnNext(r)
  PROVE  /\ agents' \in Seq(Procs) /\ forks' \in 0 .. MaxProcs
         /\ proc' \in [Procs -> Process] /\ req' \in [Reqs -> Request]
<1>1. CASE req' = [req EXCEPT ![r] = Idle] /\ UNCHANGED <<agents, forks, proc>>
  BY <1>1, IdleType DEF TypeOK
<1>2. CASE req[r].todo # <<>> /\ Fork(r, "demo", Head(req[r].todo), Tail(req[r].todo))
  <2>1. req[r].todo \in Seq(Ids)
    BY DEF TypeOK, Request
  <2>2. Head(req[r].todo) \in Ids /\ Tail(req[r].todo) \in Seq(Ids)
    BY <1>2, <2>1
  <2>3. QED
    BY <1>2, <2>2, ForkCases
<1>3. QED
  BY <1>1, <1>2 DEF SpawnNext

LEMMA HandleType ==
  ASSUME TypeOK, NEW p \in Procs, Handle(p)
  PROVE  TypeOK'
<1>1. PICK m : m = Head(inbox[p])
  OBVIOUS
<1>2. inbox[p] \in Seq(Update \union Order) /\ inbox[p] # <<>>
  BY DEF TypeOK, Handle
<1>3. m \in Update \union Order /\ Tail(inbox[p]) \in Seq(Update \union Order)
  BY <1>1, <1>2
<1>4. inbox' \in [Procs -> Seq(Update \union Order)]
  BY <1>3 DEF Handle, TypeOK
<1>5. CASE /\ m.type = "peer-update"
           /\ book' = [book EXCEPT ![p] = m.peers]
           /\ UNCHANGED <<dial, outbox>>
  <2>1. m \in Update
    BY <1>3, <1>5 DEF Order
  <2>2. book' \in [Procs -> Book]
    BY <1>5, <2>1 DEF Update, TypeOK
  <2>3. QED
    BY <1>4, <1>5, <2>2 DEF Handle, TypeOK, history
<1>6. CASE /\ m.type = "cmd"
           /\ dial' = [dial EXCEPT ![p] = m.value]
           /\ outbox' = [outbox EXCEPT ![p] = Append(@, m.req)]
           /\ UNCHANGED book
  <2>1. m \in Order
    BY <1>3, <1>6 DEF Update
  <2>2. m.value \in Values /\ m.req \in Reqs
    BY <2>1 DEF Order
  <2>3. dial' \in [Procs -> Values]
    BY <1>6, <2>2 DEF TypeOK
  <2>4. Append(outbox[p], m.req) \in Seq(Reqs \union {"ready"})
    BY <2>2 DEF TypeOK
  <2>5. outbox' \in [Procs -> Seq(Reqs \union {"ready"})]
    BY <1>6, <2>4 DEF TypeOK
  <2>6. QED
    BY <1>4, <1>6, <2>3, <2>5 DEF Handle, TypeOK, history
<1>7. QED
  BY <1>1, <1>5, <1>6 DEF Handle

\* What stays when only the processes take part, and when only the requests do.
LEMMA ProcessTypes ==
  ASSUME TypeOK, NEW p \in Procs, BecomeReady(p) \/ Exit(p)
  PROVE  TypeOK'
<1>0. 0 \in Values /\ NoBook \in Book
  BY TopologyAssumption DEF Values, NoBook, Book, NoProc
<1>1. CASE BecomeReady(p)
  <2>1. proc' \in [Procs -> Process]
    BY <1>1 DEF BecomeReady, TypeOK, Process, States
  <2>2. Append(outbox[p], "ready") \in Seq(Reqs \union {"ready"})
    BY DEF TypeOK
  <2>3. outbox' \in [Procs -> Seq(Reqs \union {"ready"})]
    BY <1>1, <2>2 DEF BecomeReady, TypeOK
  <2>4. UNCHANGED <<agents, forks, book, dial, inbox, req, pending, history, crashed>>
    BY <1>1 DEF BecomeReady
  <2>5. QED
    BY <2>1, <2>3, <2>4 DEF TypeOK, history
<1>2. CASE Exit(p)
  <2>1. proc' \in [Procs -> Process]
    <3>1. proc' = [proc EXCEPT ![p].state = "exited"] /\ proc \in [Procs -> Process]
      BY <1>2 DEF Exit, TypeOK
    <3>2. QED
      BY <3>1 DEF Process, States
  <2>2. inbox' \in [Procs -> Seq(Update \union Order)]
    BY <1>2 DEF Exit, TypeOK
  <2>3. book' \in [Procs -> Book] /\ dial' \in [Procs -> Values]
    BY <1>0, <1>2 DEF Exit, TypeOK
  <2>4. torn' \in BOOLEAN
    BY <1>2 DEF Exit, TypeOK
  <2>5. QED
    BY <1>2, <2>1, <2>2, <2>3, <2>4 DEF Exit, TypeOK
<1>3. QED
  BY <1>1, <1>2

LEMMA SpawnTypes ==
  ASSUME TypeOK, NEW r \in Reqs,
         SpawnTimeout(r) \/ DemoBegin(r) \/ \E i \in Ids : SpawnBegin(r, i)
  PROVE  TypeOK'
<1>1. CASE SpawnTimeout(r)
  BY <1>1, IdleType DEF SpawnTimeout, TypeOK, processes
<1>2. CASE DemoBegin(r)
  <2>1. Head(Demo) \in Ids /\ Tail(Demo) \in Seq(Ids)
    BY TopologyAssumption
  <2>2. /\ agents' \in Seq(Procs) /\ forks' \in 0 .. MaxProcs
        /\ proc' \in [Procs -> Process] /\ req' \in [Reqs -> Request]
    BY <1>2, <2>1, ForkCases DEF DemoBegin
  <2>3. QED
    BY <1>2, <2>2 DEF DemoBegin, TypeOK, history
<1>3. ASSUME NEW i \in Ids, SpawnBegin(r, i) PROVE TypeOK'
  <2>1. <<>> \in Seq(Ids)
    OBVIOUS
  <2>2. /\ agents' \in Seq(Procs) /\ forks' \in 0 .. MaxProcs
        /\ proc' \in [Procs -> Process] /\ req' \in [Reqs -> Request]
    BY <1>3, <2>1, ForkCases DEF SpawnBegin
  <2>3. QED
    BY <1>3, <2>2 DEF SpawnBegin, TypeOK, history
<1>4. QED
  BY <1>1, <1>2, <1>3

LEMMA ReadyType ==
  ASSUME TypeOK, NEW p \in Procs, ReadyMessage(p)
  PROVE  TypeOK'
<1>1. outbox' \in [Procs -> Seq(Reqs \union {"ready"})]
  BY OutboxType DEF ReadyMessage
<1>2. CASE UNCHANGED <<agents, forks, proc, inbox, req, late, crashed>>
  BY <1>1, <1>2 DEF ReadyMessage, TypeOK
<1>3. ASSUME NEW r \in Reqs, BroadcastPeers, late' = FALSE, SpawnNext(r), UNCHANGED crashed
      PROVE  TypeOK'
  <2>1. inbox' \in [Procs -> Seq(Update \union Order)]
    BY <1>3, BroadcastType
  <2>2. /\ agents' \in Seq(Procs) /\ forks' \in 0 .. MaxProcs
        /\ proc' \in [Procs -> Process] /\ req' \in [Reqs -> Request]
    BY <1>3, SpawnNextType
  <2>3. QED
    BY <1>1, <1>3, <2>1, <2>2 DEF ReadyMessage, TypeOK
<1>4. CASE crashed' = TRUE /\ UNCHANGED <<agents, forks, proc, inbox, req, late>>
  BY <1>1, <1>4 DEF ReadyMessage, TypeOK
<1>5. QED
  BY <1>2, <1>3, <1>4 DEF ReadyMessage

LEMMA ExitEventType ==
  ASSUME TypeOK, NEW p \in Procs, ExitEvent(p)
  PROVE  TypeOK'
<1>1. agents' \in Seq(Procs)
  BY RemoveAtType DEF ExitEvent, TypeOK
<1>2. proc' \in [Procs -> Process]
  BY DEF ExitEvent, TypeOK, Process, States
<1>3. req' \in [Reqs -> Request]
  BY IdleType DEF ExitEvent, TypeOK
<1>4. torn' \in BOOLEAN
  BY DEF ExitEvent, TypeOK
<1>5. QED
  BY <1>1, <1>2, <1>3, <1>4 DEF ExitEvent, TypeOK

\* A request in the midst of its dials.
LEMMA TurningFields ==
  ASSUME TypeOK, NEW r \in Reqs
  PROVE  req[r].value \in Values /\ req[r].todo \in Seq(Ids)
  BY DEF TypeOK, Request

LEMMA DialTypes ==
  ASSUME TypeOK,
         CommandTimeout \/ (\E p \in Procs : ResultMessage(p)) \/ (\E r \in Reqs : DialBegin(r))
  PROVE  TypeOK'
<1>1. CASE CommandTimeout
  <2>1. Head(pending) \in Reqs /\ Tail(pending) \in Seq(Reqs)
    BY <1>1 DEF CommandTimeout, TypeOK
  <2>2. /\ req' \in [Reqs -> Request] /\ inbox' \in [Procs -> Seq(Update \union Order)]
        /\ pending' \in Seq(Reqs) /\ crashed' \in BOOLEAN
    BY <1>1, <2>1, TurningFields, TurnType DEF CommandTimeout
  <2>3. QED
    BY <1>1, <2>2 DEF CommandTimeout, TypeOK, processes, history
<1>2. ASSUME NEW p \in Procs, ResultMessage(p) PROVE TypeOK'
  <2>1. PICK r : r = Head(outbox[p])
    OBVIOUS
  <2>2. r \in Reqs
    BY <1>2, <2>1, OutboxType DEF ResultMessage
  <2>3. outbox' \in [Procs -> Seq(Reqs \union {"ready"})]
    BY <1>2, OutboxType DEF ResultMessage
  <2>4. ASSUME NEW n \in DOMAIN pending, Turn(r, req[r].value, req[r].todo, RemoveAt(pending, n))
        PROVE  TypeOK'
    <3>1. RemoveAt(pending, n) \in Seq(Reqs)
      BY RemoveAtType DEF TypeOK
    <3>2. /\ req' \in [Reqs -> Request] /\ inbox' \in [Procs -> Seq(Update \union Order)]
          /\ pending' \in Seq(Reqs) /\ crashed' \in BOOLEAN
      BY <2>2, <2>4, <3>1, TurningFields, TurnType
    <3>3. QED
      BY <1>2, <2>3, <3>2 DEF ResultMessage, TypeOK, processes, history
  <2>5. CASE UNCHANGED <<inbox, req, pending, crashed>>
    BY <1>2, <2>3, <2>5 DEF ResultMessage, TypeOK, processes, history
  <2>6. QED
    BY <1>2, <2>1, <2>4, <2>5 DEF ResultMessage
<1>3. ASSUME NEW r \in Reqs, DialBegin(r) PROVE TypeOK'
  <2>1. latest.value + 1 \in Values
    BY <1>3, TopologyAssumption DEF DialBegin, TypeOK, Values
  <2>2. PICK ids : ids = [n \in DOMAIN agents |-> proc[agents[n]].id]
    OBVIOUS
  <2>3. ids \in Seq(Ids)
    <3>1. Len(agents) \in Nat /\ DOMAIN agents = 1 .. Len(agents)
      BY DEF TypeOK
    <3>2. \A n \in 1 .. Len(agents) : proc[agents[n]].id \in Ids
      BY DEF TypeOK, Process
    <3>3. QED
      BY <2>2, <3>1, <3>2
  <2>4. pending \in Seq(Reqs)
    BY DEF TypeOK
  <2>5. Turn(r, latest.value + 1, ids, pending)
    BY <1>3, <2>2 DEF DialBegin
  <2>6. /\ req' \in [Reqs -> Request] /\ inbox' \in [Procs -> Seq(Update \union Order)]
        /\ pending' \in Seq(Reqs) /\ crashed' \in BOOLEAN
    BY <2>1, <2>3, <2>4, <2>5, TurnType
  <2>7. Children \in SUBSET Procs
    BY DEF TypeOK, Children
  <2>8. latest' \in [value : Values, told : SUBSET Procs]
    BY <1>3, <2>1, <2>7 DEF DialBegin
  <2>9. torn' \in BOOLEAN
    BY <1>3 DEF DialBegin, TypeOK
  <2>10. QED
    BY <1>3, <2>6, <2>8, <2>9 DEF DialBegin, TypeOK, processes
<1>4. QED
  BY <1>1, <1>2, <1>3

LEMMA NextType == TypeOK /\ [Next]_vars => TypeOK'
<1> SUFFICES ASSUME TypeOK, [Next]_vars PROVE TypeOK'
  OBVIOUS
<1>1. CASE UNCHANGED vars
  BY <1>1 DEF vars, TypeOK
<1>2. CASE Next
  BY <1>2, ProcessTypes, HandleType, SpawnTypes, ReadyType, ExitEventType, DialTypes DEF Next
<1>3. QED
  BY <1>1, <1>2

-----------------------------------------------------------------------------
(* The map of the children. *)

\* Every child has been forked.
Known == \A n \in DOMAIN agents : agents[n] <= forks

LEMMA SameMap ==
  ASSUME TypeOK, OneEach, Known, UNCHANGED <<agents, forks>>,
         \A q \in Procs : proc'[q].id = proc[q].id
  PROVE  OneEach' /\ Known' /\ Children' = Children
<1>1. \A n \in DOMAIN agents : agents[n] \in Procs
  BY DEF TypeOK
<1>2. OneEach'
  BY <1>1 DEF OneEach
<1>3. QED
  BY <1>2 DEF Known, Children

LEMMA ForkMap ==
  ASSUME TypeOK, OneEach, Known, NEW r \in Reqs, NEW kind \in {"spawn", "demo"},
         NEW i \in Ids, NEW todo \in Seq(Ids), Fork(r, kind, i, todo), ~InMap(i)
  PROVE  /\ OneEach' /\ Known'
         /\ \E p \in Procs :
              /\ Children' = Children \union {p} /\ p \notin Children
              /\ \A q \in Children : proc'[q] = proc[q]
              /\ req' = [req EXCEPT ![r] = [kind |-> kind, proc |-> p, todo |-> todo,
                                           value |-> 0]]
<1>1. PICK p \in Procs :
        /\ p = forks + 1 /\ forks' = p
        /\ agents' = Append(agents, p)
        /\ proc' = [proc EXCEPT ![p] = [id |-> i, state |-> "starting"]]
        /\ req' = [req EXCEPT ![r] = [kind |-> kind, proc |-> p, todo |-> todo, value |-> 0]]
  BY ForkCases
<1>2. agents \in Seq(Procs) /\ forks \in Nat /\ Children \subseteq Procs
  BY TopologyAssumption DEF TypeOK, Children
<1>3. /\ agents' \in Seq(Procs)
      /\ Len(agents') = Len(agents) + 1 /\ agents'[Len(agents) + 1] = p
      /\ \A n \in 1 .. Len(agents) : agents'[n] = agents[n]
      /\ Children' = Children \union {p}
  BY <1>1, <1>2, AppendChild
<1>4. /\ DOMAIN agents = 1 .. Len(agents) /\ DOMAIN agents' = 1 .. Len(agents) + 1
      /\ Len(agents) \in Nat
  BY <1>2, <1>3
<1>5. \A n \in 1 .. Len(agents) : /\ agents[n] \in Procs /\ agents[n] <= forks
                                 /\ agents[n] \in Children
  BY <1>2, <1>4 DEF Known, Children
<1>6. p \notin Children
  <2>1. SUFFICES ASSUME p \in Children PROVE FALSE
    OBVIOUS
  <2>2. PICK n \in 1 .. Len(agents) : p = agents[n]
    BY <1>4, <2>1 DEF Children
  <2>3. QED
    BY <1>1, <1>2, <1>5, <2>2
<1>7. \A q \in Children : proc'[q] = proc[q]
  BY <1>1, <1>2, <1>6 DEF TypeOK
<1>8. proc'[p].id = i
  BY <1>1 DEF TypeOK
<1>9. OneEach'
  <2> SUFFICES ASSUME NEW m \in 1 .. Len(agents) + 1, NEW n \in 1 .. Len(agents) + 1,
                      proc'[agents'[m]].id = proc'[agents'[n]].id
               PROVE  m = n
    BY <1>4 DEF OneEach
  <2>1. \A k \in 1 .. Len(agents) : /\ proc'[agents'[k]].id = proc[agents[k]].id
                                    /\ proc'[agents'[k]].id # i
    BY <1>3, <1>5, <1>7 DEF InMap
  <2>2. proc'[agents'[Len(agents) + 1]].id = i
    BY <1>3, <1>8
  <2>3. (m \in 1 .. Len(agents) \/ m = Len(agents) + 1) /\ (n \in 1 .. Len(agents) \/ n = Len(agents) + 1)
    BY <1>4
  <2>4. CASE m \in 1 .. Len(agents) /\ n \in 1 .. Len(agents)
    BY <1>4, <2>1, <2>4 DEF OneEach
  <2>5. QED
    BY <2>1, <2>2, <2>3, <2>4
<1>10. Known'
  <2> SUFFICES ASSUME NEW n \in 1 .. Len(agents) + 1 PROVE agents'[n] <= forks'
    BY <1>4 DEF Known
  <2>1. CASE n \in 1 .. Len(agents)
    <3>1. agents'[n] = agents[n] /\ agents[n] \in Nat
      BY <1>3, <1>5, <2>1, TopologyAssumption DEF Procs
    <3>2. QED
      BY <1>1, <1>2, <1>5, <2>1, <3>1
  <2>2. CASE n = Len(agents) + 1
    BY <1>1, <1>2, <1>3, <2>2
  <2>3. QED
    BY <1>4, <2>1, <2>2
<1>11. QED
  BY <1>1, <1>3, <1>6, <1>7, <1>9, <1>10

LEMMA ExitMap ==
  ASSUME TypeOK, OneEach, Known, NEW p \in Procs, ExitEvent(p)
  PROVE  /\ OneEach' /\ Known' /\ Children' = Children \ {p}
         /\ \A q \in Procs : proc'[q].id = proc[q].id
<1>0. \A q \in Procs : proc'[q].id = proc[q].id
  BY DEF ExitEvent, TypeOK, Process
<1>1. PICK k \in DOMAIN agents : agents[k] = p /\ agents' = RemoveAt(agents, k)
  BY DEF ExitEvent
<1>2. agents \in Seq(Procs)
  BY DEF TypeOK
<1>3. /\ agents' \in Seq(Procs) /\ Len(agents') = Len(agents) - 1
      /\ \A m \in 1 .. Len(agents) - 1 :
           agents'[m] = IF m < k THEN agents[m] ELSE agents[m + 1]
  BY <1>1, <1>2, RemoveAtType
<1>4. /\ DOMAIN agents = 1 .. Len(agents) /\ DOMAIN agents' = 1 .. Len(agents) - 1
      /\ Len(agents) \in Nat /\ k \in 1 .. Len(agents)
  BY <1>1, <1>2, <1>3
<1> DEFINE From(m) == IF m < k THEN m ELSE m + 1
<1>5. \A m \in DOMAIN agents' : /\ From(m) \in DOMAIN agents /\ From(m) # k
                                /\ agents'[m] = agents[From(m)]
  BY <1>3, <1>4
<1>6. \A m, n \in DOMAIN agents' : From(m) = From(n) => m = n
  BY <1>4
<1>7. \A n \in DOMAIN agents : n # k => \E m \in DOMAIN agents' : From(m) = n
  <2> SUFFICES ASSUME NEW n \in DOMAIN agents, n # k
               PROVE  \E m \in DOMAIN agents' : From(m) = n
    OBVIOUS
  <2>1. CASE n < k
    <3>1. n \in DOMAIN agents' /\ From(n) = n
      BY <1>4, <2>1
    <3>2. QED
      BY <3>1
  <2>2. CASE n > k
    <3>1. n - 1 \in DOMAIN agents' /\ From(n - 1) = n
      BY <1>4, <2>2
    <3>2. QED
      BY <3>1
  <2>3. QED
    BY <1>4, <2>1, <2>2
<1> HIDE DEF From
<1>8. \A n \in DOMAIN agents : n # k => agents[n] # p
  BY <1>1 DEF OneEach
<1>9. \A n \in DOMAIN agents : agents[n] \in Procs
  BY <1>2
<1>10. OneEach'
  <2> SUFFICES ASSUME NEW m \in DOMAIN agents', NEW n \in DOMAIN agents',
                      proc'[agents'[m]].id = proc'[agents'[n]].id
               PROVE  m = n
    BY DEF OneEach
  <2>1. proc[agents[From(m)]].id = proc[agents[From(n)]].id
    BY <1>0, <1>5, <1>9
  <2>2. From(m) = From(n)
    BY <1>5, <2>1 DEF OneEach
  <2>3. QED
    BY <1>6, <2>2
<1>11. Known'
  BY <1>5 DEF Known, ExitEvent
<1>12. ASSUME NEW q \in Children' PROVE q \in Children \ {p}
  <2>1. PICK m \in DOMAIN agents' : q = agents'[m]
    BY DEF Children
  <2>2. QED
    BY <1>5, <1>8, <2>1 DEF Children
<1>13. ASSUME NEW q \in Children \ {p} PROVE q \in Children'
  <2>1. PICK n \in DOMAIN agents : q = agents[n]
    BY DEF Children
  <2>2. PICK m \in DOMAIN agents' : From(m) = n
    BY <1>1, <1>7, <2>1
  <2>3. QED
    BY <1>5, <2>1, <2>2 DEF Children
<1>14. QED
  BY <1>0, <1>10, <1>11, <1>12, <1>13

-----------------------------------------------------------------------------
(* The requests. *)

\* A request awaits the ready of a child of the map, and the exit event ends both: so
\* while one awaits, the map is not empty.
Awaited == \A r \in Reqs : Spawning(r) => req[r].proc \in Children

\* A plain spawn has nothing left to spawn.
Plain == \A r \in Reqs : req[r].kind = "spawn" => req[r].todo = <<>>

\* A command is pending once at most, for a request that turns the dial.
Clear(waiting) ==
  /\ \A n \in DOMAIN waiting : Turning(waiting[n])
  /\ \A m, n \in DOMAIN waiting : waiting[m] = waiting[n] => m = n

Queued == Clear(pending)

Without(waiting, r) == Clear(waiting) /\ \A n \in DOMAIN waiting : waiting[n] # r

LEMMA Kinds ==
  ASSUME NEW r \in Reqs
  PROVE  /\ Turning(r) => ~Spawning(r) /\ req[r] # Idle
         /\ Spawning(r) <=> req[r].kind = "spawn" \/ req[r].kind = "demo"
         /\ r \in Demos => Spawning(r)
         /\ req[r] = Idle => ~Spawning(r) /\ ~Turning(r)
  BY DEF Turning, Spawning, Demos, Idle

\* The first of the commands and any other: without it the request has none.
LEMMA TailClear ==
  ASSUME TypeOK, Queued, pending # <<>>
  PROVE  /\ Head(pending) \in Reqs /\ Turning(Head(pending))
         /\ Tail(pending) \in Seq(Reqs) /\ Without(Tail(pending), Head(pending))
<1>1. /\ pending \in Seq(Reqs) /\ Len(pending) \in Nat \ {0}
      /\ DOMAIN pending = 1 .. Len(pending)
  BY DEF TypeOK
<1>2. /\ Head(pending) = pending[1] /\ 1 \in DOMAIN pending /\ Head(pending) \in Reqs
      /\ Tail(pending) \in Seq(Reqs)
  BY <1>1
<1>3. \A n \in DOMAIN Tail(pending) : /\ n \in Nat /\ n + 1 \in DOMAIN pending /\ n + 1 # 1
                                      /\ Tail(pending)[n] = pending[n + 1]
  BY <1>1
<1>4. \A m, n \in DOMAIN Tail(pending) : m + 1 = n + 1 => m = n
  BY <1>3
<1>5. Without(Tail(pending), Head(pending))
  BY <1>2, <1>3, <1>4 DEF Queued, Clear, Without
<1>6. QED
  BY <1>2, <1>5 DEF Queued, Clear

LEMMA RemoveClear ==
  ASSUME TypeOK, Queued, NEW k \in DOMAIN pending
  PROVE  /\ pending[k] \in Reqs /\ Turning(pending[k])
         /\ RemoveAt(pending, k) \in Seq(Reqs) /\ Without(RemoveAt(pending, k), pending[k])
<1>1. PICK s : s = RemoveAt(pending, k)
  OBVIOUS
<1>2. pending \in Seq(Reqs) /\ DOMAIN pending = 1 .. Len(pending) /\ Len(pending) \in Nat
  BY DEF TypeOK
<1>3. /\ s \in Seq(Reqs) /\ Len(s) = Len(pending) - 1
      /\ \A m \in 1 .. Len(pending) - 1 : s[m] = IF m < k THEN pending[m] ELSE pending[m + 1]
  BY <1>1, <1>2, RemoveAtType
<1> DEFINE From(m) == IF m < k THEN m ELSE m + 1
<1>4. DOMAIN s = 1 .. Len(pending) - 1 /\ k \in 1 .. Len(pending)
  BY <1>2, <1>3
<1>5. \A m \in DOMAIN s : From(m) \in DOMAIN pending /\ From(m) # k /\ s[m] = pending[From(m)]
  BY <1>2, <1>3, <1>4
<1>6. \A m, n \in DOMAIN s : From(m) = From(n) => m = n
  BY <1>2, <1>4
<1> HIDE DEF From
<1>7. Without(s, pending[k])
  BY <1>5, <1>6 DEF Queued, Clear, Without
<1>8. QED
  BY <1>1, <1>2, <1>3, <1>7 DEF Queued, Clear

\* A step of the processes alone.
LEMMA SameRequests ==
  ASSUME Awaited, Plain, OneDemo, Queued, UNCHANGED <<req, pending>>, Children' = Children
  PROVE  Awaited' /\ Plain' /\ OneDemo' /\ Queued'
  BY DEF Awaited, Plain, OneDemo, Queued, Demos, Spawning, Turning, Clear

\* A request that is forked for was not turning, and is the one demo if it is a demo.
LEMMA ForkRequests ==
  ASSUME TypeOK, Awaited, Plain, OneDemo, Queued, NEW r \in Reqs, ~Turning(r),
         NEW kind \in {"spawn", "demo"}, NEW p \in Procs, NEW todo \in Seq(Ids),
         Children' = Children \union {p},
         req' = [req EXCEPT ![r] = [kind |-> kind, proc |-> p, todo |-> todo, value |-> 0]],
         UNCHANGED pending,
         kind = "spawn" => todo = <<>>,
         kind = "demo" => Demos \subseteq {r}
  PROVE  Awaited' /\ Plain' /\ OneDemo' /\ Queued'
<1>1. /\ req'[r].kind = kind /\ req'[r].proc = p /\ req'[r].todo = todo
      /\ \A s \in Reqs : s # r => req'[s] = req[s]
  BY DEF TypeOK
<1>2. Awaited'
  BY <1>1 DEF Awaited, Spawning
<1>3. Plain'
  BY <1>1 DEF Plain
<1>4. Demos' \subseteq Demos \union (IF kind = "demo" THEN {r} ELSE {})
  BY <1>1 DEF Demos
<1>5. OneDemo'
  BY <1>4 DEF OneDemo
<1>6. Queued'
  <2>1. \A n \in DOMAIN pending : pending[n] \in Reqs /\ pending[n] # r
    BY DEF Queued, Clear, TypeOK
  <2>2. QED
    BY <1>1, <2>1 DEF Queued, Clear, Turning
<1>7. QED
  BY <1>2, <1>3, <1>5, <1>6

\* Requests that are given up, none of them turning, and whatever they awaited.
LEMMA GiveUp ==
  ASSUME TypeOK, Plain, OneDemo, Queued, UNCHANGED pending,
         \A s \in Reqs : req'[s] = req[s] \/ (req'[s] = Idle /\ ~Turning(s))
  PROVE  Plain' /\ OneDemo' /\ Queued'
<1>1. Plain'
  BY DEF Plain, Idle
<1>2. Demos' \subseteq Demos
  BY DEF Demos, Idle
<1>3. OneDemo'
  BY <1>2 DEF OneDemo
<1>4. Queued'
  <2>1. \A n \in DOMAIN pending : pending[n] \in Reqs
    BY DEF TypeOK
  <2>2. QED
    BY <2>1 DEF Queued, Clear, Turning
<1>5. QED
  BY <1>1, <1>3, <1>4

LEMMA TurnRequests ==
  ASSUME TypeOK, Awaited, Plain, OneDemo, Queued, NEW r \in Reqs, ~Spawning(r),
         NEW v \in Values, NEW todo \in Seq(Ids), NEW waiting \in Seq(Reqs),
         Without(waiting, r), Turn(r, v, todo, waiting), Children' = Children
  PROVE  Awaited' /\ Plain' /\ OneDemo' /\ Queued'
<1>1. CASE Falls
  BY <1>1, SameRequests DEF Falls
<1>2. ASSUME req'[r].kind \in {"idle", "dial"}, \A s \in Reqs : s # r => req'[s] = req[s]
      PROVE  Awaited' /\ Plain' /\ OneDemo'
  <2>1. Awaited'
    BY <1>2 DEF Awaited, Spawning
  <2>2. Plain'
    BY <1>2 DEF Plain
  <2>3. Demos' \subseteq Demos
    BY <1>2 DEF Demos
  <2>4. QED
    BY <2>1, <2>2, <2>3 DEF OneDemo
<1>3. \A n \in DOMAIN waiting : waiting[n] \in Reqs /\ waiting[n] # r
  BY DEF Without
<1>4. CASE Ends(r, waiting)
  <2>1. req'[r].kind = "idle" /\ \A s \in Reqs : s # r => req'[s] = req[s]
    BY <1>4 DEF Ends, TypeOK, Idle
  <2>2. Queued'
    BY <1>3, <1>4, <2>1 DEF Ends, Without, Queued, Clear, Turning
  <2>3. QED
    BY <1>2, <2>1, <2>2
<1>5. ASSUME NEW p \in Children, NEW rest \in Seq(Ids), Sends(r, v, waiting, p, rest)
      PROVE  Awaited' /\ Plain' /\ OneDemo' /\ Queued'
  <2>1. req'[r].kind = "dial" /\ \A s \in Reqs : s # r => req'[s] = req[s]
    BY <1>5 DEF Sends, TypeOK
  <2>2. /\ pending' = Append(waiting, r) /\ DOMAIN waiting = 1 .. Len(waiting)
        /\ DOMAIN pending' = 1 .. Len(waiting) + 1 /\ Len(waiting) \in Nat
        /\ pending'[Len(waiting) + 1] = r
        /\ \A n \in 1 .. Len(waiting) : pending'[n] = waiting[n]
    BY <1>5 DEF Sends
  <2>3. \A n \in DOMAIN pending' : n \in DOMAIN waiting \/ n = Len(waiting) + 1
    BY <2>2
  <2>4. \A n \in DOMAIN pending' : req'[pending'[n]].kind = "dial"
    BY <1>3, <2>1, <2>2, <2>3 DEF Without, Clear, Turning
  <2>5. \A m, n \in DOMAIN pending' : pending'[m] = pending'[n] => m = n
    BY <1>3, <2>2, <2>3 DEF Without, Clear
  <2>6. Queued'
    BY <2>4, <2>5 DEF Queued, Clear, Turning
  <2>7. QED
    BY <1>2, <2>1, <2>6
<1>6. QED
  BY <1>1, <1>4, <1>5, TurnCases

-----------------------------------------------------------------------------
(* The books. *)

PeerUpdates(box) == {n \in DOMAIN box : box[n].type = "peer-update"}

\* The last peer update on the way to a process has q for the id i, or, when there is
\* none, its book has.
Shows(box, known, i, q) ==
  /\ PeerUpdates(box) = {} => known[i] = q
  /\ \A n \in PeerUpdates(box) :
       (\A m \in PeerUpdates(box) : m <= n) => box[n].peers[i] = q

Knows(p, q) == Shows(inbox[p], book[p], proc[q].id, q)

\* Of two children that are running, one knows the other or a spawn awaits one of them:
\* the ready of the one that was forked last sends both books.
Excused(p, q) == \E r \in Reqs : Spawning(r) /\ req[r].proc \in {p, q}

Books ==
  ~late /\ ~crashed =>
    \A p, q \in Children : Live(p) /\ Live(q) => Knows(p, q) \/ Excused(p, q)

LEMMA ShowsOrder ==
  ASSUME NEW box \in Seq(Update \union Order), NEW m, m.type = "cmd",
         NEW known, NEW i, NEW q, Shows(box, known, i, q)
  PROVE  Shows(Append(box, m), known, i, q)
<1>1. PICK long : long = Append(box, m)
  OBVIOUS
<1>2. /\ DOMAIN box = 1 .. Len(box) /\ DOMAIN long = 1 .. Len(box) + 1 /\ Len(box) \in Nat
      /\ long[Len(box) + 1] = m
      /\ \A n \in 1 .. Len(box) : long[n] = box[n]
  BY <1>1
<1>3. long[Len(box) + 1].type # "peer-update"
  BY <1>2
<1>4. PeerUpdates(long) = PeerUpdates(box)
  BY <1>2, <1>3 DEF PeerUpdates
<1>5. \A n \in PeerUpdates(box) : long[n] = box[n]
  BY <1>2 DEF PeerUpdates
<1>6. QED
  BY <1>1, <1>4, <1>5 DEF Shows

LEMMA ShowsUpdate ==
  ASSUME NEW box \in Seq(Update \union Order), NEW m, m.type = "peer-update",
         NEW known, NEW i, NEW q, m.peers[i] = q
  PROVE  Shows(Append(box, m), known, i, q)
<1>1. PICK long : long = Append(box, m)
  OBVIOUS
<1>2. /\ DOMAIN long = 1 .. Len(box) + 1 /\ Len(box) \in Nat
      /\ long[Len(box) + 1] = m
  BY <1>1
<1>3. Len(box) + 1 \in PeerUpdates(long)
  BY <1>2 DEF PeerUpdates
<1>4. \A n \in PeerUpdates(long) : n >= Len(box) + 1 => n = Len(box) + 1
  BY <1>2 DEF PeerUpdates
<1>5. \A n \in PeerUpdates(long) : n \in Nat
  BY <1>2 DEF PeerUpdates
<1>6. ASSUME NEW n \in PeerUpdates(long), \A k \in PeerUpdates(long) : k <= n
      PROVE  long[n].peers[i] = q
  <2>1. Len(box) + 1 <= n
    BY <1>3, <1>6
  <2>2. n = Len(box) + 1
    BY <1>2, <1>4, <1>5, <2>1
  <2>3. QED
    BY <1>2, <2>2
<1>7. QED
  BY <1>1, <1>3, <1>6 DEF Shows

LEMMA ShowsTail ==
  ASSUME NEW box \in Seq(Update \union Order), box # <<>>, NEW known, NEW i, NEW q,
         Shows(box, known, i, q),
         NEW after,
         \/ Head(box).type = "peer-update" /\ after = Head(box).peers
         \/ Head(box).type = "cmd" /\ after = known
  PROVE  Shows(Tail(box), after, i, q)
<1>1. PICK rest : rest = Tail(box)
  OBVIOUS
<1>2. /\ DOMAIN box = 1 .. Len(box) /\ Len(box) \in Nat \ {0} /\ Head(box) = box[1]
      /\ DOMAIN rest = 1 .. Len(box) - 1
      /\ \A n \in 1 .. Len(box) - 1 : rest[n] = box[n + 1]
  BY <1>1
<1>3. \A n \in PeerUpdates(rest) : /\ n \in Nat /\ n + 1 \in PeerUpdates(box)
                                  /\ rest[n] = box[n + 1]
  BY <1>2 DEF PeerUpdates
<1>4. \A n \in PeerUpdates(box) : /\ n \in Nat
                                  /\ (n = 1 \/ (n - 1 \in PeerUpdates(rest) /\ n = (n - 1) + 1))
  BY <1>2 DEF PeerUpdates
<1>5. ASSUME NEW n \in PeerUpdates(rest), \A m \in PeerUpdates(rest) : m <= n
      PROVE  rest[n].peers[i] = q
  <2>1. ASSUME NEW m \in PeerUpdates(box) PROVE m <= n + 1
    <3>1. m = 1 \/ m - 1 <= n
      BY <1>4, <1>5
    <3>2. QED
      BY <1>3, <1>4, <3>1
  <2>2. QED
    BY <1>3, <2>1 DEF Shows
<1>6. ASSUME PeerUpdates(rest) = {} PROVE after[i] = q
  <2>1. CASE Head(box).type = "peer-update" /\ after = Head(box).peers
    <3>1. 1 \in PeerUpdates(box)
      BY <1>2, <2>1 DEF PeerUpdates
    <3>2. \A m \in PeerUpdates(box) : m <= 1
      BY <1>4, <1>6
    <3>3. QED
      BY <1>2, <2>1, <3>1, <3>2 DEF Shows
  <2>2. CASE Head(box).type = "cmd" /\ after = known
    <3>1. 1 \notin PeerUpdates(box)
      BY <1>2, <2>2 DEF PeerUpdates
    <3>2. PeerUpdates(box) = {}
      BY <1>4, <1>6, <3>1
    <3>3. QED
      BY <2>2, <3>2 DEF Shows
  <2>3. QED
    BY <2>1, <2>2
<1>7. QED
  BY <1>1, <1>5, <1>6 DEF Shows

-----------------------------------------------------------------------------
(* The inductive invariant, action by action. *)

Inv ==
  /\ TypeOK
  /\ OneEach /\ Known
  /\ Awaited /\ Plain /\ OneDemo /\ Queued
  /\ Books

LEMMA InitInv == Init => Inv
<1> SUFFICES ASSUME Init PROVE Inv
  OBVIOUS
<1>1. TypeOK
  BY InitType
<1>2. agents = <<>> /\ pending = <<>> /\ Children = {}
  BY DEF Init, Children
<1>3. OneEach /\ Known /\ Queued /\ Books
  BY <1>2 DEF OneEach, Known, Queued, Clear, Books
<1>4. \A r \in Reqs : req[r].kind = "idle"
  BY DEF Init, Idle
<1>5. Awaited /\ Plain /\ OneDemo
  BY <1>4 DEF Awaited, Spawning, Plain, OneDemo, Demos
<1>6. QED
  BY <1>1, <1>3, <1>5 DEF Inv

\* What the processes do leaves the books no worse.
LEMMA ProcessInv ==
  ASSUME Inv, NEW x \in Procs, BecomeReady(x) \/ Exit(x) \/ Handle(x), ~crashed
  PROVE  Inv'
<1>1. TypeOK /\ TypeOK'
  BY ProcessTypes, HandleType DEF Inv
<1>2. UNCHANGED <<agents, forks, req, pending, late, crashed>>
  BY DEF BecomeReady, Exit, Handle, history
<1>3. \A q \in Procs : proc'[q].id = proc[q].id
  <2>1. CASE BecomeReady(x)
    BY <1>1, <2>1 DEF BecomeReady, TypeOK, Process
  <2>2. CASE Exit(x)
    BY <1>1, <2>2 DEF Exit, TypeOK, Process
  <2>3. CASE Handle(x)
    BY <2>3 DEF Handle
  <2>4. QED
    BY <2>1, <2>2, <2>3
<1>4. OneEach' /\ Known' /\ Children' = Children
  BY <1>1, <1>2, <1>3, SameMap DEF Inv
<1>5. Awaited' /\ Plain' /\ OneDemo' /\ Queued'
  BY <1>2, <1>4, SameRequests DEF Inv
<1>6. Books'
  <2> SUFFICES ASSUME ~late, NEW p \in Children, NEW q \in Children, Live(p)', Live(q)'
               PROVE  Knows(p, q)' \/ Excused(p, q)'
    BY <1>2, <1>4 DEF Books
  <2>1. p \in Procs /\ q \in Procs
    BY <1>1 DEF TypeOK, Children
  <2>2. Live(p) /\ Live(q)
    BY <1>1, <2>1 DEF Live, BecomeReady, Exit, Handle, TypeOK, Process
  <2>3. CASE Excused(p, q)
    BY <1>2, <2>3 DEF Excused, Spawning
  <2>4. CASE Knows(p, q)
    <3>1. CASE UNCHANGED <<inbox[p], book[p]>>
      BY <1>3, <2>1, <2>4, <3>1 DEF Knows
    <3>2. CASE BecomeReady(x)
      BY <3>1, <3>2 DEF BecomeReady
    <3>3. CASE Exit(x)
      <4>1. p # x
        BY <1>1, <2>1, <3>3 DEF Exit, Live, TypeOK, Process
      <4>2. QED
        BY <1>1, <2>1, <3>1, <3>3, <4>1 DEF Exit, TypeOK
    <3>4. CASE Handle(x) /\ p # x
      BY <1>1, <2>1, <3>1, <3>4 DEF Handle, TypeOK
    <3>5. CASE Handle(x) /\ p = x
      <4>1. /\ inbox[p] \in Seq(Update \union Order) /\ inbox[p] # <<>>
            /\ inbox'[p] = Tail(inbox[p])
        BY <1>1, <2>1, <3>5 DEF Handle, TypeOK
      <4>2. PICK after : after = book'[p]
        OBVIOUS
      <4>3. \/ Head(inbox[p]).type = "peer-update" /\ after = Head(inbox[p]).peers
            \/ Head(inbox[p]).type = "cmd" /\ after = book[p]
        BY <1>1, <2>1, <3>5, <4>2 DEF Handle, TypeOK
      <4>4. PICK i : i = proc[q].id
        OBVIOUS
      <4>5. Shows(inbox[p], book[p], i, q)
        BY <2>4, <4>4 DEF Knows
      <4>6. Shows(Tail(inbox[p]), after, i, q)
        BY <4>1, <4>3, <4>5, ShowsTail
      <4>7. proc'[q].id = i
        BY <1>3, <2>1, <4>4
      <4>8. Knows(p, q)'
        BY <4>1, <4>2, <4>6, <4>7 DEF Knows
      <4>9. QED
        BY <4>8
    <3>6. QED
      BY <3>2, <3>3, <3>4, <3>5
  <2>5. QED
    BY <1>2, <2>2, <2>3, <2>4 DEF Inv, Books
<1>7. QED
  BY <1>1, <1>4, <1>5, <1>6 DEF Inv

\* A child that is forked leaves every other as it was, and its spawn excuses it.
LEMMA ForkBooks ==
  ASSUME TypeOK, NEW r \in Reqs, NEW c \in Procs,
         NEW kind \in {"spawn", "demo"}, NEW todo,
         ~late' => \A p, q \in Children : Live(p) /\ Live(q) =>
                     \/ Shows(inbox'[p], book[p], proc[q].id, q)
                     \/ \E s \in Reqs : s # r /\ Spawning(s) /\ req[s].proc \in {p, q},
         Children' = Children \union {c},
         \A q \in Children : proc'[q] = proc[q],
         req' = [req EXCEPT ![r] = [kind |-> kind, proc |-> c, todo |-> todo, value |-> 0]],
         UNCHANGED book
  PROVE  Books'
<1> SUFFICES ASSUME ~late', NEW p \in Children', NEW q \in Children', Live(p)', Live(q)'
             PROVE  Knows(p, q)' \/ Excused(p, q)'
  BY DEF Books
<1>1. /\ req'[r].kind = kind /\ req'[r].proc = c
      /\ \A s \in Reqs : s # r => req'[s] = req[s]
  BY DEF TypeOK
<1>2. CASE p = c \/ q = c
  BY <1>1, <1>2 DEF Excused, Spawning
<1>3. CASE p # c /\ q # c
  <2>1. p \in Children /\ q \in Children /\ proc'[p] = proc[p] /\ proc'[q] = proc[q]
    BY <1>3
  <2>2. Live(p) /\ Live(q)
    BY <2>1 DEF Live
  <2>3. CASE Shows(inbox'[p], book[p], proc[q].id, q)
    BY <2>1, <2>3 DEF Knows
  <2>4. CASE \E s \in Reqs : s # r /\ Spawning(s) /\ req[s].proc \in {p, q}
    BY <1>1, <2>4 DEF Excused, Spawning
  <2>5. QED
    BY <2>1, <2>2, <2>3, <2>4
<1>4. QED
  BY <1>2, <1>3

LEMMA SpawnInv ==
  ASSUME Inv, ~crashed, NEW r \in Reqs,
         SpawnTimeout(r) \/ DemoBegin(r) \/ \E i \in Ids : SpawnBegin(r, i)
  PROVE  Inv'
<1>1. TypeOK /\ TypeOK'
  BY SpawnTypes DEF Inv
<1>2. CASE SpawnTimeout(r)
  <2>1. UNCHANGED <<agents, forks, proc, pending>> /\ req' = [req EXCEPT ![r] = Idle] /\ late'
    BY <1>2 DEF SpawnTimeout, processes
  <2>2. OneEach' /\ Known' /\ Children' = Children
    BY <1>1, <2>1, SameMap DEF Inv
  <2>3. \A s \in Reqs : req'[s] = req[s] \/ (req'[s] = Idle /\ ~Turning(s))
    BY <1>1, <1>2, <2>1 DEF TypeOK, SpawnTimeout, Spawning, Turning
  <2>4. Plain' /\ OneDemo' /\ Queued'
    BY <1>1, <2>1, <2>3, GiveUp DEF Inv
  <2>5. Awaited'
    BY <2>2, <2>3 DEF Inv, Awaited, Spawning, Idle
  <2>6. Books'
    BY <2>1 DEF Books
  <2>7. QED
    BY <1>1, <2>2, <2>4, <2>5, <2>6 DEF Inv
<1>3. ASSUME NEW kind \in {"spawn", "demo"}, NEW i \in Ids, NEW todo \in Seq(Ids),
             req[r] = Idle, ~InMap(i), Fork(r, kind, i, todo),
             kind = "spawn" => todo = <<>>, kind = "demo" => agents = <<>>,
             UNCHANGED <<book, inbox, pending, late, crashed>>
      PROVE  Inv'
  <2>1. OneEach' /\ Known'
    BY <1>1, <1>3, ForkMap DEF Inv
  <2>2. PICK c \in Procs :
          /\ Children' = Children \union {c} /\ c \notin Children
          /\ \A q \in Children : proc'[q] = proc[q]
          /\ req' = [req EXCEPT ![r] = [kind |-> kind, proc |-> c, todo |-> todo, value |-> 0]]
    BY <1>1, <1>3, ForkMap DEF Inv
  <2>3. ~Turning(r) /\ ~Spawning(r)
    BY <1>3, Kinds
  <2>4. kind = "demo" => Demos \subseteq {r}
    BY <1>3, Kinds DEF Inv, Awaited, Children, Demos
  <2>5. Awaited' /\ Plain' /\ OneDemo' /\ Queued'
    BY <1>1, <1>3, <2>2, <2>3, <2>4, ForkRequests DEF Inv
  <2>6. ~late' => \A p, q \in Children : Live(p) /\ Live(q) =>
                     \/ Shows(inbox'[p], book[p], proc[q].id, q)
                     \/ \E s \in Reqs : s # r /\ Spawning(s) /\ req[s].proc \in {p, q}
    BY <1>3, <2>3 DEF Inv, Books, Knows, Excused
  <2>7. Books'
    BY <1>1, <1>3, <2>2, <2>6, ForkBooks
  <2>8. QED
    BY <1>1, <2>1, <2>5, <2>7 DEF Inv
<1>4. CASE DemoBegin(r)
  <2>1. Head(Demo) \in Ids /\ Tail(Demo) \in Seq(Ids)
    BY TopologyAssumption
  <2>2. ~InMap(Head(Demo))
    BY <1>4 DEF DemoBegin, InMap, Children
  <2>3. QED
    BY <1>3, <1>4, <2>1, <2>2 DEF DemoBegin, Fresh, history
<1>5. ASSUME NEW i \in Ids, SpawnBegin(r, i) PROVE Inv'
  <2>1. <<>> \in Seq(Ids)
    OBVIOUS
  <2>2. QED
    BY <1>3, <1>5, <2>1 DEF SpawnBegin, Fresh, history
<1>6. QED
  BY <1>2, <1>4, <1>5

\* When the books are sent, every child is told of every other.
LEMMA BroadcastBooks ==
  ASSUME Inv, BroadcastPeers, NEW p \in Children, NEW q \in Children
  PROVE  Shows(inbox'[p], book[p], proc[q].id, q)
<1>1. TypeOK /\ OneEach
  BY DEF Inv
<1>2. p \in Procs
  BY <1>1 DEF TypeOK, Children
<1>3. PICK m : m = [type |-> "peer-update", peers |-> Peers]
  OBVIOUS
<1>4. m.type = "peer-update" /\ m.peers[proc[q].id] = q
  BY <1>1, <1>3, PeersType
<1>5. inbox'[p] = Append(inbox[p], m) /\ inbox[p] \in Seq(Update \union Order)
  BY <1>1, <1>2, <1>3 DEF BroadcastPeers, TypeOK
<1>6. QED
  BY <1>4, <1>5, ShowsUpdate

LEMMA ReadyInv ==
  ASSUME Inv, ~crashed, NEW x \in Procs, ReadyMessage(x)
  PROVE  Inv'
<1>1. TypeOK /\ TypeOK'
  BY ReadyType DEF Inv
<1>2. CASE UNCHANGED <<agents, forks, proc, inbox, req, late>>
  <2>1. UNCHANGED <<book, pending>>
    BY DEF ReadyMessage
  <2>2. OneEach' /\ Known' /\ Children' = Children
    BY <1>1, <1>2, SameMap DEF Inv
  <2>3. Awaited' /\ Plain' /\ OneDemo' /\ Queued'
    BY <1>2, <2>1, <2>2, SameRequests DEF Inv
  <2>4. Books'
    BY <1>2, <2>1, <2>2 DEF Inv, Books, Live, Knows, Excused, Spawning
  <2>5. QED
    BY <1>1, <2>2, <2>3, <2>4 DEF Inv
<1>3. ASSUME NEW r \in Reqs, AwaitsReady(r, x), BroadcastPeers, SpawnNext(r)
      PROVE  Inv'
  <2>1. UNCHANGED <<book, pending>>
    BY DEF ReadyMessage
  <2>2. Spawning(r) /\ ~Turning(r)
    BY <1>3, Kinds DEF AwaitsReady
  <2>3. CASE req' = [req EXCEPT ![r] = Idle] /\ UNCHANGED <<agents, forks, proc>>
    <3>1. OneEach' /\ Known' /\ Children' = Children
      BY <1>1, <2>3, SameMap DEF Inv
    <3>2. \A s \in Reqs : req'[s] = req[s] \/ (req'[s] = Idle /\ ~Turning(s))
      BY <1>1, <2>2, <2>3 DEF TypeOK
    <3>3. Plain' /\ OneDemo' /\ Queued'
      BY <1>1, <2>1, <3>2, GiveUp DEF Inv
    <3>4. Awaited'
      BY <3>1, <3>2 DEF Inv, Awaited, Spawning, Idle
    <3>5. Books'
      BY <1>3, <2>1, <2>3, <3>1, BroadcastBooks DEF Books, Knows
    <3>6. QED
      BY <1>1, <3>1, <3>3, <3>4, <3>5 DEF Inv
  <2>4. CASE /\ req[r].todo # <<>> /\ ~InMap(Head(req[r].todo))
             /\ Fork(r, "demo", Head(req[r].todo), Tail(req[r].todo))
    <3>1. req[r].todo \in Seq(Ids)
      BY <1>1 DEF TypeOK, Request
    <3>a. Head(req[r].todo) \in Ids /\ Tail(req[r].todo) \in Seq(Ids)
      BY <2>4, <3>1
    <3>2. PICK i \in Ids, todo \in Seq(Ids) : ~InMap(i) /\ Fork(r, "demo", i, todo)
      BY <2>4, <3>a
    <3>3. OneEach' /\ Known'
      BY <1>1, <3>2, ForkMap DEF Inv
    <3>4. PICK c \in Procs :
            /\ Children' = Children \union {c} /\ c \notin Children
            /\ \A q \in Children : proc'[q] = proc[q]
            /\ req' = [req EXCEPT ![r] = [kind |-> "demo", proc |-> c, todo |-> todo,
                                         value |-> 0]]
      BY <1>1, <3>2, ForkMap DEF Inv
    <3>5. r \in Demos
      BY <2>2, <2>4, Kinds DEF Inv, Plain, Demos
    <3>6. Demos \subseteq {r}
      BY <3>5 DEF Inv, OneDemo
    <3>7. Awaited' /\ Plain' /\ OneDemo' /\ Queued'
      BY <1>1, <2>1, <2>2, <3>2, <3>4, <3>6, ForkRequests DEF Inv
    <3>8. ~late' => \A p, q \in Children : Live(p) /\ Live(q) =>
                      \/ Shows(inbox'[p], book[p], proc[q].id, q)
                      \/ \E s \in Reqs : s # r /\ Spawning(s) /\ req[s].proc \in {p, q}
      BY <1>3, BroadcastBooks
    <3>9. Books'
      BY <1>1, <2>1, <3>4, <3>8, ForkBooks
    <3>10. QED
      BY <1>1, <3>3, <3>7, <3>9 DEF Inv
  <2>5. QED
    BY <1>3, <2>3, <2>4 DEF SpawnNext
<1>4. QED
  BY <1>2, <1>3 DEF ReadyMessage

\* A spawn the exit event ends has awaited the child that leaves the map.
LEMMA ExitEventInv ==
  ASSUME Inv, ~crashed, NEW x \in Procs, ExitEvent(x)
  PROVE  Inv'
<1>1. TypeOK /\ TypeOK'
  BY ExitEventType DEF Inv
<1>2. /\ OneEach' /\ Known' /\ Children' = Children \ {x}
      /\ \A q \in Procs : proc'[q].id = proc[q].id
  BY <1>1, ExitMap DEF Inv
<1>3. \A s \in Reqs : req'[s] = IF AwaitsReady(s, x) THEN Idle ELSE req[s]
  BY DEF ExitEvent
<1>4. \A s \in Reqs : req'[s] = req[s] \/ (req'[s] = Idle /\ ~Turning(s))
  BY <1>3, Kinds DEF AwaitsReady
<1>5. UNCHANGED <<inbox, book, pending, late, crashed>>
  BY DEF ExitEvent
<1>6. Plain' /\ OneDemo' /\ Queued'
  BY <1>1, <1>4, <1>5, GiveUp DEF Inv
<1>7. Awaited'
  <2> SUFFICES ASSUME NEW s \in Reqs, Spawning(s)' PROVE req'[s].proc \in Children'
    BY DEF Awaited
  <2>1. ~AwaitsReady(s, x) /\ req'[s] = req[s] /\ Spawning(s)
    BY <1>3 DEF Spawning, Idle
  <2>2. QED
    BY <1>2, <2>1 DEF AwaitsReady, Inv, Awaited
<1>8. Books'
  <2> SUFFICES ASSUME ~late, NEW p \in Children \ {x}, NEW q \in Children \ {x},
                      Live(p)', Live(q)'
               PROVE  Knows(p, q)' \/ Excused(p, q)'
    BY <1>2, <1>5 DEF Books
  <2>1. p \in Procs /\ q \in Procs
    BY <1>1 DEF TypeOK, Children
  <2>2. Live(p) /\ Live(q)
    BY <1>1, <2>1 DEF ExitEvent, Live, TypeOK
  <2>3. CASE Knows(p, q)
    BY <1>2, <1>5, <2>1, <2>3 DEF Knows
  <2>4. CASE Excused(p, q)
    BY <1>3, <2>4 DEF Excused, AwaitsReady, Spawning
  <2>5. QED
    BY <2>2, <2>3, <2>4 DEF Inv, Books
<1>9. QED
  BY <1>1, <1>2, <1>6, <1>7, <1>8 DEF Inv

\* A dial that is turned changes no book and ends no spawn.
LEMMA TurnInv ==
  ASSUME Inv, ~crashed, TypeOK', NEW r \in Reqs, ~Spawning(r), NEW v \in Values,
         NEW todo \in Seq(Ids), NEW waiting \in Seq(Reqs), Without(waiting, r),
         Turn(r, v, todo, waiting), UNCHANGED <<agents, forks, proc, book, late>>
  PROVE  Inv'
<1>1. TypeOK
  BY DEF Inv
<1>2. OneEach' /\ Known' /\ Children' = Children
  BY <1>1, SameMap DEF Inv
<1>3. Awaited' /\ Plain' /\ OneDemo' /\ Queued'
  BY <1>1, <1>2, TurnRequests DEF Inv
<1>4. Books'
  <2>1. CASE Falls
    BY <2>1 DEF Falls, Books
  <2>2. ASSUME \A s \in Reqs : s # r => req'[s] = req[s],
               \A p \in Procs : \/ inbox'[p] = inbox[p]
                              \/ \E m : m.type = "cmd" /\ inbox'[p] = Append(inbox[p], m)
        PROVE  Books'
    <3> SUFFICES ASSUME ~late, NEW p \in Children, NEW q \in Children, Live(p), Live(q)
                 PROVE  Knows(p, q)' \/ Excused(p, q)'
      BY <1>2 DEF Books, Live
    <3>1. CASE Excused(p, q)
      <4>1. PICK s \in Reqs : Spawning(s) /\ req[s].proc \in {p, q}
        BY <3>1 DEF Excused
      <4>2. s # r /\ req'[s] = req[s]
        BY <2>2, <4>1
      <4>3. QED
        BY <4>1, <4>2 DEF Excused, Spawning
    <3>2. CASE Knows(p, q)
      <4>a. p \in Procs
        BY <1>1 DEF TypeOK, Children
      <4>1. p \in Procs /\ inbox[p] \in Seq(Update \union Order)
        BY <1>1, <4>a DEF TypeOK
      <4>2. PICK i, known : i = proc[q].id /\ known = book[p]
        OBVIOUS
      <4>3. Shows(inbox[p], known, i, q)
        BY <3>2, <4>2 DEF Knows
      <4>4. Shows(inbox'[p], known, i, q)
        BY <2>2, <4>1, <4>3, ShowsOrder
      <4>5. QED
        BY <4>2, <4>4 DEF Knows
    <3>3. QED
      BY <3>1, <3>2 DEF Inv, Books
  <2>3. CASE Ends(r, waiting)
    BY <1>1, <2>2, <2>3 DEF Ends, TypeOK
  <2>4. ASSUME NEW c \in Children, NEW rest \in Seq(Ids), Sends(r, v, waiting, c, rest)
        PROVE  Books'
    <3>1. \A s \in Reqs : s # r => req'[s] = req[s]
      BY <1>1, <2>4 DEF Sends, TypeOK
    <3>2. PICK m : m = [type |-> "cmd", req |-> r, value |-> v]
      OBVIOUS
    <3>3. m.type = "cmd" /\ inbox' = [inbox EXCEPT ![c] = Append(@, m)]
      BY <2>4, <3>2 DEF Sends
    <3>4. \A p \in Procs : inbox'[p] = inbox[p] \/ inbox'[p] = Append(inbox[p], m)
      BY <1>1, <3>3 DEF TypeOK
    <3>5. QED
      BY <2>2, <3>1, <3>3, <3>4
  <2>5. QED
    BY <1>1, <2>1, <2>3, <2>4, TurnCases
<1>5. QED
  BY <1>1, <1>2, <1>3, <1>4 DEF Inv

LEMMA DialInv ==
  ASSUME Inv, ~crashed,
         CommandTimeout \/ (\E p \in Procs : ResultMessage(p)) \/ (\E r \in Reqs : DialBegin(r))
  PROVE  Inv'
<1>1. TypeOK /\ TypeOK' /\ Queued
  BY DialTypes DEF Inv
<1>2. CASE CommandTimeout
  <2>1. PICK r : r = Head(pending)
    OBVIOUS
  <2>2. pending # <<>> /\ Turn(r, req[r].value, req[r].todo, Tail(pending))
    BY <1>2, <2>1 DEF CommandTimeout
  <2>3. /\ r \in Reqs /\ ~Spawning(r)
        /\ Tail(pending) \in Seq(Reqs) /\ Without(Tail(pending), r)
    BY <1>1, <2>1, <2>2, TailClear, Kinds
  <2>4. UNCHANGED <<agents, forks, proc, book, late>>
    BY <1>2 DEF CommandTimeout, processes, history
  <2>5. QED
    BY <1>1, <2>2, <2>3, <2>4, TurningFields, TurnInv
<1>3. ASSUME NEW p \in Procs, ResultMessage(p) PROVE Inv'
  <2>1. UNCHANGED <<agents, forks, proc, book, late>>
    BY <1>3 DEF ResultMessage, processes, history
  <2>2. ASSUME NEW n \in DOMAIN pending, NEW r, pending[n] = r,
               Turn(r, req[r].value, req[r].todo, RemoveAt(pending, n))
        PROVE  Inv'
    <3>1. /\ r \in Reqs /\ ~Spawning(r)
          /\ RemoveAt(pending, n) \in Seq(Reqs) /\ Without(RemoveAt(pending, n), r)
      BY <1>1, <2>2, RemoveClear, Kinds
    <3>2. QED
      BY <1>1, <2>1, <2>2, <3>1, TurningFields, TurnInv
  <2>3. CASE UNCHANGED <<inbox, req, pending, crashed>>
    <3>1. OneEach' /\ Known' /\ Children' = Children
      BY <1>1, <2>1, SameMap DEF Inv
    <3>2. Awaited' /\ Plain' /\ OneDemo' /\ Queued'
      BY <2>3, <3>1, SameRequests DEF Inv
    <3>3. Books'
      BY <2>1, <2>3, <3>1 DEF Inv, Books, Live, Knows, Excused, Spawning
    <3>4. QED
      BY <1>1, <3>1, <3>2, <3>3 DEF Inv
  <2>4. QED
    BY <1>3, <2>2, <2>3 DEF ResultMessage
<1>4. ASSUME NEW r \in Reqs, DialBegin(r) PROVE Inv'
  <2>1. latest.value + 1 \in Values
    BY <1>1, <1>4, TopologyAssumption DEF DialBegin, TypeOK, Values
  <2>2. PICK v, ids : v = latest.value + 1 /\ ids = [n \in DOMAIN agents |-> proc[agents[n]].id]
    OBVIOUS
  <2>3. ids \in Seq(Ids)
    <3>1. Len(agents) \in Nat /\ DOMAIN agents = 1 .. Len(agents)
      BY <1>1 DEF TypeOK
    <3>2. \A n \in 1 .. Len(agents) : proc[agents[n]].id \in Ids
      BY <1>1 DEF TypeOK, Process
    <3>3. QED
      BY <2>2, <3>1, <3>2
  <2>4. req[r] = Idle /\ Turn(r, v, ids, pending)
    BY <1>4, <2>2 DEF DialBegin, Fresh
  <2>5. ~Spawning(r) /\ ~Turning(r)
    BY <2>4, Kinds
  <2>6. pending \in Seq(Reqs) /\ Without(pending, r)
    BY <1>1, <2>5 DEF TypeOK, Queued, Clear, Without
  <2>7. UNCHANGED <<agents, forks, proc, book, late>>
    BY <1>4 DEF DialBegin, processes
  <2>8. QED
    BY <1>1, <2>1, <2>2, <2>3, <2>4, <2>5, <2>6, <2>7, TurnInv
<1>5. QED
  BY <1>2, <1>3, <1>4

LEMMA NextInv == Inv /\ [Next]_vars => Inv'
<1> SUFFICES ASSUME Inv, [Next]_vars PROVE Inv'
  OBVIOUS
<1>1. CASE UNCHANGED vars
  <2>1. TypeOK' /\ OneEach' /\ Known' /\ Awaited' /\ Plain' /\ OneDemo'
    BY <1>1 DEF Inv, vars, TypeOK, OneEach, Known, Awaited, Plain, OneDemo, Children, Spawning,
                Demos
  <2>2. Queued'
    BY <1>1 DEF Inv, vars, Queued, Clear, Turning
  <2>3. Books'
    BY <1>1 DEF Inv, vars, Books, Children, Live, Knows, Excused, Spawning
  <2>4. QED
    BY <2>1, <2>2, <2>3 DEF Inv
<1>2. CASE Next
  BY <1>2, ProcessInv, SpawnInv, ReadyInv, ExitEventInv, DialInv DEF Next
<1>3. QED
  BY <1>1, <1>2

LEMMA Invariance == Spec => []Inv
  BY InitInv, NextInv, PTL DEF Spec

-----------------------------------------------------------------------------

\* When no spawn waits, none has timed out since the books were sent and every message
\* has been handled, each running agent has the address of each (broadcastPeers after
\* each spawn, src/packages/control-plane/src/agent-supervisor.ts).
THEOREM BooksConverge == Spec => []PeersConverge
<1>1. Inv => PeersConverge
  <2> SUFFICES ASSUME Inv, \A r \in Reqs : ~Spawning(r), ~late, ~crashed,
                      \A p \in Procs : inbox[p] = <<>>,
                      NEW p \in Children, NEW q \in Children, Live(p), Live(q)
               PROVE  book[p][proc[q].id] = q
    BY DEF PeersConverge
  <2>1. Knows(p, q)
    BY DEF Inv, Books, Excused
  <2>2. inbox[p] = <<>>
    BY DEF Inv, TypeOK, Children
  <2>3. PeerUpdates(inbox[p]) = {}
    BY <2>2 DEF PeerUpdates
  <2>4. QED
    BY <2>1, <2>3 DEF Knows, Shows
<1>2. QED
  BY <1>1, Invariance, PTL

\* One demo is spawned at a time: the child it awaits is in the map from its fork until
\* its exit event, and spawn-demo answers with the children while there are any
\* (src/packages/control-plane/src/rest/admin.routes.ts).
THEOREM DemosExclude == Spec => []OneDemo
<1>1. Inv => OneDemo
  BY DEF Inv
<1>2. QED
  BY <1>1, Invariance, PTL

\* Every variable keeps its type: the map has processes that have been forked, and a
\* request's record, an inbox and an outbox have only what the steps put there.
THEOREM TypesKept == Spec => []TypeOK
<1>1. Inv => TypeOK
  BY DEF Inv
<1>2. QED
  BY <1>1, Invariance, PTL

-----------------------------------------------------------------------------
(***************************************************************************)
(* Proof about Topology's dials, for every set of ids, every demo and any  *)
(* number of requests, processes and dials: however the requests overlap,  *)
(* the agents end up with what the latest one set.                         *)
(*                                                                         *)
(* Why it holds: each request goes through the map in its order, one agent *)
(* at a time, and none overtakes an earlier one.  Where two have sent to   *)
(* the same agent the earlier one's command is ahead of the other's in the *)
(* agent's inbox, its result is in the outbox, and its watchdog expires    *)
(* first: whichever lets the later one go on has let the earlier one.      *)
(***************************************************************************)

Inbox == Seq(Update \union Order)
Outbox == Seq(Reqs \union {"ready"})

-----------------------------------------------------------------------------
(* A request's command in an agent's inbox becomes its result in the       *)
(* outbox: the two boxes are one line.                                     *)

Asks(m, r) == m.type = "cmd" /\ m.req = r

Answers(out, r) == \E n \in DOMAIN out : out[n] = r

InLine(out, in, r) == Answers(out, r) \/ \E n \in DOMAIN in : Asks(in[n], r)

\* What is in line for s comes after something that is in line for r.
Precedes(out, in, r, s) ==
  /\ \A n \in DOMAIN out : out[n] = s => \E m \in DOMAIN out : m < n /\ out[m] = r
  /\ \A n \in DOMAIN in : Asks(in[n], s) =>
       Answers(out, r) \/ \E m \in DOMAIN in : m < n /\ Asks(in[m], r)

\* The last command on the way to an agent sets v, or, when there is none, its dial is
\* at v.
Commands(in) == {n \in DOMAIN in : in[n].type = "cmd"}

Tells(in, d, v) ==
  /\ Commands(in) = {} => d = v
  /\ \A n \in Commands(in) : (\A m \in Commands(in) : m <= n) => in[n].value = v

\* A step of an agent, or a message from it or to it, that puts nothing in line, takes
\* nothing of a request in S from it and sets no other value.
Alike(out, in, d, outNew, inNew, dNew, S) ==
  /\ \A r \in Reqs : InLine(outNew, inNew, r) => InLine(out, in, r)
  /\ \A r \in S : InLine(out, in, r) => InLine(outNew, inNew, r)
  /\ \A r \in S, s \in Reqs : Precedes(out, in, r, s) => Precedes(outNew, inNew, r, s)
  /\ \A v \in Values : Tells(in, d, v) => Tells(inNew, dNew, v)

LEMMA AlikeSame ==
  ASSUME NEW out, NEW in, NEW d, NEW S
  PROVE  Alike(out, in, d, out, in, d, S)
  BY DEF Alike

\* A sequence with one element more.
LEMMA Longer ==
  ASSUME NEW T, NEW s \in Seq(T), NEW x
  PROVE  LET t == Append(s, x)
         IN  /\ DOMAIN s = 1 .. Len(s) /\ DOMAIN t = 1 .. Len(s) + 1 /\ Len(s) \in Nat
             /\ t[Len(s) + 1] = x
             /\ \A n \in 1 .. Len(s) : t[n] = s[n]
  OBVIOUS

LEMMA Shorter ==
  ASSUME NEW T, NEW s \in Seq(T), s # <<>>
  PROVE  LET t == Tail(s)
         IN  /\ DOMAIN s = 1 .. Len(s) /\ DOMAIN t = 1 .. Len(s) - 1 /\ Len(s) \in Nat \ {0}
             /\ Head(s) = s[1]
             /\ \A n \in 1 .. Len(s) - 1 : t[n] = s[n + 1]
  OBVIOUS

LEMMA AnswersAppend ==
  ASSUME NEW out \in Outbox, NEW x, NEW r
  PROVE  Answers(Append(out, x), r) <=> Answers(out, r) \/ x = r
<1>1. PICK new : new = Append(out, x)
  OBVIOUS
<1>2. /\ DOMAIN out = 1 .. Len(out) /\ DOMAIN new = 1 .. Len(out) + 1 /\ Len(out) \in Nat
      /\ new[Len(out) + 1] = x /\ \A n \in 1 .. Len(out) : new[n] = out[n]
  BY <1>1, Longer DEF Outbox
<1>3. \A n \in DOMAIN new : n \in 1 .. Len(out) \/ n = Len(out) + 1
  BY <1>2
<1>4. \A n \in DOMAIN out : n \in DOMAIN new
  BY <1>2
<1>5. Len(out) + 1 \in DOMAIN new
  BY <1>2
<1>6. Answers(new, r) <=> Answers(out, r) \/ x = r
  BY <1>2, <1>3, <1>4, <1>5 DEF Answers
<1>7. QED
  BY <1>1, <1>6

\* A peer update is sent to an agent.
LEMMA AlikeUpdate ==
  ASSUME NEW out, NEW in \in Inbox, NEW d, NEW S \in SUBSET Reqs, NEW m, m.type # "cmd"
  PROVE  Alike(out, in, d, out, Append(in, m), d, S)
<1>1. PICK new : new = Append(in, m)
  OBVIOUS
<1>2. /\ DOMAIN in = 1 .. Len(in) /\ DOMAIN new = 1 .. Len(in) + 1 /\ Len(in) \in Nat
      /\ new[Len(in) + 1] = m /\ \A n \in 1 .. Len(in) : new[n] = in[n]
  BY <1>1, Longer DEF Inbox
<1>3. \A n \in DOMAIN new : n \in DOMAIN in \/ new[n] = m
  BY <1>2
<1>4. \A n \in DOMAIN in : n \in DOMAIN new /\ new[n] = in[n]
  BY <1>2
<1>5. \A r \in Reqs : InLine(out, new, r) <=> InLine(out, in, r)
  BY <1>3, <1>4 DEF InLine, Asks
<1>6. ASSUME NEW r \in S, NEW s \in Reqs, Precedes(out, in, r, s)
      PROVE  Precedes(out, new, r, s)
  BY <1>3, <1>4, <1>6 DEF Precedes, Asks
<1>7. Commands(new) = Commands(in)
  BY <1>3, <1>4 DEF Commands
<1>8. ASSUME NEW v \in Values, Tells(in, d, v) PROVE Tells(new, d, v)
  BY <1>4, <1>7, <1>8 DEF Tells, Commands
<1>9. QED
  BY <1>1, <1>5, <1>6, <1>7, <1>8 DEF Alike

\* A message from an agent that is no result.
LEMMA AlikeReady ==
  ASSUME NEW out \in Outbox, NEW in, NEW d, NEW S \in SUBSET Reqs, NEW x, x \notin Reqs
  PROVE  Alike(out, in, d, Append(out, x), in, d, S)
<1>1. PICK new : new = Append(out, x)
  OBVIOUS
<1>2. /\ DOMAIN out = 1 .. Len(out) /\ DOMAIN new = 1 .. Len(out) + 1 /\ Len(out) \in Nat
      /\ new[Len(out) + 1] = x /\ \A n \in 1 .. Len(out) : new[n] = out[n]
  BY <1>1, Longer DEF Outbox
<1>3. \A r \in Reqs : Answers(new, r) <=> Answers(out, r)
  BY <1>1, AnswersAppend
<1>4. \A r \in Reqs : InLine(new, in, r) <=> InLine(out, in, r)
  BY <1>3 DEF InLine
<1>5. ASSUME NEW r \in S, NEW s \in Reqs, Precedes(out, in, r, s)
      PROVE  Precedes(new, in, r, s)
  <2>1. \A n \in DOMAIN new : new[n] = s => n \in DOMAIN out /\ out[n] = s
    BY <1>2
  <2>2. \A n \in DOMAIN out : n \in DOMAIN new /\ new[n] = out[n]
    BY <1>2
  <2>3. QED
    BY <1>3, <1>5, <2>1, <2>2 DEF Precedes
<1>6. QED
  BY <1>1, <1>4, <1>5 DEF Alike

\* The control plane takes a message from an agent.
LEMMA AlikeTaken ==
  ASSUME NEW out \in Outbox, out # <<>>, NEW in, NEW d, NEW S \in SUBSET Reqs,
         Head(out) \notin S
  PROVE  Alike(out, in, d, Tail(out), in, d, S)
<1>1. PICK new : new = Tail(out)
  OBVIOUS
<1>2. /\ DOMAIN out = 1 .. Len(out) /\ DOMAIN new = 1 .. Len(out) - 1 /\ Len(out) \in Nat \ {0}
      /\ Head(out) = out[1] /\ \A n \in 1 .. Len(out) - 1 : new[n] = out[n + 1]
  BY <1>1, Shorter DEF Outbox
<1>3. \A n \in DOMAIN new : n \in Nat /\ n + 1 \in DOMAIN out /\ new[n] = out[n + 1]
  BY <1>2
<1>4. \A n \in DOMAIN out : /\ n \in Nat
                            /\ n = 1 \/ (n - 1 \in DOMAIN new /\ new[n - 1] = out[n])
  BY <1>2
<1>5. \A r \in Reqs : Answers(new, r) => Answers(out, r)
  BY <1>3 DEF Answers
<1>6. \A r \in S : Answers(out, r) => Answers(new, r)
  BY <1>2, <1>4 DEF Answers
<1>7. ASSUME NEW r \in S, NEW s \in Reqs, Precedes(out, in, r, s)
      PROVE  Precedes(new, in, r, s)
  <2>1. ASSUME NEW n \in DOMAIN new, new[n] = s
        PROVE  \E m \in DOMAIN new : m < n /\ new[m] = r
    <3>1. PICK m \in DOMAIN out : m < n + 1 /\ out[m] = r
      BY <1>3, <1>7, <2>1 DEF Precedes
    <3>2. m # 1
      BY <1>2, <3>1
    <3>3. m - 1 \in DOMAIN new /\ new[m - 1] = r
      BY <1>4, <3>1, <3>2
    <3>4. m \in Nat /\ n \in Nat
      BY <1>2
    <3>5. m - 1 < n
      BY <3>1, <3>4
    <3>6. QED
      BY <3>3, <3>5
  <2>2. QED
    BY <1>6, <1>7, <2>1 DEF Precedes
<1>8. QED
  BY <1>1, <1>5, <1>6, <1>7 DEF Alike, InLine

LEMMA TellsTail ==
  ASSUME NEW in \in Inbox, in # <<>>, NEW d, NEW after, NEW v, Tells(in, d, v),
         \/ Head(in).type = "cmd" /\ after = Head(in).value
         \/ Head(in).type # "cmd" /\ after = d
  PROVE  Tells(Tail(in), after, v)
<1>1. PICK new : new = Tail(in)
  OBVIOUS
<1>2. /\ DOMAIN in = 1 .. Len(in) /\ DOMAIN new = 1 .. Len(in) - 1 /\ Len(in) \in Nat \ {0}
      /\ Head(in) = in[1] /\ \A n \in 1 .. Len(in) - 1 : new[n] = in[n + 1]
  BY <1>1, Shorter DEF Inbox
<1>3. \A n \in Commands(new) : /\ n \in Nat /\ n + 1 \in Commands(in) /\ new[n] = in[n + 1]
  BY <1>2 DEF Commands
<1>4. \A n \in Commands(in) : /\ n \in Nat /\ (n = 1 \/ n - 1 \in Commands(new))
  BY <1>2 DEF Commands
<1>5. ASSUME NEW n \in Commands(new), \A m \in Commands(new) : m <= n
      PROVE  new[n].value = v
  <2>1. ASSUME NEW m \in Commands(in) PROVE m <= n + 1
    <3>1. m = 1 \/ m - 1 <= n
      BY <1>4, <1>5
    <3>2. QED
      BY <1>3, <1>4, <3>1
  <2>2. QED
    BY <1>3, <2>1 DEF Tells
<1>6. ASSUME Commands(new) = {} PROVE after = v
  <2>1. CASE Head(in).type = "cmd" /\ after = Head(in).value
    <3>1. 1 \in Commands(in)
      BY <1>2, <2>1 DEF Commands
    <3>2. \A m \in Commands(in) : m <= 1
      BY <1>4, <1>6
    <3>3. QED
      BY <1>2, <2>1, <3>1, <3>2 DEF Tells
  <2>2. CASE Head(in).type # "cmd" /\ after = d
    <3>1. 1 \notin Commands(in)
      BY <1>2, <2>2 DEF Commands
    <3>2. Commands(in) = {}
      BY <1>4, <1>6, <3>1
    <3>3. QED
      BY <2>2, <3>2 DEF Tells
  <2>3. QED
    BY <2>1, <2>2
<1>7. QED
  BY <1>1, <1>5, <1>6 DEF Tells

\* An agent handles a message: a command keeps its place in line as a result.
LEMMA AlikeHandled ==
  ASSUME NEW out \in Outbox, NEW in \in Inbox, in # <<>>, NEW d, NEW S \in SUBSET Reqs,
         NEW outNew, NEW after,
         \/ /\ Head(in).type = "cmd" /\ after = Head(in).value
            /\ outNew = Append(out, Head(in).req)
         \/ /\ Head(in).type # "cmd" /\ after = d
            /\ outNew = out
  PROVE  Alike(out, in, d, outNew, Tail(in), after, S)
<1>1. PICK new : new = Tail(in)
  OBVIOUS
<1>2. /\ DOMAIN in = 1 .. Len(in) /\ DOMAIN new = 1 .. Len(in) - 1 /\ Len(in) \in Nat \ {0}
      /\ Head(in) = in[1] /\ \A n \in 1 .. Len(in) - 1 : new[n] = in[n + 1]
  BY <1>1, Shorter DEF Inbox
<1>3. \A n \in DOMAIN new : n \in Nat /\ n + 1 \in DOMAIN in /\ new[n] = in[n + 1]
  BY <1>2
<1>4. \A n \in DOMAIN in : /\ n \in Nat
                           /\ n = 1 \/ (n - 1 \in DOMAIN new /\ new[n - 1] = in[n])
  BY <1>2
<1>5. 1 \in DOMAIN in
  BY <1>2
<1>6. ASSUME NEW r PROVE Answers(outNew, r) <=> Answers(out, r) \/ Asks(in[1], r)
  <2>1. CASE Head(in).type = "cmd" /\ outNew = Append(out, Head(in).req)
    <3>1. Answers(outNew, r) <=> Answers(out, r) \/ Head(in).req = r
      BY <2>1, AnswersAppend
    <3>2. QED
      BY <1>2, <2>1, <3>1 DEF Asks
  <2>2. CASE Head(in).type # "cmd" /\ outNew = out
    BY <1>2, <2>2 DEF Asks
  <2>3. QED
    BY <2>1, <2>2
<1>7. \A r \in Reqs : InLine(outNew, new, r) <=> InLine(out, in, r)
  <2> SUFFICES ASSUME NEW r \in Reqs PROVE InLine(outNew, new, r) <=> InLine(out, in, r)
    OBVIOUS
  <2>1. ASSUME InLine(outNew, new, r) PROVE InLine(out, in, r)
    BY <1>3, <1>5, <1>6, <2>1 DEF InLine
  <2>2. ASSUME InLine(out, in, r) PROVE InLine(outNew, new, r)
    <3>1. CASE Answers(out, r)
      BY <1>6, <3>1 DEF InLine
    <3>2. CASE \E n \in DOMAIN in : Asks(in[n], r)
      <4>1. PICK n \in DOMAIN in : Asks(in[n], r)
        BY <3>2
      <4>2. CASE n = 1
        BY <1>6, <4>1, <4>2 DEF InLine
      <4>3. CASE n # 1
        BY <1>4, <4>1, <4>3 DEF InLine
      <4>4. QED
        BY <4>2, <4>3
    <3>3. QED
      BY <2>2, <3>1, <3>2 DEF InLine
  <2>3. QED
    BY <2>1, <2>2
<1>8. ASSUME NEW r \in S, NEW s \in Reqs, Precedes(out, in, r, s)
      PROVE  Precedes(outNew, new, r, s)
  <2>1. ASSUME NEW n \in DOMAIN outNew, outNew[n] = s
        PROVE  \E m \in DOMAIN outNew : m < n /\ outNew[m] = r
    <3>1. CASE outNew = out
      BY <1>8, <2>1, <3>1 DEF Precedes
    <3>2. CASE Head(in).type = "cmd" /\ outNew = Append(out, Head(in).req)
      <4>1. /\ DOMAIN out = 1 .. Len(out) /\ DOMAIN outNew = 1 .. Len(out) + 1 /\ Len(out) \in Nat
            /\ outNew[Len(out) + 1] = Head(in).req
            /\ \A k \in 1 .. Len(out) : outNew[k] = out[k]
        BY <3>2, Longer DEF Outbox
      <4>2. \A k \in DOMAIN out : k \in DOMAIN outNew /\ outNew[k] = out[k] /\ k < Len(out) + 1
        BY <4>1
      <4>3. CASE n \in DOMAIN out
        BY <1>8, <2>1, <4>2, <4>3 DEF Precedes
      <4>4. CASE n = Len(out) + 1
        <5>1. Asks(in[1], s)
          BY <1>2, <2>1, <3>2, <4>1, <4>4 DEF Asks
        <5>2. \A m \in DOMAIN in : ~(m < 1)
          BY <1>2
        <5>3. Answers(out, r)
          BY <1>5, <1>8, <5>1, <5>2 DEF Precedes
        <5>4. QED
          BY <4>2, <4>4, <5>3 DEF Answers
      <4>5. QED
        BY <4>1, <4>3, <4>4
    <3>3. QED
      BY <3>1, <3>2
  <2>2. ASSUME NEW n \in DOMAIN new, Asks(new[n], s)
        PROVE  Answers(outNew, r) \/ \E m \in DOMAIN new : m < n /\ Asks(new[m], r)
    <3>1. Answers(out, r) \/ \E m \in DOMAIN in : m < n + 1 /\ Asks(in[m], r)
      BY <1>3, <1>8, <2>2 DEF Precedes
    <3>2. CASE Answers(out, r)
      BY <1>6, <3>2
    <3>3. ASSUME NEW m \in DOMAIN in, m < n + 1, Asks(in[m], r)
          PROVE  Answers(outNew, r) \/ \E k \in DOMAIN new : k < n /\ Asks(new[k], r)
      <4>1. CASE m = 1
        BY <1>6, <3>3, <4>1
      <4>2. CASE m # 1
        <5>1. m - 1 \in DOMAIN new /\ Asks(new[m - 1], r)
          BY <1>4, <3>3, <4>2
        <5>2. m \in Nat /\ n \in Nat
          BY <1>2
        <5>3. m - 1 < n
          BY <3>3, <5>2
        <5>4. QED
          BY <5>1, <5>3
      <4>3. QED
        BY <4>1, <4>2
    <3>4. QED
      BY <3>1, <3>2, <3>3
  <2>3. QED
    BY <2>1, <2>2 DEF Precedes
<1>9. \A v \in Values : Tells(in, d, v) => Tells(new, after, v)
  BY <1>1, TellsTail
<1>10. QED
  BY <1>1, <1>7, <1>8, <1>9 DEF Alike

\* The first of the results is not one that comes after another request's.
LEMMA NotFirst ==
  ASSUME NEW out \in Outbox, out # <<>>, NEW in, NEW r, NEW s, Precedes(out, in, r, s)
  PROVE  Head(out) # s
<1>1. DOMAIN out = 1 .. Len(out) /\ Len(out) \in Nat \ {0} /\ Head(out) = out[1]
  BY DEF Outbox
<1>2. 1 \in DOMAIN out /\ \A m \in DOMAIN out : ~(m < 1)
  BY <1>1
<1>3. QED
  BY <1>1, <1>2 DEF Precedes

\* A command is sent: it is in line, after all that was, and sets the dial.
LEMMA SentTo ==
  ASSUME NEW out \in Outbox, NEW in \in Inbox, NEW d, NEW s \in Reqs, NEW v, NEW new,
         new = Append(in, [type |-> "cmd", req |-> s, value |-> v])
  PROVE  /\ InLine(out, new, s) /\ Tells(new, d, v)
         /\ \A r \in Reqs \ {s} : InLine(out, new, r) <=> InLine(out, in, r)
         /\ \A r \in Reqs, t \in Reqs \ {s} : Precedes(out, in, r, t) => Precedes(out, new, r, t)
         /\ \A r \in Reqs : InLine(out, in, r) /\ ~InLine(out, in, s) => Precedes(out, new, r, s)
<1>1. PICK m : m = [type |-> "cmd", req |-> s, value |-> v] /\ new = Append(in, m)
  OBVIOUS
<1>2. /\ DOMAIN in = 1 .. Len(in) /\ DOMAIN new = 1 .. Len(in) + 1 /\ Len(in) \in Nat
      /\ new[Len(in) + 1] = m /\ \A n \in 1 .. Len(in) : new[n] = in[n]
  BY <1>1, Longer DEF Inbox
<1>3. \A n \in DOMAIN new : n \in DOMAIN in \/ n = Len(in) + 1
  BY <1>2
<1>4. \A n \in DOMAIN in : n \in DOMAIN new /\ new[n] = in[n] /\ n < Len(in) + 1
  BY <1>2
<1>5. Len(in) + 1 \in DOMAIN new /\ new[Len(in) + 1] = m
  BY <1>2
<1>6. m.type = "cmd" /\ m.req = s /\ m.value = v
  BY <1>1
<1>7. InLine(out, new, s)
  BY <1>5, <1>6 DEF InLine, Asks
<1>8. Tells(new, d, v)
  <2>1. Len(in) + 1 \in Commands(new)
    BY <1>5, <1>6 DEF Commands
  <2>2. ASSUME NEW n \in Commands(new), \A k \in Commands(new) : k <= n
        PROVE  new[n].value = v
    <3>1. Len(in) + 1 <= n
      BY <2>1, <2>2
    <3>2. n \in 1 .. Len(in) + 1
      BY <1>2 DEF Commands
    <3>3. n = Len(in) + 1
      BY <1>2, <3>1, <3>2
    <3>4. QED
      BY <1>5, <1>6, <3>3
  <2>3. QED
    BY <2>1, <2>2 DEF Tells
<1>9. \A r \in Reqs \ {s} : InLine(out, new, r) <=> InLine(out, in, r)
  BY <1>3, <1>4, <1>5, <1>6 DEF InLine, Asks
<1>10. ASSUME NEW r \in Reqs, NEW t \in Reqs \ {s}, Precedes(out, in, r, t)
       PROVE  Precedes(out, new, r, t)
  <2>1. \A n \in DOMAIN new : Asks(new[n], t) => n \in DOMAIN in
    BY <1>3, <1>5, <1>6 DEF Asks
  <2>2. QED
    BY <1>4, <1>10, <2>1 DEF Precedes
<1>11. ASSUME NEW r \in Reqs, InLine(out, in, r), ~InLine(out, in, s)
       PROVE  Precedes(out, new, r, s)
  <2>1. \A n \in DOMAIN new : Asks(new[n], s) => n = Len(in) + 1
    BY <1>3, <1>4, <1>11 DEF InLine
  <2>2. \A n \in DOMAIN out : out[n] # s
    BY <1>11 DEF InLine, Answers
  <2>3. QED
    BY <1>4, <1>11, <2>1, <2>2 DEF Precedes, InLine
<1>12. QED
  BY <1>1, <1>7, <1>8, <1>9, <1>10, <1>11

-----------------------------------------------------------------------------
(* The commands that wait, in the order in which their watchdogs expire. *)

Waits(w, r) == \E n \in DOMAIN w : w[n] = r

InOrder(w, r, s) == \A m, n \in DOMAIN w : w[m] = r /\ w[n] = s => m < n

\* The commands that wait without r's: the others in their order.
Trimmed(w, rest, r) ==
  /\ \A n \in DOMAIN rest : rest[n] # r
  /\ \A s \in Reqs \ {r} : Waits(w, s) => Waits(rest, s)
  /\ \A s, t \in Reqs : InOrder(w, s, t) => InOrder(rest, s, t)

LEMMA TailTrimmed ==
  ASSUME TypeOK, Queued, pending # <<>>
  PROVE  Trimmed(pending, Tail(pending), Head(pending))
<1>1. PICK rest : rest = Tail(pending)
  OBVIOUS
<1>2. pending \in Seq(Reqs)
  BY DEF TypeOK
<1>3. /\ DOMAIN pending = 1 .. Len(pending) /\ DOMAIN rest = 1 .. Len(pending) - 1
      /\ Len(pending) \in Nat \ {0} /\ Head(pending) = pending[1]
      /\ \A n \in 1 .. Len(pending) - 1 : rest[n] = pending[n + 1]
  BY <1>1, <1>2, Shorter
<1>4. \A n \in DOMAIN rest : /\ n \in Nat /\ n + 1 \in DOMAIN pending
                            /\ rest[n] = pending[n + 1]
  BY <1>3
<1>5. \A n \in DOMAIN pending : n = 1 \/ (n - 1 \in DOMAIN rest /\ rest[n - 1] = pending[n])
  BY <1>3
<1>6. \A n \in DOMAIN rest : rest[n] # Head(pending)
  BY <1>1, TailClear DEF Without
<1>7. \A s \in Reqs \ {Head(pending)} : Waits(pending, s) => Waits(rest, s)
  BY <1>3, <1>5 DEF Waits
<1>8. ASSUME NEW s \in Reqs, NEW t \in Reqs, InOrder(pending, s, t)
      PROVE  InOrder(rest, s, t)
  <2> SUFFICES ASSUME NEW m \in DOMAIN rest, NEW n \in DOMAIN rest, rest[m] = s, rest[n] = t
               PROVE  m < n
    BY DEF InOrder
  <2>1. m + 1 < n + 1
    BY <1>4, <1>8 DEF InOrder
  <2>2. m \in Nat /\ n \in Nat
    BY <1>3
  <2>3. QED
    BY <2>1, <2>2
<1>9. QED
  BY <1>1, <1>6, <1>7, <1>8 DEF Trimmed

LEMMA RemoveTrimmed ==
  ASSUME TypeOK, Queued, NEW k \in DOMAIN pending
  PROVE  Trimmed(pending, RemoveAt(pending, k), pending[k])
<1>1. PICK rest : rest = RemoveAt(pending, k)
  OBVIOUS
<1>2. pending \in Seq(Reqs) /\ DOMAIN pending = 1 .. Len(pending) /\ Len(pending) \in Nat
  BY DEF TypeOK
<1>3. /\ rest \in Seq(Reqs) /\ Len(rest) = Len(pending) - 1
      /\ \A m \in 1 .. Len(pending) - 1 : rest[m] = IF m < k THEN pending[m] ELSE pending[m + 1]
  BY <1>1, <1>2, RemoveAtType
<1>4. DOMAIN rest = 1 .. Len(pending) - 1 /\ k \in 1 .. Len(pending)
  BY <1>2, <1>3
<1> DEFINE From(m) == IF m < k THEN m ELSE m + 1
<1>5. \A m \in DOMAIN rest : /\ m \in Nat /\ From(m) \in DOMAIN pending
                            /\ rest[m] = pending[From(m)]
  BY <1>2, <1>3, <1>4
<1>6. \A m, n \in DOMAIN rest : From(m) < From(n) => m < n
  BY <1>2, <1>4
<1>7. \A n \in DOMAIN pending : n # k => \E m \in DOMAIN rest : From(m) = n
  <2> SUFFICES ASSUME NEW n \in DOMAIN pending, n # k
               PROVE  \E m \in DOMAIN rest : From(m) = n
    OBVIOUS
  <2>1. CASE n < k
    <3>1. n \in DOMAIN rest /\ From(n) = n
      BY <1>2, <1>4, <2>1
    <3>2. QED
      BY <3>1
  <2>2. CASE n > k
    <3>1. n - 1 \in DOMAIN rest /\ From(n - 1) = n
      BY <1>2, <1>4, <2>2
    <3>2. QED
      BY <3>1
  <2>3. QED
    BY <1>2, <1>4, <2>1, <2>2
<1> HIDE DEF From
<1>8. \A n \in DOMAIN rest : rest[n] # pending[k]
  BY <1>1, RemoveClear DEF Without
<1>9. ASSUME NEW s \in Reqs \ {pending[k]}, Waits(pending, s) PROVE Waits(rest, s)
  <2>1. PICK n \in DOMAIN pending : pending[n] = s
    BY <1>9 DEF Waits
  <2>2. PICK m \in DOMAIN rest : From(m) = n
    BY <1>7, <2>1
  <2>3. QED
    BY <1>5, <2>1, <2>2 DEF Waits
<1>10. ASSUME NEW s \in Reqs, NEW t \in Reqs, InOrder(pending, s, t)
       PROVE  InOrder(rest, s, t)
  BY <1>5, <1>6, <1>10 DEF InOrder
<1>11. QED
  BY <1>1, <1>8, <1>9, <1>10 DEF Trimmed

LEMMA AppendWaits ==
  ASSUME NEW rest \in Seq(Reqs), NEW r \in Reqs, \A n \in DOMAIN rest : rest[n] # r
  PROVE  LET w == Append(rest, r)
         IN  /\ Waits(w, r)
             /\ \A s \in Reqs : Waits(rest, s) => Waits(w, s)
             /\ \A s \in Reqs \ {r} : InOrder(w, s, r)
             /\ \A s, t \in Reqs \ {r} : InOrder(rest, s, t) => InOrder(w, s, t)
<1>1. PICK w : w = Append(rest, r)
  OBVIOUS
<1>2. /\ DOMAIN rest = 1 .. Len(rest) /\ DOMAIN w = 1 .. Len(rest) + 1 /\ Len(rest) \in Nat
      /\ w[Len(rest) + 1] = r /\ \A n \in 1 .. Len(rest) : w[n] = rest[n]
  BY <1>1, Longer
<1>3. \A n \in DOMAIN w : n \in DOMAIN rest \/ n = Len(rest) + 1
  BY <1>2
<1>4. \A n \in DOMAIN rest : n \in DOMAIN w /\ w[n] = rest[n] /\ n < Len(rest) + 1
  BY <1>2
<1>5. Len(rest) + 1 \in DOMAIN w /\ w[Len(rest) + 1] = r
  BY <1>2
<1>6. Waits(w, r) /\ \A s \in Reqs : Waits(rest, s) => Waits(w, s)
  BY <1>4, <1>5 DEF Waits
<1>7. \A s \in Reqs \ {r} : InOrder(w, s, r)
  BY <1>3, <1>4, <1>5 DEF InOrder
<1>8. \A s, t \in Reqs \ {r} : InOrder(rest, s, t) => InOrder(w, s, t)
  BY <1>3, <1>4, <1>5 DEF InOrder
<1>9. QED
  BY <1>1, <1>6, <1>7, <1>8

LEMMA NotNext ==
  ASSUME TypeOK, pending # <<>>, NEW r \in Reqs, NEW s \in Reqs, Waits(pending, r),
         InOrder(pending, r, s)
  PROVE  Head(pending) # s
<1>1. DOMAIN pending = 1 .. Len(pending) /\ Len(pending) \in Nat \ {0} /\ Head(pending) = pending[1]
  BY DEF TypeOK
<1>2. 1 \in DOMAIN pending /\ \A m \in DOMAIN pending : ~(m < 1)
  BY <1>1
<1>3. QED
  BY <1>1, <1>2 DEF Waits, InOrder

-----------------------------------------------------------------------------
(* The invariant. *)

\* Where a request is: it has sent to the kth child, and the ids that remain are those
\* of the children that come next.
Follows(todo, k) ==
  /\ k + Len(todo) <= Len(agents)
  /\ \A n \in 1 .. Len(todo) : todo[n] = proc[agents[k + n]].id

Stands(r, k) ==
  /\ k \in DOMAIN agents /\ agents[k] = req[r].proc
  /\ Follows(req[r].todo, k)

Lines(p, r) == InLine(outbox[p], inbox[p], r)

Told(p, v) == Tells(inbox[p], dial[p], v)

\* A request stands somewhere, has something in line there and nothing beyond.
Sound(r) ==
  /\ \E k \in DOMAIN agents : Stands(r, k)
  /\ Lines(req[r].proc, r)
  /\ \A k, x \in DOMAIN agents : Stands(r, k) /\ k < x => ~Lines(agents[x], r)

\* The earlier of two requests is not behind the later, will go no further, and where
\* both have sent to the same child it comes first.
Ranked(r, s) ==
  \A k, l \in DOMAIN agents : Stands(r, k) /\ Stands(s, l) =>
    /\ l <= k /\ k + Len(req[r].todo) <= l + Len(req[s].todo)
    /\ k = l => /\ InOrder(pending, r, s)
                /\ Precedes(outbox[agents[k]], inbox[agents[k]], r, s)

Earlier(r, s) == Turning(r) /\ Turning(s) /\ req[r].value < req[s].value

Latest(r) == Turning(r) /\ req[r].value = latest.value

\* The agents the latest request has sent to have its value last; and when it has
\* ended no other has an agent before it.
Informing ==
  \A r \in Reqs : \A k \in DOMAIN agents : Latest(r) /\ Stands(r, k) =>
    /\ \A p \in latest.told : \E x \in 1 .. k + Len(req[r].todo) : p = agents[x]
    /\ \A x \in 1 .. k : Told(agents[x], latest.value)

Informed ==
  (\A r \in Reqs : ~Latest(r)) =>
    /\ \A r \in Reqs : Turning(r) => req[r].todo = <<>>
    /\ \A p \in latest.told : Live(p) => Told(p, latest.value)

AllSound == \A r \in Reqs : Turning(r) => Sound(r)

AllRanked == \A r, s \in Reqs : Earlier(r, s) => Ranked(r, s)

Dials == ~torn /\ ~crashed => AllSound /\ AllRanked /\ Informing /\ Informed

\* Each request that turns the dial has its own value, and its command waits.
Numbered ==
  /\ \A r \in Reqs : Turning(r) => req[r].value <= latest.value
  /\ \A r, s \in Reqs : Turning(r) /\ Turning(s) /\ req[r].value = req[s].value => r = s

Enqueued == \A r \in Reqs : Turning(r) => Waits(pending, r)

\* A process that has not been forked has no messages, and was told nothing.
Unforked ==
  /\ \A p \in Procs : p > forks =>
       proc[p].state = "unused" /\ inbox[p] = <<>> /\ outbox[p] = <<>>
  /\ \A p \in latest.told : p <= forks

DialInvariant == Inv /\ Numbered /\ Enqueued /\ Unforked /\ Dials

LEMMA StandsOnce ==
  ASSUME OneEach, NEW r \in Reqs, NEW k, NEW l, Stands(r, k), Stands(r, l)
  PROVE  k = l
  BY DEF OneEach, Stands

LEMMA ChildAt ==
  ASSUME TypeOK, NEW k \in DOMAIN agents
  PROVE  agents[k] \in Procs /\ agents[k] \in Children
<1>1. agents[k] \in Procs
  BY DEF TypeOK
<1>2. QED
  BY <1>1 DEF Children

LEMMA Boxes ==
  ASSUME TypeOK, NEW p \in Procs
  PROVE  outbox[p] \in Outbox /\ inbox[p] \in Inbox
  BY DEF TypeOK, Outbox, Inbox

-----------------------------------------------------------------------------
(* The steps that turn no dial. *)

\* What a request has in the line of the child it stands at.
Standing(p) == {r \in Reqs : Turning(r) /\ req[r].proc = p}

SameTurns ==
  /\ \A r \in Reqs : (Turning(r)' <=> Turning(r)) /\ (Turning(r) => req'[r] = req[r])
  /\ UNCHANGED <<pending, latest>>

LEMMA SameNumbers ==
  ASSUME Numbered, Enqueued, SameTurns
  PROVE  Numbered' /\ Enqueued'
  BY DEF Numbered, Enqueued, SameTurns

\* The children that were there keep their place.
Grows ==
  /\ DOMAIN agents \subseteq DOMAIN agents' /\ Len(agents) <= Len(agents')
  /\ \A x \in DOMAIN agents : agents'[x] = agents[x] /\ proc'[agents[x]].id = proc[agents[x]].id

LEMMA Still ==
  ASSUME TypeOK, TypeOK', OneEach', Dials, SameTurns, Grows, ~crashed, UNCHANGED torn,
         \A p \in Procs : Alike(outbox[p], inbox[p], dial[p],
                               outbox'[p], inbox'[p], dial'[p], Standing(p)),
         \A p \in latest.told : Live(p)' => Live(p),
         \A x \in DOMAIN agents' : x \notin DOMAIN agents =>
           \A r \in Reqs : ~InLine(outbox'[agents'[x]], inbox'[agents'[x]], r)
  PROVE  Dials'
<1> SUFFICES ASSUME ~torn PROVE AllSound' /\ AllRanked' /\ Informing' /\ Informed'
  BY DEF Dials
<1>i. AllSound /\ AllRanked /\ Informing /\ Informed
  BY DEF Dials
<1>0. /\ agents \in Seq(Procs) /\ agents' \in Seq(Procs)
      /\ DOMAIN agents = 1 .. Len(agents) /\ DOMAIN agents' = 1 .. Len(agents')
      /\ Len(agents) \in Nat /\ Len(agents') \in Nat
      /\ \A r \in Reqs : req[r].todo \in Seq(Ids) /\ Len(req[r].todo) \in Nat
  BY DEF TypeOK, Request
<1>1. ASSUME NEW r \in Reqs, Turning(r), NEW k, Stands(r, k)
      PROVE  Stands(r, k)'
  <2>1. k \in DOMAIN agents' /\ agents'[k] = req'[r].proc
    BY <1>1 DEF Stands, Grows, SameTurns
  <2>2. k + Len(req'[r].todo) <= Len(agents')
    BY <1>0, <1>1 DEF Stands, Follows, Grows, SameTurns
  <2>3. ASSUME NEW n \in 1 .. Len(req[r].todo)
        PROVE  req[r].todo[n] = proc'[agents'[k + n]].id
    <3>1. k + n \in DOMAIN agents
      BY <1>0, <1>1 DEF Stands, Follows
    <3>2. QED
      BY <1>1, <3>1 DEF Stands, Follows, Grows
  <2>4. QED
    BY <1>1, <2>1, <2>2, <2>3 DEF Stands, Follows, SameTurns
<1>2. ASSUME NEW r \in Reqs, Turning(r), NEW k, Stands(r, k)'
      PROVE  k \in DOMAIN agents /\ Stands(r, k)
  <2>1. PICK l \in DOMAIN agents : Stands(r, l)
    BY <1>i, <1>2 DEF AllSound, Sound
  <2>2. Stands(r, l)'
    BY <1>1, <1>2, <2>1
  <2>3. k = l
    BY <1>2, <2>2 DEF OneEach, Stands
  <2>4. QED
    BY <2>1, <2>3
<1>3. \A r \in Reqs : /\ Turning(r)' <=> Turning(r)
                      /\ Turning(r) => req'[r] = req[r]
  BY DEF SameTurns
<1>4. ASSUME NEW r \in Reqs, Turning(r) PROVE Sound(r)'
  <2>1. PICK k \in DOMAIN agents : Stands(r, k)
    BY <1>i, <1>4 DEF AllSound, Sound
  <2>2. Stands(r, k)' /\ k \in DOMAIN agents'
    BY <1>1, <1>4, <2>1 DEF Grows
  <2>3. Lines(req[r].proc, r) /\ req[r].proc \in Procs /\ req'[r].proc = req[r].proc
    BY <1>i, <1>0, <1>3, <1>4, <2>1 DEF AllSound, Sound, Stands
  <2>4. Lines(req[r].proc, r)'
    <3>1. r \in Standing(req[r].proc)
      BY <1>4 DEF Standing
    <3>2. PICK p \in Procs : p = req[r].proc
      BY <2>3
    <3>3. InLine(outbox'[p], inbox'[p], r)
      BY <2>3, <3>1, <3>2 DEF Alike, Lines
    <3>4. QED
      BY <2>3, <3>2, <3>3 DEF Lines
  <2>5. ASSUME NEW l \in DOMAIN agents', NEW x \in DOMAIN agents', Stands(r, l)', l < x
        PROVE  ~InLine(outbox'[agents'[x]], inbox'[agents'[x]], r)
    <3>1. l \in DOMAIN agents /\ Stands(r, l)
      BY <1>2, <1>4, <2>5
    <3>2. CASE x \in DOMAIN agents
      <4>1. ~Lines(agents[x], r)
        BY <1>i, <1>4, <2>5, <3>1, <3>2 DEF AllSound, Sound
      <4>2. agents[x] \in Procs /\ agents'[x] = agents[x]
        BY <1>0, <3>2 DEF Grows
      <4>3. QED
        BY <4>1, <4>2 DEF Alike, Lines
    <3>3. CASE x \notin DOMAIN agents
      BY <3>3
    <3>4. QED
      BY <3>2, <3>3
  <2>6. QED
    BY <2>2, <2>3, <2>4, <2>5 DEF Sound, Lines
<1>5. ASSUME NEW r \in Reqs, NEW s \in Reqs, Earlier(r, s)'
      PROVE  Ranked(r, s)'
  <2>1. Earlier(r, s)
    BY <1>3, <1>5 DEF Earlier
  <2>2. Ranked(r, s) /\ Turning(r) /\ Turning(s)
    BY <1>i, <2>1 DEF AllRanked, Earlier
  <2> SUFFICES ASSUME NEW k \in DOMAIN agents', NEW l \in DOMAIN agents',
                      Stands(r, k)', Stands(s, l)'
               PROVE  /\ l <= k /\ k + Len(req'[r].todo) <= l + Len(req'[s].todo)
                      /\ k = l => /\ InOrder(pending', r, s)
                                  /\ Precedes(outbox'[agents'[k]], inbox'[agents'[k]], r, s)
    BY DEF Ranked
  <2>3. k \in DOMAIN agents /\ Stands(r, k) /\ l \in DOMAIN agents /\ Stands(s, l)
    BY <1>2, <2>2
  <2>4. /\ l <= k /\ k + Len(req'[r].todo) <= l + Len(req'[s].todo)
        /\ k = l => InOrder(pending', r, s)
    BY <1>3, <2>2, <2>3 DEF Ranked, SameTurns
  <2>5. ASSUME k = l PROVE Precedes(outbox'[agents'[k]], inbox'[agents'[k]], r, s)
    <3>1. PICK p \in Procs : p = agents[k]
      BY <1>0, <2>3
    <3>2. agents'[k] = p /\ r \in Standing(p)
      BY <2>2, <2>3, <3>1 DEF Grows, Standing, Stands
    <3>3. Precedes(outbox[p], inbox[p], r, s)
      BY <2>2, <2>3, <2>5, <3>1 DEF Ranked
    <3>4. QED
      BY <3>2, <3>3 DEF Alike
  <2>6. QED
    BY <2>4, <2>5
<1>6. latest.value \in Values /\ latest.told \in SUBSET Procs
  BY DEF TypeOK
<1>7. \A p \in Procs : Told(p, latest.value) => Told(p, latest.value)'
  BY <1>6 DEF Told, Alike, SameTurns
<1>8. \A r \in Reqs : Latest(r)' <=> Latest(r)
  BY <1>3 DEF Latest, SameTurns
<1>9. Informing'
  <2> SUFFICES ASSUME NEW r \in Reqs, NEW k \in DOMAIN agents', Latest(r), Stands(r, k)'
               PROVE  /\ \A p \in latest.told : \E x \in 1 .. k + Len(req[r].todo) : p = agents'[x]
                      /\ \A x \in 1 .. k : Told(agents[x], latest.value)' /\ agents'[x] = agents[x]
    BY <1>3, <1>8 DEF Informing, Latest, SameTurns, Told
  <2>1. k \in DOMAIN agents /\ Stands(r, k) /\ Turning(r)
    BY <1>2 DEF Latest
  <2>2. \A x \in 1 .. k + Len(req[r].todo) : x \in DOMAIN agents /\ agents'[x] = agents[x]
    BY <1>0, <2>1 DEF Stands, Follows, Grows
  <2>3. \A x \in 1 .. k : x \in DOMAIN agents /\ agents[x] \in Procs /\ agents'[x] = agents[x]
    BY <1>0, <2>1 DEF Grows
  <2>4. /\ \A p \in latest.told : \E x \in 1 .. k + Len(req[r].todo) : p = agents[x]
        /\ \A x \in 1 .. k : Told(agents[x], latest.value)
    BY <1>i, <2>1 DEF Informing
  <2>5. QED
    BY <1>7, <2>2, <2>3, <2>4
<1>10. Informed'
  <2> SUFFICES ASSUME \A r \in Reqs : ~Latest(r)
               PROVE  /\ \A r \in Reqs : Turning(r) => req[r].todo = <<>>
                      /\ \A p \in latest.told : Live(p)' => Told(p, latest.value)'
    BY <1>3, <1>8 DEF Informed, SameTurns
  <2>1. /\ \A r \in Reqs : Turning(r) => req[r].todo = <<>>
        /\ \A p \in latest.told : Live(p) => Told(p, latest.value)
    BY <1>i DEF Informed
  <2>2. QED
    BY <1>6, <1>7, <2>1
<1>11. AllSound'
  BY <1>3, <1>4 DEF AllSound
<1>12. AllRanked'
  BY <1>5 DEF AllRanked
<1>13. QED
  BY <1>9, <1>10, <1>11, <1>12

\* When nobody turns the dial, what a step must not do is undo what was set.
LEMMA Nobody ==
  ASSUME TypeOK, Dials, UNCHANGED latest,
         \A r \in Reqs : ~Turning(r) /\ ~Turning(r)',
         ~torn' /\ ~crashed' => ~torn /\ ~crashed,
         \A p \in latest.told : Live(p)' => /\ Live(p)
                                          /\ UNCHANGED <<inbox[p], dial[p]>>
  PROVE  Dials'
<1> SUFFICES ASSUME ~torn, ~crashed PROVE AllSound' /\ AllRanked' /\ Informing' /\ Informed'
  BY DEF Dials
<1>1. AllSound' /\ AllRanked' /\ Informing'
  BY DEF AllSound, AllRanked, Earlier, Informing, Latest
<1>2. \A p \in latest.told : Live(p) => Told(p, latest.value)
  BY DEF Dials, Informed, Latest
<1>3. Informed'
  BY <1>2 DEF Informed, Told
<1>4. QED
  BY <1>1, <1>3

DialPart == Numbered /\ Enqueued /\ Unforked /\ Dials

LEMMA ProcessDials ==
  ASSUME DialInvariant, Inv', ~crashed, NEW x \in Procs,
         BecomeReady(x) \/ Exit(x) \/ Handle(x)
  PROVE  DialPart'
<1>1. TypeOK /\ TypeOK' /\ OneEach' /\ Numbered /\ Enqueued /\ Unforked /\ Dials
  BY DEF DialInvariant, Inv
<1>2. UNCHANGED <<agents, forks, req, pending, latest, late, crashed>>
  BY DEF BecomeReady, Exit, Handle, history
<1>3. SameTurns
  BY <1>2 DEF SameTurns, Turning
<1>4. Numbered' /\ Enqueued'
  BY <1>1, <1>3, SameNumbers
<1>5. x <= forks
  <2>1. CASE BecomeReady(x) \/ Exit(x)
    BY <1>1, <2>1 DEF BecomeReady, Exit, Live, Unforked, TypeOK, Procs
  <2>2. CASE Handle(x)
    BY <1>1, <2>2 DEF Handle, Unforked, TypeOK, Procs
  <2>3. QED
    BY <2>1, <2>2
<1>6. \A p \in Procs : p # x => /\ proc'[p] = proc[p] /\ UNCHANGED <<inbox[p], outbox[p], dial[p]>>
  BY <1>1 DEF BecomeReady, Exit, Handle, TypeOK
<1>7. Unforked'
  <2>1. \A p \in Procs : p > forks => p # x
    BY <1>1, <1>5 DEF TypeOK, Procs
  <2>2. QED
    BY <1>1, <1>2, <1>6, <2>1 DEF Unforked
<1>8. proc'[x].id = proc[x].id /\ (Live(x)' => Live(x))
  <2>1. CASE BecomeReady(x)
    BY <1>1, <2>1 DEF BecomeReady, Live, TypeOK, Process
  <2>2. CASE Exit(x)
    BY <1>1, <2>2 DEF Exit, Live, TypeOK, Process
  <2>3. CASE Handle(x)
    BY <2>3 DEF Handle, Live
  <2>4. QED
    BY <2>1, <2>2, <2>3
<1>9. \A p \in latest.told : Live(p)' => Live(p)
  BY <1>1, <1>6, <1>8 DEF TypeOK, Live
<1>10. Grows
  <2>1. \A p \in Procs : proc'[p].id = proc[p].id
    BY <1>6, <1>8
  <2>2. QED
    BY <1>1, <1>2, <2>1, ChildAt DEF Grows, TypeOK
<1>11. ASSUME BecomeReady(x) \/ Handle(x) PROVE Dials'
  <2>1. UNCHANGED torn
    BY <1>11 DEF BecomeReady, Handle, history
  <2>2. ASSUME NEW p \in Procs
        PROVE  Alike(outbox[p], inbox[p], dial[p], outbox'[p], inbox'[p], dial'[p], Standing(p))
    <3>1. CASE p # x
      BY <1>6, <3>1, AlikeSame
    <3>0. outbox[p] \in Outbox /\ inbox[p] \in Inbox /\ Standing(p) \in SUBSET Reqs
      BY <1>1, Boxes DEF Standing
    <3>2. CASE p = x /\ BecomeReady(x)
      <4>1. outbox'[p] = Append(outbox[p], "ready") /\ UNCHANGED <<inbox[p], dial[p]>>
        BY <1>1, <3>2 DEF BecomeReady, TypeOK
      <4>2. "ready" \notin Reqs
        BY TopologyAssumption
      <4>3. QED
        BY <3>0, <4>1, <4>2, AlikeReady
    <3>3. CASE p = x /\ Handle(x)
      <4>1. inbox[p] # <<>> /\ inbox'[p] = Tail(inbox[p])
        BY <1>1, <3>3 DEF Handle, TypeOK
      <4>2. \/ /\ Head(inbox[p]).type = "cmd" /\ dial'[p] = Head(inbox[p]).value
               /\ outbox'[p] = Append(outbox[p], Head(inbox[p]).req)
            \/ /\ Head(inbox[p]).type # "cmd" /\ dial'[p] = dial[p]
               /\ outbox'[p] = outbox[p]
        BY <1>1, <3>3 DEF Handle, TypeOK
      <4>3. QED
        BY <3>0, <4>1, <4>2, AlikeHandled
    <3>4. QED
      BY <1>11, <3>1, <3>2, <3>3
  <2>3. \A y \in DOMAIN agents' : y \in DOMAIN agents
    BY <1>2
  <2>4. QED
    BY <1>1, <1>3, <1>9, <1>10, <2>1, <2>2, <2>3, Still
<1>12. ASSUME Exit(x) PROVE Dials'
  <2>1. CASE \E r \in Reqs : Turning(r)
    BY <1>12, <2>1 DEF Exit, Dials
  <2>2. CASE ~\E r \in Reqs : Turning(r)
    <3>1. \A r \in Reqs : ~Turning(r) /\ ~Turning(r)'
      BY <1>3, <2>2 DEF SameTurns
    <3>2. torn' = torn
      BY <1>1, <1>12, <2>2 DEF Exit, TypeOK
    <3>3. ~Live(x)'
      BY <1>1, <1>12 DEF Exit, Live, TypeOK, Process
    <3>4. \A p \in latest.told : Live(p)' => Live(p) /\ UNCHANGED <<inbox[p], dial[p]>>
      BY <1>1, <1>6, <1>9, <3>3 DEF TypeOK
    <3>5. QED
      BY <1>1, <1>2, <3>1, <3>2, <3>4, Nobody
  <2>3. QED
    BY <2>1, <2>2
<1>13. QED
  BY <1>4, <1>7, <1>11, <1>12 DEF DialPart

\* A child that is forked comes last in the map, and every other keeps its place.
LEMMA ForkGrows ==
  ASSUME TypeOK, Known, NEW r \in Reqs, NEW kind \in {"spawn", "demo"}, NEW i \in Ids,
         NEW todo \in Seq(Ids), Fork(r, kind, i, todo), ~Turning(r)
  PROVE  /\ Grows
         /\ \A s \in Reqs : (Turning(s)' <=> Turning(s)) /\ (Turning(s) => req'[s] = req[s])
         /\ \E c \in Procs :
              /\ c = forks + 1 /\ forks' = c
              /\ \A p \in Procs : p # c => proc'[p] = proc[p]
              /\ \A x \in DOMAIN agents' : x \notin DOMAIN agents => agents'[x] = c
<1>1. PICK c \in Procs :
        /\ c = forks + 1 /\ forks' = c
        /\ agents' = Append(agents, c)
        /\ proc' = [proc EXCEPT ![c] = [id |-> i, state |-> "starting"]]
        /\ req' = [req EXCEPT ![r] = [kind |-> kind, proc |-> c, todo |-> todo, value |-> 0]]
  BY ForkCases
<1>2. agents \in Seq(Procs) /\ forks \in Nat
  BY TopologyAssumption DEF TypeOK
<1>3. /\ DOMAIN agents = 1 .. Len(agents) /\ DOMAIN agents' = 1 .. Len(agents) + 1
      /\ Len(agents) \in Nat /\ agents'[Len(agents) + 1] = c
      /\ \A n \in 1 .. Len(agents) : agents'[n] = agents[n]
  BY <1>1, <1>2, Longer
<1>4. \A p \in Procs : p # c => proc'[p] = proc[p]
  BY <1>1 DEF TypeOK
<1>5. \A n \in DOMAIN agents : agents[n] \in Procs /\ agents[n] # c
  <2> SUFFICES ASSUME NEW n \in DOMAIN agents PROVE agents[n] \in Procs /\ agents[n] # c
    OBVIOUS
  <2>1. agents[n] \in Procs /\ agents[n] <= forks
    BY <1>2 DEF Known
  <2>2. QED
    BY <1>1, <1>2, <2>1 DEF Procs
<1>6. Len(agents') = Len(agents) + 1
  BY <1>1, <1>2
<1>7. Grows
  BY <1>3, <1>4, <1>5, <1>6 DEF Grows
<1>8. \A s \in Reqs : (Turning(s)' <=> Turning(s)) /\ (Turning(s) => req'[s] = req[s])
  <2> SUFFICES ASSUME NEW s \in Reqs
               PROVE  (Turning(s)' <=> Turning(s)) /\ (Turning(s) => req'[s] = req[s])
    OBVIOUS
  <2>1. CASE s = r
    <3>1. req'[r].kind = kind
      BY <1>1 DEF TypeOK
    <3>2. QED
      BY <2>1, <3>1 DEF Turning
  <2>2. CASE s # r
    <3>1. req'[s] = req[s]
      BY <1>1, <2>2 DEF TypeOK
    <3>2. QED
      BY <3>1 DEF Turning
  <2>3. QED
    BY <2>1, <2>2
<1>9. \A x \in DOMAIN agents' : x \notin DOMAIN agents => agents'[x] = c
  BY <1>3
<1>10. QED
  BY <1>1, <1>4, <1>7, <1>8, <1>9

\* Requests that are given up, none of them turning.
LEMMA SpareTurns ==
  ASSUME \A s \in Reqs : req'[s] = req[s] \/ (req'[s] = Idle /\ ~Turning(s))
  PROVE  \A s \in Reqs : (Turning(s)' <=> Turning(s)) /\ (Turning(s) => req'[s] = req[s])
  BY DEF Turning, Idle

LEMMA SpawnDials ==
  ASSUME DialInvariant, Inv', ~crashed, NEW r \in Reqs,
         SpawnTimeout(r) \/ DemoBegin(r) \/ \E i \in Ids : SpawnBegin(r, i)
  PROVE  DialPart'
<1>1. /\ TypeOK /\ TypeOK' /\ OneEach' /\ Known
      /\ Numbered /\ Enqueued /\ Unforked /\ Dials
  BY DEF DialInvariant, Inv
<1>2. UNCHANGED <<inbox, outbox, dial, pending, latest, torn, crashed>>
  BY DEF SpawnTimeout, DemoBegin, SpawnBegin, processes, history
<1>3. \A p \in Procs : Alike(outbox[p], inbox[p], dial[p], outbox'[p], inbox'[p], dial'[p], Standing(p))
  BY <1>2, AlikeSame
<1>4. CASE SpawnTimeout(r)
  <2>1. /\ UNCHANGED <<agents, forks, proc>> /\ Spawning(r)
        /\ req' = [req EXCEPT ![r] = Idle]
    BY <1>4 DEF SpawnTimeout, processes
  <2>2. \A s \in Reqs : req'[s] = req[s] \/ (req'[s] = Idle /\ ~Turning(s))
    BY <1>1, <2>1, Kinds DEF TypeOK
  <2>3. SameTurns
    BY <1>2, <2>2, SpareTurns DEF SameTurns
  <2>4. Numbered' /\ Enqueued'
    BY <1>1, <2>3, SameNumbers
  <2>5. Unforked'
    BY <1>1, <1>2, <2>1 DEF Unforked
  <2>6. Grows
    BY <1>1, <2>1 DEF Grows, TypeOK
  <2>7. /\ \A p \in latest.told : Live(p)' => Live(p)
        /\ \A x \in DOMAIN agents' : x \in DOMAIN agents
    BY <2>1 DEF Live
  <2>8. Dials'
    BY <1>1, <1>2, <1>3, <2>3, <2>6, <2>7, Still
  <2>9. QED
    BY <2>4, <2>5, <2>8 DEF DialPart
<1>5. ASSUME NEW kind \in {"spawn", "demo"}, NEW i \in Ids, NEW todo \in Seq(Ids),
             req[r] = Idle, Fork(r, kind, i, todo)
      PROVE  DialPart'
  <2>1. ~Turning(r)
    BY <1>5, Kinds
  <2>2. Grows /\ SameTurns
    BY <1>1, <1>2, <1>5, <2>1, ForkGrows DEF SameTurns
  <2>3. PICK c \in Procs :
          /\ c = forks + 1 /\ forks' = c
          /\ \A p \in Procs : p # c => proc'[p] = proc[p]
          /\ \A x \in DOMAIN agents' : x \notin DOMAIN agents => agents'[x] = c
    BY <1>1, <1>5, <2>1, ForkGrows
  <2>4. forks \in Nat /\ latest.told \in SUBSET Procs
    BY <1>1, TopologyAssumption DEF TypeOK
  <2>5. inbox[c] = <<>> /\ outbox[c] = <<>>
    BY <1>1, <2>3, <2>4 DEF Unforked
  <2>6. \A p \in Procs : p > c => p > forks /\ p # c
    BY <2>3, <2>4 DEF Procs
  <2>7. \A p \in latest.told : p # c /\ p <= c /\ p \in Procs
    BY <1>1, <2>3, <2>4 DEF Unforked, Procs
  <2>8. Unforked'
    BY <1>1, <1>2, <2>3, <2>6, <2>7 DEF Unforked
  <2>9. Numbered' /\ Enqueued'
    BY <1>1, <2>2, SameNumbers
  <2>10. \A p \in latest.told : Live(p)' => Live(p)
    BY <2>3, <2>7 DEF Live
  <2>11. \A x \in DOMAIN agents' : x \notin DOMAIN agents =>
           \A s \in Reqs : ~InLine(outbox'[agents'[x]], inbox'[agents'[x]], s)
    BY <1>2, <2>3, <2>5 DEF InLine, Answers
  <2>12. Dials'
    BY <1>1, <1>2, <1>3, <2>2, <2>10, <2>11, Still
  <2>13. QED
    BY <2>8, <2>9, <2>12 DEF DialPart
<1>6. CASE DemoBegin(r)
  <2>1. Head(Demo) \in Ids /\ Tail(Demo) \in Seq(Ids)
    BY TopologyAssumption
  <2>2. QED
    BY <1>5, <1>6, <2>1 DEF DemoBegin, Fresh
<1>7. ASSUME NEW i \in Ids, SpawnBegin(r, i) PROVE DialPart'
  <2>1. <<>> \in Seq(Ids)
    OBVIOUS
  <2>2. QED
    BY <1>5, <1>7, <2>1 DEF SpawnBegin, Fresh
<1>8. QED
  BY <1>4, <1>6, <1>7

LEMMA ReadyDials ==
  ASSUME DialInvariant, Inv', ~crashed, NEW x \in Procs, ReadyMessage(x)
  PROVE  DialPart'
<1>1. /\ TypeOK /\ TypeOK' /\ OneEach' /\ Known
      /\ Numbered /\ Enqueued /\ Unforked /\ Dials
  BY DEF DialInvariant, Inv
<1>2. /\ UNCHANGED <<dial, pending, latest, torn>>
      /\ outbox[x] # <<>> /\ Head(outbox[x]) = "ready" /\ outbox' = [outbox EXCEPT ![x] = Tail(@)]
  BY DEF ReadyMessage
<1>3. forks \in Nat /\ latest.told \in SUBSET Procs /\ x <= forks
  BY <1>1, <1>2, TopologyAssumption DEF TypeOK, Unforked, Procs
<1>4. \A p \in Procs : /\ p # x => outbox'[p] = outbox[p]
                       /\ outbox'[x] = Tail(outbox[x])
  BY <1>1, <1>2 DEF TypeOK
<1>5. ASSUME NEW p \in Procs, NEW in, NEW d
      PROVE  Alike(outbox[p], in, d, outbox'[p], in, d, Standing(p))
  <2>1. outbox[p] \in Outbox /\ Standing(p) \in SUBSET Reqs /\ "ready" \notin Standing(p)
    BY <1>1, Boxes, TopologyAssumption DEF Standing
  <2>2. CASE p = x
    BY <1>2, <1>4, <2>1, <2>2, AlikeTaken
  <2>3. CASE p # x
    BY <1>4, <2>3, AlikeSame
  <2>4. QED
    BY <2>2, <2>3
<1>6. CASE UNCHANGED <<agents, forks, proc, inbox, req, late>>
  <2>1. SameTurns
    BY <1>2, <1>6 DEF SameTurns, Turning
  <2>2. Numbered' /\ Enqueued'
    BY <1>1, <2>1, SameNumbers
  <2>3. Unforked'
    <3>1. \A p \in Procs : p > forks => p # x
      BY <1>3 DEF Procs
    <3>2. QED
      BY <1>1, <1>2, <1>4, <1>6, <3>1 DEF Unforked
  <2>4. Grows
    BY <1>1, <1>6 DEF Grows, TypeOK
  <2>5. /\ \A p \in latest.told : Live(p)' => Live(p)
        /\ \A y \in DOMAIN agents' : y \in DOMAIN agents
    BY <1>6 DEF Live
  <2>6. \A p \in Procs : Alike(outbox[p], inbox[p], dial[p], outbox'[p], inbox'[p], dial'[p], Standing(p))
    BY <1>2, <1>5, <1>6
  <2>7. Dials'
    BY <1>1, <1>2, <2>1, <2>4, <2>5, <2>6, Still
  <2>8. QED
    BY <2>2, <2>3, <2>7 DEF DialPart
<1>7. ASSUME NEW r \in Reqs, AwaitsReady(r, x), BroadcastPeers, SpawnNext(r)
      PROVE  DialPart'
  <2>1. ~Turning(r)
    BY <1>7, Kinds DEF AwaitsReady
  <2>2. PICK m : m = [type |-> "peer-update", peers |-> Peers]
    OBVIOUS
  <2>3. \A p \in Procs : inbox'[p] = inbox[p] \/ (p \in Children /\ inbox'[p] = Append(inbox[p], m))
    BY <1>7, <2>2 DEF BroadcastPeers
  <2>4. ASSUME NEW p \in Procs
        PROVE  Alike(outbox[p], inbox[p], dial[p], outbox'[p], inbox'[p], dial'[p], Standing(p))
    <3>1. CASE inbox'[p] = inbox[p]
      BY <1>2, <1>5, <3>1
    <3>2. CASE inbox'[p] = Append(inbox[p], m)
      <4>1. inbox[p] \in Inbox /\ Standing(p) \in SUBSET Reqs /\ m.type # "cmd"
        BY <1>1, <2>2, Boxes DEF Standing
      <4>2. PICK in : in = Append(inbox[p], m)
        OBVIOUS
      <4>3. Alike(outbox[p], inbox[p], dial[p], outbox[p], in, dial[p], Standing(p))
        BY <4>1, <4>2, AlikeUpdate
      <4>4. Alike(outbox[p], in, dial[p], outbox'[p], in, dial[p], Standing(p))
        BY <1>5
      <4>5. Alike(outbox[p], inbox[p], dial[p], outbox'[p], in, dial[p], Standing(p))
        BY <4>3, <4>4 DEF Alike
      <4>6. inbox'[p] = in /\ dial'[p] = dial[p]
        BY <1>2, <3>2, <4>2
      <4>7. QED
        BY <4>5, <4>6
    <3>3. QED
      BY <2>3, <3>1, <3>2
  <2>5. \A p \in Procs : p > forks => p \notin Children /\ p # x
    BY <1>1, <1>3 DEF Known, Children, Procs, TypeOK
  <2>6. \A p \in Procs : p > forks => inbox'[p] = <<>> /\ outbox'[p] = <<>>
    BY <1>1, <1>4, <2>3, <2>5 DEF Unforked
  <2>7. CASE req' = [req EXCEPT ![r] = Idle] /\ UNCHANGED <<agents, forks, proc>>
    <3>1. \A s \in Reqs : req'[s] = req[s] \/ (req'[s] = Idle /\ ~Turning(s))
      BY <1>1, <2>1, <2>7 DEF TypeOK
    <3>2. SameTurns
      BY <1>2, <3>1, SpareTurns DEF SameTurns
    <3>3. Numbered' /\ Enqueued'
      BY <1>1, <3>2, SameNumbers
    <3>4. Unforked'
      BY <1>1, <1>2, <2>6, <2>7 DEF Unforked
    <3>5. Grows
      BY <1>1, <2>7 DEF Grows, TypeOK
    <3>6. /\ \A p \in latest.told : Live(p)' => Live(p)
          /\ \A y \in DOMAIN agents' : y \in DOMAIN agents
      BY <2>7 DEF Live
    <3>7. Dials'
      BY <1>1, <1>2, <2>4, <3>2, <3>5, <3>6, Still
    <3>8. QED
      BY <3>3, <3>4, <3>7 DEF DialPart
  <2>8. CASE req[r].todo # <<>> /\ Fork(r, "demo", Head(req[r].todo), Tail(req[r].todo))
    <3>1. req[r].todo \in Seq(Ids)
      BY <1>1 DEF TypeOK, Request
    <3>2. Head(req[r].todo) \in Ids /\ Tail(req[r].todo) \in Seq(Ids)
      BY <2>8, <3>1
    <3>3. PICK i \in Ids, todo \in Seq(Ids) : Fork(r, "demo", i, todo)
      BY <2>8, <3>2
    <3>4. Grows /\ SameTurns
      BY <1>1, <1>2, <2>1, <3>3, ForkGrows DEF SameTurns
    <3>5. PICK c \in Procs :
            /\ c = forks + 1 /\ forks' = c
            /\ \A p \in Procs : p # c => proc'[p] = proc[p]
            /\ \A y \in DOMAIN agents' : y \notin DOMAIN agents => agents'[y] = c
      BY <1>1, <2>1, <3>3, ForkGrows
    <3>6. \A p \in Procs : p > c => p > forks /\ p # c
      BY <1>3, <3>5 DEF Procs
    <3>7. \A p \in latest.told : p # c /\ p <= c /\ p \in Procs
      BY <1>1, <1>3, <3>5 DEF Unforked, Procs
    <3>8. Unforked'
      BY <1>1, <1>2, <2>6, <3>5, <3>6, <3>7 DEF Unforked
    <3>9. Numbered' /\ Enqueued'
      BY <1>1, <3>4, SameNumbers
    <3>10. \A p \in latest.told : Live(p)' => Live(p)
      BY <3>5, <3>7 DEF Live
    <3>11. c > forks
      BY <1>3, <3>5
    <3>12. inbox'[c] = <<>> /\ outbox'[c] = <<>>
      BY <2>6, <3>11
    <3>13. \A y \in DOMAIN agents' : y \notin DOMAIN agents =>
             \A s \in Reqs : ~InLine(outbox'[agents'[y]], inbox'[agents'[y]], s)
      BY <3>5, <3>12 DEF InLine, Answers
    <3>14. Dials'
      BY <1>1, <1>2, <2>4, <3>4, <3>10, <3>13, Still
    <3>15. QED
      BY <3>8, <3>9, <3>14 DEF DialPart
  <2>9. QED
    BY <1>7, <2>7, <2>8 DEF SpawnNext
<1>8. QED
  BY <1>6, <1>7 DEF ReadyMessage

LEMMA ExitEventDials ==
  ASSUME DialInvariant, Inv', ~crashed, NEW x \in Procs, ExitEvent(x)
  PROVE  DialPart'
<1>1. TypeOK /\ TypeOK' /\ Numbered /\ Enqueued /\ Unforked /\ Dials
  BY DEF DialInvariant, Inv
<1>2. UNCHANGED <<forks, inbox, outbox, dial, pending, latest, crashed>>
  BY DEF ExitEvent
<1>3. \A s \in Reqs : req'[s] = req[s] \/ (req'[s] = Idle /\ ~Turning(s))
  BY Kinds DEF ExitEvent, AwaitsReady
<1>4. SameTurns
  BY <1>2, <1>3, SpareTurns DEF SameTurns
<1>5. Numbered' /\ Enqueued'
  BY <1>1, <1>4, SameNumbers
<1>6. proc[x].state = "exited" /\ proc'[x].state = "gone"
      /\ \A p \in Procs : p # x => proc'[p] = proc[p]
  BY <1>1 DEF ExitEvent, Dead, TypeOK
<1>7. \A p \in Procs : p > forks => p # x
  BY <1>1, <1>6 DEF Unforked
<1>8. Unforked'
  BY <1>1, <1>2, <1>6, <1>7 DEF Unforked
<1>9. \A p \in Procs : Live(p)' => Live(p)
  BY <1>6 DEF Live
<1>10. CASE \E r \in Reqs : Turning(r)
  <2>1. Dials'
    BY <1>10 DEF ExitEvent, Dials
  <2>2. QED
    BY <1>5, <1>8, <2>1 DEF DialPart
<1>11. CASE ~\E r \in Reqs : Turning(r)
  <2>1. \A r \in Reqs : ~Turning(r) /\ ~Turning(r)'
    BY <1>4, <1>11 DEF SameTurns
  <2>2. torn' = torn
    BY <1>1, <1>11 DEF ExitEvent, TypeOK
  <2>3. \A p \in latest.told : Live(p)' => Live(p) /\ UNCHANGED <<inbox[p], dial[p]>>
    BY <1>1, <1>2, <1>9 DEF TypeOK
  <2>4. Dials'
    BY <1>1, <1>2, <2>1, <2>2, <2>3, Nobody
  <2>5. QED
    BY <1>5, <1>8, <2>4 DEF DialPart
<1>12. QED
  BY <1>10, <1>11

-----------------------------------------------------------------------------
(* A request goes on to the next child, or ends. *)

LEMMA RestIsTail ==
  ASSUME NEW todo \in Seq(Ids), todo # <<>>
  PROVE  SubSeq(todo, 2, Len(todo)) = Tail(todo) /\ Tail(todo) \in Seq(Ids)
         /\ Len(Tail(todo)) = Len(todo) - 1 /\ Len(todo) \in Nat \ {0}
         /\ \A n \in 1 .. Len(todo) - 1 : Tail(todo)[n] = todo[n + 1]
  OBVIOUS

\* While no child leaves the map, the next id is that of the next child.
LEMMA Onward ==
  ASSUME TypeOK, OneEach, NEW r \in Reqs, NEW v \in Values, NEW todo \in Seq(Ids), NEW waiting,
         NEW k \in Nat, Follows(todo, k), Turn(r, v, todo, waiting), ~crashed'
  PROVE  \/ todo = <<>> /\ Ends(r, waiting)
         \/ /\ todo # <<>> /\ k + 1 \in DOMAIN agents
            /\ Sends(r, v, waiting, agents[k + 1], Tail(todo))
<1>1. PICK n : n = SelectInSeq(todo, InMap)
  OBVIOUS
<1>2. /\ n \in 0 .. Len(todo) /\ Len(todo) \in Nat
      /\ \A m \in 1 .. Len(todo) : (n = 0 \/ m < n) => ~InMap(todo[m])
  <2>1. Len(todo) \in Nat
    OBVIOUS
  <2>2. QED
    BY <1>1, <2>1, NextThere
<1>3. CASE todo = <<>>
  BY <1>1, <1>2, <1>3 DEF Turn, Ends
<1>4. CASE todo # <<>>
  <2>1. 1 \in 1 .. Len(todo)
    BY <1>2, <1>4
  <2>a. DOMAIN agents = 1 .. Len(agents) /\ Len(agents) \in Nat
    BY DEF TypeOK
  <2>2. k + 1 \in DOMAIN agents /\ todo[1] = proc[agents[k + 1]].id
    BY <1>2, <2>a, <2>1 DEF Follows
  <2>3. agents[k + 1] \in Children
    BY <2>2, ChildAt
  <2>4. InMap(todo[1]) /\ ChildOf(todo[1]) = agents[k + 1]
    BY <2>2, <2>3, ChildOfUnique
  <2>5. n = 1
    BY <1>2, <2>1, <2>4
  <2>6. PICK p : p = ChildOf(todo[n])
    OBVIOUS
  <2>7. ~Dead(p)
    BY <1>1, <2>5, <2>6 DEF Turn
  <2>8. /\ req' = [req EXCEPT ![r] = [kind |-> "dial", proc |-> p,
                                      todo |-> SubSeq(todo, n + 1, Len(todo)), value |-> v]]
        /\ inbox' = [inbox EXCEPT ![p] = Append(@, [type |-> "cmd", req |-> r, value |-> v])]
        /\ pending' = Append(waiting, r)
        /\ UNCHANGED crashed
    BY <1>1, <2>5, <2>6, <2>7 DEF Turn
  <2>9. SubSeq(todo, n + 1, Len(todo)) = Tail(todo) /\ p = agents[k + 1]
    BY <1>4, <2>4, <2>5, <2>6, RestIsTail
  <2>10. QED
    BY <1>4, <2>2, <2>8, <2>9 DEF Sends
<1>5. QED
  BY <1>3, <1>4

\* A request r that has sent v to the kth child and has todo left, or is about to begin,
\* and the requests besides.
Besides(r, k, v, todo) ==
  /\ \A s \in Reqs \ {r} : Turning(s) => Sound(s) /\ req[s].value # v
  /\ \A s, t \in Reqs \ {r} : Earlier(s, t) => Ranked(s, t)
  /\ \A s \in Reqs \ {r} : \A l \in DOMAIN agents : Turning(s) /\ Stands(s, l) =>
       /\ req[s].value < v => k <= l /\ l + Len(req[s].todo) <= k + Len(todo)
       /\ v < req[s].value => l <= k /\ k + Len(todo) <= l + Len(req[s].todo)

\* What the agents have been told by it when it is the latest, and by the latest when
\* it is not.
Reached(r, k, v, todo) ==
  \/ /\ v = latest'.value
     /\ \A p \in latest'.told : \E x \in 1 .. k + Len(todo) : p = agents[x]
     /\ \A x \in 1 .. k : Told(agents[x], v)
  \/ /\ v < latest.value /\ UNCHANGED latest
     /\ Turning(r) /\ req[r].todo = todo /\ req[r].value = v
     /\ Informing /\ Informed

\* Of the outboxes only a result of the request's own is taken.
OthersWait(r) ==
  \A p \in Procs : Alike(outbox[p], inbox[p], dial[p], outbox'[p], inbox[p], dial[p], Reqs \ {r})

LEMMA SendsBoxes ==
  ASSUME TypeOK, TypeOK', NEW r \in Reqs, NEW v \in Values, NEW waiting, NEW q \in Procs, NEW rest,
         Sends(r, v, waiting, q, rest), OthersWait(r), UNCHANGED dial, ~Lines(q, r)
  PROVE  /\ \A p \in Procs, s \in Reqs \ {r} :
              InLine(outbox'[p], inbox'[p], s) <=> InLine(outbox[p], inbox[p], s)
         /\ \A p \in Procs, s, t \in Reqs \ {r} : Precedes(outbox[p], inbox[p], s, t)
              => Precedes(outbox'[p], inbox'[p], s, t)
         /\ \A p \in Procs : p # q => inbox'[p] = inbox[p]
         /\ \A p \in Procs : p # q => (InLine(outbox'[p], inbox'[p], r) => Lines(p, r))
         /\ InLine(outbox'[q], inbox'[q], r)
         /\ Tells(inbox'[q], dial'[q], v)
         /\ \A s \in Reqs \ {r} : Lines(q, s) => Precedes(outbox'[q], inbox'[q], s, r)
<1>1. PICK m : m = [type |-> "cmd", req |-> r, value |-> v]
  OBVIOUS
<1>2. inbox' = [inbox EXCEPT ![q] = Append(@, m)]
  BY <1>1 DEF Sends
<1>3. inbox'[q] = Append(inbox[q], m) /\ \A p \in Procs : p # q => inbox'[p] = inbox[p]
  BY <1>2 DEF TypeOK
<1>4. outbox'[q] \in Outbox /\ inbox[q] \in Inbox
  BY Boxes DEF TypeOK, Outbox, Inbox
<1>5. /\ InLine(outbox'[q], inbox'[q], r)
      /\ Tells(inbox'[q], dial'[q], v)
      /\ \A s \in Reqs \ {r} : InLine(outbox'[q], inbox'[q], s) <=> InLine(outbox'[q], inbox[q], s)
      /\ \A s \in Reqs, t \in Reqs \ {r} :
           Precedes(outbox'[q], inbox[q], s, t) => Precedes(outbox'[q], inbox'[q], s, t)
      /\ \A s \in Reqs : InLine(outbox'[q], inbox[q], s) /\ ~InLine(outbox'[q], inbox[q], r)
                          => Precedes(outbox'[q], inbox'[q], s, r)
  <2>1. PICK out, in, d, new : out = outbox'[q] /\ in = inbox[q] /\ d = dial'[q] /\ new = Append(in, m)
    OBVIOUS
  <2>2. out \in Outbox /\ in \in Inbox /\ new = inbox'[q]
    BY <1>3, <1>4, <2>1
  <2>3. /\ InLine(out, new, r) /\ Tells(new, d, v)
        /\ \A s \in Reqs \ {r} : InLine(out, new, s) <=> InLine(out, in, s)
        /\ \A s \in Reqs, t \in Reqs \ {r} : Precedes(out, in, s, t) => Precedes(out, new, s, t)
        /\ \A s \in Reqs : InLine(out, in, s) /\ ~InLine(out, in, r) => Precedes(out, new, s, r)
    BY <1>1, <2>1, <2>2, SentTo
  <2>4. QED
    BY <2>1, <2>2, <2>3
<1>6. \A p \in Procs, s \in Reqs \ {r} : InLine(outbox'[p], inbox[p], s) <=> InLine(outbox[p], inbox[p], s)
  BY DEF OthersWait, Alike
<1>7. \A p \in Procs : InLine(outbox'[p], inbox[p], r) => InLine(outbox[p], inbox[p], r)
  BY DEF OthersWait, Alike
<1>8. \A p \in Procs, s, t \in Reqs \ {r} :
        Precedes(outbox[p], inbox[p], s, t) => Precedes(outbox'[p], inbox[p], s, t)
  BY DEF OthersWait, Alike
<1>9. \A p \in Procs, s \in Reqs \ {r} :
        InLine(outbox'[p], inbox'[p], s) <=> InLine(outbox[p], inbox[p], s)
  BY <1>3, <1>5, <1>6
<1>10. \A p \in Procs, s, t \in Reqs \ {r} : Precedes(outbox[p], inbox[p], s, t)
         => Precedes(outbox'[p], inbox'[p], s, t)
  BY <1>3, <1>5, <1>8
<1>11. \A p \in Procs : p # q => (InLine(outbox'[p], inbox'[p], r) => Lines(p, r))
  BY <1>3, <1>7 DEF Lines
<1>12. \A s \in Reqs \ {r} : Lines(q, s) => Precedes(outbox'[q], inbox'[q], s, r)
  BY <1>5, <1>6, <1>7 DEF Lines
<1>13. QED
  BY <1>3, <1>5, <1>9, <1>10, <1>11, <1>12

\* No other request's record, and no child's place, changes in a turn of r.
LEMMA OthersStand ==
  ASSUME TypeOK, NEW r \in Reqs, \A s \in Reqs : s # r => req'[s] = req[s],
         UNCHANGED <<agents, proc>>
  PROVE  \A s \in Reqs \ {r} : /\ Turning(s)' <=> Turning(s)
                              /\ \A l : Stands(s, l)' <=> Stands(s, l)
  BY DEF Turning, Stands, Follows

LEMMA GoesOn ==
  ASSUME TypeOK, TypeOK', OneEach, Numbered',
         NEW r \in Reqs, NEW v \in Values, NEW todo \in Seq(Ids), NEW waiting \in Seq(Reqs),
         NEW k \in Nat, todo # <<>>, Follows(todo, k), k + 1 \in DOMAIN agents,
         Sends(r, v, waiting, agents[k + 1], Tail(todo)), UNCHANGED <<agents, proc, dial>>,
         Besides(r, k, v, todo), Reached(r, k, v, todo), OthersWait(r),
         Trimmed(pending, waiting, r),
         \A x \in DOMAIN agents : k < x => ~Lines(agents[x], r),
         \A s \in Reqs \ {r} : \A l \in DOMAIN agents :
           Turning(s) /\ Stands(s, l) /\ req[s].value < v => k # l
  PROVE  AllSound' /\ AllRanked' /\ Informing' /\ Informed'
<1>1. PICK q : q = agents[k + 1]
  OBVIOUS
<1>2. q \in Procs
  BY <1>1, ChildAt
<1>3. /\ agents \in Seq(Procs) /\ DOMAIN agents = 1 .. Len(agents) /\ Len(agents) \in Nat
      /\ \A x \in DOMAIN agents : agents[x] \in Procs /\ (agents[x] = q => x = k + 1)
  <2>0. agents \in Seq(Procs)
    BY DEF TypeOK
  <2>1. /\ agents \in Seq(Procs) /\ DOMAIN agents = 1 .. Len(agents) /\ Len(agents) \in Nat
        /\ \A x \in DOMAIN agents : agents[x] \in Procs
    BY <2>0
  <2>2. \A x \in DOMAIN agents : agents[x] = q => x = k + 1
    BY <1>1 DEF OneEach
  <2>3. QED
    BY <2>1, <2>2
<1>4. PICK rest \in Seq(Ids) : rest = Tail(todo)
  BY RestIsTail
<1>5. /\ Len(rest) = Len(todo) - 1 /\ Len(todo) \in Nat \ {0}
      /\ \A n \in 1 .. Len(todo) - 1 : rest[n] = todo[n + 1]
  BY <1>4, RestIsTail
<1>6. /\ req' = [req EXCEPT ![r] = [kind |-> "dial", proc |-> q, todo |-> rest, value |-> v]]
      /\ pending' = Append(waiting, r)
      /\ Sends(r, v, waiting, q, rest)
  BY <1>1, <1>4 DEF Sends
<1>7. /\ req'[r].kind = "dial" /\ req'[r].proc = q /\ req'[r].todo = rest /\ req'[r].value = v
      /\ \A s \in Reqs : s # r => req'[s] = req[s]
  BY <1>6 DEF TypeOK
<1>8. \A s \in Reqs \ {r} : /\ Turning(s)' <=> Turning(s)
                           /\ \A l : Stands(s, l)' <=> Stands(s, l)
  BY <1>7, OthersStand
<1>9. Turning(r)'
  BY <1>7 DEF Turning
<1>10. Stands(r, k + 1)'
  <2>1. k + 1 + Len(rest) <= Len(agents)
    BY <1>3, <1>5 DEF Follows
  <2>2. ASSUME NEW n \in 1 .. Len(rest) PROVE rest[n] = proc[agents[k + 1 + n]].id
    <3>1. n + 1 \in 1 .. Len(todo) /\ k + (n + 1) = k + 1 + n /\ rest[n] = todo[n + 1]
      BY <1>5
    <3>2. QED
      BY <3>1 DEF Follows
  <2>3. QED
    BY <1>1, <1>7, <2>1, <2>2 DEF Stands, Follows
<1>11. \A l \in DOMAIN agents : Stands(r, l)' => l = k + 1
  BY <1>3, <1>7 DEF Stands
<1>12. ~Lines(q, r)
  BY <1>1
<1>13. /\ \A p \in Procs, s \in Reqs \ {r} :
            InLine(outbox'[p], inbox'[p], s) <=> InLine(outbox[p], inbox[p], s)
       /\ \A p \in Procs, s, t \in Reqs \ {r} : Precedes(outbox[p], inbox[p], s, t)
            => Precedes(outbox'[p], inbox'[p], s, t)
       /\ \A p \in Procs : p # q => inbox'[p] = inbox[p]
       /\ \A p \in Procs : p # q => (InLine(outbox'[p], inbox'[p], r) => Lines(p, r))
       /\ InLine(outbox'[q], inbox'[q], r)
       /\ Tells(inbox'[q], dial'[q], v)
       /\ \A s \in Reqs \ {r} : Lines(q, s) => Precedes(outbox'[q], inbox'[q], s, r)
  BY <1>2, <1>6, <1>12, SendsBoxes
<1>14. /\ \A s \in Reqs \ {r} : InOrder(pending', s, r)
       /\ \A s, t \in Reqs \ {r} : InOrder(pending, s, t) => InOrder(pending', s, t)
  <2>1. \A n \in DOMAIN waiting : waiting[n] # r
    BY DEF Trimmed
  <2>2. /\ \A s \in Reqs \ {r} : InOrder(pending', s, r)
        /\ \A s, t \in Reqs \ {r} : InOrder(waiting, s, t) => InOrder(pending', s, t)
    BY <1>6, <2>1, AppendWaits
  <2>3. QED
    BY <2>2 DEF Trimmed
<1>15. AllSound'
  <2> SUFFICES ASSUME NEW s \in Reqs, Turning(s)' PROVE Sound(s)'
    BY DEF AllSound
  <2>1. CASE s = r
    <3>1. \E l \in DOMAIN agents' : Stands(s, l)'
      BY <1>10, <2>1
    <3>2. InLine(outbox'[req'[s].proc], inbox'[req'[s].proc], s)
      BY <1>7, <1>13, <2>1
    <3>3. ASSUME NEW l \in DOMAIN agents, NEW x \in DOMAIN agents, Stands(s, l)', l < x
          PROVE  ~InLine(outbox'[agents'[x]], inbox'[agents'[x]], s)
      <4>1. l = k + 1 /\ k < x /\ x # k + 1
        BY <1>3, <1>11, <2>1, <3>3
      <4>2. agents[x] # q /\ agents[x] \in Procs /\ ~Lines(agents[x], r)
        BY <1>3, <4>1
      <4>3. QED
        BY <1>13, <2>1, <4>2
    <3>4. QED
      BY <3>1, <3>2, <3>3 DEF Sound, Lines
  <2>2. CASE s # r
    <3>1. Sound(s) /\ Turning(s) /\ req'[s] = req[s]
      BY <1>7, <1>8, <2>2 DEF Besides
    <3>2. \E l \in DOMAIN agents' : Stands(s, l)'
      BY <1>8, <2>2, <3>1 DEF Sound
    <3>3. req[s].proc \in Procs
      BY <1>3, <3>1 DEF Sound, Stands
    <3>4. InLine(outbox'[req'[s].proc], inbox'[req'[s].proc], s)
      BY <1>13, <2>2, <3>1, <3>3 DEF Sound, Lines
    <3>5. ASSUME NEW l \in DOMAIN agents, NEW x \in DOMAIN agents, Stands(s, l)', l < x
          PROVE  ~InLine(outbox'[agents'[x]], inbox'[agents'[x]], s)
      BY <1>3, <1>8, <1>13, <2>2, <3>1, <3>5 DEF Sound, Lines
    <3>6. QED
      BY <3>2, <3>4, <3>5 DEF Sound, Lines
  <2>3. QED
    BY <2>1, <2>2
<1>16. AllRanked'
  <2> SUFFICES ASSUME NEW s \in Reqs, NEW t \in Reqs, Earlier(s, t)',
                      NEW l \in DOMAIN agents, NEW m \in DOMAIN agents, Stands(s, l)', Stands(t, m)'
               PROVE  /\ m <= l /\ l + Len(req'[s].todo) <= m + Len(req'[t].todo)
                      /\ l = m => /\ InOrder(pending', s, t)
                                  /\ Precedes(outbox'[agents[l]], inbox'[agents[l]], s, t)
    BY DEF AllRanked, Ranked
  <2>0. /\ Turning(s)' /\ Turning(t)' /\ req'[s].value < req'[t].value
        /\ l \in Nat /\ m \in Nat
    BY <1>3 DEF Earlier
  <2>a. s # t
    <3>1. req'[s].value \in Values
      BY DEF TypeOK, Request
    <3>2. ~(req'[s].value < req'[s].value)
      BY <3>1 DEF Values
    <3>3. QED
      BY <2>0, <3>2
  <2>b. \A u \in Reqs : Len(req[u].todo) \in Nat
    <3>1. \A u \in Reqs : req[u].todo \in Seq(Ids)
      BY DEF TypeOK, Request
    <3>2. QED
      BY <3>1
  <2>1. CASE s # r /\ t # r
    <3>1. Stands(s, l) /\ Stands(t, m) /\ Earlier(s, t) /\ req'[s] = req[s] /\ req'[t] = req[t]
      BY <1>7, <1>8, <2>0, <2>1 DEF Earlier
    <3>2. Ranked(s, t)
      BY <2>1, <3>1 DEF Besides
    <3>3. QED
      BY <1>3, <1>13, <1>14, <2>1, <3>1, <3>2 DEF Ranked
  <2>2. CASE s = r
    <3>1. l = k + 1 /\ t # r /\ Turning(t) /\ Stands(t, m) /\ v < req[t].value
      BY <1>7, <1>8, <1>11, <2>0, <2>2, <2>a
    <3>2. m <= k /\ k + Len(todo) <= m + Len(req[t].todo)
      BY <3>1 DEF Besides
    <3>3. req'[s].todo = rest /\ req'[t].todo = req[t].todo /\ Len(req[t].todo) \in Nat
      BY <1>7, <2>2, <2>b, <3>1
    <3>4. /\ m <= l /\ l # m
          /\ l + Len(rest) <= m + Len(req[t].todo)
      <4>1. Len(rest) = Len(todo) - 1 /\ Len(todo) \in Nat
        BY <1>5
      <4>2. l = k + 1
        BY <3>1
      <4>3. QED
        BY <2>0, <3>2, <3>3, <4>1, <4>2
    <3>5. QED
      BY <3>3, <3>4
  <2>3. CASE t = r
    <3>1. m = k + 1 /\ s # r /\ Turning(s) /\ Stands(s, l) /\ req[s].value < v
      BY <1>7, <1>8, <1>11, <2>0, <2>3, <2>a
    <3>2. k <= l /\ l + Len(req[s].todo) <= k + Len(todo) /\ k # l
      BY <3>1 DEF Besides
    <3>a. req'[s].todo = req[s].todo /\ req'[t].todo = rest /\ Len(req[s].todo) \in Nat
      BY <1>7, <2>3, <2>b, <3>1
    <3>b. m <= l /\ l + Len(req[s].todo) <= m + Len(rest)
      BY <1>5, <2>0, <3>1, <3>2, <3>a
    <3>3. m <= l /\ l + Len(req'[s].todo) <= m + Len(req'[t].todo)
      BY <3>a, <3>b
    <3>4. InOrder(pending', s, t)
      BY <1>14, <2>3, <3>1
    <3>5. ASSUME l = m PROVE Precedes(outbox'[agents[l]], inbox'[agents[l]], s, t)
      <4>1. agents[l] = q
        BY <1>1, <3>1, <3>5
      <4>2. Sound(s) /\ req[s].proc = q
        BY <3>1, <4>1 DEF Besides, Stands
      <4>3. Lines(q, s)
        BY <4>2 DEF Sound
      <4>4. QED
        BY <1>13, <2>3, <3>1, <4>1, <4>3
    <3>6. QED
      BY <3>3, <3>4, <3>5
  <2>4. QED
    BY <2>1, <2>2, <2>3
<1>17. v \in Nat /\ latest.value \in Nat
  BY DEF TypeOK, Values
<1>18. Informing'
  <2> SUFFICES ASSUME NEW s \in Reqs, NEW l \in DOMAIN agents, Latest(s)', Stands(s, l)'
               PROVE  /\ \A p \in latest'.told : \E x \in 1 .. l + Len(req'[s].todo) : p = agents[x]
                      /\ \A x \in 1 .. l : Tells(inbox'[agents[x]], dial'[agents[x]], latest'.value)
    BY DEF Informing, Told
  <2>0. l \in Nat /\ \A x \in 1 .. l : x \in DOMAIN agents
    BY <1>3
  <2>1. CASE /\ v = latest'.value
             /\ \A p \in latest'.told : \E x \in 1 .. k + Len(todo) : p = agents[x]
             /\ \A x \in 1 .. k : Told(agents[x], v)
    <3>1. s = r
      BY <1>7, <1>9, <2>1 DEF Latest, Numbered
    <3>a. l = k + 1 /\ req'[s].todo = rest
      BY <1>7, <1>11, <3>1
    <3>b. k + 1 + Len(rest) = k + Len(todo)
      BY <1>5
    <3>2. l = k + 1 /\ l + Len(req'[s].todo) = k + Len(todo)
      BY <3>a, <3>b
    <3>3. ASSUME NEW x \in 1 .. l PROVE Tells(inbox'[agents[x]], dial'[agents[x]], v)
      <4>1. CASE x = l
        BY <1>1, <1>13, <3>2, <4>1
      <4>2. CASE x # l
        <5>1. x \in 1 .. k /\ x # k + 1
          BY <2>0, <3>2, <4>2
        <5>2. agents[x] # q /\ agents[x] \in Procs /\ Told(agents[x], v)
          BY <1>3, <2>0, <2>1, <5>1
        <5>3. QED
          BY <1>13, <5>2 DEF Told
      <4>3. QED
        BY <4>1, <4>2
    <3>4. QED
      BY <2>1, <3>2, <3>3
  <2>2. CASE v < latest.value /\ UNCHANGED latest /\ Informing
    <3>1. s # r
      BY <1>7, <1>17, <2>2 DEF Latest
    <3>2. Latest(s) /\ Stands(s, l) /\ req'[s] = req[s] /\ Turning(s)
      BY <1>7, <1>8, <2>2, <3>1 DEF Latest
    <3>3. l <= k
      BY <2>2, <3>1, <3>2 DEF Besides, Latest
    <3>4. /\ \A p \in latest.told : \E x \in 1 .. l + Len(req[s].todo) : p = agents[x]
          /\ \A x \in 1 .. l : Told(agents[x], latest.value)
      BY <2>2, <3>2 DEF Informing
    <3>5. \A x \in 1 .. l : agents[x] # q /\ agents[x] \in Procs
      BY <1>3, <2>0, <3>3
    <3>6. \A x \in 1 .. l : Tells(inbox'[agents[x]], dial'[agents[x]], latest.value)
      BY <1>13, <3>4, <3>5 DEF Told
    <3>7. QED
      BY <2>2, <3>2, <3>4, <3>6
  <2>3. QED
    BY <2>1, <2>2 DEF Reached
<1>19. \E s \in Reqs : Latest(s)'
  <2>1. CASE v = latest'.value
    BY <1>7, <1>9, <2>1 DEF Latest
  <2>2. CASE /\ v < latest.value /\ UNCHANGED latest
             /\ Turning(r) /\ req[r].todo = todo /\ req[r].value = v /\ Informed
    <3>1. ~Latest(r)
      BY <1>17, <2>2 DEF Latest
    <3>2. PICK s \in Reqs : Latest(s)
      BY <2>2 DEF Informed
    <3>3. s # r /\ req'[s] = req[s] /\ Turning(s)'
      BY <1>7, <1>8, <3>1, <3>2 DEF Latest
    <3>4. QED
      BY <2>2, <3>2, <3>3 DEF Latest
  <2>3. QED
    BY <2>1, <2>2 DEF Reached
<1>20. Informed'
  BY <1>19 DEF Informed
<1>21. QED
  BY <1>15, <1>16, <1>18, <1>20

LEMMA ComesToEnd ==
  ASSUME TypeOK, TypeOK', Numbered',
         NEW r \in Reqs, NEW v \in Values, NEW todo \in Seq(Ids), NEW waiting, NEW k \in Nat,
         todo = <<>>, Follows(todo, k), Ends(r, waiting), UNCHANGED <<agents, proc, dial>>,
         Besides(r, k, v, todo), Reached(r, k, v, todo), OthersWait(r),
         Trimmed(pending, waiting, r)
  PROVE  AllSound' /\ AllRanked' /\ Informing' /\ Informed'
<1>1. /\ req' = [req EXCEPT ![r] = Idle] /\ pending' = waiting /\ UNCHANGED inbox
  BY DEF Ends
<1>2. ~Turning(r)' /\ \A s \in Reqs : s # r => req'[s] = req[s]
  BY <1>1 DEF TypeOK, Turning, Idle
<1>3. \A s \in Reqs \ {r} : /\ Turning(s)' <=> Turning(s)
                           /\ \A l : Stands(s, l)' <=> Stands(s, l)
  BY <1>2, OthersStand
<1>4. /\ agents \in Seq(Procs)
      /\ \A s \in Reqs : req[s].todo \in Seq(Ids)
  BY DEF TypeOK, Request
<1>5. /\ DOMAIN agents = 1 .. Len(agents) /\ Len(agents) \in Nat
      /\ \A x \in DOMAIN agents : agents[x] \in Procs
      /\ \A s \in Reqs : Len(req[s].todo) \in Nat /\ (Len(req[s].todo) = 0 => req[s].todo = <<>>)
      /\ Len(todo) = 0
  BY <1>4
<1>6. /\ \A p \in Procs, s \in Reqs \ {r} :
           InLine(outbox'[p], inbox'[p], s) <=> InLine(outbox[p], inbox[p], s)
      /\ \A p \in Procs, s, t \in Reqs \ {r} : Precedes(outbox[p], inbox[p], s, t)
           => Precedes(outbox'[p], inbox'[p], s, t)
      /\ \A p, u : Tells(inbox'[p], dial'[p], u) <=> Told(p, u)
  BY <1>1 DEF OthersWait, Alike, Told
<1>7. ASSUME NEW s \in Reqs, Turning(s)' PROVE Sound(s)'
  <2>1. s # r /\ Turning(s) /\ Sound(s) /\ req'[s] = req[s]
    BY <1>2, <1>3, <1>7 DEF Besides
  <2>2. \E l \in DOMAIN agents' : Stands(s, l)'
    BY <1>3, <2>1 DEF Sound
  <2>3. req[s].proc \in Procs
    BY <1>5, <2>1 DEF Sound, Stands
  <2>4. InLine(outbox'[req'[s].proc], inbox'[req'[s].proc], s)
    BY <1>6, <2>1, <2>3 DEF Sound, Lines
  <2>5. ASSUME NEW l \in DOMAIN agents, NEW x \in DOMAIN agents, Stands(s, l)', l < x
        PROVE  ~InLine(outbox'[agents'[x]], inbox'[agents'[x]], s)
    BY <1>3, <1>5, <1>6, <2>1, <2>5 DEF Sound, Lines
  <2>6. QED
    BY <2>2, <2>4, <2>5 DEF Sound, Lines
<1>8. AllRanked'
  <2> SUFFICES ASSUME NEW s \in Reqs, NEW t \in Reqs, Earlier(s, t)',
                      NEW l \in DOMAIN agents, NEW m \in DOMAIN agents, Stands(s, l)', Stands(t, m)'
               PROVE  /\ m <= l /\ l + Len(req'[s].todo) <= m + Len(req'[t].todo)
                      /\ l = m => /\ InOrder(pending', s, t)
                                  /\ Precedes(outbox'[agents[l]], inbox'[agents[l]], s, t)
    BY DEF AllRanked, Ranked
  <2>1. s # r /\ t # r /\ req'[s] = req[s] /\ req'[t] = req[t] /\ Earlier(s, t)
    BY <1>2, <1>3 DEF Earlier
  <2>2. Stands(s, l) /\ Stands(t, m) /\ Ranked(s, t)
    BY <1>3, <2>1 DEF Besides
  <2>3. QED
    BY <1>1, <1>5, <1>6, <2>1, <2>2 DEF Ranked, Trimmed
<1>9. v \in Nat /\ latest.value \in Nat /\ latest'.value \in Nat
      /\ \A s \in Reqs : req[s].value \in Nat
  BY DEF TypeOK, Request, Values
<1>10. Informing'
  <2> SUFFICES ASSUME NEW s \in Reqs, NEW l \in DOMAIN agents, Latest(s)', Stands(s, l)'
               PROVE  /\ \A p \in latest'.told : \E x \in 1 .. l + Len(req'[s].todo) : p = agents[x]
                      /\ \A x \in 1 .. l : Tells(inbox'[agents[x]], dial'[agents[x]], latest'.value)
    BY DEF Informing, Told
  <2>1. s # r /\ Turning(s) /\ req'[s] = req[s] /\ Stands(s, l) /\ req[s].value = latest'.value
    BY <1>2, <1>3 DEF Latest
  <2>2. v # latest'.value
    BY <2>1 DEF Besides
  <2>3. UNCHANGED latest /\ Informing
    BY <2>2 DEF Reached
  <2>4. /\ \A p \in latest.told : \E x \in 1 .. l + Len(req[s].todo) : p = agents[x]
        /\ \A x \in 1 .. l : Told(agents[x], latest.value)
    BY <2>1, <2>3 DEF Informing, Latest
  <2>5. QED
    BY <1>6, <2>1, <2>3, <2>4
<1>11. Informed'
  <2> SUFFICES ASSUME \A s \in Reqs : ~Latest(s)'
               PROVE  /\ \A s \in Reqs : Turning(s)' => req'[s].todo = <<>>
                      /\ \A p \in latest'.told : Live(p)' => Tells(inbox'[p], dial'[p], latest'.value)
    BY DEF Informed, Told
  <2>1. CASE /\ v = latest'.value
             /\ \A p \in latest'.told : \E x \in 1 .. k + Len(todo) : p = agents[x]
             /\ \A x \in 1 .. k : Told(agents[x], v)
    <3>1. ASSUME NEW s \in Reqs, Turning(s)' PROVE req'[s].todo = <<>>
      <4>1. s # r /\ Turning(s) /\ req'[s] = req[s]
        BY <1>2, <1>3, <3>1
      <4>2. req[s].value < v
        BY <1>9, <2>1, <3>1, <4>1 DEF Numbered, Besides
      <4>3. PICK l \in DOMAIN agents : Stands(s, l)
        BY <4>1 DEF Besides, Sound
      <4>4. k <= l /\ l + Len(req[s].todo) <= k + Len(todo)
        BY <4>1, <4>2, <4>3 DEF Besides
      <4>5. Len(req[s].todo) = 0
        BY <1>5, <4>4
      <4>6. QED
        BY <1>5, <4>1, <4>5
    <3>2. k + Len(todo) = k
      BY <1>5
    <3>3. \A p \in latest'.told : Told(p, v)
      BY <2>1, <3>2
    <3>4. QED
      BY <1>6, <2>1, <3>1, <3>3
  <2>2. CASE /\ v < latest.value /\ UNCHANGED latest
             /\ Turning(r) /\ req[r].value = v /\ Informed
    <3>1. ~Latest(r)
      BY <1>9, <2>2 DEF Latest
    <3>2. \A s \in Reqs : ~Latest(s)
      BY <1>2, <1>3, <2>2, <3>1 DEF Latest
    <3>3. /\ \A s \in Reqs : Turning(s) => req[s].todo = <<>>
          /\ \A p \in latest.told : Live(p) => Told(p, latest.value)
      BY <2>2, <3>2 DEF Informed
    <3>4. \A p : Live(p)' <=> Live(p)
      BY DEF Live
    <3>5. QED
      BY <1>2, <1>3, <1>6, <2>2, <3>3, <3>4
  <2>3. QED
    BY <2>1, <2>2 DEF Reached
<1>12. AllSound'
  BY <1>7 DEF AllSound
<1>13. QED
  BY <1>8, <1>10, <1>11, <1>12

LEMMA TurnDials ==
  ASSUME TypeOK, TypeOK', OneEach, Numbered',
         NEW r \in Reqs, NEW v \in Values, NEW todo \in Seq(Ids), NEW waiting \in Seq(Reqs),
         NEW k \in Nat, Follows(todo, k), Turn(r, v, todo, waiting),
         UNCHANGED <<agents, proc, dial>>,
         Besides(r, k, v, todo), Reached(r, k, v, todo), OthersWait(r),
         Trimmed(pending, waiting, r),
         \A x \in DOMAIN agents : k < x => ~Lines(agents[x], r),
         \A s \in Reqs \ {r} : \A l \in DOMAIN agents :
           Turning(s) /\ Stands(s, l) /\ req[s].value < v => k # l
  PROVE  Dials'
<1> SUFFICES ASSUME ~crashed' PROVE AllSound' /\ AllRanked' /\ Informing' /\ Informed'
  BY DEF Dials
<1>1. CASE todo = <<>> /\ Ends(r, waiting)
  BY <1>1, ComesToEnd
<1>2. CASE /\ todo # <<>> /\ k + 1 \in DOMAIN agents
           /\ Sends(r, v, waiting, agents[k + 1], Tail(todo))
  BY <1>2, GoesOn
<1>3. QED
  BY <1>1, <1>2, Onward

\* The commands that wait, the values and the messages of a turn.
LEMMA TurnWaits ==
  ASSUME TypeOK, Enqueued, NEW r \in Reqs, NEW v \in Values, NEW todo \in Seq(Ids),
         NEW waiting \in Seq(Reqs), Turn(r, v, todo, waiting), Trimmed(pending, waiting, r)
  PROVE  Enqueued'
<1>1. \A s \in Reqs \ {r} : Turning(s) => Waits(waiting, s)
  BY DEF Enqueued, Trimmed
<1>2. CASE Falls
  BY <1>2 DEF Falls, Enqueued, Turning, Waits
<1>3. CASE Ends(r, waiting)
  <2>1. ~Turning(r)' /\ pending' = waiting /\ \A s \in Reqs : s # r => req'[s] = req[s]
    BY <1>3 DEF Ends, TypeOK, Turning, Idle
  <2>2. QED
    BY <1>1, <2>1 DEF Enqueued, Turning
<1>4. ASSUME NEW p \in Children, NEW rest \in Seq(Ids), Sends(r, v, waiting, p, rest)
      PROVE  Enqueued'
  <2>1. pending' = Append(waiting, r) /\ \A s \in Reqs : s # r => req'[s] = req[s]
    BY <1>4 DEF Sends, TypeOK
  <2>2. \A n \in DOMAIN waiting : waiting[n] # r
    BY DEF Trimmed
  <2>3. Waits(pending', r) /\ \A s \in Reqs : Waits(waiting, s) => Waits(pending', s)
    BY <2>1, <2>2, AppendWaits
  <2>4. QED
    BY <1>1, <2>1, <2>3 DEF Enqueued, Turning
<1>5. QED
  BY <1>2, <1>3, <1>4, TurnCases

LEMMA TurnNumbered ==
  ASSUME TypeOK, TypeOK', Numbered, NEW r \in Reqs, NEW v \in Values, NEW todo \in Seq(Ids),
         NEW waiting, Turn(r, v, todo, waiting),
         v <= latest'.value, latest.value <= latest'.value,
         \A s \in Reqs \ {r} : Turning(s) => req[s].value # v
  PROVE  Numbered'
<1>1. /\ \A s \in Reqs : req[s].value \in Nat
      /\ latest.value \in Nat /\ latest'.value \in Nat
  <2>1. \A s \in Reqs : req[s].value \in Values
    BY TurningFields
  <2>2. latest.value \in Values /\ latest'.value \in Values
    BY DEF TypeOK
  <2>3. QED
    BY <2>1, <2>2 DEF Values
<1>2. \A s \in Reqs : Turning(s) => req[s].value <= latest'.value
  BY <1>1 DEF Numbered
<1>3. CASE Falls
  BY <1>2, <1>3 DEF Falls, Numbered, Turning
<1>4. ASSUME \A s \in Reqs : s # r => req'[s] = req[s], Turning(r)' => req'[r].value = v
      PROVE  Numbered'
  <2>1. \A s \in Reqs : s # r => (Turning(s)' <=> Turning(s))
    BY <1>4 DEF Turning
  <2>2. \A s \in Reqs : Turning(s)' => req'[s].value <= latest'.value
    BY <1>2, <1>4, <2>1
  <2>3. \A s, t \in Reqs : Turning(s)' /\ Turning(t)' /\ req'[s].value = req'[t].value => s = t
    BY <1>4, <2>1 DEF Numbered
  <2>4. QED
    BY <2>2, <2>3 DEF Numbered
<1>5. CASE Ends(r, waiting)
  <2>1. ~Turning(r)' /\ \A s \in Reqs : s # r => req'[s] = req[s]
    BY <1>5 DEF Ends, TypeOK, Turning, Idle
  <2>2. QED
    BY <1>4, <2>1
<1>6. ASSUME NEW p \in Children, NEW rest \in Seq(Ids), Sends(r, v, waiting, p, rest)
      PROVE  Numbered'
  <2>1. req'[r].value = v /\ \A s \in Reqs : s # r => req'[s] = req[s]
    BY <1>6 DEF Sends, TypeOK
  <2>2. QED
    BY <1>4, <2>1
<1>7. QED
  BY <1>3, <1>5, <1>6, TurnCases

LEMMA TurnUnforked ==
  ASSUME TypeOK, Known, Unforked, NEW r \in Reqs, NEW v \in Values, NEW todo \in Seq(Ids),
         NEW waiting, Turn(r, v, todo, waiting), UNCHANGED <<forks, proc>>,
         \A p \in Procs : outbox[p] = <<>> => outbox'[p] = <<>>,
         \A p \in latest'.told : p <= forks
  PROVE  Unforked'
<1>1. ASSUME NEW p \in Procs, p > forks PROVE inbox'[p] = inbox[p]
  <2>1. p \notin Children
    <3>1. forks \in Nat /\ p \in Nat
      BY TopologyAssumption DEF TypeOK, Procs
    <3>2. \A c \in Children : c <= forks
      BY DEF Known, Children
    <3>3. QED
      BY <1>1, <3>1, <3>2
  <2>2. CASE Falls \/ Ends(r, waiting)
    BY <2>2 DEF Falls, Ends
  <2>3. ASSUME NEW c \in Children, NEW rest \in Seq(Ids), Sends(r, v, waiting, c, rest)
        PROVE  inbox'[p] = inbox[p]
    <3>1. PICK m : inbox' = [inbox EXCEPT ![c] = Append(@, m)]
      BY <2>3 DEF Sends
    <3>2. QED
      BY <2>1, <3>1 DEF TypeOK
  <2>4. QED
    BY <2>2, <2>3, TurnCases
<1>2. QED
  BY <1>1 DEF Unforked

\* A request in the midst of its dials, seen from the place where it stands.
LEMMA Midway ==
  ASSUME TypeOK, OneEach, Numbered, Dials, ~torn, ~crashed, NEW r \in Reqs, Turning(r),
         UNCHANGED latest
  PROVE  \E k \in DOMAIN agents :
           /\ Stands(r, k)
           /\ Besides(r, k, req[r].value, req[r].todo)
           /\ Reached(r, k, req[r].value, req[r].todo)
           /\ \A x \in DOMAIN agents : k < x => ~Lines(agents[x], r)
<1>1. AllSound /\ AllRanked /\ Informing /\ Informed
  BY DEF Dials
<1>2. PICK k \in DOMAIN agents : Stands(r, k)
  BY <1>1 DEF AllSound, Sound
<1>3. \A x \in DOMAIN agents : k < x => ~Lines(agents[x], r)
  BY <1>1, <1>2 DEF AllSound, Sound
<1>4. Besides(r, k, req[r].value, req[r].todo)
  <2>1. \A s \in Reqs \ {r} : Turning(s) => Sound(s) /\ req[s].value # req[r].value
    BY <1>1 DEF AllSound, Numbered
  <2>2. \A s, t \in Reqs \ {r} : Earlier(s, t) => Ranked(s, t)
    BY <1>1 DEF AllRanked
  <2>3. ASSUME NEW s \in Reqs, NEW l \in DOMAIN agents, Turning(s), Stands(s, l)
        PROVE  /\ req[s].value < req[r].value =>
                    k <= l /\ l + Len(req[s].todo) <= k + Len(req[r].todo)
               /\ req[r].value < req[s].value =>
                    l <= k /\ k + Len(req[r].todo) <= l + Len(req[s].todo)
    BY <1>1, <1>2, <2>3 DEF AllRanked, Earlier, Ranked
  <2>4. QED
    BY <2>1, <2>2, <2>3 DEF Besides
<1>5. Reached(r, k, req[r].value, req[r].todo)
  <2>1. req[r].value \in Nat /\ latest.value \in Nat /\ req[r].value <= latest.value
    BY DEF TypeOK, Request, Values, Numbered
  <2>2. CASE req[r].value = latest.value
    <3>1. /\ \A p \in latest.told : \E x \in 1 .. k + Len(req[r].todo) : p = agents[x]
          /\ \A x \in 1 .. k : Told(agents[x], latest.value)
      BY <1>1, <1>2, <2>2 DEF Informing, Latest
    <3>2. QED
      BY <2>2, <3>1 DEF Reached
  <2>3. CASE req[r].value < latest.value
    BY <1>1, <2>3 DEF Reached
  <2>4. QED
    BY <2>1, <2>2, <2>3
<1>6. QED
  BY <1>2, <1>3, <1>4, <1>5

\* The turn of a request that is first, among the commands that wait or in the outbox of
\* the child it stands at.
LEMMA NextTurn ==
  ASSUME DialInvariant, Inv', NEW r \in Reqs, Turning(r), NEW waiting \in Seq(Reqs),
         Trimmed(pending, waiting, r), Turn(r, req[r].value, req[r].todo, waiting),
         UNCHANGED <<agents, forks, proc, dial, latest, torn>>, ~crashed,
         OthersWait(r), \A p \in Procs : outbox[p] = <<>> => outbox'[p] = <<>>,
         \A s \in Reqs : Enqueued /\ Turning(s) /\ req[s].proc = req[r].proc =>
           ~(/\ InOrder(pending, s, r)
             /\ Precedes(outbox[req[r].proc], inbox[req[r].proc], s, r))
  PROVE  DialPart'
<1>1. /\ TypeOK /\ TypeOK' /\ OneEach /\ Known
      /\ Numbered /\ Enqueued /\ Unforked /\ Dials
  BY DEF DialInvariant, Inv
<1>2. PICK v \in Values, todo \in Seq(Ids) : v = req[r].value /\ todo = req[r].todo
  BY <1>1, TurningFields
<1>3. Turn(r, v, todo, waiting)
  BY <1>2
<1>4. latest.value \in Nat /\ v <= latest.value
  BY <1>1, <1>2 DEF TypeOK, Values, Numbered
<1>5. \A s \in Reqs \ {r} : Turning(s) => req[s].value # v
  BY <1>1, <1>2 DEF Numbered
<1>6. v <= latest'.value /\ latest.value <= latest'.value
  BY <1>4
<1>7. Numbered'
  BY <1>1, <1>3, <1>5, <1>6, TurnNumbered
<1>8. Enqueued'
  BY <1>1, <1>3, TurnWaits
<1>9. Unforked'
  <2>1. \A p \in latest'.told : p <= forks
    BY <1>1 DEF Unforked
  <2>2. QED
    BY <1>1, <1>3, <2>1, TurnUnforked
<1>10. Dials'
  <2> SUFFICES ASSUME ~torn PROVE Dials'
    BY DEF Dials
  <2>1. PICK k \in DOMAIN agents :
          /\ Stands(r, k) /\ Besides(r, k, v, todo) /\ Reached(r, k, v, todo)
          /\ \A x \in DOMAIN agents : k < x => ~Lines(agents[x], r)
    BY <1>1, <1>2, Midway
  <2>2. k \in Nat /\ Follows(todo, k)
    <3>1. DOMAIN agents = 1 .. Len(agents)
      BY <1>1 DEF TypeOK
    <3>2. QED
      BY <1>2, <2>1, <3>1 DEF Stands
  <2>3. ASSUME NEW s \in Reqs \ {r}, NEW l \in DOMAIN agents, Turning(s), Stands(s, l),
               req[s].value < v
        PROVE  k # l
    <3> SUFFICES ASSUME k = l PROVE FALSE
      OBVIOUS
    <3>1. Ranked(s, r)
      BY <1>1, <1>2, <2>3 DEF Dials, AllRanked, Earlier
    <3>2. InOrder(pending, s, r) /\ Precedes(outbox[agents[k]], inbox[agents[k]], s, r)
      BY <2>1, <2>3, <3>1 DEF Ranked
    <3>3. agents[k] = req[r].proc /\ req[s].proc = req[r].proc
      BY <2>1, <2>3 DEF Stands
    <3>4. QED
      BY <1>1, <2>3, <3>2, <3>3
  <2>4. QED
    BY <1>1, <1>3, <1>7, <2>1, <2>2, <2>3, TurnDials
<1>11. QED
  BY <1>7, <1>8, <1>9, <1>10 DEF DialPart

LEMMA TimeoutDials ==
  ASSUME DialInvariant, Inv', ~crashed, CommandTimeout
  PROVE  DialPart'
<1>1. TypeOK /\ Queued /\ Enqueued
  BY DEF DialInvariant, Inv
<1>2. PICK r : r = Head(pending)
  OBVIOUS
<1>3. PICK waiting : waiting = Tail(pending)
  OBVIOUS
<1>4. pending # <<>> /\ Turn(r, req[r].value, req[r].todo, waiting)
  BY <1>2, <1>3 DEF CommandTimeout
<1>5. r \in Reqs /\ Turning(r) /\ waiting \in Seq(Reqs) /\ Trimmed(pending, waiting, r)
  BY <1>1, <1>2, <1>3, <1>4, TailClear, TailTrimmed
<1>6. UNCHANGED <<agents, forks, proc, dial, outbox, latest, torn>>
  BY DEF CommandTimeout, processes, history
<1>7. OthersWait(r)
  BY <1>6, AlikeSame DEF OthersWait
<1>8. \A s \in Reqs : Waits(pending, s) => ~InOrder(pending, s, r)
  BY <1>1, <1>2, <1>4, <1>5, NotNext
<1>9. \A s \in Reqs : Turning(s) => Waits(pending, s)
  BY <1>1 DEF Enqueued
<1>10. QED
  BY <1>4, <1>5, <1>6, <1>7, <1>8, <1>9, NextTurn

LEMMA ResultDials ==
  ASSUME DialInvariant, Inv', ~crashed, NEW p \in Procs, ResultMessage(p)
  PROVE  DialPart'
<1>1. /\ TypeOK /\ TypeOK' /\ OneEach' /\ Queued
      /\ Numbered /\ Enqueued /\ Unforked /\ Dials
  BY DEF DialInvariant, Inv
<1>2. PICK r : r = Head(outbox[p])
  OBVIOUS
<1>3. /\ outbox[p] # <<>> /\ outbox' = [outbox EXCEPT ![p] = Tail(@)]
      /\ UNCHANGED <<agents, forks, proc, dial, latest, torn>>
  BY DEF ResultMessage, processes, history
<1>4. outbox'[p] = Tail(outbox[p]) /\ \A q \in Procs : q # p => outbox'[q] = outbox[q]
  BY <1>1, <1>3 DEF TypeOK
<1>5. ASSUME NEW q \in Procs, NEW S \in SUBSET Reqs, q = p => r \notin S
      PROVE  Alike(outbox[q], inbox[q], dial[q], outbox'[q], inbox[q], dial[q], S)
  <2>1. outbox[q] \in Outbox
    BY <1>1, Boxes
  <2>2. CASE q = p
    BY <1>2, <1>3, <1>4, <1>5, <2>1, <2>2, AlikeTaken
  <2>3. CASE q # p
    BY <1>4, <2>3, AlikeSame
  <2>4. QED
    BY <2>2, <2>3
<1>6. \A q \in Procs : outbox[q] = <<>> => outbox'[q] = <<>>
  BY <1>3, <1>4
<1>7. ASSUME NEW n \in DOMAIN pending, pending[n] = r, req[r].proc = p,
             Turn(r, req[r].value, req[r].todo, RemoveAt(pending, n))
      PROVE  DialPart'
  <2>1. PICK waiting : waiting = RemoveAt(pending, n)
    OBVIOUS
  <2>2. r \in Reqs /\ Turning(r) /\ waiting \in Seq(Reqs) /\ Trimmed(pending, waiting, r)
    BY <1>1, <1>7, <2>1, RemoveClear, RemoveTrimmed
  <2>3. Reqs \ {r} \in SUBSET Reqs /\ r \notin Reqs \ {r}
    OBVIOUS
  <2>4. OthersWait(r)
    BY <1>3, <1>5, <2>3 DEF OthersWait
  <2>5. \A s \in Reqs : ~Precedes(outbox[p], inbox[p], s, r)
    <3>1. outbox[p] \in Outbox
      BY <1>1, Boxes
    <3>2. QED
      BY <1>2, <1>3, <3>1, NotFirst
  <2>6. Turn(r, req[r].value, req[r].todo, waiting)
    BY <1>7, <2>1
  <2>7. QED
    BY <1>3, <1>6, <1>7, <2>2, <2>4, <2>5, <2>6, NextTurn
<1>8. CASE /\ req[r].proc # p \/ \A n \in DOMAIN pending : pending[n] # r
           /\ UNCHANGED <<inbox, req, pending, crashed>>
  <2>1. r \notin Standing(p) /\ \A q \in Procs : Standing(q) \in SUBSET Reqs
    BY <1>1, <1>8 DEF Standing, Enqueued, Waits
  <2>2. \A q \in Procs : Alike(outbox[q], inbox[q], dial[q], outbox'[q], inbox'[q], dial'[q], Standing(q))
    BY <1>3, <1>5, <1>8, <2>1
  <2>3. SameTurns
    BY <1>3, <1>8 DEF SameTurns, Turning
  <2>4. Numbered' /\ Enqueued'
    BY <1>1, <2>3, SameNumbers
  <2>5. Unforked'
    BY <1>1, <1>3, <1>6, <1>8 DEF Unforked
  <2>6. Grows
    BY <1>1, <1>3 DEF Grows, TypeOK
  <2>7. /\ \A q \in latest.told : Live(q)' => Live(q)
        /\ \A y \in DOMAIN agents' : y \in DOMAIN agents
    BY <1>3 DEF Live
  <2>8. Dials'
    BY <1>1, <1>3, <2>2, <2>3, <2>6, <2>7, Still
  <2>9. QED
    BY <2>4, <2>5, <2>8 DEF DialPart
<1>9. QED
  BY <1>2, <1>7, <1>8 DEF ResultMessage

LEMMA BeginDials ==
  ASSUME DialInvariant, Inv', ~crashed, NEW r \in Reqs, DialBegin(r)
  PROVE  DialPart'
<1>1. /\ TypeOK /\ TypeOK' /\ OneEach /\ Known /\ Queued
      /\ Numbered /\ Enqueued /\ Unforked /\ Dials
  BY DEF DialInvariant, Inv
<1>2. PICK v, ids : v = latest.value + 1 /\ ids = [n \in DOMAIN agents |-> proc[agents[n]].id]
  OBVIOUS
<1>3. /\ req[r] = Idle /\ Turn(r, v, ids, pending)
      /\ latest' = [value |-> v, told |-> Children]
      /\ torn' = (torn /\ \E s \in Reqs : Turning(s))
      /\ UNCHANGED <<agents, forks, proc, dial, outbox>>
  BY <1>2 DEF DialBegin, Fresh, processes
<1>4. latest.value \in Values /\ v \in Values /\ latest.value < v
  BY <1>1, <1>2, TopologyAssumption DEF DialBegin, TypeOK, Values
<1>5. agents \in Seq(Procs) /\ \A n \in DOMAIN agents : proc[agents[n]].id \in Ids
  BY <1>1 DEF TypeOK, Process
<1>6. DOMAIN agents = 1 .. Len(agents) /\ Len(agents) \in Nat
  BY <1>5
<1>7. ids \in Seq(Ids) /\ Len(ids) = Len(agents)
  BY <1>2, <1>5, <1>6
<1>8. Follows(ids, 0)
  BY <1>2, <1>6, <1>7 DEF Follows
<1>9. ~Turning(r)
  BY <1>3, Kinds
<1>10. /\ latest'.value = v /\ latest'.told = Children
  BY <1>3
<1>11. pending \in Seq(Reqs) /\ Trimmed(pending, pending, r)
  BY <1>1, <1>9 DEF TypeOK, Queued, Clear, Trimmed
<1>12. \A s \in Reqs : Turning(s) => req[s].value < v
  <2>1. latest.value \in Nat /\ v \in Nat /\ \A s \in Reqs : req[s].value \in Nat
    BY <1>1, <1>4, TurningFields DEF Values
  <2>2. QED
    BY <1>1, <1>4, <2>1 DEF Numbered
<1>13. v \in Nat /\ \A s \in Reqs : req[s].value \in Nat
  BY <1>1, <1>4, TurningFields DEF Values
<1>14. \A s \in Reqs \ {r} : Turning(s) => req[s].value # v
  BY <1>12, <1>13
<1>15. v <= latest'.value /\ latest.value <= latest'.value
  BY <1>4, <1>10 DEF Values
<1>16. Numbered'
  BY <1>1, <1>3, <1>4, <1>7, <1>14, <1>15, TurnNumbered
<1>17. Enqueued'
  BY <1>1, <1>3, <1>4, <1>7, <1>11, TurnWaits
<1>18. Unforked'
  <2>1. \A p \in latest'.told : p <= forks
    BY <1>1, <1>10 DEF Known, Children
  <2>2. QED
    BY <1>1, <1>3, <1>4, <1>7, <2>1, TurnUnforked
<1>19. ASSUME ~torn' PROVE Dials'
  <2>1. AllSound /\ AllRanked
    BY <1>1, <1>3, <1>19 DEF Dials, AllSound, AllRanked, Earlier
  <2>2. Besides(r, 0, v, ids)
    <3>1. ASSUME NEW s \in Reqs, NEW l \in DOMAIN agents, Turning(s), Stands(s, l)
          PROVE  /\ 0 <= l /\ l + Len(req[s].todo) <= 0 + Len(ids)
                 /\ ~(v < req[s].value)
      <4>1. l + Len(req[s].todo) <= Len(agents)
        BY <3>1 DEF Stands, Follows
      <4>2. QED
        BY <1>6, <1>7, <1>12, <1>13, <3>1, <4>1
    <3>2. QED
      BY <1>14, <2>1, <3>1 DEF Besides, AllSound, AllRanked
  <2>3. Reached(r, 0, v, ids)
    <3>1. \A p \in latest'.told : \E x \in 1 .. 0 + Len(ids) : p = agents[x]
      BY <1>6, <1>7, <1>10 DEF Children
    <3>2. QED
      BY <1>10, <3>1 DEF Reached
  <2>4. OthersWait(r)
    BY <1>3, AlikeSame DEF OthersWait
  <2>5. \A x \in DOMAIN agents : 0 < x => ~Lines(agents[x], r)
    <3>1. \A p \in Procs :
            /\ \A n \in DOMAIN inbox[p] : inbox[p][n].type = "cmd" => inbox[p][n].req # r
            /\ \A n \in DOMAIN outbox[p] : outbox[p][n] # r
      BY DEF DialBegin, Fresh
    <3>2. \A p \in Procs : ~Lines(p, r)
      BY <3>1 DEF Lines, InLine, Answers, Asks
    <3>3. QED
      BY <1>1, <3>2, ChildAt
  <2>6. \A l \in DOMAIN agents : 0 # l
    BY <1>6
  <2>7. 0 \in Nat
    OBVIOUS
  <2>8. QED
    BY <1>1, <1>3, <1>4, <1>7, <1>8, <1>11, <1>16, <2>2, <2>3, <2>4, <2>5, <2>6, <2>7, TurnDials
<1>20. Dials'
  BY <1>19 DEF Dials
<1>21. QED
  BY <1>16, <1>17, <1>18, <1>20 DEF DialPart

-----------------------------------------------------------------------------

LEMMA InitDial == Init => DialInvariant
<1> SUFFICES ASSUME Init PROVE DialInvariant
  OBVIOUS
<1>1. Inv
  BY InitInv
<1>2. \A r \in Reqs : ~Turning(r)
  BY DEF Init, Turning, Idle
<1>3. latest.told = {} /\ \A p \in Procs : /\ proc[p].state = "unused"
                                          /\ inbox[p] = <<>> /\ outbox[p] = <<>>
  BY DEF Init
<1>4. Numbered /\ Enqueued
  BY <1>2 DEF Numbered, Enqueued
<1>5. Unforked
  BY <1>3 DEF Unforked
<1>6. Dials
  BY <1>2, <1>3 DEF Dials, AllSound, AllRanked, Earlier, Informing, Informed, Latest
<1>7. QED
  BY <1>1, <1>4, <1>5, <1>6 DEF DialInvariant

LEMMA NextDial == DialInvariant /\ [Next]_vars => DialInvariant'
<1> SUFFICES ASSUME DialInvariant, [Next]_vars PROVE DialInvariant'
  OBVIOUS
<1>1. Inv'
  BY NextInv DEF DialInvariant
<1>2. CASE UNCHANGED vars
  <2>1. /\ TypeOK /\ TypeOK' /\ OneEach'
        /\ Numbered /\ Enqueued /\ Unforked /\ Dials
    BY <1>1 DEF DialInvariant, Inv
  <2>2. /\ UNCHANGED <<agents, forks, proc, dial, inbox, outbox, req, pending, latest, torn, crashed>>
    BY <1>2 DEF vars, processes, history
  <2>3. SameTurns
    BY <2>2 DEF SameTurns, Turning
  <2>4. Numbered' /\ Enqueued'
    BY <2>1, <2>3, SameNumbers
  <2>5. Unforked'
    BY <2>1, <2>2 DEF Unforked
  <2>6. Grows
    BY <2>1, <2>2 DEF Grows, TypeOK
  <2>7. /\ \A q \in latest.told : Live(q)' => Live(q)
        /\ \A y \in DOMAIN agents' : y \in DOMAIN agents
        /\ \A p \in Procs : Alike(outbox[p], inbox[p], dial[p], outbox'[p], inbox'[p], dial'[p], Standing(p))
    BY <2>2, AlikeSame DEF Live
  <2>8. Dials'
    BY <2>1, <2>2, <2>3, <2>6, <2>7, Still DEF Dials
  <2>9. QED
    BY <1>1, <2>4, <2>5, <2>8 DEF DialInvariant
<1>3. CASE Next
  <2>1. DialPart'
    BY <1>1, <1>3, ProcessDials, SpawnDials, ReadyDials, ExitEventDials, TimeoutDials, ResultDials,
       BeginDials DEF Next
  <2>2. QED
    BY <1>1, <2>1 DEF DialPart, DialInvariant
<1>4. QED
  BY <1>2, <1>3

\* When the requests have been answered and their commands handled, the agents there were
\* when the latest began have its value, whichever overlapped and whichever timed out,
\* unless a process ended or left the map meanwhile (broadcastToAll,
\* src/packages/control-plane/src/rest/admin.routes.ts).
THEOREM DialsSettle == Spec => []DialsAgree
<1>1. DialInvariant => DialsAgree
  <2> SUFFICES ASSUME DialInvariant, \A r \in Reqs : ~Turning(r), ~torn, ~crashed,
                      \A p \in Procs : inbox[p] = <<>>,
                      NEW p \in latest.told, Live(p)
               PROVE  dial[p] = latest.value
    BY DEF DialsAgree
  <2>1. Told(p, latest.value)
    BY DEF DialInvariant, Dials, Informed, Latest
  <2>2. inbox[p] = <<>>
    BY DEF DialInvariant, Inv, TypeOK
  <2>3. Commands(inbox[p]) = {}
    BY <2>2 DEF Commands
  <2>4. QED
    BY <2>1, <2>3 DEF Told, Tells
<1>2. Spec => []DialInvariant
  BY InitDial, NextDial, PTL DEF Spec
<1>3. QED
  BY <1>1, <1>2, PTL
=============================================================================

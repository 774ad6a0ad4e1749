------------------------- MODULE ConversationProofs -------------------------
(***************************************************************************)
(* Proofs about Conversation: who can read the group's messages, that all  *)
(* who hold the key hold the same one, that no answer is sent in clear,    *)
(* and that a ping and a key request are answered once.                    *)
(*                                                                         *)
(* What each message on its way is to the command it goes back to is the   *)
(* invariant the others rest on (Traced): the message the command sent, or *)
(* the one answer that message has.                                        *)
(***************************************************************************)
EXTENDS Conversation, FiniteSetTheorems, TLAPS

\* The types, without the bound on the pongs: that takes counting.
Shape ==
  /\ up \in [Agents -> BOOLEAN]
  /\ handler \in [Agents -> Architectures]
  /\ member \in [Agents -> BOOLEAN]
  /\ groupKey \in [Agents -> GroupKeys \union {NoKey}]
  /\ holderKey \in GroupKeys \union {NoKey}
  /\ keys \in 0 .. MaxKeys
  /\ net \subseteq Message /\ IsFiniteSet(net)
  /\ cmds \in Seq(Command) /\ Len(cmds) <= MaxCommands
  /\ pongs \in [Ids -> Nat]
  /\ ended \subseteq Agents

\* A unicast send as Next has it: a key request goes to the key holder, encrypted.
Asks(a, b, kind, encrypted) ==
  /\ SendUnicast(a, b, kind, encrypted)
  /\ kind \in {"chat", "ping", "request"}
  /\ kind = "request" => b = KeyHolder /\ encrypted = TRUE

\* What begins, ends, joins, leaves or changes its architecture sends nothing.
Lives(a) ==
  \/ Die(a)
  \/ \E mode \in Architectures, holder, atStart \in BOOLEAN :
       Spawn(a, mode, holder, atStart)
  \/ Join(a) \/ Leave(a)
  \/ \E mode \in Architectures : SetArchitecture(a, mode)

\* A send to the group or to all, from a.
Spreads(a) ==
  \E kind \in {"chat", "ping"} :
     \/ SendBroadcast(a, kind)
     \/ \E encrypted \in BOOLEAN : SendMulticast(a, kind, encrypted)

\* Every step is one of these.
Steps ==
  \/ \E a \in Agents : Lives(a)
  \/ \E a, b \in Agents, kind \in {"chat", "ping", "request"}, encrypted \in BOOLEAN :
       Asks(a, b, kind, encrypted)
  \/ \E a \in Agents : Spreads(a)
  \/ \E m \in net : Receive(m)

LEMMA NextSteps == ASSUME Next PROVE Steps
<1>1. CASE \E a \in Mortal :
             \/ Die(a)
             \/ \E mode \in Architectures, holder, atStart \in BOOLEAN :
                  Spawn(a, mode, holder, atStart)
  BY <1>1, ConversationAssumption DEF Steps, Lives
<1>2. CASE \E a \in Movers : Join(a) \/ Leave(a)
  BY <1>2, ConversationAssumption DEF Steps, Lives
<1>3. CASE \E a \in Switched, mode \in Architectures : SetArchitecture(a, mode)
  BY <1>3, ConversationAssumption DEF Steps, Lives
<1>4. CASE \E a \in Agents : RequestKey(a)
  <2>1. PICK a \in Agents : RequestKey(a)
    BY <1>4
  <2>2. Asks(a, KeyHolder, "request", TRUE)
    BY <2>1 DEF Asks, RequestKey
  <2>3. QED
    BY <2>2, ConversationAssumption DEF Steps
<1>5. CASE \E a \in Senders, kind \in Bodies :
             \/ SendBroadcast(a, kind)
             \/ \E encrypted \in BOOLEAN :
                  \/ SendMulticast(a, kind, encrypted)
                  \/ \E b \in Agents : SendUnicast(a, b, kind, encrypted)
  <2>1. PICK a \in Agents, kind \in {"chat", "ping"} :
             \/ SendBroadcast(a, kind)
             \/ \E encrypted \in BOOLEAN :
                  \/ SendMulticast(a, kind, encrypted)
                  \/ \E b \in Agents : SendUnicast(a, b, kind, encrypted)
    BY <1>5, ConversationAssumption
  <2>2. CASE \E encrypted \in BOOLEAN, b \in Agents : SendUnicast(a, b, kind, encrypted)
    <3>1. PICK encrypted \in BOOLEAN, b \in Agents : SendUnicast(a, b, kind, encrypted)
      BY <2>2
    <3>2. Asks(a, b, kind, encrypted)
      BY <3>1 DEF Asks
    <3>3. QED
      BY <3>2 DEF Steps
  <2>3. CASE SendBroadcast(a, kind) \/ \E encrypted \in BOOLEAN : SendMulticast(a, kind, encrypted)
    <3>1. Spreads(a)
      BY <2>3 DEF Spreads
    <3>2. QED
      BY <3>1 DEF Steps
  <2>4. QED
    BY <2>1, <2>2, <2>3
<1>6. QED
  BY <1>1, <1>2, <1>3, <1>4, <1>5 DEF Next, Steps

-----------------------------------------------------------------------------
(* Types. *)

LEMMA KeyTypes ==
  /\ \A a, b \in Agents : PairKey(a, b) \in Keys /\ PairKey(a, b) # NoKey
  /\ NoKey \in Keys /\ GroupKeys \subseteq Keys
  /\ {1} \in GroupKeys
  /\ NoKey \notin GroupKeys
  /\ \A k \in Nat : k < MaxKeys => {k + 1} \in GroupKeys
<1>1. \A a, b \in Agents : PairKey(a, b) \in Keys /\ PairKey(a, b) # NoKey
  BY DEF Keys, PairKey, NoKey
<1>2. NoKey \in Keys /\ GroupKeys \subseteq Keys
  BY DEF Keys
<1>3. {1} \in GroupKeys /\ NoKey \notin GroupKeys
  BY ConversationAssumption DEF GroupKeys, NoKey
<1>4. ASSUME NEW k \in Nat, k < MaxKeys PROVE {k + 1} \in GroupKeys
  <2>1. k + 1 \in 1 .. MaxKeys
    BY <1>4, ConversationAssumption
  <2>2. QED
    BY <2>1 DEF GroupKeys
<1>5. QED
  BY <1>1, <1>2, <1>3, <1>4

LEMMA UnicastType ==
  ASSUME NEW i \in Ids, NEW a \in Agents, NEW b \in Agents, NEW kind \in Kinds,
         NEW key \in Keys, NEW body \in GroupKeys \union {NoKey}
  PROVE  Unicast(i, a, b, kind, key, body) \in Message
  BY DEF Unicast, Message, Modes

\* What is on its way after a send: what was, or one message more, which is there if
\* its receiver has lasted.
LEMMA PostedOne ==
  ASSUME NEW rest, NEW m, NEW S \in Posted(rest, m)
  PROVE  /\ S = rest \/ S = rest \union {m}
         /\ m.to \notin ended => S = rest \union {m} /\ m \notin rest
  BY DEF Posted

LEMMA PostedShape ==
  ASSUME NEW rest, rest \subseteq Message, IsFiniteSet(rest), NEW m \in Message,
         NEW S \in Posted(rest, m)
  PROVE  S \subseteq Message /\ IsFiniteSet(S)
  BY PostedOne, FS_AddElement

LEMMA IssueShape ==
  ASSUME Shape, NEW mode \in Modes, NEW a \in Agents, NEW b \in Agents, NEW kind \in Kinds,
         NEW sealed \in BOOLEAN, Issue(mode, a, b, kind, sealed),
         net' \subseteq Message, IsFiniteSet(net')
  PROVE  Shape'
<1>1. [mode |-> mode, from |-> a, to |-> b, kind |-> kind, sealed |-> sealed] \in Command
  BY DEF Command
<1>2. cmds' \in Seq(Command) /\ Len(cmds') <= MaxCommands
  BY <1>1, ConversationAssumption DEF Shape, Issue
<1>3. QED
  BY <1>2 DEF Shape, Issue

LEMMA NextIdType ==
  ASSUME Shape, NEW mode, NEW a, NEW b, NEW kind, NEW sealed,
         Issue(mode, a, b, kind, sealed)
  PROVE  /\ NextId \in Ids
         /\ NextId \notin DOMAIN cmds
         /\ DOMAIN cmds' = DOMAIN cmds \union {NextId}
         /\ cmds'[NextId] = [mode |-> mode, from |-> a, to |-> b, kind |-> kind,
                             sealed |-> sealed]
         /\ \A i \in DOMAIN cmds : cmds'[i] = cmds[i]
  BY ConversationAssumption DEF Shape, Issue, NextId, Ids

\* The copies of a group message or a broadcast, one for each receiver.
LEMMA CopiesShape ==
  ASSUME NextId \in Ids, NEW mode \in Modes, NEW a \in Agents, NEW R \in SUBSET Agents,
         NEW kind \in Kinds, NEW key \in Keys
  PROVE  LET C == Copies(mode, a, R, kind, key)
         IN  C \subseteq Message /\ IsFiniteSet(C) /\ Cardinality(C) <= Cardinality(Agents)
<1> DEFINE C == Copies(mode, a, R, kind, key)
           f == [m \in C |-> m.to]
<1>1. C \subseteq Message
  BY DEF Copies, Message
<1>2. f \in Injection(C, Agents)
  <2>1. \A m \in C : f[m] \in Agents
    BY DEF Copies
  <2>2. \A m, n \in C : f[m] = f[n] => m = n
    BY DEF Copies
  <2>3. f \in [C -> Agents]
    BY <2>1
  <2>4. QED
    BY <2>2, <2>3 DEF Injection, IsInjective
<1>3. IsFiniteSet(C) /\ Cardinality(C) <= Cardinality(Agents)
  BY <1>2, FS_Injection, ConversationAssumption
<1>4. QED
  BY <1>1, <1>3

LEMMA LivesShape == ASSUME Shape, NEW a \in Agents, Lives(a) PROVE Shape'
<1>0. \A k \in Nat : k < MaxKeys => {k + 1} \in GroupKeys
  BY KeyTypes
<1>1. CASE Die(a)
  <2>1. net' \subseteq Message /\ IsFiniteSet(net')
    BY <1>1, FS_Subset DEF Shape, Die
  <2>2. QED
    BY <1>1, <2>1 DEF Shape, Die, Architectures
<1>2. ASSUME NEW mode \in Architectures, NEW holder \in BOOLEAN, NEW atStart \in BOOLEAN,
             Spawn(a, mode, holder, atStart)
      PROVE  Shape'
  <2>1. holder => keys + 1 \in 0 .. MaxKeys /\ {keys + 1} \in GroupKeys
    <3>1. keys \in Nat /\ MaxKeys \in Nat /\ (holder => keys < MaxKeys)
      BY <1>2, ConversationAssumption DEF Spawn, Shape
    <3>2. holder => keys + 1 \in 0 .. MaxKeys
      BY <3>1
    <3>3. QED
      BY <1>0, <3>1, <3>2
  <2>2. keys' \in 0 .. MaxKeys /\ holderKey' \in GroupKeys \union {NoKey}
    BY <1>2, <2>1 DEF Spawn, Shape
  <2>3. groupKey' \in [Agents -> GroupKeys \union {NoKey}]
    <3>1. groupKey' = [groupKey EXCEPT ![a] = IF holder /\ atStart THEN {keys + 1} ELSE NoKey]
      BY <1>2 DEF Spawn
    <3>2. PICK k \in GroupKeys \union {NoKey} : groupKey' = [groupKey EXCEPT ![a] = k]
      BY <2>1, <3>1
    <3>3. QED
      BY <3>2 DEF Shape
  <2>4. QED
    BY <1>2, <2>2, <2>3 DEF Spawn, Shape
<1>3. CASE Join(a)
  BY <1>3 DEF Shape, Join
<1>4. CASE Leave(a)
  BY <1>4 DEF Shape, Leave
<1>5. CASE \E mode \in Architectures : SetArchitecture(a, mode)
  BY <1>5 DEF Shape, SetArchitecture
<1>6. QED
  BY <1>1, <1>2, <1>3, <1>4, <1>5 DEF Lives

LEMMA AsksShape ==
  ASSUME Shape, NEW a \in Agents, NEW b \in Agents, NEW kind, NEW encrypted \in BOOLEAN,
         Asks(a, b, kind, encrypted)
  PROVE  Shape'
<1> DEFINE key == IF encrypted THEN PairKey(a, b) ELSE NoKey
           m == Unicast(NextId, a, b, kind, key, NoKey)
<1>1. kind \in Kinds /\ "unicast" \in Modes
  BY DEF Asks, Kinds, Modes
<1>2. Issue("unicast", a, b, kind, encrypted) /\ net' \in Posted(net, m)
  BY DEF Asks, SendUnicast
<1>3. m \in Message
  BY <1>1, <1>2, NextIdType, KeyTypes, UnicastType
<1>4. net' \subseteq Message /\ IsFiniteSet(net')
  <2> HIDE DEF m
  <2>1. QED
    BY <1>2, <1>3, PostedShape DEF Shape
<1>5. QED
  BY <1>1, <1>2, <1>4, IssueShape

\* What a send to the group or to all puts on its way.
LEMMA SpreadsShape ==
  ASSUME Shape, NEW a \in Agents, Spreads(a)
  PROVE  /\ Shape'
         /\ \E mode \in {"multicast", "broadcast"}, kind \in {"chat", "ping"},
               sealed \in BOOLEAN, R \in SUBSET Agents, key \in Keys :
              /\ Issue(mode, a, a, kind, sealed)
              /\ net' = net \union Copies(mode, a, R, kind, key)
              /\ sealed => key # NoKey
              /\ key \in {NoKey, groupKey[a]}
<1>1. PICK mode \in {"multicast", "broadcast"}, kind \in {"chat", "ping"},
           sealed \in BOOLEAN, R \in SUBSET Agents, key \in Keys :
             /\ Issue(mode, a, a, kind, sealed)
             /\ net' = net \union Copies(mode, a, R, kind, key)
             /\ sealed => key # NoKey
             /\ key \in {NoKey, groupKey[a]}
  <2>1. ASSUME NEW kind \in {"chat", "ping"}, SendBroadcast(a, kind)
        PROVE  \E R \in SUBSET Agents :
                 /\ Issue("broadcast", a, a, kind, FALSE)
                 /\ net' = net \union Copies("broadcast", a, R, kind, NoKey)
    BY <2>1 DEF SendBroadcast
  <2>2. ASSUME NEW kind \in {"chat", "ping"}, NEW encrypted \in BOOLEAN,
               SendMulticast(a, kind, encrypted)
        PROVE  \E R \in SUBSET Agents, key \in Keys :
                 /\ Issue("multicast", a, a, kind, encrypted)
                 /\ net' = net \union Copies("multicast", a, R, kind, key)
                 /\ encrypted => key # NoKey
                 /\ key \in {NoKey, groupKey[a]}
    <3>1. PICK R \in SUBSET Agents :
            net' = net \union Copies("multicast", a, R, kind,
                                     IF encrypted THEN groupKey[a] ELSE NoKey)
      BY <2>2 DEF SendMulticast
    <3>2. groupKey[a] \in Keys /\ NoKey \in Keys
      BY KeyTypes DEF Shape
    <3>3. PICK key \in Keys : key = IF encrypted THEN groupKey[a] ELSE NoKey
      BY <3>2
    <3>4. QED
      BY <2>2, <3>1, <3>3 DEF SendMulticast
  <2>3. QED
    BY <2>1, <2>2, KeyTypes DEF Spreads
<1>2. mode \in Modes /\ kind \in Kinds
  BY DEF Modes, Kinds
<1>3. Copies(mode, a, R, kind, key) \subseteq Message
      /\ IsFiniteSet(Copies(mode, a, R, kind, key))
  BY <1>1, <1>2, NextIdType, CopiesShape
<1>4. net' \subseteq Message /\ IsFiniteSet(net')
  BY <1>1, <1>3, FS_Union DEF Shape
<1>5. Shape'
  BY <1>1, <1>2, <1>4, IssueShape
<1>6. QED
  BY <1>1, <1>5

\* What is sent in answer is a message, and what is left is one less.
LEMMA TakenShape ==
  ASSUME Shape, NEW m \in net
  PROVE  /\ m \in Message
         /\ m.id \in Ids /\ m.mode \in Modes /\ m.from \in Agents /\ m.to \in Agents
         /\ m.kind \in Kinds /\ m.key \in Keys /\ m.body \in GroupKeys \union {NoKey}
         /\ net \ {m} \subseteq Message /\ IsFiniteSet(net \ {m})
<1>1. m \in Message
  BY DEF Shape
<1>2. IsFiniteSet(net \ {m})
  BY FS_RemoveElement DEF Shape
<1>3. QED
  BY <1>1, <1>2 DEF Message, Shape

\* The answer to a key request.
Grant(m) == Unicast(m.id, m.to, m.from, HandleRequest(m.from).kind, PairKey(m.to, m.from),
                    HandleRequest(m.from).body)

LEMMA AnswerShape ==
  ASSUME Shape, NEW m \in net
  PROVE  Grant(m) \in Message /\ Pong(m) \in Message
<1>1. /\ HandleRequest(m.from).kind \in Kinds
      /\ HandleRequest(m.from).body \in GroupKeys \union {NoKey}
  BY DEF HandleRequest, Kinds, Shape
<1>2. Grant(m) \in Message
  BY <1>1, TakenShape, KeyTypes, UnicastType DEF Grant
<1>3. "pong" \in Kinds
  BY DEF Kinds
<1>4. PICK k \in Keys : k = IF m.key = NoKey THEN NoKey ELSE PairKey(m.to, m.from)
  BY TakenShape, KeyTypes
<1>5. Pong(m) = Unicast(m.id, m.to, m.from, "pong", k, NoKey)
  BY <1>4 DEF Pong
<1>6. Pong(m) \in Message
  <2>1. m.id \in Ids /\ m.to \in Agents /\ m.from \in Agents
        /\ NoKey \in GroupKeys \union {NoKey}
    BY TakenShape
  <2>2. QED
    BY <1>3, <1>4, <1>5, <2>1, UnicastType
<1>7. QED
  BY <1>2, <1>6

LEMMA ReceiveShape == ASSUME Shape, NEW m \in net, Receive(m) PROVE Shape'
<1>1. CASE Reject(m)
  BY <1>1, TakenShape DEF Shape, Reject
<1>2. CASE ServeKeyRequest(m)
  <2>1. net' \in Posted(net \ {m}, Grant(m))
    BY <1>2 DEF ServeKeyRequest, Grant
  <2>2. net' \subseteq Message /\ IsFiniteSet(net')
    BY <2>1, AnswerShape, TakenShape, PostedShape
  <2>3. QED
    BY <1>2, <2>2 DEF ServeKeyRequest, Shape
<1>3. CASE StoreKey(m)
  BY <1>3, TakenShape DEF Shape, StoreKey
<1>4. CASE Dispatch(m)
  <2>1. net' = net \ {m} \/ net' \in Posted(net \ {m}, Pong(m))
    BY <1>4 DEF Dispatch
  <2>2. net' \subseteq Message /\ IsFiniteSet(net')
    BY <2>1, AnswerShape, TakenShape, PostedShape
  <2>3. pongs' \in [Ids -> Nat]
    <3>1. m.id \in Ids /\ pongs \in [Ids -> Nat]
      BY TakenShape DEF Shape
    <3>2. pongs[m.id] + 1 \in Nat
      BY <3>1
    <3>3. [pongs EXCEPT ![m.id] = @ + 1] \in [Ids -> Nat]
      BY <3>1, <3>2
    <3>4. QED
      BY <1>4, <3>1, <3>3 DEF Dispatch
  <2>4. QED
    BY <1>4, <2>2, <2>3 DEF Dispatch, Shape
<1>5. QED
  BY <1>1, <1>2, <1>3, <1>4 DEF Receive

LEMMA ShapeInit == Init => Shape
<1>1. ASSUME Init PROVE Shape
  <2>1. IsFiniteSet(net) /\ net = {}
    BY <1>1, FS_EmptySet DEF Init
  <2>2. cmds \in Seq(Command) /\ Len(cmds) <= MaxCommands
    BY <1>1, ConversationAssumption DEF Init
  <2>3. keys \in 0 .. MaxKeys
    BY <1>1, ConversationAssumption DEF Init
  <2>4. QED
    BY <1>1, <2>1, <2>2, <2>3, KeyTypes DEF Init, Shape, Architectures
<1>2. QED
  BY <1>1

LEMMA ShapeNext == Shape /\ [Next]_vars => Shape'
<1> SUFFICES ASSUME Shape, [Next]_vars PROVE Shape'
  OBVIOUS
<1>1. CASE Next
  <2>1. Steps
    BY <1>1, NextSteps
  <2>2. QED
    BY <2>1, LivesShape, AsksShape, SpreadsShape, ReceiveShape DEF Steps
<1>2. CASE UNCHANGED vars
  BY <1>2 DEF vars, Shape
<1>3. QED
  BY <1>1, <1>2

LEMMA ShapeAlways == Spec => []Shape
  BY ShapeInit, ShapeNext, PTL DEF Spec

-----------------------------------------------------------------------------
(* What a message is to the command it goes back to. *)

\* The message the command sent, or one of its copies.
IsOriginal(m, c) ==
  /\ m.mode = c.mode /\ m.from = c.from /\ m.kind = c.kind
  /\ c.mode = "unicast" => m.to = c.to

\* The one kind of answer there is to it.
IsAnswer(m, c) ==
  /\ m.mode = "unicast" /\ m.to = c.from
  /\ c.mode = "unicast" => m.from = c.to
  /\ \/ c.kind = "ping" /\ m.kind = "pong"
     \/ /\ c.kind = "request"
        /\ m.kind = IF c.from \in AllowList THEN "granted" ELSE "denied"

\* An answer is sealed if the command was, with a key both ends derive.
Belongs(m, c) ==
  /\ IsOriginal(m, c) \/ IsAnswer(m, c)
  /\ m.mode = "unicast" => m.key \in {NoKey, PairKey(m.from, m.to)}
  /\ c.sealed => m.key # NoKey

IsCommand(c) ==
  /\ c.kind \in {"chat", "ping", "request"}
  /\ c.kind = "request" => c.mode = "unicast" /\ c.to = KeyHolder /\ c.sealed

Traced ==
  /\ \A i \in DOMAIN cmds : IsCommand(cmds[i])
  /\ \A m \in net : m.id \in DOMAIN cmds /\ Belongs(m, cmds[m.id])

\* Steps that send nothing new, and those of a command.
LEMMA TracedLess ==
  ASSUME Traced, net' \subseteq net, cmds' = cmds
  PROVE  Traced'
<1>1. \A m \in net' : m.id \in DOMAIN cmds' /\ Belongs(m, cmds'[m.id])
  BY DEF Traced
<1>2. \A i \in DOMAIN cmds' : IsCommand(cmds'[i])
  BY DEF Traced
<1>3. Traced' = (/\ \A i \in DOMAIN cmds' : IsCommand(cmds'[i])
                 /\ \A m \in net' : m.id \in DOMAIN cmds' /\ Belongs(m, cmds'[m.id]))
  BY DEF Traced, IsCommand, Belongs, IsOriginal, IsAnswer, PairKey, NoKey
<1>4. QED
  BY <1>1, <1>2, <1>3

LEMMA TracedMore ==
  ASSUME Shape, Traced, NEW mode, NEW a, NEW b, NEW kind, NEW sealed,
         Issue(mode, a, b, kind, sealed),
         IsCommand(cmds'[NextId]),
         \A m \in net' : m \in net \/ (m.id = NextId /\ Belongs(m, cmds'[NextId]))
  PROVE  Traced'
<1>1. /\ DOMAIN cmds' = DOMAIN cmds \union {NextId}
      /\ \A i \in DOMAIN cmds : cmds'[i] = cmds[i]
  BY NextIdType
<1>2. \A m \in net' : m.id \in DOMAIN cmds' /\ Belongs(m, cmds'[m.id])
  BY <1>1 DEF Traced
<1>3. \A i \in DOMAIN cmds' : IsCommand(cmds'[i])
  BY <1>1 DEF Traced
<1>4. Traced' = (/\ \A i \in DOMAIN cmds' : IsCommand(cmds'[i])
                 /\ \A m \in net' : m.id \in DOMAIN cmds' /\ Belongs(m, cmds'[m.id]))
  BY DEF Traced, IsCommand, Belongs, IsOriginal, IsAnswer, PairKey, NoKey
<1>5. QED
  BY <1>2, <1>3, <1>4

\* An answer belongs to the command its message belongs to.
LEMMA AnswerBelongs ==
  ASSUME Shape, Traced, NEW m \in net
  PROVE  /\ Grant(m).id = m.id /\ Pong(m).id = m.id
         /\ m.kind = "request" => Belongs(Grant(m), cmds[m.id])
         /\ m.kind = "ping" => Belongs(Pong(m), cmds[m.id])
<1> DEFINE c == cmds[m.id]
<1>1. Belongs(m, c) /\ IsCommand(c)
  BY DEF Traced
<1>2. Grant(m).id = m.id /\ Pong(m).id = m.id
  BY DEF Grant, Pong, Unicast
<1>3. PairKey(m.to, m.from) # NoKey
  BY DEF PairKey, NoKey
<1>4. ASSUME m.kind = "request" PROVE Belongs(Grant(m), c)
  <2> DEFINE g == Grant(m)
  <2>1. IsOriginal(m, c)
    BY <1>1, <1>4 DEF Belongs, IsAnswer
  <2>2. c.kind = "request" /\ c.mode = "unicast" /\ c.from = m.from /\ c.to = m.to
    BY <1>1, <1>4, <2>1 DEF IsOriginal, IsCommand
  <2>3. /\ g.mode = "unicast" /\ g.from = m.to /\ g.to = m.from
        /\ g.key = PairKey(m.to, m.from)
        /\ g.kind = IF m.from \in AllowList THEN "granted" ELSE "denied"
    BY DEF Grant, Unicast, HandleRequest
  <2>4. IsAnswer(g, c)
    BY <2>2, <2>3 DEF IsAnswer
  <2>5. QED
    BY <1>3, <2>3, <2>4 DEF Belongs
<1>5. ASSUME m.kind = "ping" PROVE Belongs(Pong(m), c)
  <2> DEFINE g == Pong(m)
  <2>1. IsOriginal(m, c)
    BY <1>1, <1>5 DEF Belongs, IsAnswer
  <2>2. c.kind = "ping" /\ c.from = m.from /\ (c.mode = "unicast" => c.to = m.to)
    BY <1>1, <1>5, <2>1 DEF IsOriginal, IsCommand
  <2>3. /\ g.mode = "unicast" /\ g.from = m.to /\ g.to = m.from /\ g.kind = "pong"
        /\ g.key = IF m.key = NoKey THEN NoKey ELSE PairKey(m.to, m.from)
    BY DEF Pong, Unicast
  <2>4. IsAnswer(g, c)
    BY <2>2, <2>3 DEF IsAnswer
  <2>5. c.sealed => g.key # NoKey
    BY <1>1, <1>3, <2>3 DEF Belongs
  <2>6. QED
    BY <2>3, <2>4, <2>5 DEF Belongs
<1>6. QED
  BY <1>2, <1>4, <1>5

\* What receiving a message makes of what is on its way.
LEMMA ReceiveCases ==
  ASSUME NEW m \in net, Receive(m)
  PROVE  /\ cmds' = cmds
         /\ \/ net' = net \ {m}
            \/ m.kind = "request" /\ net' \in Posted(net \ {m}, Grant(m))
            \/ m.kind = "ping" /\ net' \in Posted(net \ {m}, Pong(m))
  BY DEF Receive, Reject, ServeKeyRequest, StoreKey, Dispatch, Answers, IsKeyRequest, Grant

LEMMA TracedReceive ==
  ASSUME Shape, Traced, NEW m \in net, Receive(m)
  PROVE  Traced'
<1>1. CASE net' = net \ {m}
  BY <1>1, ReceiveCases, TracedLess
<1>2. ASSUME NEW x, x.id = m.id, Belongs(x, cmds[m.id]), net' \in Posted(net \ {m}, x)
      PROVE  Traced'
  <2>1. \A n \in net' : n \in net \/ n = x
    BY <1>2, PostedOne
  <2>2. cmds' = cmds
    BY ReceiveCases
  <2>3. \A n \in net' : n.id \in DOMAIN cmds' /\ Belongs(n, cmds'[n.id])
    BY <1>2, <2>1, <2>2 DEF Traced
  <2>4. \A i \in DOMAIN cmds' : IsCommand(cmds'[i])
    BY <2>2 DEF Traced
  <2>5. Traced' = (/\ \A i \in DOMAIN cmds' : IsCommand(cmds'[i])
                   /\ \A n \in net' : n.id \in DOMAIN cmds' /\ Belongs(n, cmds'[n.id]))
    BY DEF Traced, IsCommand, Belongs, IsOriginal, IsAnswer, PairKey, NoKey
  <2>6. QED
    BY <2>3, <2>4, <2>5
<1>3. QED
  BY <1>1, <1>2, ReceiveCases, AnswerBelongs

LEMMA TracedLives ==
  ASSUME Traced, NEW a \in Agents, Lives(a) PROVE Traced'
<1>1. net' \subseteq net /\ cmds' = cmds
  BY DEF Lives, Die, Spawn, Join, Leave, SetArchitecture
<1>2. QED
  BY <1>1, TracedLess

LEMMA TracedAsks ==
  ASSUME Shape, Traced, NEW a \in Agents, NEW b \in Agents, NEW kind,
         NEW encrypted \in BOOLEAN, Asks(a, b, kind, encrypted)
  PROVE  Traced'
<1> DEFINE m == Unicast(NextId, a, b, kind, IF encrypted THEN PairKey(a, b) ELSE NoKey, NoKey)
           c == cmds'[NextId]
<1>1. Issue("unicast", a, b, kind, encrypted) /\ net' \in Posted(net, m)
  BY DEF Asks, SendUnicast
<1>2. c = [mode |-> "unicast", from |-> a, to |-> b, kind |-> kind, sealed |-> encrypted]
  BY <1>1, NextIdType
<1>3. IsCommand(c)
  BY <1>2 DEF Asks, IsCommand
<1>4. PairKey(a, b) # NoKey
  BY DEF PairKey, NoKey
<1>5. m.id = NextId /\ Belongs(m, c)
  BY <1>2, <1>4 DEF Unicast, Belongs, IsOriginal
<1>6. \A n \in net' : n \in net \/ n = m
  <2> HIDE DEF m
  <2>1. QED
    BY <1>1, PostedOne
<1>7. \A n \in net' : n \in net \/ (n.id = NextId /\ Belongs(n, c))
  <2> HIDE DEF m, c
  <2>1. QED
    BY <1>5, <1>6
<1>8. QED
  BY <1>1, <1>3, <1>7, TracedMore

LEMMA TracedSpreads ==
  ASSUME Shape, Traced, NEW a \in Agents, Spreads(a)
  PROVE  Traced'
<1>1. PICK mode \in {"multicast", "broadcast"}, kind \in {"chat", "ping"},
           sealed \in BOOLEAN, R \in SUBSET Agents, key \in Keys :
             /\ Issue(mode, a, a, kind, sealed)
             /\ net' = net \union Copies(mode, a, R, kind, key)
             /\ sealed => key # NoKey
  BY SpreadsShape
<1> DEFINE c == cmds'[NextId]
<1>2. c = [mode |-> mode, from |-> a, to |-> a, kind |-> kind, sealed |-> sealed]
  BY <1>1, NextIdType
<1>3. IsCommand(c)
  BY <1>2 DEF IsCommand
<1>4. \A m \in Copies(mode, a, R, kind, key) : m.id = NextId /\ Belongs(m, c)
  BY <1>1, <1>2 DEF Copies, Belongs, IsOriginal
<1>5. \A n \in net' : n \in net \/ (n.id = NextId /\ Belongs(n, c))
  <2> HIDE DEF c
  <2>1. QED
    BY <1>1, <1>4
<1>6. QED
  BY <1>1, <1>3, <1>5, TracedMore

LEMMA TracedNext == Shape /\ Traced /\ [Next]_vars => Traced'
<1> SUFFICES ASSUME Shape, Traced, [Next]_vars PROVE Traced'
  OBVIOUS
<1>1. CASE Next
  <2>1. Steps
    BY <1>1, NextSteps
  <2>2. QED
    BY <2>1, TracedLives, TracedAsks, TracedSpreads, TracedReceive DEF Steps
<1>2. CASE UNCHANGED vars
  BY <1>2, TracedLess DEF vars
<1>3. QED
  BY <1>1, <1>2

LEMMA TracedAlways == Spec => []Traced
<1>1. Init => Traced
  BY DEF Init, Traced
<1>2. QED
  BY <1>1, ShapeAlways, TracedNext, PTL DEF Spec

-----------------------------------------------------------------------------
(* Who holds the key, and which. *)

Holders == \A a \in Agents : groupKey[a] # NoKey => a \in AllowList \union {KeyHolder}

\* Until the key holder's process ends there is the key it began with, and no other.
FirstKey ==
  KeyHolder \notin ended =>
    /\ up[KeyHolder] /\ holderKey = {1}
    /\ \A a \in Agents : groupKey[a] \in {NoKey, {1}}
    /\ \A m \in net : m.kind = "granted" => m.body = {1}

\* A key is stored by an agent of the allow-list.
LEMMA GrantedAllowed ==
  ASSUME Traced, NEW m \in net, m.kind = "granted"
  PROVE  m.to \in AllowList
  BY DEF Traced, Belongs, IsCommand, IsOriginal, IsAnswer

\* What a step can do to a key an agent holds.
LEMMA KeyCases ==
  ASSUME Shape, [Next]_vars, NEW a \in Agents
  PROVE  \/ groupKey'[a] \in {groupKey[a], NoKey}
         \/ a = KeyHolder /\ ~up[KeyHolder]
         \/ \E m \in net : m.kind = "granted" /\ m.to = a /\ groupKey'[a] = m.body
<1>1. CASE UNCHANGED vars
  BY <1>1 DEF vars
<1>2. ASSUME NEW b \in Agents, Lives(b)
      PROVE  \/ groupKey'[a] \in {groupKey[a], NoKey}
             \/ a = KeyHolder /\ ~up[KeyHolder]
  <2>1. ASSUME NEW mode, NEW holder, NEW atStart, Spawn(b, mode, holder, atStart)
        PROVE  \/ groupKey'[a] \in {groupKey[a], NoKey}
               \/ a = KeyHolder /\ ~up[KeyHolder]
    <3>1. PICK k : /\ groupKey' = [groupKey EXCEPT ![b] = k]
                   /\ k = IF holder /\ atStart THEN {keys + 1} ELSE NoKey
      BY <2>1 DEF Spawn
    <3>2. groupKey'[a] = IF a = b THEN k ELSE groupKey[a]
      BY <3>1 DEF Shape
    <3>3. CASE holder
      BY <2>1, <3>2, <3>3 DEF Spawn
    <3>4. CASE ~holder
      BY <3>1, <3>2, <3>4
    <3>5. QED
      BY <3>3, <3>4
  <2>2. CASE Die(b)
    <3>1. groupKey' = [groupKey EXCEPT ![b] = NoKey] /\ DOMAIN groupKey = Agents
      BY <2>2 DEF Die, Shape
    <3>2. groupKey'[a] = IF a = b THEN NoKey ELSE groupKey[a]
      BY <3>1
    <3>3. QED
      BY <3>2
  <2>3. CASE \/ Join(b) \/ Leave(b)
             \/ \E mode \in Architectures : SetArchitecture(b, mode)
    BY <2>3 DEF Join, Leave, SetArchitecture
  <2>4. QED
    BY <1>2, <2>1, <2>2, <2>3 DEF Lives
<1>3. ASSUME NEW mode, NEW b, NEW c, NEW kind, NEW sealed, Issue(mode, b, c, kind, sealed)
      PROVE  groupKey' = groupKey
  BY <1>3 DEF Issue
<1>4. ASSUME NEW m \in net, Receive(m)
      PROVE  \/ groupKey'[a] = groupKey[a]
             \/ m.kind = "granted" /\ m.to = a /\ groupKey'[a] = m.body
  BY <1>4, TakenShape DEF Receive, Reject, ServeKeyRequest, StoreKey, Dispatch, Shape
<1>5. CASE Steps
  BY <1>2, <1>3, <1>4, <1>5 DEF Steps, Asks, SendUnicast, Spreads, SendMulticast, SendBroadcast
<1>6. QED
  BY <1>1, <1>5, NextSteps

LEMMA HoldersNext == Shape /\ Traced /\ Holders /\ [Next]_vars => Holders'
<1> SUFFICES ASSUME Shape, Traced, Holders, [Next]_vars, NEW a \in Agents,
                    groupKey'[a] # NoKey
             PROVE  a \in AllowList \union {KeyHolder}
  BY DEF Holders, NoKey
<1>1. QED
  BY KeyCases, GrantedAllowed DEF Holders

LEMMA HoldersAlways == Spec => []Holders
<1>1. Init => Holders
  BY DEF Init, Holders
<1>2. QED
  BY <1>1, ShapeAlways, TracedAlways, HoldersNext, PTL DEF Spec

\* The messages there are after a step: those there were, the answer to one of them, or
\* what a command sends.
LEMMA NetCases ==
  ASSUME Shape, Traced, [Next]_vars, NEW n \in net'
  PROVE  \/ n \in net
         \/ n.kind \in {"chat", "ping", "request", "pong"}
         \/ n.body \in {holderKey, NoKey} /\ (n.kind = "granted" => n.body = holderKey)
<1>1. CASE UNCHANGED vars
  BY <1>1 DEF vars
<1>2. ASSUME NEW b \in Agents, Lives(b) PROVE n \in net
  BY <1>2 DEF Lives, Die, Spawn, Join, Leave, SetArchitecture
<1>3. ASSUME NEW a \in Agents, NEW b \in Agents, NEW kind, NEW encrypted \in BOOLEAN,
             Asks(a, b, kind, encrypted)
      PROVE  n \in net \/ n.kind \in {"chat", "ping", "request"}
  <2> DEFINE m == Unicast(NextId, a, b, kind, IF encrypted THEN PairKey(a, b) ELSE NoKey,
                          NoKey)
  <2>1. net' \in Posted(net, m)
    BY <1>3 DEF Asks, SendUnicast
  <2>2. m.kind \in {"chat", "ping", "request"}
    BY <1>3 DEF Asks, Unicast
  <2>3. n \in net \/ n = m
    <3> HIDE DEF m
    <3>1. QED
      BY <2>1, PostedOne
  <2>4. QED
    BY <2>2, <2>3
<1>4. ASSUME NEW a \in Agents, Spreads(a) PROVE n \in net \/ n.kind \in {"chat", "ping"}
  <2>1. PICK mode \in {"multicast", "broadcast"}, kind \in {"chat", "ping"},
             R \in SUBSET Agents, key \in Keys :
               net' = net \union Copies(mode, a, R, kind, key)
    BY <1>4, SpreadsShape
  <2>2. QED
    BY <2>1 DEF Copies
<1>5. ASSUME NEW m \in net, Receive(m)
      PROVE  n \in net \/ n.kind = "pong"
             \/ (n.body \in {holderKey, NoKey} /\ (n.kind = "granted" => n.body = holderKey))
  <2>1. /\ Grant(m).kind = "granted" => Grant(m).body = holderKey
        /\ Grant(m).body \in {holderKey, NoKey} /\ Pong(m).kind = "pong"
    BY DEF Grant, Pong, Unicast, HandleRequest
  <2>2. n \in net \/ n \in {Grant(m), Pong(m)}
    <3>1. \/ net' = net \ {m} \/ net' \in Posted(net \ {m}, Grant(m))
          \/ net' \in Posted(net \ {m}, Pong(m))
      BY <1>5, ReceiveCases
    <3>2. ASSUME NEW x, net' \in Posted(net \ {m}, x) PROVE n \in net \/ n = x
      BY <3>2, PostedOne
    <3>3. QED
      BY <3>1, <3>2
  <2>3. QED
    BY <2>1, <2>2
<1>6. QED
  BY <1>1, <1>2, <1>3, <1>4, <1>5, NextSteps DEF Steps

LEMMA FirstKeyNext == Shape /\ Traced /\ FirstKey /\ [Next]_vars => FirstKey'
<1> SUFFICES ASSUME Shape, Traced, FirstKey, [Next]_vars, KeyHolder \notin ended'
             PROVE  /\ up'[KeyHolder] /\ holderKey' = {1}
                    /\ \A a \in Agents : groupKey'[a] \in {NoKey, {1}}
                    /\ \A m \in net' : m.kind = "granted" => m.body = {1}
  BY DEF FirstKey, NoKey
<1>1. KeyHolder \notin ended /\ up'[KeyHolder] /\ holderKey' = holderKey
  <2>1. CASE UNCHANGED vars
    BY <2>1 DEF vars, FirstKey
  <2>2. ASSUME NEW a \in Agents, Lives(a)
        PROVE  KeyHolder \notin ended /\ up'[KeyHolder] /\ holderKey' = holderKey
    BY <2>2, ConversationAssumption
       DEF Lives, Die, Spawn, Join, Leave, SetArchitecture, FirstKey, Shape
  <2>3. ASSUME NEW mode, NEW b, NEW c, NEW kind, NEW sealed, Issue(mode, b, c, kind, sealed)
        PROVE  up' = up /\ holderKey' = holderKey /\ ended' = ended
    BY <2>3 DEF Issue
  <2>4. ASSUME NEW m \in net, Receive(m)
        PROVE  up' = up /\ holderKey' = holderKey /\ ended' = ended
    BY <2>4 DEF Receive, Reject, ServeKeyRequest, StoreKey, Dispatch
  <2>5. CASE Steps
    BY <2>2, <2>3, <2>4, <2>5
       DEF Steps, Asks, SendUnicast, Spreads, SendMulticast, SendBroadcast, FirstKey
  <2>6. QED
    BY <2>1, <2>5, NextSteps
<1>2. ASSUME NEW a \in Agents PROVE groupKey'[a] \in {NoKey, {1}}
  BY <1>1, KeyCases DEF FirstKey
<1>3. ASSUME NEW m \in net', m.kind = "granted" PROVE m.body = {1}
  BY <1>1, <1>3, NetCases DEF FirstKey
<1>4. QED
  BY <1>1, <1>2, <1>3 DEF FirstKey

LEMMA FirstKeyAlways == Spec => []FirstKey
<1>1. Init => FirstKey
  BY ConversationAssumption DEF Init, FirstKey
<1>2. QED
  BY <1>1, ShapeAlways, TracedAlways, FirstKeyNext, PTL DEF Spec

-----------------------------------------------------------------------------

\* BR-17 / BR-18 (KeyHolderAgent.handleRequest, MulticastSecurity): for every allow-list
\* and whoever joins, leaves, dies and restarts, only those the list names and the key
\* holder can make out an encrypted group message.
THEOREM OnlyAllowedHoldTheKey == Spec => []OnlyAllowedRead
<1>1. Shape /\ Holders => OnlyAllowedRead
  BY TakenShape DEF Holders, OnlyAllowedRead, Readable, KeyFor
<1>2. QED
  BY <1>1, ShapeAlways, HoldersAlways, PTL

\* A6.2: while the key holder's process lasts, all who hold a group key hold the same.
THEOREM OneKeyWhileItLasts == Spec => []OneKeyPerGroup
<1>1. FirstKey => OneKeyPerGroup
  BY DEF FirstKey, OneKeyPerGroup
<1>2. QED
  BY <1>1, FirstKeyAlways, PTL

\* BR-14 / BR-19 (AgentControlledHandler, PingComponent, serveKeyRequest): no answer to an
\* encrypted message travels in clear, however often the architecture is switched.
THEOREM AnswersStaySealed == Spec => []NoDowngrade
<1>1. Traced => NoDowngrade
  BY DEF Traced, Belongs, NoDowngrade
<1>2. QED
  BY <1>1, TracedAlways, PTL

-----------------------------------------------------------------------------
(* Counting the messages of a command. *)

Of(S, i, kinds) == {m \in S : m.id = i /\ m.kind \in kinds}

Pings == {"ping", "pong"}
Requests == {"request", "granted"}

\* What there is of a ping: on its way, answered and on its way back, reported.
Pieces(i) == pongs[i] + OnTheWay(i, Pings)

LEMMA OfType ==
  ASSUME NEW S, IsFiniteSet(S), NEW i, NEW kinds
  PROVE  IsFiniteSet(Of(S, i, kinds)) /\ Cardinality(Of(S, i, kinds)) \in Nat
<1>1. Of(S, i, kinds) \in SUBSET S
  BY DEF Of
<1>2. QED
  BY <1>1, FS_Subset, FS_CardinalityType

LEMMA PiecesType ==
  ASSUME Shape, NEW i \in Ids
  PROVE  /\ pongs[i] \in Nat /\ Pieces(i) \in Nat
         /\ OnTheWay(i, Pings) = Cardinality(Of(net, i, Pings))
         /\ OnTheWay(i, Requests) = Cardinality(Of(net, i, Requests))
         /\ OnTheWay(i, Pings) \in Nat /\ OnTheWay(i, Requests) \in Nat
<1>1. OnTheWay(i, Pings) = Cardinality(Of(net, i, Pings))
  BY DEF OnTheWay, Of
<1>2. OnTheWay(i, Requests) = Cardinality(Of(net, i, Requests))
  BY DEF OnTheWay, Of
<1>3. OnTheWay(i, Pings) \in Nat /\ OnTheWay(i, Requests) \in Nat
  BY <1>1, <1>2, OfType DEF Shape
<1>4. pongs[i] \in Nat
  BY DEF Shape
<1>5. QED
  BY <1>1, <1>2, <1>3, <1>4 DEF Pieces

LEMMA CountTaken ==
  ASSUME NEW S, IsFiniteSet(S), NEW m \in S, NEW i, NEW kinds
  PROVE  Cardinality(Of(S \ {m}, i, kinds)) =
           IF m.id = i /\ m.kind \in kinds THEN Cardinality(Of(S, i, kinds)) - 1
                                           ELSE Cardinality(Of(S, i, kinds))
<1>1. Of(S \ {m}, i, kinds) = Of(S, i, kinds) \ {m}
  BY DEF Of
<1>2. m \in Of(S, i, kinds) <=> m.id = i /\ m.kind \in kinds
  BY DEF Of
<1>3. QED
  BY <1>1, <1>2, OfType, FS_RemoveElement

LEMMA CountPosted ==
  ASSUME NEW rest, IsFiniteSet(rest), NEW m, NEW S \in Posted(rest, m), NEW i, NEW kinds
  PROVE  LET c == Cardinality(Of(rest, i, kinds))
             d == Cardinality(Of(S, i, kinds))
         IN  /\ d \in {c, c + 1}
             /\ ~(m.id = i /\ m.kind \in kinds) => d = c
             /\ m.id = i /\ m.kind \in kinds /\ m.to \notin ended => d = c + 1
<1>1. Of(rest \union {m}, i, kinds) =
        IF m.id = i /\ m.kind \in kinds THEN Of(rest, i, kinds) \union {m}
                                        ELSE Of(rest, i, kinds)
  BY DEF Of
<1>2. m \in Of(rest, i, kinds) => m \in rest
  BY DEF Of
<1>3. IsFiniteSet(Of(rest, i, kinds))
  BY OfType
<1>4. Cardinality(Of(rest, i, kinds) \union {m}) =
        IF m \in Of(rest, i, kinds) THEN Cardinality(Of(rest, i, kinds))
                                    ELSE Cardinality(Of(rest, i, kinds)) + 1
  BY <1>3, FS_AddElement
<1>5. CASE S = rest
  BY <1>5, PostedOne
<1>6. CASE S = rest \union {m}
  BY <1>1, <1>2, <1>4, <1>6, PostedOne
<1>7. QED
  BY <1>5, <1>6, PostedOne

\* A unicast message is never rejected.
LEMMA UnicastHeard ==
  ASSUME Traced, NEW m \in net, m.mode = "unicast"
  PROVE  ~Reject(m)
<1>1. m.key \in {NoKey, PairKey(m.from, m.to)}
  BY DEF Traced, Belongs
<1>2. PairKey(m.from, m.to) = PairKey(m.to, m.from)
  BY DEF PairKey
<1>3. QED
  BY <1>1, <1>2 DEF Reject, Heard, Readable, KeyFor

\* Receiving adds no piece to any command, and takes none from a ping to another agent
\* whose two ends last.
LEMMA ReceivePieces ==
  ASSUME Shape, Traced, NEW m \in net, Receive(m), NEW i \in DOMAIN cmds, i \in Ids
  PROVE  LET after == pongs'[i] + Cardinality(Of(net', i, Pings))
         IN  /\ after <= Pieces(i)
             /\ PingsOne(i) /\ cmds[i].from # cmds[i].to /\ Lasts(i) => after = Pieces(i)
             /\ cmds[i].kind # "ping" => after = Pieces(i)
<1> DEFINE before == Cardinality(Of(net, i, Pings))
           left == Cardinality(Of(net \ {m}, i, Pings))
           after == Cardinality(Of(net', i, Pings))
           mine == m.id = i /\ m.kind \in Pings
<1>1. /\ Belongs(m, cmds[m.id]) /\ IsCommand(cmds[m.id])
      /\ m.mode = "unicast" => ~Reject(m)
  BY UnicastHeard DEF Traced
<1>2. left = (IF mine THEN before - 1 ELSE before)
  <2>1. IsFiniteSet(net)
    BY DEF Shape
  <2>2. QED
    BY <2>1, CountTaken
<1>3. Pieces(i) = pongs[i] + before /\ pongs[i] \in Nat /\ before \in Nat
  BY PiecesType DEF Pieces
<1>4. IsFiniteSet(net \ {m})
  BY TakenShape
<1>5. CASE Reject(m)
  <2>1. pongs' = pongs /\ after = left
    BY <1>5 DEF Reject
  <2>2. mine => ~PingsOne(i) /\ cmds[i].kind = "ping"
    BY <1>1, <1>5 DEF Belongs, IsOriginal, IsAnswer, IsCommand, PingsOne, Pings
  <2>3. QED
    BY <1>2, <1>3, <2>1, <2>2
<1>6. CASE ServeKeyRequest(m)
  <2>1. ~mine /\ pongs' = pongs /\ net' \in Posted(net \ {m}, Grant(m))
    BY <1>6 DEF ServeKeyRequest, IsKeyRequest, Pings, Grant
  <2>2. Grant(m).kind \notin Pings
    BY DEF Grant, Unicast, HandleRequest, Pings
  <2>3. after = left
    BY <1>4, <2>1, <2>2, CountPosted
  <2>4. QED
    BY <1>2, <1>3, <2>1, <2>3
<1>7. CASE StoreKey(m)
  <2>1. ~mine /\ pongs' = pongs /\ after = left
    BY <1>7 DEF StoreKey, Pings
  <2>2. QED
    BY <1>2, <1>3, <2>1
<1>8. CASE Dispatch(m) /\ m.kind = "pong"
  <2>1. net' = net \ {m} /\ pongs' = [pongs EXCEPT ![m.id] = @ + 1]
    BY <1>8 DEF Dispatch, Answers
  <2>2. pongs'[i] = IF m.id = i THEN pongs[i] + 1 ELSE pongs[i]
    BY <2>1 DEF Shape
  <2>3. mine <=> m.id = i
    BY <1>8 DEF Pings
  <2>4. after = left
    BY <2>1
  <2>5. QED
    BY <1>2, <1>3, <2>2, <2>3, <2>4
<1>9. CASE Dispatch(m) /\ Answers(m)
  <2>1. net' \in Posted(net \ {m}, Pong(m)) /\ pongs' = pongs /\ m.kind = "ping"
    BY <1>9 DEF Dispatch, Answers
  <2>2. Pong(m).id = m.id /\ Pong(m).kind \in Pings /\ Pong(m).to = m.from
    BY DEF Pong, Unicast, Pings
  <2>3. mine <=> m.id = i
    BY <2>1 DEF Pings
  <2>4. /\ after \in {left, left + 1}
        /\ ~mine => after = left
        /\ mine /\ m.from \notin ended => after = left + 1
    BY <1>4, <2>1, <2>2, <2>3, CountPosted
  <2>5. mine => m.from = cmds[i].from /\ cmds[i].kind = "ping"
    BY <1>1, <2>1 DEF Belongs, IsOriginal, IsAnswer, IsCommand
  <2>6. QED
    BY <1>2, <1>3, <2>1, <2>4, <2>5 DEF Lasts
<1>10. CASE Dispatch(m) /\ ~Answers(m) /\ m.kind # "pong"
  <2>1. net' = net \ {m} /\ pongs' = pongs
    BY <1>10 DEF Dispatch
  <2>2. after = left
    BY <2>1
  <2>3. mine => /\ cmds[i].kind = "ping"
                /\ ~(PingsOne(i) /\ cmds[i].from # cmds[i].to)
    BY <1>1, <1>10 DEF Belongs, IsOriginal, IsAnswer, IsCommand, PingsOne, Answers, Pings
  <2>4. QED
    BY <1>2, <1>3, <2>1, <2>2, <2>3
<1>11. QED
  BY <1>5, <1>6, <1>7, <1>8, <1>9, <1>10 DEF Receive

\* A key request of an agent on the allow-list whose two ends last is on its way, or its
\* grant is, until the key is stored.
LEMMA ReceiveRequests ==
  ASSUME Shape, Traced, FirstKey, NEW m \in net, Receive(m), NEW i \in DOMAIN cmds,
         i \in Ids, cmds[i].kind = "request"
  PROVE  LET before == OnTheWay(i, Requests)
             after == Cardinality(Of(net', i, Requests))
             a == cmds[i].from
         IN  /\ after <= before
             /\ a \in AllowList /\ Lasts(i) =>
                  \/ groupKey'[a] = holderKey'
                  \/ /\ after = before
                     /\ groupKey'[a] = groupKey[a] /\ holderKey' = holderKey
<1> DEFINE before == Cardinality(Of(net, i, Requests))
           left == Cardinality(Of(net \ {m}, i, Requests))
           after == Cardinality(Of(net', i, Requests))
           mine == m.id = i /\ m.kind \in Requests
           a == cmds[i].from
<1>1. /\ Belongs(m, cmds[m.id]) /\ IsCommand(cmds[m.id]) /\ IsCommand(cmds[i])
      /\ m.mode = "unicast" => ~Reject(m)
  BY UnicastHeard DEF Traced
<1>2. left = (IF mine THEN before - 1 ELSE before)
  <2>1. IsFiniteSet(net)
    BY DEF Shape
  <2>2. QED
    BY <2>1, CountTaken
<1>3. OnTheWay(i, Requests) = before /\ before \in Nat
  BY PiecesType
<1>4. IsFiniteSet(net \ {m})
  BY TakenShape
<1>5. m.id = i => m.mode = "unicast"
  BY <1>1 DEF Belongs, IsOriginal, IsAnswer, IsCommand
<1>6. cmds[i].to = KeyHolder
  BY <1>1 DEF IsCommand
<1>7. CASE Reject(m)
  <2>1. ~mine /\ after = left /\ groupKey' = groupKey /\ holderKey' = holderKey
    BY <1>1, <1>5, <1>7 DEF Reject
  <2>2. QED
    BY <1>2, <1>3, <2>1
<1>8. CASE ServeKeyRequest(m)
  <2>1. /\ net' \in Posted(net \ {m}, Grant(m)) /\ m.kind = "request"
        /\ groupKey' = groupKey /\ holderKey' = holderKey
    BY <1>8 DEF ServeKeyRequest, IsKeyRequest, Grant
  <2>2. /\ Grant(m).id = m.id /\ Grant(m).to = m.from
        /\ m.from \in AllowList => Grant(m).kind \in Requests
    BY DEF Grant, Unicast, HandleRequest, Requests
  <2>3. mine <=> m.id = i
    BY <2>1 DEF Requests
  <2>4. mine => m.from = a
    BY <1>1, <2>1 DEF Belongs, IsOriginal, IsAnswer
  <2>5. /\ after \in {left, left + 1}
        /\ ~mine => after = left
        /\ mine /\ m.from \in AllowList /\ m.from \notin ended => after = left + 1
    BY <1>4, <2>1, <2>2, <2>3, CountPosted
  <2>6. QED
    BY <1>2, <1>3, <2>1, <2>4, <2>5 DEF Lasts
<1>9. CASE StoreKey(m)
  <2>1. /\ after = left /\ groupKey' = [groupKey EXCEPT ![m.to] = m.body]
        /\ holderKey' = holderKey /\ m.kind = "granted"
    BY <1>9 DEF StoreKey
  <2>2. mine <=> m.id = i
    BY <2>1 DEF Requests
  <2>3. mine => m.to = a
    BY <1>1, <2>1 DEF Belongs, IsOriginal, IsAnswer, IsCommand
  <2>4. Lasts(i) => m.body = holderKey
    BY <1>6, <2>1 DEF FirstKey, Lasts
  <2>5. m.to \in Agents /\ groupKey'[m.to] = m.body
        /\ \A b \in Agents : b # m.to => groupKey'[b] = groupKey[b]
    BY <2>1, TakenShape DEF Shape
  <2>6. a \in Agents
    <3>1. cmds[i] \in Command
      BY DEF Shape
    <3>2. QED
      BY <3>1 DEF Command
  <2>7. QED
    BY <1>2, <1>3, <2>1, <2>2, <2>3, <2>4, <2>5, <2>6
<1>10. CASE Dispatch(m)
  <2>1. \/ net' = net \ {m}
        \/ m.kind = "ping" /\ net' \in Posted(net \ {m}, Pong(m))
    BY <1>10 DEF Dispatch, Answers
  <2>2. Pong(m).kind \notin Requests
    BY DEF Pong, Unicast, Requests
  <2>3. after = left
    <3>1. CASE net' \in Posted(net \ {m}, Pong(m))
      BY <1>4, <2>2, <3>1, CountPosted
    <3>2. QED
      BY <2>1, <3>1
  <2>4. mine => ~Lasts(i)
    <3>1. mine => m.kind = "request" /\ m.to = KeyHolder /\ holderKey = NoKey
      BY <1>1, <1>6, <1>10
         DEF Dispatch, IsKeyRequest, Requests, Belongs, IsOriginal, IsAnswer, IsCommand
    <3>2. QED
      BY <1>6, <3>1 DEF FirstKey, Lasts, NoKey
  <2>5. groupKey' = groupKey /\ holderKey' = holderKey
    BY <1>10 DEF Dispatch
  <2>6. QED
    BY <1>2, <1>3, <2>3, <2>4, <2>5
<1>11. QED
  BY <1>7, <1>8, <1>9, <1>10 DEF Receive

\* An agent whose process has never ended runs.
Lasting == \A a \in Agents : a \notin ended => up[a]

LEMMA LastingNext == Shape /\ Lasting /\ [Next]_vars => Lasting' /\ ended \subseteq ended'
<1> SUFFICES ASSUME Shape, Lasting, [Next]_vars PROVE Lasting' /\ ended \subseteq ended'
  OBVIOUS
<1>1. CASE UNCHANGED vars
  BY <1>1 DEF vars, Lasting
<1>2. ASSUME NEW a \in Agents, Lives(a) PROVE Lasting' /\ ended \subseteq ended'
  BY <1>2 DEF Lives, Die, Spawn, Join, Leave, SetArchitecture, Lasting, Shape
<1>3. ASSUME NEW mode, NEW b, NEW c, NEW kind, NEW sealed, Issue(mode, b, c, kind, sealed)
      PROVE  up' = up /\ ended' = ended
  BY <1>3 DEF Issue
<1>4. ASSUME NEW m \in net, Receive(m) PROVE up' = up /\ ended' = ended
  BY <1>4 DEF Receive, Reject, ServeKeyRequest, StoreKey, Dispatch
<1>5. CASE Steps
  BY <1>2, <1>3, <1>4, <1>5
     DEF Steps, Asks, SendUnicast, Spreads, SendMulticast, SendBroadcast, Lasting
<1>6. QED
  BY <1>1, <1>5, NextSteps

LEMMA LastingAlways == Spec => []Lasting
<1>1. Init => Lasting
  BY DEF Init, Lasting
<1>2. QED
  BY <1>1, ShapeAlways, LastingNext, PTL DEF Spec

\* What is said of a command that has been given: the pieces of a ping and the pieces of
\* a key request are at most one, and one is there as long as both ends last.
Told(i) ==
  /\ PingsOne(i) =>
       /\ Pieces(i) <= 1
       /\ cmds[i].from # cmds[i].to /\ Lasts(i) => Pieces(i) = 1
  /\ cmds[i].kind # "ping" => Pieces(i) = 0
  /\ cmds[i].kind = "request" =>
       /\ OnTheWay(i, Requests) <= 1
       /\ cmds[i].from \in AllowList /\ Lasts(i) =>
            \/ groupKey[cmds[i].from] = holderKey
            \/ OnTheWay(i, Requests) = 1

\* A ping to a group or to all has at most a piece for each agent.
Counted ==
  \A i \in Ids :
    /\ Pieces(i) <= Cardinality(Agents)
    /\ i \in DOMAIN cmds => Told(i)
    /\ i \notin DOMAIN cmds => pongs[i] = 0

LEMMA CardAgents == Cardinality(Agents) \in Nat /\ Cardinality(Agents) >= 1
<1>1. Cardinality(Agents) \in Nat /\ Agents # {}
  BY ConversationAssumption, FS_CardinalityType
<1>2. Cardinality(Agents) # 0
  BY <1>1, ConversationAssumption, FS_EmptySet
<1>3. QED
  BY <1>1, <1>2

\* A step that adds nothing to what there is of a command keeps what is said of it, if
\* what it takes is not needed.
LEMMA ToldStays ==
  ASSUME Shape, Shape', NEW i \in Ids, i \in DOMAIN cmds, cmds'[i] = cmds[i],
         ended \subseteq ended', Told(i),
         Pieces(i)' <= Pieces(i),
         PingsOne(i) /\ cmds[i].from # cmds[i].to /\ Lasts(i)' => Pieces(i)' = Pieces(i),
         cmds[i].kind = "request" => OnTheWay(i, Requests)' <= OnTheWay(i, Requests),
         cmds[i].kind = "request" /\ cmds[i].from \in AllowList /\ Lasts(i)' =>
           \/ (groupKey[cmds[i].from] = holderKey)'
           \/ /\ OnTheWay(i, Requests)' = OnTheWay(i, Requests)
              /\ groupKey'[cmds[i].from] = groupKey[cmds[i].from] /\ holderKey' = holderKey
  PROVE  Told(i)'
<1>1. Pieces(i) \in Nat /\ OnTheWay(i, Requests) \in Nat
  BY PiecesType
<1>2. Pieces(i)' \in Nat /\ OnTheWay(i, Requests)' \in Nat
  <2>1. /\ OnTheWay(i, Pings)' = Cardinality(Of(net', i, Pings))
        /\ OnTheWay(i, Requests)' = Cardinality(Of(net', i, Requests))
    BY DEF OnTheWay, Of, Pings, Requests
  <2>2. IsFiniteSet(net') /\ pongs'[i] \in Nat
    BY DEF Shape
  <2>3. QED
    BY <2>1, <2>2, OfType DEF Pieces
<1>3. Lasts(i)' => Lasts(i)
  BY DEF Lasts
<1>4. PingsOne(i)' <=> PingsOne(i)
  BY DEF PingsOne
<1>5. QED
  BY <1>1, <1>2, <1>3, <1>4 DEF Told

\* The same counts, of what is on its way and has been answered after a step.
LEMMA PiecesPrime ==
  ASSUME NEW i
  PROVE  /\ Pieces(i)' = pongs'[i] + Cardinality(Of(net', i, Pings))
         /\ OnTheWay(i, Requests)' = Cardinality(Of(net', i, Requests))
  BY DEF Pieces, OnTheWay, Of, Pings, Requests

\* A number no command has yet has nothing on its way.
LEMMA UnusedEmpty ==
  ASSUME Traced, NEW i, i \notin DOMAIN cmds, NEW kinds
  PROVE  Of(net, i, kinds) = {}
  BY DEF Traced, Of

LEMMA CountedReceive ==
  ASSUME Shape, Shape', Traced, FirstKey, Counted, NEW m \in net, Receive(m)
  PROVE  Counted'
<1>1. cmds' = cmds /\ ended' = ended
  BY DEF Receive, Reject, ServeKeyRequest, StoreKey, Dispatch
<1> SUFFICES ASSUME NEW i \in Ids
             PROVE  /\ Pieces(i)' <= Cardinality(Agents)
                    /\ i \in DOMAIN cmds => Told(i)'
                    /\ i \notin DOMAIN cmds => pongs'[i] = 0
  BY <1>1 DEF Counted, Ids
<1>2. CASE i \in DOMAIN cmds
  <2>1. /\ Pieces(i)' <= Pieces(i)
        /\ PingsOne(i) /\ cmds[i].from # cmds[i].to /\ Lasts(i) => Pieces(i)' = Pieces(i)
    BY <1>2, ReceivePieces, PiecesPrime
  <2>2. cmds[i].kind = "request" =>
          /\ OnTheWay(i, Requests)' <= OnTheWay(i, Requests)
          /\ cmds[i].from \in AllowList /\ Lasts(i) =>
               \/ groupKey'[cmds[i].from] = holderKey'
               \/ /\ OnTheWay(i, Requests)' = OnTheWay(i, Requests)
                  /\ groupKey'[cmds[i].from] = groupKey[cmds[i].from]
                  /\ holderKey' = holderKey
    BY <1>2, ReceiveRequests, PiecesPrime
  <2>3. Lasts(i)' <=> Lasts(i)
    BY <1>1 DEF Lasts
  <2>4. Told(i) /\ Pieces(i) <= Cardinality(Agents)
    BY <1>2 DEF Counted
  <2>5. Told(i)'
    BY <1>1, <1>2, <2>1, <2>2, <2>3, <2>4, ToldStays
  <2>6. Pieces(i)' \in Int /\ Pieces(i) \in Int
    BY PiecesType, PiecesPrime, OfType DEF Shape
  <2>7. QED
    BY <1>2, <2>1, <2>4, <2>5, <2>6, CardAgents
<1>3. CASE i \notin DOMAIN cmds
  <2>1. m.id # i
    BY <1>3 DEF Traced
  <2>2. pongs'[i] = pongs[i]
    BY <2>1 DEF Receive, Reject, ServeKeyRequest, StoreKey, Dispatch, Shape
  <2>3. Traced'
    BY TracedReceive
  <2>4. Of(net', i, Pings) = {}
    BY <1>1, <1>3, <2>3 DEF Traced, Of
  <2>5. Pieces(i)' = 0
    <3>1. pongs'[i] = 0
      BY <1>3, <2>2 DEF Counted
    <3>2. Cardinality(Of(net', i, Pings)) = 0
      BY <2>4, FS_EmptySet
    <3>3. QED
      BY <3>1, <3>2, PiecesPrime
  <2>6. QED
    BY <1>3, <2>2, <2>5, CardAgents DEF Counted
<1>4. QED
  BY <1>2, <1>3

LEMMA CountedLives ==
  ASSUME Shape, Shape', Traced, Lasting, Counted, NEW a \in Agents, Lives(a),
         ended \subseteq ended'
  PROVE  Counted'
<1>1. /\ cmds' = cmds /\ pongs' = pongs /\ net' \subseteq net
      /\ \A m \in net : m \in net' \/ (m.to = a /\ a \in ended')
  BY DEF Lives, Die, Spawn, Join, Leave, SetArchitecture
<1> SUFFICES ASSUME NEW i \in Ids
             PROVE  /\ Pieces(i)' <= Cardinality(Agents)
                    /\ i \in DOMAIN cmds => Told(i)'
                    /\ i \notin DOMAIN cmds => pongs'[i] = 0
  BY <1>1 DEF Counted, Ids
<1>2. \A kinds : Cardinality(Of(net', i, kinds)) <= Cardinality(Of(net, i, kinds))
  <2>1. \A kinds : Of(net', i, kinds) \in SUBSET Of(net, i, kinds)
    BY <1>1 DEF Of
  <2>2. \A kinds : IsFiniteSet(Of(net, i, kinds))
    BY OfType DEF Shape
  <2>3. QED
    BY <2>1, <2>2, FS_Subset
<1>3. Pieces(i)' <= Pieces(i) /\ OnTheWay(i, Requests)' <= OnTheWay(i, Requests)
  <2>1. /\ Cardinality(Of(net', i, Pings)) \in Nat /\ Cardinality(Of(net, i, Pings)) \in Nat
        /\ pongs[i] \in Nat
        /\ Pieces(i) = pongs[i] + Cardinality(Of(net, i, Pings))
        /\ OnTheWay(i, Requests) = Cardinality(Of(net, i, Requests))
    BY OfType, PiecesType DEF Shape, Pieces
  <2>2. QED
    BY <1>1, <1>2, <2>1, PiecesPrime
<1>a. Pieces(i)' <= Cardinality(Agents) /\ (i \notin DOMAIN cmds => pongs'[i] = 0)
  <2>1. Pieces(i)' \in Nat
    BY PiecesPrime, OfType, <1>1 DEF Shape
  <2>2. Pieces(i) \in Nat /\ Pieces(i) <= Cardinality(Agents)
    BY PiecesType DEF Counted
  <2>3. i \notin DOMAIN cmds => pongs[i] = 0
    BY DEF Counted
  <2>4. QED
    BY <1>1, <1>3, <2>1, <2>2, <2>3, CardAgents
<1>4. ASSUME i \in DOMAIN cmds, cmds[i].mode = "unicast", Lasts(i)'
      PROVE  \A kinds : Of(net', i, kinds) = Of(net, i, kinds)
  <2>1. a \notin {cmds[i].from, cmds[i].to} \/ a \notin ended'
    BY <1>1, <1>4 DEF Lasts
  <2>2. \A m \in net : m.id = i => m.to \in {cmds[i].from, cmds[i].to}
    BY <1>4 DEF Traced, Belongs, IsOriginal, IsAnswer
  <2>3. \A m \in net : m.id = i => m \in net'
    BY <1>1, <2>1, <2>2
  <2>4. QED
    BY <1>1, <2>3 DEF Of
<1>5. CASE i \in DOMAIN cmds
  <2>1. cmds[i] \in Command /\ IsCommand(cmds[i]) /\ Told(i)
    BY <1>5 DEF Shape, Traced, Counted
  <2>2. ASSUME cmds[i].mode = "unicast", Lasts(i)'
        PROVE  Pieces(i)' = Pieces(i) /\ OnTheWay(i, Requests)' = OnTheWay(i, Requests)
    BY <1>1, <1>4, <1>5, <2>2, PiecesPrime, PiecesType DEF Pieces
  <2>3. ASSUME Lasts(i)', cmds[i].kind = "request"
        PROVE  groupKey'[cmds[i].from] = groupKey[cmds[i].from] /\ holderKey' = holderKey
    <3>1. cmds[i].from \notin ended /\ KeyHolder \notin ended
          /\ cmds[i].from \notin ended' /\ KeyHolder \notin ended'
      BY <1>1, <2>1, <2>3 DEF Lasts, IsCommand
    <3>2. up[cmds[i].from] /\ up[KeyHolder] /\ cmds[i].from \in Agents
      BY <2>1, <3>1, ConversationAssumption DEF Lasting, Command
    <3>3. CASE Die(a)
      BY <3>1, <3>2, <3>3 DEF Die, Shape
    <3>4. ASSUME NEW mode, NEW holder \in BOOLEAN, NEW atStart, Spawn(a, mode, holder, atStart)
          PROVE  groupKey'[cmds[i].from] = groupKey[cmds[i].from] /\ holderKey' = holderKey
      <4>1. a # cmds[i].from /\ a # KeyHolder
        BY <3>2, <3>4 DEF Spawn
      <4>2. PICK k : groupKey' = [groupKey EXCEPT ![a] = k]
        BY <3>4 DEF Spawn
      <4>3. QED
        BY <3>2, <3>4, <4>1, <4>2 DEF Spawn, Shape
    <3>5. QED
      BY <3>3, <3>4 DEF Lives, Join, Leave, SetArchitecture
  <2>4. PingsOne(i) => cmds[i].mode = "unicast"
    BY DEF PingsOne
  <2>5. cmds[i].kind = "request" => cmds[i].mode = "unicast"
    BY <2>1 DEF IsCommand
  <2>6. PingsOne(i) /\ cmds[i].from # cmds[i].to /\ Lasts(i)' => Pieces(i)' = Pieces(i)
    BY <2>2, <2>4
  <2>7. cmds[i].kind = "request" /\ cmds[i].from \in AllowList /\ Lasts(i)' =>
           \/ (groupKey[cmds[i].from] = holderKey)'
           \/ /\ OnTheWay(i, Requests)' = OnTheWay(i, Requests)
              /\ groupKey'[cmds[i].from] = groupKey[cmds[i].from] /\ holderKey' = holderKey
    BY <2>2, <2>3, <2>5
  <2>8. Told(i)'
    BY <1>1, <1>3, <1>5, <2>1, <2>6, <2>7, ToldStays
  <2>9. QED
    BY <1>5, <1>a, <2>8
<1>6. CASE i \notin DOMAIN cmds
  BY <1>6, <1>a
<1>7. QED
  BY <1>5, <1>6

\* A command changes nothing for the commands before it.
LEMMA CountedIssue ==
  ASSUME Shape, Shape', Traced, Counted, NEW mode, NEW a, NEW b, NEW kind, NEW sealed,
         Issue(mode, a, b, kind, sealed),
         NEW n \in Ids, n = NextId,
         \A m \in net' : m \in net \/ m.id = n,
         net \subseteq net',
         Pieces(n)' <= Cardinality(Agents), Told(n)'
  PROVE  Counted'
<1> SUFFICES ASSUME NEW i \in Ids, i # n
             PROVE  /\ Pieces(i)' <= Cardinality(Agents)
                    /\ i \in DOMAIN cmds' => Told(i)'
                    /\ i \notin DOMAIN cmds' => pongs'[i] = 0
  <2>1. n \in DOMAIN cmds'
    BY NextIdType
  <2>2. QED
    BY <2>1 DEF Counted, Ids
<1>1. \A kinds : Of(net', i, kinds) = Of(net, i, kinds)
  BY DEF Of
<1>2. pongs' = pongs /\ ended' = ended /\ groupKey' = groupKey /\ holderKey' = holderKey
  BY DEF Issue
<1>3. Pieces(i)' = Pieces(i) /\ OnTheWay(i, Requests)' = OnTheWay(i, Requests)
  BY <1>1, <1>2, PiecesPrime, PiecesType DEF Pieces
<1>4. /\ DOMAIN cmds' = DOMAIN cmds \union {n}
      /\ \A j \in DOMAIN cmds : cmds'[j] = cmds[j]
  BY NextIdType
<1>5. Pieces(i) \in Nat /\ OnTheWay(i, Requests) \in Nat
  BY PiecesType
<1>6. CASE i \in DOMAIN cmds
  <2>1. Told(i)
    BY <1>6 DEF Counted
  <2>2. ended \subseteq ended' /\ cmds'[i] = cmds[i]
    BY <1>2, <1>4, <1>6
  <2>3. Pieces(i)' <= Pieces(i) /\ OnTheWay(i, Requests)' <= OnTheWay(i, Requests)
    BY <1>3, <1>5
  <2>4. Told(i)'
    BY <1>2, <1>3, <1>6, <2>1, <2>2, <2>3, ToldStays
  <2>5. QED
    BY <1>3, <1>4, <1>6, <2>4 DEF Counted
<1>7. CASE i \notin DOMAIN cmds
  BY <1>2, <1>3, <1>4, <1>7 DEF Counted
<1>8. QED
  BY <1>6, <1>7

LEMMA CountedAsks ==
  ASSUME Shape, Shape', Traced, Counted, NEW a \in Agents, NEW b \in Agents, NEW kind,
         NEW encrypted \in BOOLEAN, Asks(a, b, kind, encrypted)
  PROVE  Counted'
<1>1. Issue("unicast", a, b, kind, encrypted)
  BY DEF Asks, SendUnicast
<1>2. PICK n \in Ids : n = NextId
  BY <1>1, NextIdType
<1>3. PICK m : /\ m = Unicast(n, a, b, kind, IF encrypted THEN PairKey(a, b) ELSE NoKey, NoKey)
               /\ net' \in Posted(net, m)
  BY <1>2 DEF Asks, SendUnicast
<1>4. m.id = n /\ m.kind = kind /\ m.to = b
  BY <1>3 DEF Unicast
<1>5. net \subseteq net' /\ \A x \in net' : x \in net \/ x.id = n
  BY <1>3, <1>4, PostedOne
<1>6. /\ n \notin DOMAIN cmds
      /\ cmds'[n] = [mode |-> "unicast", from |-> a, to |-> b, kind |-> kind,
                     sealed |-> encrypted]
  BY <1>1, <1>2, NextIdType
<1>7. pongs'[n] = 0
  BY <1>1, <1>6 DEF Issue, Counted
<1>8. \A kinds : Cardinality(Of(net, n, kinds)) = 0
  BY <1>6, UnusedEmpty, FS_EmptySet
<1>9. ASSUME NEW kinds
      PROVE  /\ Cardinality(Of(net', n, kinds)) \in {0, 1}
             /\ kind \notin kinds => Cardinality(Of(net', n, kinds)) = 0
             /\ kind \in kinds /\ b \notin ended => Cardinality(Of(net', n, kinds)) = 1
  <2>1. IsFiniteSet(net)
    BY DEF Shape
  <2>2. QED
    BY <1>3, <1>4, <1>8, <2>1, CountPosted
<1>10. Pieces(n)' = Cardinality(Of(net', n, Pings))
       /\ OnTheWay(n, Requests)' = Cardinality(Of(net', n, Requests))
  BY <1>7, <1>9, PiecesPrime
<1>11. Pieces(n)' <= Cardinality(Agents)
  BY <1>9, <1>10, CardAgents
<1>12. /\ Lasts(n)' => b \notin ended
       /\ kind # "ping" => kind \notin Pings
       /\ kind = "ping" => kind \in Pings
       /\ kind = "request" => kind \in Requests
  <2>1. kind \in {"chat", "ping", "request"}
    BY DEF Asks
  <2>2. Lasts(n)' => b \notin ended
    <3>1. ended' = ended
      BY <1>1 DEF Issue
    <3>2. cmds'[n].to = b
      BY <1>6
    <3>3. QED
      BY <3>1, <3>2 DEF Lasts
  <2>3. QED
    BY <2>1, <2>2 DEF Pings, Requests
<1>13. Told(n)'
  <2>1. cmds'[n].kind = kind /\ PingsOne(n)' => kind = "ping"
    BY <1>6 DEF PingsOne
  <2>2. /\ Pieces(n)' \in {0, 1} /\ OnTheWay(n, Requests)' \in {0, 1}
        /\ kind # "ping" => Pieces(n)' = 0
        /\ kind = "ping" /\ Lasts(n)' => Pieces(n)' = 1
        /\ kind = "request" /\ Lasts(n)' => OnTheWay(n, Requests)' = 1
    BY <1>9, <1>10, <1>12
  <2>3. QED
    BY <1>6, <2>1, <2>2 DEF Told, PingsOne
<1>14. QED
  BY <1>1, <1>2, <1>5, <1>11, <1>13, CountedIssue

LEMMA CountedSpreads ==
  ASSUME Shape, Shape', Traced, Counted, NEW a \in Agents, Spreads(a)
  PROVE  Counted'
<1>1. PICK mode \in {"multicast", "broadcast"}, kind \in {"chat", "ping"},
           sealed \in BOOLEAN, R \in SUBSET Agents, key \in Keys :
             /\ Issue(mode, a, a, kind, sealed)
             /\ net' = net \union Copies(mode, a, R, kind, key)
  BY SpreadsShape
<1>2. PICK n \in Ids : n = NextId
  BY <1>1, NextIdType
<1>3. PICK C : C = Copies(mode, a, R, kind, key)
  OBVIOUS
<1>4. /\ IsFiniteSet(C) /\ Cardinality(C) <= Cardinality(Agents)
      /\ \A m \in C : m.id = n /\ m.kind = kind
  <2>1. mode \in Modes /\ kind \in Kinds /\ NextId \in Ids
    BY <1>2 DEF Modes, Kinds
  <2>2. IsFiniteSet(C) /\ Cardinality(C) <= Cardinality(Agents)
    BY <1>3, <2>1, CopiesShape
  <2>3. QED
    BY <1>2, <1>3, <2>2 DEF Copies
<1>5. net \subseteq net' /\ \A x \in net' : x \in net \/ x.id = n
  BY <1>1, <1>3, <1>4
<1>6. /\ n \notin DOMAIN cmds
      /\ cmds'[n] = [mode |-> mode, from |-> a, to |-> a, kind |-> kind, sealed |-> sealed]
  BY <1>1, <1>2, NextIdType
<1>7. pongs'[n] = 0
  BY <1>1, <1>6 DEF Issue, Counted
<1>8. ASSUME NEW kinds
      PROVE  /\ Cardinality(Of(net', n, kinds)) \in Nat
             /\ Cardinality(Of(net', n, kinds)) <= Cardinality(Agents)
             /\ kind \notin kinds => Cardinality(Of(net', n, kinds)) = 0
  <2>1. Of(net, n, kinds) = {}
    BY <1>6, UnusedEmpty
  <2>2. Of(net', n, kinds) \in SUBSET C
    BY <1>1, <1>3, <2>1 DEF Of
  <2>3. Cardinality(Of(net', n, kinds)) <= Cardinality(C)
        /\ Cardinality(Of(net', n, kinds)) \in Nat
    BY <1>4, <2>2, FS_Subset, FS_CardinalityType
  <2>4. Cardinality(C) \in Nat
    BY <1>4, FS_CardinalityType
  <2>5. kind \notin kinds => Of(net', n, kinds) = {}
    BY <1>4, <2>2 DEF Of
  <2>6. kind \notin kinds => Cardinality(Of(net', n, kinds)) = 0
    BY <2>5, FS_EmptySet
  <2>7. QED
    BY <1>4, <2>3, <2>4, <2>6, CardAgents
<1>9. Pieces(n)' = Cardinality(Of(net', n, Pings))
  BY <1>7, <1>8, PiecesPrime
<1>10. Pieces(n)' <= Cardinality(Agents)
  BY <1>8, <1>9
<1>11. kind # "ping" => kind \notin Pings
  BY DEF Pings
<1>12. Told(n)'
  BY <1>6, <1>8, <1>9, <1>11 DEF Told, PingsOne
<1>13. QED
  BY <1>1, <1>2, <1>5, <1>10, <1>12, CountedIssue

LEMMA CountedNext ==
  Shape /\ Shape' /\ Traced /\ FirstKey /\ Lasting /\ Counted /\ [Next]_vars => Counted'
<1> SUFFICES ASSUME Shape, Shape', Traced, FirstKey, Lasting, Counted, [Next]_vars
             PROVE  Counted'
  OBVIOUS
<1>1. CASE Next
  <2>1. Steps /\ ended \subseteq ended'
    BY <1>1, NextSteps, LastingNext
  <2>2. QED
    BY <2>1, CountedLives, CountedAsks, CountedSpreads, CountedReceive DEF Steps
<1>2. CASE UNCHANGED vars
  <2>1. ASSUME NEW i \in Ids
        PROVE  /\ Pieces(i)' <= Cardinality(Agents)
               /\ i \in DOMAIN cmds' => Told(i)'
               /\ i \notin DOMAIN cmds' => pongs'[i] = 0
    <3>1. /\ cmds' = cmds /\ net' = net /\ pongs' = pongs /\ ended' = ended
          /\ groupKey' = groupKey /\ holderKey' = holderKey
      BY <1>2 DEF vars
    <3>2. Pieces(i)' = Pieces(i) /\ OnTheWay(i, Requests)' = OnTheWay(i, Requests)
      BY <3>1, PiecesPrime, PiecesType DEF Pieces
    <3>3. i \in DOMAIN cmds => (Told(i)' <=> Told(i))
      BY <3>1, <3>2 DEF Told, PingsOne, Lasts
    <3>4. QED
      BY <3>1, <3>2, <3>3 DEF Counted
  <2>2. QED
    BY <2>1 DEF Counted, Ids
<1>3. QED
  BY <1>1, <1>2

LEMMA CountedAlways == Spec => []Counted
<1>1. Init => Counted
  <2>1. ASSUME Init, NEW i \in Ids PROVE Pieces(i) = 0 /\ i \notin DOMAIN cmds /\ pongs[i] = 0
    <3>1. OnTheWay(i, Pings) = 0
      <4>1. {m \in net : m.id = i /\ m.kind \in Pings} = {}
        BY <2>1 DEF Init
      <4>2. QED
        BY <4>1, FS_EmptySet DEF OnTheWay
    <3>2. QED
      BY <2>1, <3>1 DEF Init, Pieces
  <2>2. QED
    BY <2>1, CardAgents DEF Counted
<1>2. QED
  BY <1>1, ShapeAlways, TracedAlways, FirstKeyAlways, LastingAlways, CountedNext, PTL DEF Spec

-----------------------------------------------------------------------------

\* Every variable keeps its type, and no ping has more pongs than there are agents.
THEOREM TypeCorrect == Spec => []TypeOK
<1>1. Shape /\ Counted => TypeOK
  <2>1. ASSUME Shape, Counted, NEW i \in Ids PROVE pongs[i] \in 0 .. Cardinality(Agents)
    BY <2>1, PiecesType, CardAgents DEF Counted, Pieces
  <2>2. ASSUME Shape, Counted PROVE pongs \in [Ids -> 0 .. Cardinality(Agents)]
    BY <2>1, <2>2 DEF Shape
  <2>3. QED
    BY <2>2 DEF Shape, TypeOK
<1>2. QED
  BY <1>1, ShapeAlways, CountedAlways, PTL

\* 3.2.5.1 / .2 (Agent.dispatch, setArchitecture, the two handlers): however messages are
\* delayed and the architectures switched, a ping to another agent that lasts is answered
\* once and never twice.
THEOREM PingsAnsweredOnce == Spec => []OneAnswer
<1>1. Shape /\ Counted => OneAnswer
  <2>1. ASSUME Shape, Counted, NEW i \in DOMAIN cmds
        PROVE  Told(i) /\ Pieces(i) = pongs[i] + OnTheWay(i, {"ping", "pong"})
    <3>1. i \in Ids
      BY <2>1, ConversationAssumption DEF Shape, Ids
    <3>2. QED
      BY <2>1, <3>1 DEF Counted, Pieces, Pings
  <2>2. QED
    BY <2>1 DEF OneAnswer, Told
<1>2. QED
  BY <1>1, ShapeAlways, CountedAlways, PTL

\* BR-18 (request-group-key, serveKeyRequest): the request of an agent the allow-list
\* names is not lost, as long as it and the key holder last: it has the key, or its
\* request or its grant is on the way.
THEOREM RequestsServed == Spec => []RequestServed
<1>1. Shape /\ Counted => RequestServed
  <2>1. ASSUME Shape, Counted, NEW i \in DOMAIN cmds PROVE Told(i)
    <3>1. i \in Ids
      BY <2>1, ConversationAssumption DEF Shape, Ids
    <3>2. QED
      BY <2>1, <3>1 DEF Counted
  <2>2. QED
    BY <2>1 DEF RequestServed, Told, Requests
<1>2. QED
  BY <1>1, ShapeAlways, CountedAlways, PTL
=============================================================================

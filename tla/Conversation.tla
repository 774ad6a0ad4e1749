---------------------------- MODULE Conversation ----------------------------
(***************************************************************************)
(* What an agent does with a message: decryption, the group-key protocol   *)
(* and the conversation handlers (Agent.receiveUnicast, receiveMulticast,  *)
(* receiveBroadcast and dispatch).                                         *)
(*                                                                         *)
(* A command makes an agent send one message; whatever is sent in answer   *)
(* keeps the command's id here.  Messages are received in any order, as    *)
(* two connections of a pair allow.  A unicast message to an agent that    *)
(* has ended before may be lost on a connection to the earlier process,    *)
(* and a group message or a broadcast reaches any of those who listen.     *)
(* Membership is what Multicast makes of it, in one step.                  *)
(*                                                                         *)
(* A key is a set: the two ids a pairwise key is derived from, in no       *)
(* order, or the number of the random key a key holder generated.          *)
(***************************************************************************)
EXTENDS Integers, Sequences, FiniteSets

CONSTANTS
  Agents,
  KeyHolder,    \* the agent every key request is sent to
  AllowList,    \* the agents the key holder gives the group key
  Components,   \* the agents that start with the component-controlled architecture
  Switched,     \* the agents whose architecture is switched
  Movers,       \* the agents that leave and join the group
  Mortal,       \* the agents whose process may end
  Senders,      \* the agents that are told to send
  Bodies,       \* what a command sends: "chat", "ping"
  MaxCommands,  \* commands that make an agent send
  MaxKeys       \* group keys ever generated

ASSUME ConversationAssumption ==
  /\ IsFiniteSet(Agents)
  /\ KeyHolder \in Agents
  /\ AllowList \union Senders \union Components \subseteq Agents
  /\ Switched \union Movers \union Mortal \subseteq Agents
  /\ MaxKeys > 0
  /\ Bodies \subseteq {"chat", "ping"}
  /\ MaxCommands \in Nat /\ MaxKeys \in Nat

VARIABLES
  up,          \* the process runs
  handler,     \* Agent.handler
  member,      \* is a member of the group
  groupKey,    \* MulticastSecurity.groupKeys, for the group
  holderKey,   \* KeyHolderAgent.groupKeys, for the group; none without the role
  keys,        \* group keys generated so far
  net,         \* messages on their way
  cmds,        \* history: what each command sent
  pongs,       \* history: answers to the command that have been received
  ended        \* history: agents whose process has ended

vars == <<up, handler, member, groupKey, holderKey, keys, net, cmds, pongs, ended>>

Ids == 1 .. MaxCommands

Architectures == {"agent-controlled", "component-controlled"}

Modes == {"unicast", "multicast", "broadcast"}

\* "chat" stands for every payload whose handling only reports it.
Kinds == {"chat", "ping", "pong", "request", "granted", "denied"}

NoKey == {}

\* Mutant of PairKey: derived from the own id alone.
PairKeyOwn(a, b) == {a}

\* derivePairwiseKey sorts the two ids.
PairKey(a, b) == {a, b}

GroupKeys == {{n} : n \in 1 .. MaxKeys}

Keys == {NoKey} \union {PairKey(a, b) : a, b \in Agents} \union GroupKeys

Message == [id : Ids, mode : Modes, from : Agents, to : Agents, kind : Kinds,
            key : Keys, body : GroupKeys \union {NoKey}]

Command == [mode : Modes, from : Agents, to : Agents, kind : Kinds, sealed : BOOLEAN]

TypeOK ==
  /\ up \in [Agents -> BOOLEAN]
  /\ handler \in [Agents -> Architectures]
  /\ member \in [Agents -> BOOLEAN]
  /\ groupKey \in [Agents -> GroupKeys \union {NoKey}]
  /\ holderKey \in GroupKeys \union {NoKey}
  /\ keys \in 0 .. MaxKeys
  /\ net \subseteq Message
  /\ cmds \in Seq(Command) /\ Len(cmds) <= MaxCommands
  /\ pongs \in [Ids -> 0 .. Cardinality(Agents)]
  /\ ended \subseteq Agents

\* spawnDemoTopology is through: everybody is in the group and the key holder has
\* its own copy of the key.
Init ==
  /\ up = [a \in Agents |-> TRUE]
  /\ handler = [a \in Agents |-> IF a \in Components THEN "component-controlled"
                                 ELSE "agent-controlled"]
  /\ member = [a \in Agents |-> TRUE]
  /\ holderKey = {1}
  /\ groupKey = [a \in Agents |-> IF a = KeyHolder THEN holderKey ELSE NoKey]
  /\ keys = 1
  /\ net = {}
  /\ cmds = <<>>
  /\ pongs = [i \in Ids |-> 0]
  /\ ended = {}

-----------------------------------------------------------------------------
(* Processes and commands. *)

\* Agent.start.  An agent with the key holder's role generates a key, and has its
\* own copy if the group is one it joins at its start.
Spawn(a, mode, holder, atStart) ==
  /\ ~up[a]
  /\ holder => a = KeyHolder /\ keys < MaxKeys
  /\ up' = [up EXCEPT ![a] = TRUE]
  /\ handler' = [handler EXCEPT ![a] = mode]
  /\ member' = [member EXCEPT ![a] = atStart]
  /\ keys' = IF holder THEN keys + 1 ELSE keys
  /\ holderKey' = IF holder THEN {keys + 1} ELSE holderKey
  /\ groupKey' = [groupKey EXCEPT ![a] = IF holder /\ atStart THEN {keys + 1} ELSE NoKey]
  /\ UNCHANGED <<net, cmds, pongs, ended>>

\* The process ends: the keys it held and what was on its way to it go with it.
Die(a) ==
  /\ up[a]
  /\ up' = [up EXCEPT ![a] = FALSE]
  /\ handler' = [handler EXCEPT ![a] = "agent-controlled"]
  /\ member' = [member EXCEPT ![a] = FALSE]
  /\ groupKey' = [groupKey EXCEPT ![a] = NoKey]
  /\ holderKey' = IF a = KeyHolder THEN NoKey ELSE holderKey
  /\ net' = {m \in net : m.to # a}
  /\ ended' = ended \union {a}
  /\ UNCHANGED <<keys, cmds, pongs>>

\* join and leave; KeyHolderAgent.onLeave does nothing.
Join(a) ==
  /\ up[a] /\ ~member[a]
  /\ member' = [member EXCEPT ![a] = TRUE]
  /\ UNCHANGED <<up, handler, groupKey, holderKey, keys, net, cmds, pongs, ended>>

Leave(a) ==
  /\ up[a] /\ member[a]
  /\ member' = [member EXCEPT ![a] = FALSE]
  /\ UNCHANGED <<up, handler, groupKey, holderKey, keys, net, cmds, pongs, ended>>

\* set-architecture replaces the handler and nothing else.
SetArchitecture(a, mode) ==
  /\ up[a] /\ handler[a] # mode
  /\ handler' = [handler EXCEPT ![a] = mode]
  /\ UNCHANGED <<up, member, groupKey, holderKey, keys, net, cmds, pongs, ended>>

\* What is on its way once m is sent with the messages of rest on theirs.
Posted(rest, m) == {S \in {rest, rest \union {m}} :
                      /\ up[m.to] \/ S = rest
                      /\ m.to \in ended \/ S # rest}

Unicast(i, a, b, kind, key, body) ==
  [id |-> i, mode |-> "unicast", from |-> a, to |-> b, kind |-> kind, key |-> key,
   body |-> body]

\* The id of the next command.
NextId == Len(cmds) + 1

Issue(mode, a, b, kind, sealed) ==
  /\ up[a] /\ Len(cmds) < MaxCommands
  /\ cmds' = Append(cmds, [mode |-> mode, from |-> a, to |-> b, kind |-> kind,
                           sealed |-> sealed])
  /\ UNCHANGED <<up, handler, member, groupKey, holderKey, keys, pongs, ended>>

\* send-unicast, and request-group-key, which is always encrypted and goes to the
\* key holder whoever that is.  A send to an agent that does not run fails.
SendUnicast(a, b, kind, encrypted) ==
  /\ up[b]
  /\ Issue("unicast", a, b, kind, encrypted)
  /\ net' \in Posted(net, Unicast(NextId, a, b, kind,
                                  IF encrypted THEN PairKey(a, b) ELSE NoKey, NoKey))

RequestKey(a) == SendUnicast(a, KeyHolder, "request", TRUE)

Copies(mode, a, R, kind, key) ==
  {[id |-> NextId, mode |-> mode, from |-> a, to |-> b, kind |-> kind, key |-> key,
    body |-> NoKey] : b \in R}

\* send-multicast: encrypting takes a group key.
SendMulticast(a, kind, encrypted) ==
  /\ encrypted => groupKey[a] # NoKey
  /\ Issue("multicast", a, a, kind, encrypted)
  /\ \E R \in SUBSET {b \in Agents : member[b]} :
       net' = net \union Copies("multicast", a, R, kind,
                                IF encrypted THEN groupKey[a] ELSE NoKey)

\* send-broadcast never encrypts.
SendBroadcast(a, kind) ==
  /\ Issue("broadcast", a, a, kind, FALSE)
  /\ \E R \in SUBSET {b \in Agents : up[b]} :
       net' = net \union Copies("broadcast", a, R, kind, NoKey)

-----------------------------------------------------------------------------
(* Receiving. *)

\* decryptInbound of UnicastSecurity and of MulticastSecurity.
KeyFor(m) == IF m.mode = "unicast" THEN PairKey(m.to, m.from) ELSE groupKey[m.to]

\* Decryption either yields the plaintext or fails: nothing in between.
Readable(m) == m.key \in {NoKey, KeyFor(m)}

Heard(m) == m.mode = "multicast" => member[m.to]

\* Dropped: DECRYPTION_FAILED, or a group the agent has left meanwhile.
Reject(m) ==
  /\ ~Heard(m) \/ ~Readable(m)
  /\ net' = net \ {m}
  /\ UNCHANGED <<up, handler, member, groupKey, holderKey, keys, cmds, pongs, ended>>

IsKeyRequest(m) == m.kind = "request" /\ m.to = KeyHolder /\ holderKey # NoKey

\* Mutant of HandleRequest: everybody is given the key.
HandleRequestAll(a) == [kind |-> "granted", body |-> holderKey]

\* KeyHolderAgent.handleRequest.
HandleRequest(a) ==
  IF a \in AllowList THEN [kind |-> "granted", body |-> holderKey]
                     ELSE [kind |-> "denied", body |-> NoKey]

\* Mutant of ServeKeyRequest: the key is generated for each request.
ServeKeyRequestAnew(m) ==
  LET answer == HandleRequest(m.from) IN
  /\ IsKeyRequest(m) /\ Readable(m) /\ keys < MaxKeys
  /\ keys' = keys + 1
  /\ holderKey' = {keys + 1}
  /\ net' \in Posted(net \ {m},
                     Unicast(m.id, m.to, m.from, answer.kind, PairKey(m.to, m.from),
                             IF answer.kind = "granted" THEN {keys + 1} ELSE NoKey))
  /\ UNCHANGED <<up, handler, member, groupKey, cmds, pongs, ended>>

\* serveKeyRequest: the answer is always encrypted.
ServeKeyRequest(m) ==
  LET answer == HandleRequest(m.from) IN
  /\ IsKeyRequest(m) /\ Readable(m)
  /\ net' \in Posted(net \ {m},
                     Unicast(m.id, m.to, m.from, answer.kind, PairKey(m.to, m.from),
                             answer.body))
  /\ UNCHANGED <<up, handler, member, groupKey, holderKey, keys, cmds, pongs,
                 ended>>

\* Mutant of StoreKey: the key of the envelope is stored.
StoreKeyOuter(m) ==
  /\ m.kind = "granted" /\ Readable(m)
  /\ groupKey' = [groupKey EXCEPT ![m.to] = m.key]
  /\ net' = net \ {m}
  /\ UNCHANGED <<up, handler, member, holderKey, keys, cmds, pongs, ended>>

\* GROUP_KEY_GRANTED replaces the key the agent had.
StoreKey(m) ==
  /\ m.kind = "granted" /\ Readable(m)
  /\ groupKey' = [groupKey EXCEPT ![m.to] = m.body]
  /\ net' = net \ {m}
  /\ UNCHANGED <<up, handler, member, holderKey, keys, cmds, pongs, ended>>

\* Mutant of Answers: what is no ping is answered as well.
AnswersAny(m) ==
  /\ m.kind \in {"ping", "pong"} /\ m.from # m.to
  /\ handler[m.to] = "agent-controlled" => m.mode = "unicast"

\* Who answers a ping: AgentControlledHandler if it was sent to the agent itself,
\* PingComponent also if it was sent to a group or to all.
Answers(m) ==
  /\ m.kind = "ping" /\ m.from # m.to
  /\ handler[m.to] = "agent-controlled" => m.mode = "unicast"

\* Mutant of Pong: the answer is in clear.
PongClear(m) == Unicast(m.id, m.to, m.from, "pong", NoKey, NoKey)

\* Mutant of Pong: the answer is of the kind of what it answers.
PongSameKind(m) ==
  Unicast(m.id, m.to, m.from, m.kind,
          IF m.key = NoKey THEN NoKey ELSE PairKey(m.to, m.from), NoKey)

\* ... encrypted if the ping was.
Pong(m) ==
  Unicast(m.id, m.to, m.from, "pong",
          IF m.key = NoKey THEN NoKey ELSE PairKey(m.to, m.from), NoKey)

\* dispatch to the handler of the moment.
Dispatch(m) ==
  /\ Heard(m) /\ Readable(m)
  /\ m.kind # "granted" /\ ~IsKeyRequest(m)
  /\ IF Answers(m) THEN net' \in Posted(net \ {m}, Pong(m)) ELSE net' = net \ {m}
  /\ pongs' = IF m.kind = "pong" THEN [pongs EXCEPT ![m.id] = @ + 1] ELSE pongs
  /\ UNCHANGED <<up, handler, member, groupKey, holderKey, keys, cmds, ended>>

Receive(m) == Reject(m) \/ ServeKeyRequest(m) \/ StoreKey(m) \/ Dispatch(m)

-----------------------------------------------------------------------------

Next ==
  \/ \E a \in Mortal :
       \/ Die(a)
       \/ \E mode \in Architectures, holder, atStart \in BOOLEAN :
            Spawn(a, mode, holder, atStart)
  \/ \E a \in Movers : Join(a) \/ Leave(a)
  \/ \E a \in Switched, mode \in Architectures : SetArchitecture(a, mode)
  \/ \E a \in Agents : RequestKey(a)
  \/ \E a \in Senders, kind \in Bodies :
       \/ SendBroadcast(a, kind)
       \/ \E encrypted \in BOOLEAN :
            \/ SendMulticast(a, kind, encrypted)
            \/ \E b \in Agents : SendUnicast(a, b, kind, encrypted)
  \/ \E m \in net : Receive(m)

Spec == Init /\ [][Next]_vars

\* The event loops of the agents that run get to what has arrived.
Fairness == WF_vars(\E m \in net : Receive(m))

FairSpec == Spec /\ Fairness

-----------------------------------------------------------------------------

\* BR-17 / BR-18: no agent can make out an encrypted group message that has reached
\* it unless the allow-list names it or it is the key holder, whoever joined, left or
\* restarted meanwhile.
OnlyAllowedRead ==
  \A m \in net :
    m.mode = "multicast" /\ m.key # NoKey /\ Readable(m) => m.to \in AllowList \union {KeyHolder}

\* A6.2: as long as the key holder has not been restarted there is one key: any two
\* agents that hold one can read each other, whenever they were granted it.
OneKeyPerGroup ==
  KeyHolder \notin ended =>
    \A a, b \in Agents : NoKey \notin {groupKey[a], groupKey[b]} => groupKey[a] = groupKey[b]

\* BR-14 / BR-19: nothing that is sent in answer to an encrypted message, a key
\* request included, travels in clear.
NoDowngrade ==
  \A m \in net : cmds[m.id].sealed => m.key # NoKey

PingsOne(i) == cmds[i].kind = "ping" /\ cmds[i].mode = "unicast"

Lasts(i) == cmds[i].from \notin ended /\ cmds[i].to \notin ended

OnTheWay(i, kinds) == Cardinality({m \in net : m.id = i /\ m.kind \in kinds})

\* 3.2.5.1 / .2: a ping to another agent has exactly one answer, under either
\* architecture and however they are switched, as long as the two processes last: the
\* ping, its answer or the report of it is always there, and never two of them.
OneAnswer ==
  \A i \in DOMAIN cmds :
    LET pieces == pongs[i] + OnTheWay(i, {"ping", "pong"}) IN
    /\ PingsOne(i) =>
         /\ pieces <= 1
         /\ cmds[i].from # cmds[i].to /\ Lasts(i) => pieces = 1
    /\ cmds[i].kind # "ping" => pieces = 0

\* BR-18: an agent on the allow-list that asks for the key has it or its request or
\* the grant is on the way, as long as the two processes last.
RequestServed ==
  \A i \in DOMAIN cmds :
    cmds[i].kind = "request" /\ cmds[i].from \in AllowList /\ Lasts(i) =>
      \/ groupKey[cmds[i].from] = holderKey
      \/ OnTheWay(i, {"request", "granted"}) = 1

\* Agents that answer each other's messages come to rest once no command is given.
Quiet == <>[](net = {})
=============================================================================

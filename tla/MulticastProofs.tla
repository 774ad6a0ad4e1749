-------------------------- MODULE MulticastProofs --------------------------
(***************************************************************************)
(* Proofs about Multicast, for every set of agents, groups, ports, handler *)
(* slots and socket objects.                                               *)
(***************************************************************************)
EXTENDS Multicast, TLAPS

\* The values a free socket and a handler's result have are of their types.
LEMMA Defaults == /\ FreeSocket \in Socket /\ FreeSocket.status = "free"
                  /\ IdleSlot \in Command /\ IdleSlot.pc = "idle"
                  /\ Answered \in Command /\ Answered.pc = "reply"
                  /\ Hung \in Command /\ Hung.pc = "hung"
                  /\ IdleSlot.port \in Ports
<1>1. /\ (CHOOSE p \in Ports : TRUE) \in Ports
      /\ (CHOOSE g \in Groups : TRUE) \in Groups
  BY MulticastAssumption
<1>2. QED
  BY <1>1 DEF FreeSocket, Socket, IdleSlot, Answered, Hung, Command, Pcs, Kinds

\* Changing one socket, even one that is none of the handles, keeps the type.
LEMMA SocketUpdate ==
  ASSUME NEW o \in [Agents -> [Groups -> [Handles -> Socket]]],
         NEW a \in Agents, NEW g \in Groups, NEW h, NEW v \in Socket
  PROVE  [o EXCEPT ![a][g][h] = v] \in [Agents -> [Groups -> [Handles -> Socket]]]
<1>1. [o[a][g] EXCEPT ![h] = v] \in [Handles -> Socket]
  OBVIOUS
<1>2. QED
  BY <1>1

\* Whatever the network does with a datagram, a socket keeps its status and port.
LEMMA ArrivalsKeep ==
  ASSUME TypeOK, NEW d \in Dgram, NEW p \in Ports, NEW new \in Arrivals(d, p)
  PROVE  /\ new \in [Agents -> [Groups -> [Handles -> Socket]]]
         /\ \A b \in Agents, g \in Groups, h \in Handles :
              new[b][g][h].status = os[b][g][h].status
<1>1. PICK R \in SUBSET Sockets :
        new = [a \in Agents |-> [g \in Groups |-> [h \in Handles |->
                 IF <<a, g, h>> \in R THEN [os[a][g][h] EXCEPT !.rx = @ \union {d}]
                                     ELSE os[a][g][h]]]]
  BY DEF Arrivals
<1>2. ASSUME NEW a \in Agents, NEW g \in Groups, NEW h \in Handles
      PROVE  /\ new[a][g][h] \in Socket
             /\ new[a][g][h].status = os[a][g][h].status
  <2>1. os[a][g][h] \in Socket
    BY DEF TypeOK
  <2>2. /\ [os[a][g][h] EXCEPT !.rx = @ \union {d}] \in Socket
        /\ [os[a][g][h] EXCEPT !.rx = @ \union {d}].status = os[a][g][h].status
    BY <2>1 DEF Socket
  <2>3. QED
    BY <1>1, <2>1, <2>2
<1>3. QED
  BY <1>1, <1>2

\* Closing a group's socket ends in well-typed handlers: each is as it was, has its
\* result, or is hung.
LEMMA AfterCloseKeeps ==
  ASSUME TypeOK, NEW a \in Agents, NEW i \in Slots, NEW g \in Groups
  PROVE  /\ AfterClose(a, i, g) \in [Agents -> [Slots -> Command]]
         /\ \A b \in Agents, j \in Slots :
              \/ AfterClose(a, i, g)[b][j] = cmds[b][j] /\ <<b, j>> # <<a, i>>
              \/ AfterClose(a, i, g)[b][j] \in {Answered, Hung}
  BY Defaults DEF TypeOK, AfterClose

-----------------------------------------------------------------------------
(* Type correctness. *)

LEMMA InitType == Init => TypeOK
  BY Defaults, MulticastAssumption
  DEF Init, TypeOK, Membership, NoEvent

LEMMA ReceiveType ==
  ASSUME TypeOK, NEW a \in Agents, NEW g \in Groups, NEW h \in Handles,
         Receive(a, g, h)
  PROVE  TypeOK'
<1>1. PICK d \in os[a][g][h].rx :
        /\ os' = [os EXCEPT ![a][g][h].rx = @ \ {d}]
        /\ emitted' = [kind  |-> Classify(d, g, IsDeliverable(a, g)),
                       agent |-> a, group |-> g]
  BY DEF Receive
<1>2. os' \in [Agents -> [Groups -> [Handles -> Socket]]]
  <2>0. os[a][g][h] \in Socket
    BY DEF TypeOK
  <2>1. [os[a][g][h] EXCEPT !.rx = @ \ {d}] \in Socket
    BY <2>0 DEF Socket
  <2>2. os' = [os EXCEPT ![a][g][h] = [os[a][g][h] EXCEPT !.rx = @ \ {d}]]
    BY <1>1 DEF TypeOK
  <2>3. QED
    BY <2>1, <2>2 DEF TypeOK
<1>3. Classify(d, g, IsDeliverable(a, g)) \in Verdicts
  BY DEF Classify, Verdicts
<1>4. emitted' \in Event
  BY <1>1, <1>3 DEF Event
<1>5. QED
  BY <1>2, <1>4 DEF TypeOK, Receive

LEMMA NextType == TypeOK /\ [Next]_vars => TypeOK'
<1> SUFFICES ASSUME TypeOK, [Next]_vars PROVE TypeOK'
  OBVIOUS
<1> USE Defaults DEF Membership
<1>1. ASSUME NEW a \in Agents, NEW i \in Slots, Issue(a, i)
      PROVE  TypeOK'
  <2>1. ASSUME NEW g \in Groups, JoinAgain(a, i, g) PROVE TypeOK'
    BY <2>1 DEF TypeOK, JoinAgain, IssuedMembership
  <2>2. ASSUME NEW g \in Groups, JoinBegin(a, i, g) PROVE TypeOK'
    <3>1. PICK h \in Handles :
            /\ os' = [os EXCEPT ![a][g][h] =
                        [status |-> "binding", port |-> ports[a][g], rx |-> {}]]
            /\ Run(a, i, "binding", "join", g, h, IdleSlot.port)
      BY <2>2 DEF JoinBegin
    <3>2. os' \in [Agents -> [Groups -> [Handles -> Socket]]]
      BY <3>1 DEF TypeOK, Socket
    <3>3. cmds' \in [Agents -> [Slots -> Command]]
      BY <3>1 DEF TypeOK, Run, Command, Pcs, Kinds
    <3>4. QED
      BY <2>2, <3>2, <3>3 DEF TypeOK, JoinBegin, IssuedMembership
  <2>3. ASSUME NEW g \in Groups, Leave(a, i, g) PROVE TypeOK'
    <3>1. os' \in [Agents -> [Groups -> [Handles -> Socket]]]
      BY <2>3 DEF TypeOK, Leave, CloseGroup
    <3>2. QED
      BY <2>3, <3>1, AfterCloseKeeps DEF TypeOK, Leave, CloseGroup, IssuedMembership
  <2>4. ASSUME NEW g \in Groups, InjectBegin(a, i, g) PROVE TypeOK'
    <3>1. cmds' \in [Agents -> [Slots -> Command]]
      BY <2>4 DEF TypeOK, InjectBegin, Run, Command, Pcs, Kinds
    <3>2. QED
      BY <2>4, <3>1 DEF TypeOK, InjectBegin, IssuedMembership
  <2>5. ASSUME NEW g \in Groups, NEW p \in Ports, SendBegin(a, i, g, p)
        PROVE  TypeOK'
    <3>1. cmds' \in [Agents -> [Slots -> Command]]
      BY <2>5 DEF TypeOK, SendBegin, Run, Command, Pcs, Kinds
    <3>2. QED
      BY <2>5, <3>1 DEF TypeOK, SendBegin
  <2>6. ASSUME NEW g \in Groups, NEW p \in Ports, ConfigGroup(a, i, g, p)
        PROVE  TypeOK'
    BY <2>6 DEF TypeOK, ConfigGroup
  <2>7. QED
    BY <1>1, <2>1, <2>2, <2>3, <2>4, <2>5, <2>6 DEF Issue
<1>2. ASSUME NEW a \in Agents, NEW i \in Slots, Progress(a, i)
      PROVE  TypeOK'
  <2> DEFINE c == cmds[a][i]
  <2>0. c \in Command
    BY DEF TypeOK
  <2>1. CASE JoinComplete(a, i)
    <3>1. c.group \in Groups /\ c.handle \in Handles \union {NoHandle}
      BY <2>0 DEF Command
    <3>2. os' \in [Agents -> [Groups -> [Handles -> Socket]]]
      <4>1. CASE c.handle \in Handles
        <5>0. os[a][c.group][c.handle] \in Socket
          BY <3>1, <4>1 DEF TypeOK
        <5>1. [os[a][c.group][c.handle] EXCEPT !.status = "open"] \in Socket
          BY <5>0 DEF Socket
        <5>2. os' = [os EXCEPT ![a][c.group][c.handle] =
                       [os[a][c.group][c.handle] EXCEPT !.status = "open"]]
          BY <2>1, <3>1, <4>1 DEF TypeOK, JoinComplete
        <5>3. QED
          BY <3>1, <4>1, <5>1, <5>2 DEF TypeOK
      <4>2. CASE c.handle \notin Handles
        <5>1. /\ os[a][c.group] \in [Handles -> Socket]
              /\ os[a] \in [Groups -> [Handles -> Socket]]
          BY <3>1 DEF TypeOK
        <5>2. [os[a][c.group] EXCEPT ![c.handle].status = "open"] \in [Handles -> Socket]
          BY <4>2, <5>1
        <5>3. os' = [os EXCEPT ![a][c.group] =
                       [os[a][c.group] EXCEPT ![c.handle].status = "open"]]
          BY <2>1, <3>1 DEF TypeOK, JoinComplete
        <5>4. QED
          BY <3>1, <5>2, <5>3 DEF TypeOK
      <4>3. QED
        BY <4>1, <4>2
    <3>3. /\ cmds' \in [Agents -> [Slots -> Command]]
          /\ state' \in [Agents -> [Groups -> Membership]]
          /\ sockets' \in [Agents -> [Groups -> Handles \union {NoHandle}]]
      BY <2>1, <3>1 DEF TypeOK, JoinComplete
    <3>4. QED
      BY <2>1, <3>2, <3>3 DEF TypeOK, JoinComplete
  <2>2. CASE JoinFail(a, i)
    <3>1. c.group \in Groups
      BY <2>0 DEF Command
    <3>2. os' = [os EXCEPT ![a][c.group][c.handle] = FreeSocket]
      BY <2>2 DEF JoinFail
    <3>3. os' \in [Agents -> [Groups -> [Handles -> Socket]]]
      BY <3>1, <3>2, SocketUpdate DEF TypeOK
    <3>4. QED
      BY <2>2, <3>3 DEF TypeOK, JoinFail
  <2>3. CASE SendComplete(a, i)
    <3>1. PICK t \in Ttls : os' \in Arrivals([group |-> c.group, ttl |-> t], c.port)
      BY <2>3 DEF SendComplete
    <3>2. [group |-> c.group, ttl |-> t] \in Dgram /\ c.port \in Ports
      BY <2>0, MulticastAssumption DEF Command, Dgram, Envelope
    <3>3. QED
      BY <2>3, <3>1, <3>2, ArrivalsKeep DEF TypeOK, SendComplete
  <2>4. CASE InjectComplete(a, i)
    <3>0. PICK t \in Ttls :
            \E new \in Arrivals([group |-> c.group, ttl |-> t], c.port) :
              os' = IF sockets[a][c.group] = NoHandle THEN new
                    ELSE [new EXCEPT ![a][c.group][sockets[a][c.group]] = FreeSocket]
      BY <2>4 DEF InjectComplete
    <3>1. PICK arrived \in Arrivals([group |-> c.group, ttl |-> t], c.port) :
            os' = IF sockets[a][c.group] = NoHandle THEN arrived
                  ELSE [arrived EXCEPT ![a][c.group][sockets[a][c.group]] = FreeSocket]
      BY <3>0
    <3>2. /\ [group |-> c.group, ttl |-> t] \in Dgram
          /\ c.port \in Ports /\ c.group \in Groups
      BY <2>0, MulticastAssumption DEF Command, Dgram, Envelope
    <3>3. arrived \in [Agents -> [Groups -> [Handles -> Socket]]]
      BY <3>1, <3>2, ArrivalsKeep
    <3>4. os' \in [Agents -> [Groups -> [Handles -> Socket]]]
      BY <3>1, <3>2, <3>3 DEF TypeOK
    <3>5. AfterClose(a, i, c.group) \in [Agents -> [Slots -> Command]]
      BY <3>2, AfterCloseKeeps
    <3>6. QED
      BY <2>4, <3>2, <3>4, <3>5 DEF TypeOK, InjectComplete
  <2>5. CASE SendFail(a, i)
    BY <2>5 DEF TypeOK, SendFail
  <2>6. CASE Reply(a, i)
    BY <2>6 DEF TypeOK, Reply
  <2>7. QED
    BY <1>2, <2>1, <2>2, <2>3, <2>4, <2>5, <2>6 DEF Progress
<1>3. ASSUME NEW d \in Dgram, NEW p \in Ports, ForeignDatagram(d, p)
      PROVE  TypeOK'
  BY <1>3, ArrivalsKeep DEF TypeOK, ForeignDatagram
<1>4. ASSUME NEW a \in Agents, Restart(a)
      PROVE  TypeOK'
  BY <1>4, MulticastAssumption DEF TypeOK, Restart
<1>5. CASE UNCHANGED vars
  BY <1>5 DEF TypeOK, vars
<1>6. QED
  BY <1>1, <1>2, <1>3, <1>4, <1>5, ReceiveType DEF Next

\* Every variable keeps its type: in particular the socket map holds sockets of the
\* agent and the group it is asked for, and no command leaves a state of its own.
THEOREM TypeCorrect == Spec => []TypeOK
<1>1. QED
  BY InitType, NextType, PTL DEF Spec

-----------------------------------------------------------------------------
(* The inductive invariant. *)

LEMMA InitSocketInv == Init => SocketInv /\ DeliveredOnlyIfJoined
  BY Defaults
  DEF Init, SocketInv, MapNeverDangles, BindingInv, Binding, GroupInv, Pending,
      DeliveredOnlyIfJoined, NoEvent

\* Steps that leave the map, the states, the history, the sockets' statuses and
\* all but finished handlers alone.
LEMMA QuietInv ==
  ASSUME IInv, TypeOK', UNCHANGED <<state, sockets, last, raced>>,
         \A a \in Agents, g \in Groups, h \in Handles :
           os'[a][g][h].status = os[a][g][h].status,
         \A a \in Agents, i \in Slots :
           \/ cmds'[a][i] = cmds[a][i]
           \/ cmds'[a][i].pc \in {"idle", "reply", "hung"}
           \/ cmds'[a][i].pc = "sending" /\ cmds'[a][i].kind = "send-multicast"
  PROVE  SocketInv'
<1> USE DEF IInv, SocketInv
<1>0. state' = state /\ sockets' = sockets /\ last' = last /\ raced' = raced
  OBVIOUS
<1>1. MapNeverDangles'
  <2>1. ASSUME NEW a \in Agents, NEW g \in Groups, sockets[a][g] # NoHandle
        PROVE  os'[a][g][sockets[a][g]].status = "open"
    <3>1. sockets[a][g] \in Handles
      BY <2>1 DEF TypeOK
    <3>2. os[a][g][sockets[a][g]].status = "open"
      BY <2>1 DEF MapNeverDangles
    <3>3. QED
      BY <3>1, <3>2
  <2>2. QED
    BY <1>0, <2>1 DEF MapNeverDangles
<1>2. \A a \in Agents, i \in Slots : Binding(a, i)' => cmds'[a][i] = cmds[a][i]
  BY DEF Binding
<1>3. BindingInv'
  <2>1. ASSUME NEW a \in Agents, NEW i \in Slots, Binding(a, i)'
        PROVE  /\ cmds'[a][i] = cmds[a][i] /\ Binding(a, i)
               /\ cmds[a][i].group \in Groups /\ cmds[a][i].handle \in Handles
    BY <1>2, <2>1 DEF Binding, BindingInv, TypeOK, Command
  <2>2. ASSUME NEW a \in Agents, NEW i \in Slots, Binding(a, i)'
        PROVE  os'[a][cmds[a][i].group][cmds[a][i].handle].status = "binding"
    <3>1. Binding(a, i) /\ cmds[a][i].group \in Groups /\ cmds[a][i].handle \in Handles
      BY <2>1, <2>2
    <3>2. os[a][cmds[a][i].group][cmds[a][i].handle].status = "binding"
      BY <3>1 DEF BindingInv
    <3>3. QED
      BY <3>1, <3>2
  <2>3. ASSUME NEW a \in Agents, NEW i \in Slots, Binding(a, i)',
               NEW j \in Slots, j # i, Binding(a, j)',
               cmds'[a][j].group = cmds'[a][i].group
        PROVE  cmds'[a][j].handle # cmds'[a][i].handle
    <3>1. /\ Binding(a, i) /\ cmds'[a][i] = cmds[a][i]
          /\ Binding(a, j) /\ cmds'[a][j] = cmds[a][j]
      BY <2>1, <2>3
    <3>2. QED
      BY <2>3, <3>1 DEF BindingInv
  <2>4. QED
    BY <2>1, <2>2, <2>3 DEF BindingInv
<1>4. ASSUME NEW a \in Agents, NEW g \in Groups, ~raced'[a][g]
      PROVE  GroupInv(a, g)'
  <2>1. \A i \in Slots : Pending(a, i, g)' =>
          /\ cmds'[a][i] = cmds[a][i] /\ Pending(a, i, g)
          /\ Binding(a, i)' = Binding(a, i)
    BY DEF Pending, Binding
  <2>2. GroupInv(a, g)
    BY <1>4
  <2>3. QED
    BY <2>1, <2>2 DEF GroupInv
<1>5. QED
  BY <1>1, <1>3, <1>4

LEMMA ReceiveInv ==
  ASSUME IInv, TypeOK', NEW a \in Agents, NEW g \in Groups, NEW h \in Handles,
         Receive(a, g, h)
  PROVE  SocketInv' /\ DeliveredOnlyIfJoined'
<1>1. \A b \in Agents, k \in Groups, q \in Handles :
        os'[b][k][q].status = os[b][k][q].status
  <2>1. PICK d \in os[a][g][h].rx : os' = [os EXCEPT ![a][g][h].rx = @ \ {d}]
    BY DEF Receive
  <2>2. os[a][g][h] \in Socket
    BY DEF IInv, TypeOK
  <2>3. [os[a][g][h] EXCEPT !.rx = @ \ {d}].status = os[a][g][h].status
    BY <2>2 DEF Socket
  <2>4. os' = [os EXCEPT ![a][g][h] = [os[a][g][h] EXCEPT !.rx = @ \ {d}]]
    BY <2>1 DEF IInv, TypeOK
  <2>5. QED
    BY <2>3, <2>4 DEF IInv, TypeOK
<1>2. SocketInv'
  BY <1>1, QuietInv DEF Receive
<1>3. DeliveredOnlyIfJoined'
  <2>1. ASSUME emitted'.kind = "deliver"
        PROVE  last[a][g] = "join" \/ raced[a][g]
    <3>1. PICK d \in os[a][g][h].rx :
            emitted' = [kind  |-> Classify(d, g, IsDeliverable(a, g)),
                        agent |-> a, group |-> g]
      BY DEF Receive
    <3>2. state[a][g] = "MEMBER"
      BY <2>1, <3>1 DEF Classify, IsDeliverable
    <3>3. QED
      BY <3>2 DEF IInv, TypeOK, SocketInv, GroupInv
  <2>2. emitted'.agent = a /\ emitted'.group = g
    BY DEF Receive
  <2>3. QED
    BY <2>1, <2>2 DEF DeliveredOnlyIfJoined, Receive
<1>4. QED
  BY <1>2, <1>3

\* A step of handler i about group g leaves every other group's part of the
\* invariant as it was; what is left to prove is about g itself.
LEMMA LocalInv ==
  ASSUME IInv, TypeOK', NEW a \in Agents, NEW i \in Slots, NEW g \in Groups,
         \A b \in Agents, k \in Groups : <<b, k>> # <<a, g>> =>
           /\ state'[b][k] = state[b][k] /\ sockets'[b][k] = sockets[b][k]
           /\ last'[b][k] = last[b][k] /\ raced'[b][k] = raced[b][k]
           /\ \A h \in Handles : os'[b][k][h].status = os[b][k][h].status,
         \A b \in Agents, j \in Slots : <<b, j>> # <<a, i>> =>
           cmds'[b][j] = cmds[b][j] \/ cmds'[b][j].pc = "hung",
         cmds'[a][i].pc = "reply" \/ cmds'[a][i].group = g,
         sockets'[a][g] # NoHandle => os'[a][g][sockets'[a][g]].status = "open",
         \A j \in Slots : Binding(a, j)' /\ cmds'[a][j].group = g =>
           /\ cmds'[a][j].handle \in Handles
           /\ os'[a][g][cmds'[a][j].handle].status = "binding"
           /\ \A q \in Slots : q # j /\ Binding(a, q)' /\ cmds'[a][q].group = g
                              => cmds'[a][q].handle # cmds'[a][j].handle,
         ~raced'[a][g] => GroupInv(a, g)'
  PROVE  SocketInv'
<1> USE DEF IInv, SocketInv
<1>1. MapNeverDangles'
  <2>1. ASSUME NEW b \in Agents, NEW k \in Groups, sockets'[b][k] # NoHandle,
               <<b, k>> # <<a, g>>
        PROVE  os'[b][k][sockets'[b][k]].status = "open"
    <3>1. sockets[b][k] \in Handles /\ sockets'[b][k] = sockets[b][k]
      BY <2>1 DEF TypeOK
    <3>2. os[b][k][sockets[b][k]].status = "open"
      BY <2>1, <3>1 DEF MapNeverDangles
    <3>3. QED
      BY <2>1, <3>1, <3>2
  <2>2. QED
    BY <2>1 DEF MapNeverDangles
<1>2. ASSUME NEW b \in Agents, NEW j \in Slots, Binding(b, j)',
             <<b, cmds'[b][j].group>> # <<a, g>>
      PROVE  /\ cmds'[b][j] = cmds[b][j] /\ Binding(b, j)
             /\ cmds[b][j].group \in Groups /\ cmds[b][j].handle \in Handles
             /\ os[b][cmds[b][j].group][cmds[b][j].handle].status = "binding"
  <2>1. <<b, j>> # <<a, i>>
    BY <1>2 DEF Binding
  <2>2. cmds'[b][j] = cmds[b][j] /\ Binding(b, j)
    BY <1>2, <2>1 DEF Binding
  <2>3. QED
    BY <2>2 DEF BindingInv, TypeOK, Command
<1>3. BindingInv'
  <2>1. ASSUME NEW b \in Agents, NEW j \in Slots, Binding(b, j)',
               <<b, cmds'[b][j].group>> # <<a, g>>
        PROVE  /\ cmds'[b][j].handle \in Handles
               /\ os'[b][cmds'[b][j].group][cmds'[b][j].handle].status = "binding"
    <3>1. /\ cmds'[b][j] = cmds[b][j] /\ Binding(b, j)
          /\ cmds[b][j].group \in Groups /\ cmds[b][j].handle \in Handles
          /\ os[b][cmds[b][j].group][cmds[b][j].handle].status = "binding"
      BY <1>2, <2>1
    <3>2. <<b, cmds[b][j].group>> # <<a, g>>
      BY <2>1, <3>1
    <3>3. os'[b][cmds[b][j].group][cmds[b][j].handle].status
            = os[b][cmds[b][j].group][cmds[b][j].handle].status
      BY <3>1, <3>2
    <3>4. QED
      BY <3>1, <3>3
  <2>2. ASSUME NEW b \in Agents, NEW j \in Slots, Binding(b, j)',
               <<b, cmds'[b][j].group>> # <<a, g>>,
               NEW q \in Slots, q # j, Binding(b, q)',
               cmds'[b][q].group = cmds'[b][j].group
        PROVE  cmds'[b][q].handle # cmds'[b][j].handle
    <3>1. /\ cmds'[b][j] = cmds[b][j] /\ Binding(b, j)
          /\ cmds'[b][q] = cmds[b][q] /\ Binding(b, q)
      BY <1>2, <2>2
    <3>2. QED
      BY <2>2, <3>1 DEF BindingInv
  <2>3. QED
    BY <2>1, <2>2 DEF BindingInv
<1>4. ASSUME NEW b \in Agents, NEW k \in Groups, ~raced'[b][k],
             <<b, k>> # <<a, g>>
      PROVE  GroupInv(b, k)'
  <2>1. \A j \in Slots : Pending(b, j, k)' =>
          /\ cmds'[b][j] = cmds[b][j] /\ Pending(b, j, k)
          /\ Binding(b, j)' = Binding(b, j)
    BY <1>4 DEF Pending, Binding
  <2>2. GroupInv(b, k)
    BY <1>4
  <2>3. QED
    BY <1>4, <2>1, <2>2 DEF GroupInv
<1>5. QED
  BY <1>1, <1>3, <1>4

\* A membership command issued without a race finds no other one under way.
LEMMA IssuedAlone ==
  ASSUME IInv, NEW a \in Agents, NEW g \in Groups, NEW kind,
         IssuedMembership(a, g, kind), ~raced'[a][g]
  PROVE  /\ GroupInv(a, g)
         /\ \A j \in Slots : ~Pending(a, j, g)
<1>1. raced[a][g] \in BOOLEAN
  BY DEF IInv, TypeOK
<1>2. raced'[a][g] = (raced[a][g] \/ \E j \in Slots : Pending(a, j, g))
  BY DEF IssuedMembership, IInv, TypeOK
<1>3. QED
  BY <1>1, <1>2 DEF IInv, SocketInv

LEMMA JoinInv ==
  ASSUME IInv, TypeOK', NEW a \in Agents, NEW i \in Slots, NEW g \in Groups,
         JoinAgain(a, i, g) \/ JoinBegin(a, i, g)
  PROVE  SocketInv'
<1> USE Defaults DEF IInv, SocketInv
<1>0. IssuedMembership(a, g, "join")
  BY DEF JoinAgain, JoinBegin
<1>1. CASE JoinAgain(a, i, g)
  <2>1. ~raced'[a][g] => GroupInv(a, g)'
    <3>1. SUFFICES ASSUME ~raced'[a][g] PROVE GroupInv(a, g)'
      OBVIOUS
    <3>2. /\ GroupInv(a, g) /\ \A j \in Slots : ~Pending(a, j, g)
      BY <1>0, <3>1, IssuedAlone
    <3>3. \A j \in Slots : ~Pending(a, j, g)'
      BY <1>1, <3>2 DEF JoinAgain, Pending, TypeOK
    <3>4. QED
      BY <1>0, <1>1, <3>2, <3>3 DEF JoinAgain, GroupInv, TypeOK, IssuedMembership
  <2>2. \A j \in Slots : Binding(a, j)' => Binding(a, j) /\ cmds'[a][j] = cmds[a][j]
    BY <1>1 DEF JoinAgain, Binding, TypeOK
  <2>3. \A j \in Slots : Binding(a, j)' /\ cmds'[a][j].group = g =>
           /\ cmds'[a][j].handle \in Handles
           /\ os'[a][g][cmds'[a][j].handle].status = "binding"
           /\ \A q \in Slots : q # j /\ Binding(a, q)' /\ cmds'[a][q].group = g
                              => cmds'[a][q].handle # cmds'[a][j].handle
    BY <1>1, <2>2 DEF JoinAgain, BindingInv
  <2>4. sockets'[a][g] # NoHandle => os'[a][g][sockets'[a][g]].status = "open"
    BY <1>1 DEF JoinAgain, MapNeverDangles
  <2>5. \A b \in Agents, k \in Groups : <<b, k>> # <<a, g>> =>
           /\ state'[b][k] = state[b][k] /\ sockets'[b][k] = sockets[b][k]
           /\ last'[b][k] = last[b][k] /\ raced'[b][k] = raced[b][k]
           /\ \A q \in Handles : os'[b][k][q] = os[b][k][q]
    BY <1>0, <1>1 DEF JoinAgain, TypeOK, IssuedMembership
  <2>6. /\ \A b \in Agents, j \in Slots : <<b, j>> # <<a, i>> => cmds'[b][j] = cmds[b][j]
        /\ cmds'[a][i] = Answered
    BY <1>1 DEF JoinAgain, TypeOK
  <2>7. QED
    BY <2>1, <2>3, <2>4, <2>5, <2>6, LocalInv
<1>2. CASE JoinBegin(a, i, g)
  <2>1. PICK h \in Handles :
          /\ os[a][g][h].status = "free"
          /\ os' = [os EXCEPT ![a][g][h] =
                      [status |-> "binding", port |-> ports[a][g], rx |-> {}]]
          /\ cmds' = [cmds EXCEPT ![a][i] =
                        [pc |-> "binding", kind |-> "join", group |-> g,
                         handle |-> h, port |-> IdleSlot.port]]
    BY <1>2 DEF JoinBegin, Run
  <2>2. \A j \in Slots : j # i => cmds'[a][j] = cmds[a][j]
    BY <2>1 DEF TypeOK
  <2>3. /\ cmds'[a][i].pc = "binding" /\ cmds'[a][i].group = g
        /\ cmds'[a][i].handle = h /\ os'[a][g][h].status = "binding"
    BY <2>1 DEF TypeOK
  <2>4. \A k \in Handles : k # h => os'[a][g][k] = os[a][g][k]
    BY <2>1 DEF TypeOK
  <2>5. ~raced'[a][g] => GroupInv(a, g)'
    <3>1. SUFFICES ASSUME ~raced'[a][g] PROVE GroupInv(a, g)'
      OBVIOUS
    <3>2. GroupInv(a, g) /\ \A j \in Slots : ~Pending(a, j, g)
      BY <1>0, <3>1, IssuedAlone
    <3>3. \A j \in Slots : Pending(a, j, g)' => j = i
      BY <2>2, <3>2 DEF Pending
    <3>4. sockets'[a][g] = NoHandle /\ last'[a][g] = "join" /\ state'[a][g] = "JOINING"
      BY <1>0, <1>2 DEF JoinBegin, TypeOK, IssuedMembership
    <3>5. \A k \in Handles : os'[a][g][k].status # "open"
      BY <1>2, <2>3, <2>4, <3>2, MulticastAssumption DEF JoinBegin, GroupInv
    <3>6. QED
      BY <2>3, <3>3, <3>4, <3>5 DEF GroupInv, Binding
  <2>6. ASSUME NEW j \in Slots, Binding(a, j)', cmds'[a][j].group = g, j # i
        PROVE  /\ cmds'[a][j] = cmds[a][j]
               /\ cmds[a][j].handle \in Handles /\ cmds[a][j].handle # h
               /\ os'[a][g][cmds[a][j].handle].status = "binding"
               /\ Binding(a, j)
    <3>1. cmds'[a][j] = cmds[a][j] /\ Binding(a, j)
      BY <2>2, <2>6 DEF Binding
    <3>2. cmds[a][j].handle \in Handles /\ os[a][g][cmds[a][j].handle].status = "binding"
      BY <2>6, <3>1 DEF BindingInv
    <3>3. QED
      BY <2>1, <2>4, <3>1, <3>2
  <2>7. \A j \in Slots : Binding(a, j)' /\ cmds'[a][j].group = g =>
           /\ cmds'[a][j].handle \in Handles
           /\ os'[a][g][cmds'[a][j].handle].status = "binding"
           /\ \A q \in Slots : q # j /\ Binding(a, q)' /\ cmds'[a][q].group = g
                              => cmds'[a][q].handle # cmds'[a][j].handle
    <3>1. ASSUME NEW j \in Slots, Binding(a, j)', cmds'[a][j].group = g
          PROVE  /\ cmds'[a][j].handle \in Handles
                 /\ os'[a][g][cmds'[a][j].handle].status = "binding"
      BY <2>3, <2>6, <3>1
    <3>2. ASSUME NEW j \in Slots, Binding(a, j)', cmds'[a][j].group = g,
                 NEW q \in Slots, q # j, Binding(a, q)', cmds'[a][q].group = g
          PROVE  cmds'[a][q].handle # cmds'[a][j].handle
      <4>1. CASE j = i
        BY <2>3, <2>6, <3>2, <4>1
      <4>2. CASE q = i
        BY <2>3, <2>6, <3>2, <4>2
      <4>3. CASE j # i /\ q # i
        <5>1. /\ Binding(a, j) /\ cmds'[a][j] = cmds[a][j]
              /\ Binding(a, q) /\ cmds'[a][q] = cmds[a][q]
          BY <2>6, <3>2, <4>3
        <5>2. QED
          BY <3>2, <5>1 DEF BindingInv
      <4>4. QED
        BY <4>1, <4>2, <4>3
    <3>3. QED
      BY <3>1, <3>2
  <2>8. sockets'[a][g] = NoHandle
    BY <1>2 DEF JoinBegin
  <2>9. \A b \in Agents, k \in Groups : <<b, k>> # <<a, g>> =>
           /\ state'[b][k] = state[b][k] /\ sockets'[b][k] = sockets[b][k]
           /\ last'[b][k] = last[b][k] /\ raced'[b][k] = raced[b][k]
           /\ \A q \in Handles : os'[b][k][q] = os[b][k][q]
    BY <1>0, <1>2, <2>1 DEF JoinBegin, TypeOK, IssuedMembership
  <2>10. \A b \in Agents, j \in Slots : <<b, j>> # <<a, i>> => cmds'[b][j] = cmds[b][j]
    BY <2>1 DEF TypeOK
  <2>11. QED
    BY <2>3, <2>5, <2>7, <2>8, <2>9, <2>10, LocalInv
<1>3. QED
  BY <1>1, <1>2

\* The handlers of g that still await their bind, when the step started none and
\* left the sockets they wait for alone.
LEMMA StillBinding ==
  ASSUME IInv, NEW a \in Agents, NEW g \in Groups,
         \A j \in Slots : Binding(a, j)' /\ cmds'[a][j].group = g =>
           cmds'[a][j] = cmds[a][j],
         \A j \in Slots : Binding(a, j)' /\ cmds'[a][j].group = g =>
           os'[a][g][cmds[a][j].handle].status = os[a][g][cmds[a][j].handle].status
  PROVE  \A j \in Slots : Binding(a, j)' /\ cmds'[a][j].group = g =>
           /\ cmds'[a][j].handle \in Handles
           /\ os'[a][g][cmds'[a][j].handle].status = "binding"
           /\ \A q \in Slots : q # j /\ Binding(a, q)' /\ cmds'[a][q].group = g
                              => cmds'[a][q].handle # cmds'[a][j].handle
<1>1. ASSUME NEW j \in Slots, Binding(a, j)', cmds'[a][j].group = g
      PROVE  /\ cmds'[a][j] = cmds[a][j] /\ Binding(a, j) /\ cmds[a][j].group = g
             /\ cmds[a][j].handle \in Handles
             /\ os'[a][g][cmds[a][j].handle].status = "binding"
  <2>1. cmds'[a][j] = cmds[a][j] /\ Binding(a, j) /\ cmds[a][j].group = g
    BY <1>1 DEF Binding
  <2>2. cmds[a][j].handle \in Handles /\ os[a][g][cmds[a][j].handle].status = "binding"
    BY <2>1 DEF IInv, SocketInv, BindingInv
  <2>3. QED
    BY <1>1, <2>1, <2>2
<1>2. ASSUME NEW j \in Slots, Binding(a, j)', cmds'[a][j].group = g,
             NEW q \in Slots, q # j, Binding(a, q)', cmds'[a][q].group = g
      PROVE  cmds'[a][q].handle # cmds'[a][j].handle
  <2>1. /\ cmds'[a][j] = cmds[a][j] /\ Binding(a, j) /\ cmds[a][j].group = g
        /\ cmds'[a][q] = cmds[a][q] /\ Binding(a, q) /\ cmds[a][q].group = g
    BY <1>1, <1>2
  <2>2. QED
    BY <1>2, <2>1 DEF IInv, SocketInv, BindingInv
<1>3. QED
  BY <1>1, <1>2

LEMMA BoundInv ==
  ASSUME IInv, TypeOK', NEW a \in Agents, NEW i \in Slots,
         JoinComplete(a, i) \/ JoinFail(a, i)
  PROVE  SocketInv'
<1>g. PICK g : g = cmds[a][i].group
  OBVIOUS
<1>h. PICK h : h = cmds[a][i].handle
  OBVIOUS
<1> USE Defaults, <1>g, <1>h DEF IInv, SocketInv
<1>0. /\ Binding(a, i) /\ g \in Groups /\ h \in Handles
      /\ os[a][g][h].status = "binding" /\ h # NoHandle
  <2>1. Binding(a, i)
    BY DEF JoinComplete, JoinFail, Binding
  <2>2. cmds[a][i] \in Command
    BY DEF TypeOK
  <2>3. g \in Groups
    BY <2>2 DEF Command
  <2>4. h \in Handles /\ os[a][g][h].status = "binding"
    BY <2>1 DEF BindingInv
  <2>5. QED
    BY <2>1, <2>3, <2>4, MulticastAssumption
<1>1. /\ \A b \in Agents, j \in Slots : <<b, j>> # <<a, i>> => cmds'[b][j] = cmds[b][j]
      /\ cmds'[a][i] = Answered
  BY DEF JoinComplete, JoinFail, TypeOK
<1>2. \A b \in Agents, k \in Groups, q \in Handles :
        <<b, k, q>> # <<a, g, h>> => os'[b][k][q] = os[b][k][q]
  BY <1>0 DEF JoinComplete, JoinFail, TypeOK
<1>3. \A j \in Slots : Binding(a, j)' => j # i /\ cmds'[a][j] = cmds[a][j]
  BY <1>1 DEF Binding
<1>4. \A j \in Slots : Binding(a, j)' /\ cmds'[a][j].group = g =>
        os'[a][g][cmds[a][j].handle].status = os[a][g][cmds[a][j].handle].status
  <2>1. ASSUME NEW j \in Slots, Binding(a, j)', cmds'[a][j].group = g
        PROVE  cmds[a][j].handle \in Handles /\ cmds[a][j].handle # h
    <3>1. j # i /\ Binding(a, j) /\ cmds[a][j].group = g
      BY <1>3, <2>1 DEF Binding
    <3>2. cmds[a][j].handle \in Handles /\ cmds[a][j].handle # h
      BY <1>0, <3>1 DEF BindingInv
    <3>3. QED
      BY <3>2
  <2>2. QED
    BY <1>0, <1>2, <2>1
<1>5. \A j \in Slots : Pending(a, j, g)' => j # i /\ Pending(a, j, g)
  BY <1>1 DEF Pending
<1>6. Pending(a, i, g)
  BY <1>0 DEF Pending, Binding
<1>7. raced[a][g] \in BOOLEAN /\ raced' = raced /\ last' = last
  BY <1>0 DEF JoinComplete, JoinFail, TypeOK
<1>8. \A b \in Agents, k \in Groups : <<b, k>> # <<a, g>> =>
        /\ state'[b][k] = state[b][k] /\ sockets'[b][k] = sockets[b][k]
        /\ \A q \in Handles : os'[b][k][q] = os[b][k][q]
  BY <1>0, <1>2 DEF JoinComplete, JoinFail, TypeOK
<1>9. /\ sockets'[a][g] # NoHandle => os'[a][g][sockets'[a][g]].status = "open"
      /\ ~raced'[a][g] => GroupInv(a, g)'
  <2>1. CASE JoinComplete(a, i)
    <3>1. /\ sockets'[a][g] = h /\ state'[a][g] = "MEMBER"
      BY <1>0, <2>1 DEF JoinComplete, TypeOK
    <3>2. os'[a][g][h].status = "open"
      <4>1. os[a][g][h] \in Socket
        BY <1>0 DEF TypeOK
      <4>2. os' = [os EXCEPT ![a][g][h].status = "open"]
        BY <2>1 DEF JoinComplete
      <4>3. os'[a][g][h] = [os[a][g][h] EXCEPT !.status = "open"]
        <5> HIDE Defaults, <1>g, <1>h DEF IInv, SocketInv
        <5>1. os \in [Agents -> [Groups -> [Handles -> Socket]]]
          BY DEF IInv, TypeOK
        <5>2. QED
          BY <1>0, <4>2, <5>1
      <4>4. QED
        BY <4>1, <4>3 DEF Socket
    <3>3. ASSUME ~raced'[a][g] PROVE GroupInv(a, g)'
      <4>1. GroupInv(a, g)
        BY <1>0, <1>7, <3>3
      <4>2. /\ sockets[a][g] = NoHandle /\ last[a][g] = "join"
            /\ \A j \in Slots : Pending(a, j, g) => j = i
        BY <1>0, <1>6, <4>1 DEF GroupInv
      <4>3. \A q \in Handles : os[a][g][q].status # "open"
        BY <4>1, <4>2, MulticastAssumption DEF GroupInv
      <4>4. \A q \in Handles : os'[a][g][q].status = "open" => q = h
        BY <1>0, <1>2, <4>3
      <4>5. QED
        BY <1>0, <1>5, <1>7, <3>1, <4>2, <4>4 DEF GroupInv
    <3>4. QED
      BY <3>1, <3>2, <3>3
  <2>2. CASE JoinFail(a, i)
    <3>1. /\ sockets' = sockets /\ state' = state
          /\ os'[a][g][h].status = "free"
      BY <1>0, <2>2 DEF JoinFail, TypeOK
    <3>2. sockets[a][g] # NoHandle =>
            /\ sockets[a][g] \in Handles /\ sockets[a][g] # h
            /\ os[a][g][sockets[a][g]].status = "open"
      BY <1>0 DEF MapNeverDangles, TypeOK
    <3>3. ASSUME ~raced'[a][g] PROVE GroupInv(a, g)'
      <4>1. GroupInv(a, g)
        BY <1>0, <1>7, <3>3
      <4>2. \A j \in Slots : Pending(a, j, g) => j = i
        BY <1>0, <1>6, <4>1 DEF GroupInv
      <4>3. \A q \in Handles : os'[a][g][q].status = "open" => os[a][g][q].status = "open"
        BY <1>0, <1>2, <3>1
      <4>4. QED
        BY <1>5, <1>7, <3>1, <4>1, <4>2, <4>3 DEF GroupInv
    <3>4. QED
      BY <1>0, <1>2, <3>1, <3>2, <3>3
  <2>3. QED
    BY <2>1, <2>2
<1>10. \A j \in Slots : Binding(a, j)' /\ cmds'[a][j].group = g =>
           /\ cmds'[a][j].handle \in Handles
           /\ os'[a][g][cmds'[a][j].handle].status = "binding"
           /\ \A q \in Slots : q # j /\ Binding(a, q)' /\ cmds'[a][q].group = g
                              => cmds'[a][q].handle # cmds'[a][j].handle
  BY <1>0, <1>3, <1>4, StillBinding
<1>11. \A b \in Agents, k \in Groups : <<b, k>> # <<a, g>> =>
           /\ state'[b][k] = state[b][k] /\ sockets'[b][k] = sockets[b][k]
           /\ last'[b][k] = last[b][k] /\ raced'[b][k] = raced[b][k]
           /\ \A q \in Handles : os'[b][k][q].status = os[b][k][q].status
  BY <1>7, <1>8
<1>12. cmds'[a][i].pc = "reply"
  BY <1>1
<1> HIDE <1>g, <1>h DEF SocketInv, IInv
<1>13. QED
  BY <1>0, <1>1, <1>9, <1>10, <1>11, <1>12, LocalInv

LEMMA LeaveInv ==
  ASSUME IInv, TypeOK', NEW a \in Agents, NEW i \in Slots, NEW g \in Groups,
         Leave(a, i, g) \/ InjectBegin(a, i, g)
  PROVE  SocketInv'
<1> USE Defaults DEF IInv, SocketInv
<1>0. IssuedMembership(a, g, "leave")
  BY DEF Leave, InjectBegin
<1>1. /\ state'[a][g] = "NOT_MEMBER" /\ state' = [state EXCEPT ![a][g] = "NOT_MEMBER"]
  BY DEF Leave, InjectBegin, TypeOK
<1>2. CASE Leave(a, i, g)
  <2>1. /\ sockets'[a][g] = NoHandle
        /\ \A h \in Handles : h # sockets[a][g] => os'[a][g][h] = os[a][g][h]
        /\ sockets[a][g] # NoHandle => os'[a][g][sockets[a][g]] = FreeSocket
        /\ \A b \in Agents, k \in Groups : <<b, k>> # <<a, g>> =>
             /\ sockets'[b][k] = sockets[b][k]
             /\ \A h \in Handles : os'[b][k][h] = os[b][k][h]
    BY <1>2 DEF Leave, CloseGroup, TypeOK
  <2>2. /\ cmds' = AfterClose(a, i, g)
        /\ \A b \in Agents, j \in Slots : <<b, j>> # <<a, i>> =>
             cmds'[b][j] = cmds[b][j] \/ cmds'[b][j].pc = "hung"
        /\ cmds'[a][i] = Answered
    BY <1>2 DEF Leave, AfterClose, TypeOK
  <2>3. \A j \in Slots : Binding(a, j)' => cmds'[a][j] = cmds[a][j] /\ Binding(a, j)
    BY <2>2 DEF Binding
  <2>4. \A j \in Slots : Binding(a, j)' /\ cmds'[a][j].group = g =>
          os'[a][g][cmds[a][j].handle].status = os[a][g][cmds[a][j].handle].status
    <3>1. ASSUME NEW j \in Slots, Binding(a, j)', cmds'[a][j].group = g
          PROVE  cmds[a][j].handle \in Handles /\ cmds[a][j].handle # sockets[a][g]
      <4>1. Binding(a, j) /\ cmds[a][j].group = g
        BY <2>3, <3>1
      <4>2. /\ cmds[a][j].handle \in Handles
            /\ os[a][g][cmds[a][j].handle].status = "binding"
        BY <4>1 DEF BindingInv
      <4>3. QED
        BY <4>2, MulticastAssumption DEF MapNeverDangles
    <3>2. QED
      BY <2>1, <3>1
  <2>5. \A j \in Slots : Binding(a, j)' /\ cmds'[a][j].group = g =>
           /\ cmds'[a][j].handle \in Handles
           /\ os'[a][g][cmds'[a][j].handle].status = "binding"
           /\ \A q \in Slots : q # j /\ Binding(a, q)' /\ cmds'[a][q].group = g
                              => cmds'[a][q].handle # cmds'[a][j].handle
    BY <2>3, <2>4, StillBinding
  <2>6. ASSUME ~raced'[a][g] PROVE GroupInv(a, g)'
    <3>1. GroupInv(a, g) /\ \A j \in Slots : ~Pending(a, j, g)
      BY <1>0, <2>6, IssuedAlone
    <3>2. \A j \in Slots : ~Pending(a, j, g)'
      BY <2>2, <3>1 DEF Pending
    <3>3. \A h \in Handles : os'[a][g][h].status # "open"
      <4>1. SUFFICES ASSUME NEW h \in Handles, os'[a][g][h].status = "open"
                     PROVE  FALSE
        OBVIOUS
      <4>2. h # sockets[a][g]
        BY <2>1, <4>1, MulticastAssumption
      <4>3. QED
        BY <2>1, <3>1, <4>1, <4>2 DEF GroupInv
    <3>4. QED
      BY <1>1, <3>2, <3>3 DEF GroupInv
  <2>7. \A b \in Agents, k \in Groups : <<b, k>> # <<a, g>> =>
           /\ state'[b][k] = state[b][k] /\ sockets'[b][k] = sockets[b][k]
           /\ last'[b][k] = last[b][k] /\ raced'[b][k] = raced[b][k]
           /\ \A h \in Handles : os'[b][k][h].status = os[b][k][h].status
    BY <1>0, <1>1, <2>1 DEF TypeOK, IssuedMembership
  <2>8. cmds'[a][i].pc = "reply"
    BY <2>2
  <2> HIDE DEF SocketInv, IInv
  <2>9. QED
    BY <2>1, <2>2, <2>5, <2>6, <2>7, <2>8, LocalInv
<1>3. CASE InjectBegin(a, i, g)
  <2>1. /\ \A b \in Agents, j \in Slots : <<b, j>> # <<a, i>> => cmds'[b][j] = cmds[b][j]
        /\ cmds'[a][i].pc = "sending" /\ cmds'[a][i].group = g
        /\ os' = os /\ sockets' = sockets
    BY <1>3 DEF InjectBegin, Run, TypeOK
  <2>2. \A j \in Slots : Binding(a, j)' => cmds'[a][j] = cmds[a][j]
    BY <2>1 DEF Binding
  <2>3. \A j \in Slots : Binding(a, j)' /\ cmds'[a][j].group = g =>
           /\ cmds'[a][j].handle \in Handles
           /\ os'[a][g][cmds'[a][j].handle].status = "binding"
           /\ \A q \in Slots : q # j /\ Binding(a, q)' /\ cmds'[a][q].group = g
                              => cmds'[a][q].handle # cmds'[a][j].handle
    BY <2>1, <2>2, StillBinding
  <2>4. ASSUME ~raced'[a][g] PROVE GroupInv(a, g)'
    <3>1. GroupInv(a, g) /\ \A j \in Slots : ~Pending(a, j, g)
      BY <1>0, <2>4, IssuedAlone
    <3>2. \A j \in Slots : Pending(a, j, g)' => j = i
      BY <2>1, <3>1 DEF Pending
    <3>3. ~Binding(a, i)'
      BY <2>1 DEF Binding
    <3>4. QED
      BY <1>1, <2>1, <3>1, <3>2, <3>3 DEF GroupInv
  <2>5. \A b \in Agents, k \in Groups : <<b, k>> # <<a, g>> =>
           /\ state'[b][k] = state[b][k] /\ sockets'[b][k] = sockets[b][k]
           /\ last'[b][k] = last[b][k] /\ raced'[b][k] = raced[b][k]
           /\ \A h \in Handles : os'[b][k][h].status = os[b][k][h].status
    BY <1>0, <1>1, <2>1 DEF TypeOK, IssuedMembership
  <2>6. sockets'[a][g] # NoHandle => os'[a][g][sockets'[a][g]].status = "open"
    BY <2>1 DEF MapNeverDangles
  <2> HIDE DEF SocketInv, IInv
  <2>7. QED
    BY <2>1, <2>3, <2>4, <2>5, <2>6, LocalInv
<1>4. QED
  BY <1>2, <1>3

LEMMA InjectInv ==
  ASSUME IInv, TypeOK', NEW a \in Agents, NEW i \in Slots, InjectComplete(a, i)
  PROVE  SocketInv'
<1>g. PICK g : g = cmds[a][i].group
  OBVIOUS
<1> USE Defaults, <1>g DEF IInv, SocketInv
<1>0. g \in Groups /\ cmds[a][i] \in Command
  BY DEF TypeOK, Command
<1>1. /\ cmds[a][i].pc = "sending" /\ cmds[a][i].kind = "leave-then-inject"
      /\ state' = state /\ last' = last /\ raced' = raced
      /\ cmds' = AfterClose(a, i, g)
      /\ sockets' = [sockets EXCEPT ![a][g] = NoHandle]
  BY DEF InjectComplete
<1>2. /\ \A h \in Handles : h # sockets[a][g] =>
           os'[a][g][h].status = os[a][g][h].status
      /\ sockets[a][g] # NoHandle => os'[a][g][sockets[a][g]] = FreeSocket
      /\ \A b \in Agents, k \in Groups : <<b, k>> # <<a, g>> =>
           \A h \in Handles : os'[b][k][h].status = os[b][k][h].status
  <2>1. PICK t \in Ttls :
          \E new \in Arrivals([group |-> g, ttl |-> t], cmds[a][i].port) :
            os' = IF sockets[a][g] = NoHandle THEN new
                  ELSE [new EXCEPT ![a][g][sockets[a][g]] = FreeSocket]
    BY DEF InjectComplete
  <2>2. PICK new \in Arrivals([group |-> g, ttl |-> t], cmds[a][i].port) :
            os' = IF sockets[a][g] = NoHandle THEN new
                  ELSE [new EXCEPT ![a][g][sockets[a][g]] = FreeSocket]
    BY <2>1
  <2>3. [group |-> g, ttl |-> t] \in Dgram /\ cmds[a][i].port \in Ports
    BY <1>0, MulticastAssumption DEF Command, Dgram, Envelope
  <2>4. /\ new \in [Agents -> [Groups -> [Handles -> Socket]]]
        /\ \A b \in Agents, k \in Groups, h \in Handles :
             new[b][k][h].status = os[b][k][h].status
    BY <2>2, <2>3, ArrivalsKeep
  <2>5. sockets[a][g] # NoHandle => sockets[a][g] \in Handles
    BY <1>0 DEF TypeOK
  <2>6. CASE sockets[a][g] = NoHandle
    <3>1. os' = new
      BY <2>2, <2>6
    <3>2. \A b \in Agents, k \in Groups, h \in Handles :
             os'[b][k][h].status = os[b][k][h].status
      BY <2>4, <3>1
    <3>3. QED
      BY <1>0, <2>6, <3>2
  <2>7. CASE sockets[a][g] # NoHandle
    <3>1. /\ os' = [new EXCEPT ![a][g][sockets[a][g]] = FreeSocket]
          /\ sockets[a][g] \in Handles
      BY <2>2, <2>5, <2>7
    <3> HIDE <1>g DEF IInv, SocketInv
    <3>2. os'[a][g][sockets[a][g]] = FreeSocket
      BY <1>0, <2>4, <3>1
    <3>3. \A h \in Handles : h # sockets[a][g] => os'[a][g][h] = new[a][g][h]
      BY <1>0, <2>4, <3>1
    <3>4. \A b \in Agents, k \in Groups : <<b, k>> # <<a, g>> =>
            os'[b][k] = new[b][k]
      BY <1>0, <2>4, <3>1
    <3>5. /\ \A h \in Handles : h # sockets[a][g] =>
               os'[a][g][h].status = os[a][g][h].status
          /\ \A b \in Agents, k \in Groups : <<b, k>> # <<a, g>> =>
               \A h \in Handles : os'[b][k][h].status = os[b][k][h].status
      BY <1>0, <2>4, <3>3, <3>4
    <3>6. QED
      BY <3>2, <3>5
  <2>8. QED
    BY <2>6, <2>7
<1>3. /\ \A b \in Agents, j \in Slots : <<b, j>> # <<a, i>> =>
           cmds'[b][j] = cmds[b][j] \/ cmds'[b][j].pc = "hung"
      /\ cmds'[a][i] = Answered
  BY <1>1 DEF AfterClose, TypeOK
<1>4. \A j \in Slots : Binding(a, j)' => cmds'[a][j] = cmds[a][j] /\ Binding(a, j)
  BY <1>3 DEF Binding
<1>5. \A j \in Slots : Binding(a, j)' /\ cmds'[a][j].group = g =>
        os'[a][g][cmds[a][j].handle].status = os[a][g][cmds[a][j].handle].status
  <2>1. ASSUME NEW j \in Slots, Binding(a, j)', cmds'[a][j].group = g
        PROVE  cmds[a][j].handle \in Handles /\ cmds[a][j].handle # sockets[a][g]
    <3>1. Binding(a, j) /\ cmds[a][j].group = g
      BY <1>4, <2>1
    <3>2. /\ cmds[a][j].handle \in Handles
          /\ os[a][g][cmds[a][j].handle].status = "binding"
      BY <3>1 DEF BindingInv
    <3>3. QED
      BY <1>0, <3>2, MulticastAssumption DEF MapNeverDangles
  <2>2. QED
    BY <1>2, <2>1
<1>6. \A j \in Slots : Binding(a, j)' /\ cmds'[a][j].group = g =>
           /\ cmds'[a][j].handle \in Handles
           /\ os'[a][g][cmds'[a][j].handle].status = "binding"
           /\ \A q \in Slots : q # j /\ Binding(a, q)' /\ cmds'[a][q].group = g
                              => cmds'[a][q].handle # cmds'[a][j].handle
  BY <1>0, <1>4, <1>5, StillBinding
<1>7. ASSUME ~raced'[a][g] PROVE GroupInv(a, g)'
  <2>1. GroupInv(a, g)
    BY <1>0, <1>1, <1>7
  <2>2. Pending(a, i, g) /\ ~Binding(a, i)
    BY <1>1 DEF Pending, Binding
  <2>3. state[a][g] = "NOT_MEMBER" /\ \A j \in Slots : Pending(a, j, g) => j = i
    BY <2>1, <2>2 DEF GroupInv
  <2>4. \A j \in Slots : ~Pending(a, j, g)'
    BY <1>3, <2>3 DEF Pending
  <2>5. \A h \in Handles : os'[a][g][h].status # "open"
    <3>1. SUFFICES ASSUME NEW h \in Handles, os'[a][g][h].status = "open"
                   PROVE  FALSE
      OBVIOUS
    <3>2. h # sockets[a][g]
      BY <1>2, <3>1, MulticastAssumption
    <3>3. os[a][g][h].status = "open"
      BY <1>2, <3>1, <3>2
    <3>4. QED
      BY <2>1, <3>2, <3>3 DEF GroupInv
  <2>6. QED
    BY <1>1, <2>3, <2>4, <2>5 DEF GroupInv
<1>8. \A b \in Agents, k \in Groups : <<b, k>> # <<a, g>> =>
         /\ state'[b][k] = state[b][k] /\ sockets'[b][k] = sockets[b][k]
         /\ last'[b][k] = last[b][k] /\ raced'[b][k] = raced[b][k]
         /\ \A h \in Handles : os'[b][k][h].status = os[b][k][h].status
  BY <1>0, <1>1, <1>2 DEF TypeOK
<1>9. sockets'[a][g] = NoHandle /\ cmds'[a][i].pc = "reply"
  BY <1>0, <1>1, <1>3 DEF TypeOK
<1> HIDE <1>g DEF SocketInv, IInv
<1>10. QED
  BY <1>0, <1>3, <1>6, <1>7, <1>8, <1>9, LocalInv

LEMMA RestartInv ==
  ASSUME IInv, TypeOK', NEW a \in Agents, Restart(a)
  PROVE  SocketInv'
<1> USE Defaults DEF IInv, SocketInv
<1>1. /\ \A g \in Groups : sockets'[a][g] = NoHandle /\ state'[a][g] = "NOT_MEMBER"
      /\ \A g \in Groups, h \in Handles : os'[a][g][h].status = "free"
      /\ \A i \in Slots : cmds'[a][i] = IdleSlot
  BY DEF Restart, TypeOK
<1>2. \A b \in Agents : b # a =>
        /\ sockets'[b] = sockets[b] /\ state'[b] = state[b] /\ os'[b] = os[b]
        /\ cmds'[b] = cmds[b] /\ last'[b] = last[b] /\ raced'[b] = raced[b]
  BY DEF Restart, TypeOK
<1>3. MapNeverDangles'
  BY <1>1, <1>2 DEF MapNeverDangles
<1>4. BindingInv'
  BY <1>1, <1>2 DEF BindingInv, Binding
<1>5. ASSUME NEW b \in Agents, NEW g \in Groups, ~raced'[b][g]
      PROVE  GroupInv(b, g)'
  <2>1. CASE b = a
    BY <1>1, <2>1 DEF GroupInv, Pending
  <2>2. CASE b # a
    <3>1. GroupInv(b, g)
      BY <1>2, <1>5, <2>2
    <3>2. QED
      BY <1>2, <2>2, <3>1 DEF GroupInv, Pending, Binding
  <2>3. QED
    BY <2>1, <2>2
<1>6. QED
  BY <1>3, <1>4, <1>5

\* Every step of every schedule preserves the inductive invariant.
LEMMA NextInv == IInv /\ [Next]_vars => IInv'
<1> SUFFICES ASSUME IInv, [Next]_vars PROVE IInv'
  OBVIOUS
<1>0. TypeOK'
  BY NextType DEF IInv
<1>1. ASSUME NEW a \in Agents, NEW i \in Slots, Issue(a, i)
      PROVE  SocketInv' /\ DeliveredOnlyIfJoined'
  <2>1. emitted' = NoEvent
    BY <1>1 DEF Issue, JoinAgain, JoinBegin, Leave, InjectBegin, SendBegin, ConfigGroup
  <2>2. ASSUME NEW g \in Groups, NEW p \in Ports,
               SendBegin(a, i, g, p) \/ ConfigGroup(a, i, g, p)
        PROVE  SocketInv'
    <3>1. UNCHANGED <<state, sockets, os, last, raced>>
      BY <2>2 DEF SendBegin, ConfigGroup
    <3>t. cmds \in [Agents -> [Slots -> Command]]
      BY DEF IInv, TypeOK
    <3>2. \A b \in Agents, j \in Slots :
            \/ cmds'[b][j] = cmds[b][j]
            \/ cmds'[b][j].pc = "sending" /\ cmds'[b][j].kind = "send-multicast"
      <4>1. CASE SendBegin(a, i, g, p)
        <5>1. cmds' = [cmds EXCEPT ![a][i] =
                         [pc |-> "sending", kind |-> "send-multicast", group |-> g,
                          handle |-> sockets[a][g], port |-> p]]
          BY <4>1 DEF SendBegin, Run
        <5>2. QED
          BY <3>t, <5>1
      <4>2. CASE ConfigGroup(a, i, g, p)
        BY <4>2 DEF ConfigGroup
      <4>3. QED
        BY <2>2, <4>1, <4>2
    <3>3. QED
      BY <1>0, <3>1, <3>2, QuietInv
  <2>3. SocketInv'
    BY <1>0, <1>1, <2>2, JoinInv, LeaveInv DEF Issue
  <2>4. QED
    BY <2>1, <2>3 DEF DeliveredOnlyIfJoined, NoEvent
<1>2. ASSUME NEW a \in Agents, NEW i \in Slots, Progress(a, i)
      PROVE  SocketInv' /\ DeliveredOnlyIfJoined'
  <2>1. emitted' = NoEvent
    BY <1>2 DEF Progress, JoinComplete, JoinFail, SendComplete, InjectComplete,
                SendFail, Reply
  <2>2. ASSUME SendComplete(a, i) \/ SendFail(a, i) \/ Reply(a, i)
        PROVE  SocketInv'
    <3>1. UNCHANGED <<state, sockets, last, raced>>
      BY <2>2 DEF SendComplete, SendFail, Reply
    <3>2. \A b \in Agents, j \in Slots :
            \/ cmds'[b][j] = cmds[b][j]
            \/ cmds'[b][j].pc \in {"idle", "reply", "hung"}
      <4>1. cmds \in [Agents -> [Slots -> Command]]
        BY DEF IInv, TypeOK
      <4>2. PICK r : /\ cmds' = [cmds EXCEPT ![a][i] = r]
                     /\ r.pc \in {"idle", "reply", "hung"}
        BY <2>2, Defaults DEF SendComplete, SendFail, Reply
      <4>3. QED
        BY <4>1, <4>2
    <3>3. \A b \in Agents, g \in Groups, h \in Handles :
            os'[b][g][h].status = os[b][g][h].status
      <4>1. CASE SendComplete(a, i)
        <5>1. PICK t \in Ttls :
                os' \in Arrivals([group |-> cmds[a][i].group, ttl |-> t], cmds[a][i].port)
          BY <4>1 DEF SendComplete
        <5>2. /\ [group |-> cmds[a][i].group, ttl |-> t] \in Dgram
              /\ cmds[a][i].port \in Ports
          BY MulticastAssumption DEF IInv, TypeOK, Command, Dgram, Envelope
        <5>3. QED
          BY <5>1, <5>2, ArrivalsKeep DEF IInv
      <4>2. CASE SendFail(a, i) \/ Reply(a, i)
        BY <4>2 DEF SendFail, Reply
      <4>3. QED
        BY <2>2, <4>1, <4>2
    <3>4. QED
      BY <1>0, <3>1, <3>2, <3>3, QuietInv
  <2>3. SocketInv'
    BY <1>0, <1>2, <2>2, BoundInv, InjectInv DEF Progress
  <2>4. QED
    BY <2>1, <2>3 DEF DeliveredOnlyIfJoined, NoEvent
<1>3. ASSUME NEW a \in Agents, NEW g \in Groups, NEW h \in Handles, Receive(a, g, h)
      PROVE  SocketInv' /\ DeliveredOnlyIfJoined'
  BY <1>0, <1>3, ReceiveInv
<1>4. ASSUME NEW d \in Dgram, NEW p \in Ports, ForeignDatagram(d, p)
      PROVE  SocketInv' /\ DeliveredOnlyIfJoined'
  <2>1. \A b \in Agents, g \in Groups, h \in Handles :
          os'[b][g][h].status = os[b][g][h].status
    BY <1>4, ArrivalsKeep DEF ForeignDatagram, IInv
  <2>2. SocketInv'
    BY <1>0, <1>4, <2>1, QuietInv DEF ForeignDatagram
  <2>3. QED
    BY <1>4, <2>2 DEF ForeignDatagram, DeliveredOnlyIfJoined, NoEvent
<1>5. ASSUME NEW a \in Agents, Restart(a)
      PROVE  SocketInv' /\ DeliveredOnlyIfJoined'
  <2>1. emitted' = NoEvent
    BY <1>5 DEF Restart
  <2>2. QED
    BY <1>0, <1>5, <2>1, RestartInv DEF DeliveredOnlyIfJoined, NoEvent
<1>6. CASE UNCHANGED vars
  <2>1. SocketInv'
    BY <1>0, <1>6, QuietInv DEF vars
  <2>2. QED
    BY <1>0, <1>6, <2>1 DEF vars, IInv, DeliveredOnlyIfJoined
<1>7. QED
  BY <1>0, <1>1, <1>2, <1>3, <1>4, <1>5, <1>6 DEF Next, IInv

LEMMA Invariance == Spec => []IInv
<1>1. Init => IInv
  BY InitType, InitSocketInv DEF IInv
<1>2. QED
  BY <1>1, NextInv, PTL DEF Spec

\* Under any interleaving of the handlers the socket map names open sockets only.
THEOREM MapIsSound == Spec => []MapNeverDangles
<1>1. IInv => MapNeverDangles
  BY DEF IInv, SocketInv
<1>2. QED
  BY <1>1, Invariance, PTL

\* BR-04 / BR-05: nothing is delivered for a group whose last membership command
\* was not a join, unless two membership commands of that group overlapped.
THEOREM DeliveryIsGated == Spec => []DeliveredOnlyIfJoined
<1>1. IInv => DeliveredOnlyIfJoined
  BY DEF IInv
<1>2. QED
  BY <1>1, Invariance, PTL

\* A group whose commands did not overlap has exactly the socket its map names: a
\* member hears the group, and no second socket of it is open.
THEOREM MembersHear == Spec => []ExactlyItsSocket
<1>1. IInv => ExactlyItsSocket
  BY DEF IInv, SocketInv, GroupInv, MapNeverDangles, ExactlyItsSocket, TypeOK
<1>2. QED
  BY <1>1, Invariance, PTL

=============================================================================

----------------------------- MODULE Multicast -----------------------------
(***************************************************************************)
(* Group membership and the multicast transport of the agents.             *)
(*                                                                         *)
(* An agent keeps an application-level membership state per group          *)
(* (GroupMembershipManager) beside a map from groups to bound UDP sockets  *)
(* (MulticastTransport.sockets).  The control plane's commands reach the   *)
(* agent as IPC messages whose handlers are asynchronous: a handler that   *)
(* awaits a bind or a send lets the next handler run.  Each slot of an     *)
(* agent is one such handler in progress; one slot means that a command is *)
(* issued only after the previous one was answered.  Nothing in the agent  *)
(* or in the control plane orders the commands beyond their arrival.       *)
(*                                                                         *)
(* The kernel and the network are external: a datagram sent to a port      *)
(* reaches any subset of the sockets bound to that port, at any later      *)
(* time, in any order.                                                     *)
(***************************************************************************)
EXTENDS Integers, FiniteSets

CONSTANTS
  Agents,        \* agent processes
  Groups,        \* multicast group addresses
  Ports,         \* UDP ports
  GroupPort,     \* the group table an agent process starts with
  Slots,         \* command handlers an agent may have in progress at once
  Handles,       \* socket objects available to one agent for one group
  NoHandle,
  Named,         \* groups the envelope of a datagram may name
  NoGroup,       \* ... or none, as a broadcast envelope does
  Garbage,       \* a datagram that does not parse
  Ttls,          \* values of the envelope's ttl field
  MaxInFlight    \* different datagrams waiting in receive buffers

ASSUME MulticastAssumption ==
  /\ Groups # {} /\ Ports # {}
  /\ GroupPort \in [Groups -> Ports]
  /\ NoHandle \notin Handles
  /\ Groups \subseteq Named
  /\ NoGroup \notin Named
  /\ Garbage \notin [group : Named \union {NoGroup}, ttl : Ttls]
  /\ Ttls \subseteq Int
  /\ MaxInFlight \in Nat

VARIABLES
  state,      \* GroupMembershipManager.state
  sockets,    \* MulticastTransport.sockets: the socket object of each group
  os,         \* each socket object as the kernel has it
  ports,      \* AgentConfig.groups: the port configured for each group
  cmds,       \* the command handlers in progress
  emitted,    \* the event the last step of a receive callback emitted
  last,       \* history: the last membership command issued for the group
  raced       \* history: two membership commands of the group have overlapped

vars == <<state, sockets, os, ports, cmds, emitted, last, raced>>

Membership == {"NOT_MEMBER", "JOINING", "MEMBER"}

\* What the agent reads in a datagram.
Envelope == [group : Named \union {NoGroup}, ttl : Ttls]
Dgram == Envelope \union {Garbage}

Verdicts == {"malformed", "dropped-membership", "protocol-violation",
             "ttl-expired", "deliver"}

\* "hung": the handler awaits a callback that will never be called.
Pcs == {"idle", "binding", "sending", "reply", "hung"}

Kinds == {"join", "leave", "leave-then-inject", "send-multicast"}

Socket == [status : {"free", "binding", "open"}, port : Ports, rx : SUBSET Dgram]

Command == [pc : Pcs, kind : Kinds, group : Groups,
            handle : Handles \union {NoHandle}, port : Ports]

NoEvent == [kind |-> "none"]

Event == [kind : Verdicts, agent : Agents, group : Groups]

TypeOK ==
  /\ state \in [Agents -> [Groups -> Membership]]
  /\ sockets \in [Agents -> [Groups -> Handles \union {NoHandle}]]
  /\ os \in [Agents -> [Groups -> [Handles -> Socket]]]
  /\ ports \in [Agents -> [Groups -> Ports]]
  /\ cmds \in [Agents -> [Slots -> Command]]
  /\ emitted \in Event \union {NoEvent}
  /\ last \in [Agents -> [Groups -> {"none", "join", "leave"}]]
  /\ raced \in [Agents -> [Groups -> BOOLEAN]]

\* A socket object that is not in use, and a handler slot that is not.
FreeSocket ==
  [status |-> "free", port |-> CHOOSE p \in Ports : TRUE, rx |-> {}]
IdleSlot == [pc |-> "idle", kind |-> "join", group |-> CHOOSE g \in Groups : TRUE,
             handle |-> NoHandle, port |-> CHOOSE p \in Ports : TRUE]

\* A handler that has its result, and one that will never have it: what it was
\* about no longer matters.
Answered == [IdleSlot EXCEPT !.pc = "reply"]
Hung == [IdleSlot EXCEPT !.pc = "hung"]

Init ==
  /\ state = [a \in Agents |-> [g \in Groups |-> "NOT_MEMBER"]]
  /\ sockets = [a \in Agents |-> [g \in Groups |-> NoHandle]]
  /\ os = [a \in Agents |-> [g \in Groups |-> [h \in Handles |-> FreeSocket]]]
  /\ ports = [a \in Agents |-> GroupPort]
  /\ cmds = [a \in Agents |-> [i \in Slots |-> IdleSlot]]
  /\ emitted = NoEvent
  /\ last = [a \in Agents |-> [g \in Groups |-> "none"]]
  /\ raced = [a \in Agents |-> [g \in Groups |-> FALSE]]

-----------------------------------------------------------------------------
(* Receiving: MulticastTransport.receive and classifyMulticastInbound. *)

IsDeliverable(a, g) == state[a][g] = "MEMBER"

Classify(d, g, deliverable) ==
  IF d = Garbage THEN "malformed"
  ELSE IF ~deliverable THEN "dropped-membership"
  ELSE IF d.group # NoGroup /\ d.group # g THEN "protocol-violation"
  ELSE IF d.ttl <= 0 THEN "ttl-expired"
  ELSE "deliver"

\* The socket's message callback.
Receive(a, g, h) ==
  /\ os[a][g][h].status = "open"
  /\ \E d \in os[a][g][h].rx :
       /\ os' = [os EXCEPT ![a][g][h].rx = @ \ {d}]
       /\ emitted' = [kind  |-> Classify(d, g, IsDeliverable(a, g)),
                      agent |-> a, group |-> g]
  /\ UNCHANGED <<state, sockets, ports, cmds, last, raced>>

\* The kernel queues d on some of the open sockets bound to port p: UDP may lose
\* it on any of them, and two groups that share a port share their datagrams.
Sockets == Agents \X Groups \X Handles

InFlight == UNION {os[s[1]][s[2]][s[3]].rx : s \in Sockets}

Arrivals(d, p) ==
  LET Hears(s) == LET k == os[s[1]][s[2]][s[3]] IN
                  /\ k.status = "open" /\ k.port = p
                  /\ Cardinality(InFlight \union {d}) <= MaxInFlight
  IN {[a \in Agents |-> [g \in Groups |-> [h \in Handles |->
         IF <<a, g, h>> \in R THEN [os[a][g][h] EXCEPT !.rx = @ \union {d}]
                             ELSE os[a][g][h]]]] :
       R \in SUBSET {s \in Sockets : Hears(s)}}

\* Any other program on the network, or a broadcast sent to the port a group
\* shares with the broadcast socket.
ForeignDatagram(d, p) ==
  /\ os' \in Arrivals(d, p) \ {os}
  /\ emitted' = NoEvent
  /\ UNCHANGED <<state, sockets, ports, cmds, last, raced>>

-----------------------------------------------------------------------------
(* Commands.  A handler runs from its first line to its first await in one
   step; each further step is the code between two awaits. *)

Idle(a, i) == cmds[a][i].pc = "idle"

Run(a, i, pc, kind, g, h, p) ==
  cmds' = [cmds EXCEPT ![a][i] = [pc |-> pc, kind |-> kind, group |-> g,
                                  handle |-> h, port |-> p]]

\* A handler of a membership command of g that awaits and will touch g again.
Pending(a, i, g) == /\ cmds[a][i].group = g
                    /\ \/ cmds[a][i].pc = "binding"
                       \/ /\ cmds[a][i].pc = "sending"
                          /\ cmds[a][i].kind = "leave-then-inject"

IssuedMembership(a, g, kind) ==
  /\ last' = [last EXCEPT ![a][g] = kind]
  /\ raced' = [raced EXCEPT ![a][g] = @ \/ \E i \in Slots : Pending(a, i, g)]

\* MulticastTransport.join with the socket already in the map.
JoinAgain(a, i, g) ==
  /\ Idle(a, i)
  /\ sockets[a][g] # NoHandle
  /\ state' = [state EXCEPT ![a][g] = "MEMBER"]
  /\ IssuedMembership(a, g, "join")
  /\ cmds' = [cmds EXCEPT ![a][i] = Answered]
  /\ emitted' = NoEvent
  /\ UNCHANGED <<sockets, os, ports>>

\* Mutant of JoinBegin: join does not look for a socket it already has.
JoinBeginAlways(a, i, g) ==
  /\ Idle(a, i)
  /\ state' = [state EXCEPT ![a][g] = "JOINING"]
  /\ IssuedMembership(a, g, "join")
  /\ \E h \in Handles :
       /\ os[a][g][h].status = "free"
       /\ os' = [os EXCEPT ![a][g][h] = [status |-> "binding", port |-> ports[a][g],
                                         rx |-> {}]]
       /\ Run(a, i, "binding", "join", g, h, IdleSlot.port)
  /\ emitted' = NoEvent
  /\ UNCHANGED <<sockets, ports>>

\* MulticastTransport.join up to the await of the bind.
JoinBegin(a, i, g) ==
  /\ Idle(a, i)
  /\ sockets[a][g] = NoHandle
  /\ state' = [state EXCEPT ![a][g] = "JOINING"]
  /\ IssuedMembership(a, g, "join")
  /\ \E h \in Handles :
       /\ os[a][g][h].status = "free"
       /\ os' = [os EXCEPT ![a][g][h] = [status |-> "binding", port |-> ports[a][g],
                                         rx |-> {}]]
       /\ Run(a, i, "binding", "join", g, h, IdleSlot.port)
  /\ emitted' = NoEvent
  /\ UNCHANGED <<sockets, ports>>

\* The bind callback has joined the group in the kernel and join resumes.
JoinComplete(a, i) ==
  LET c == cmds[a][i] IN
  /\ c.pc = "binding"
  /\ os' = [os EXCEPT ![a][c.group][c.handle].status = "open"]
  /\ sockets' = [sockets EXCEPT ![a][c.group] = c.handle]
  /\ state' = [state EXCEPT ![a][c.group] = "MEMBER"]
  /\ cmds' = [cmds EXCEPT ![a][i] = Answered]
  /\ emitted' = NoEvent
  /\ UNCHANGED <<ports, last, raced>>

\* Mutant of JoinFail: the failed join leaves a state of its own.
JoinFailState(a, i) ==
  LET c == cmds[a][i] IN
  /\ c.pc = "binding"
  /\ os' = [os EXCEPT ![a][c.group][c.handle] = FreeSocket]
  /\ state' = [state EXCEPT ![a][c.group] = "FAILED"]
  /\ cmds' = [cmds EXCEPT ![a][i] = Answered]
  /\ emitted' = NoEvent
  /\ UNCHANGED <<sockets, ports, last, raced>>

\* The bind or addMembership failed: join rejects and leaves the state JOINING.
\* The socket has no message handler and never receives.
JoinFail(a, i) ==
  LET c == cmds[a][i] IN
  /\ c.pc = "binding"
  /\ os' = [os EXCEPT ![a][c.group][c.handle] = FreeSocket]
  /\ cmds' = [cmds EXCEPT ![a][i] = Answered]
  /\ emitted' = NoEvent
  /\ UNCHANGED <<state, sockets, ports, last, raced>>

\* Mutant of CloseGroup: the socket is closed and stays in the map.
CloseGroupOnly(a, g) ==
  LET h == sockets[a][g] IN
  /\ sockets' = sockets
  /\ os' = IF h = NoHandle THEN os ELSE [os EXCEPT ![a][g][h] = FreeSocket]

\* MulticastTransport.leave: forget the socket, drop the membership, close it.
\* A send that waits on the closed socket is never called back.
CloseGroup(a, g) ==
  LET h == sockets[a][g] IN
  /\ sockets' = [sockets EXCEPT ![a][g] = NoHandle]
  /\ os' = IF h = NoHandle THEN os ELSE [os EXCEPT ![a][g][h] = FreeSocket]

\* The handlers of agent a after slot i closed the group's socket and has its result.
AfterClose(a, i, g) ==
  [cmds EXCEPT ![a] = [j \in Slots |->
     IF j = i THEN Answered
     ELSE IF /\ cmds[a][j].pc = "sending" /\ cmds[a][j].group = g
             /\ cmds[a][j].handle # NoHandle /\ cmds[a][j].handle = sockets[a][g]
          THEN Hung
          ELSE cmds[a][j]]]

Leave(a, i, g) ==
  /\ Idle(a, i)
  /\ state' = [state EXCEPT ![a][g] = "NOT_MEMBER"]
  /\ IssuedMembership(a, g, "leave")
  /\ CloseGroup(a, g)
  /\ cmds' = AfterClose(a, i, g)
  /\ emitted' = NoEvent
  /\ UNCHANGED ports

\* Mutant of InjectBegin: the membership is not updated before the send.
InjectBeginLate(a, i, g) ==
  /\ Idle(a, i)
  /\ IssuedMembership(a, g, "leave")
  /\ Run(a, i, "sending", "leave-then-inject", g, sockets[a][g], ports[a][g])
  /\ emitted' = NoEvent
  /\ UNCHANGED <<state, sockets, os, ports>>

\* leave-then-inject up to the await of its send, through the group's own socket
\* if there is one and through an ephemeral one otherwise.
InjectBegin(a, i, g) ==
  /\ Idle(a, i)
  /\ state' = [state EXCEPT ![a][g] = "NOT_MEMBER"]
  /\ IssuedMembership(a, g, "leave")
  /\ Run(a, i, "sending", "leave-then-inject", g, sockets[a][g], ports[a][g])
  /\ emitted' = NoEvent
  /\ UNCHANGED <<sockets, os, ports>>

\* send-multicast up to the await of its send; the command may override the port.
SendBegin(a, i, g, p) ==
  /\ Idle(a, i)
  /\ Run(a, i, "sending", "send-multicast", g, sockets[a][g], p)
  /\ emitted' = NoEvent
  /\ UNCHANGED <<state, sockets, os, ports, last, raced>>

\* The datagram leaves, the send is called back and send-multicast has its answer.
SendComplete(a, i) ==
  LET c == cmds[a][i] IN
  /\ c.pc = "sending" /\ c.kind = "send-multicast"
  /\ \E t \in Ttls :
       os' \in Arrivals([group |-> c.group, ttl |-> t], c.port)
  /\ cmds' = [cmds EXCEPT ![a][i] = Answered]
  /\ emitted' = NoEvent
  /\ UNCHANGED <<state, sockets, ports, last, raced>>

\* The injected datagram leaves (its ttl is positive): it reaches the other
\* sockets, and this group's own socket is closed before it could read it.
InjectComplete(a, i) ==
  LET c == cmds[a][i]
      h == sockets[a][c.group]
  IN
  /\ c.pc = "sending" /\ c.kind = "leave-then-inject"
  /\ \E t \in Ttls : \E arrived \in Arrivals([group |-> c.group, ttl |-> t], c.port) :
       /\ t > 0
       /\ os' = IF h = NoHandle THEN arrived
                ELSE [arrived EXCEPT ![a][c.group][h] = FreeSocket]
  /\ sockets' = [sockets EXCEPT ![a][c.group] = NoHandle]
  /\ cmds' = AfterClose(a, i, c.group)
  /\ emitted' = NoEvent
  /\ UNCHANGED <<state, ports, last, raced>>

\* The send is called back with an error: the handler rejects, and a
\* leave-then-inject does not reach its multicast.leave.
SendFail(a, i) ==
  /\ cmds[a][i].pc = "sending"
  /\ cmds' = [cmds EXCEPT ![a][i] = Answered]
  /\ emitted' = NoEvent
  /\ UNCHANGED <<state, sockets, os, ports, last, raced>>

\* Mutant of Reply: no answer while a group is JOINING.
ReplyWhenSettled(a, i) ==
  /\ cmds[a][i].pc = "reply"
  /\ \A g \in Groups : state[a][g] # "JOINING"
  /\ cmds' = [cmds EXCEPT ![a][i] = IdleSlot]
  /\ emitted' = NoEvent
  /\ UNCHANGED <<state, sockets, os, ports, last, raced>>

\* The cmd-result goes back to the control plane.
Reply(a, i) ==
  /\ cmds[a][i].pc = "reply"
  /\ cmds' = [cmds EXCEPT ![a][i] = IdleSlot]
  /\ emitted' = NoEvent
  /\ UNCHANGED <<state, sockets, os, ports, last, raced>>

\* config-group changes the table and no bound socket.
ConfigGroup(a, i, g, p) ==
  /\ Idle(a, i)
  /\ ports[a][g] # p
  /\ ports' = [ports EXCEPT ![a][g] = p]
  /\ emitted' = NoEvent
  /\ UNCHANGED <<state, sockets, os, cmds, last, raced>>

\* The process exits and the control plane spawns it again.
Restart(a) ==
  /\ state' = [state EXCEPT ![a] = [g \in Groups |-> "NOT_MEMBER"]]
  /\ sockets' = [sockets EXCEPT ![a] = [g \in Groups |-> NoHandle]]
  /\ os' = [os EXCEPT ![a] = [g \in Groups |-> [h \in Handles |-> FreeSocket]]]
  /\ ports' = [ports EXCEPT ![a] = GroupPort]
  /\ cmds' = [cmds EXCEPT ![a] = [i \in Slots |-> IdleSlot]]
  /\ emitted' = NoEvent
  /\ last' = [last EXCEPT ![a] = [g \in Groups |-> "none"]]
  /\ raced' = [raced EXCEPT ![a] = [g \in Groups |-> FALSE]]

-----------------------------------------------------------------------------

Progress(a, i) == \/ JoinComplete(a, i) \/ JoinFail(a, i)
                  \/ SendComplete(a, i) \/ InjectComplete(a, i) \/ SendFail(a, i)
                  \/ Reply(a, i)

Issue(a, i) ==
  \E g \in Groups : \/ JoinAgain(a, i, g) \/ JoinBegin(a, i, g)
                    \/ Leave(a, i, g) \/ InjectBegin(a, i, g)
                    \/ \E p \in Ports : \/ SendBegin(a, i, g, p)
                                        \/ ConfigGroup(a, i, g, p)

Next ==
  \/ \E a \in Agents, i \in Slots : Issue(a, i) \/ Progress(a, i)
  \/ \E a \in Agents, g \in Groups, h \in Handles : Receive(a, g, h)
  \/ \E d \in Dgram, p \in Ports : ForeignDatagram(d, p)
  \/ \E a \in Agents : Restart(a)

Spec == Init /\ [][Next]_vars

\* The event loop of an agent runs every callback that is due.
FairSpec == Spec /\ \A a \in Agents, i \in Slots : WF_vars(Progress(a, i))

-----------------------------------------------------------------------------
(* Properties of every schedule of the handlers. *)

\* The socket map never names a socket that is closed: a join that finds an
\* entry may rely on it, and a send through it has a kernel socket to use.
MapNeverDangles ==
  \A a \in Agents, g \in Groups :
    sockets[a][g] # NoHandle => os[a][g][sockets[a][g]].status = "open"

\* Every handler answers, or waits on a send whose socket another handler
\* closed under it: nothing else is waited for forever.
EveryCommandSettles ==
  \A a \in Agents, i \in Slots :
    [](cmds[a][i].pc # "idle" => <>(cmds[a][i].pc \in {"idle", "hung"}))

(* Properties of the groups whose membership commands did not overlap. *)

\* BR-04 / BR-05: what an agent delivers to its application belongs to a group
\* whose last membership command was a join: nothing from before the join, and
\* nothing once leave or leave-then-inject has been issued, the window between
\* the membership update and the close of the socket included.
DeliveredOnlyIfJoined ==
  emitted.kind = "deliver" => \/ last[emitted.agent][emitted.group] = "join"
                              \/ raced[emitted.agent][emitted.group]

\* A2.2, where no commands of the group overlapped: a member hears the group, by the
\* open socket its map names, and no other socket of the group is open, which would
\* deliver every datagram twice and outlive the leave.
ExactlyItsSocket ==
  \A a \in Agents, g \in Groups : ~raced[a][g] =>
    /\ state[a][g] = "MEMBER" =>
         \E h \in Handles : sockets[a][g] = h /\ os[a][g][h].status = "open"
    /\ \A h \in Handles : os[a][g][h].status = "open" => sockets[a][g] = h

(* Why they hold: the inductive invariant of the proofs in MulticastProofs. *)

Binding(a, i) == cmds[a][i].pc = "binding"

\* A pending join owns a socket of its own, which is not in the map.
BindingInv ==
  \A a \in Agents, i \in Slots : Binding(a, i) =>
    /\ cmds[a][i].handle \in Handles
    /\ os[a][cmds[a][i].group][cmds[a][i].handle].status = "binding"
    /\ \A j \in Slots : /\ j # i /\ Binding(a, j)
                         /\ cmds[a][j].group = cmds[a][i].group
                         => cmds[a][j].handle # cmds[a][i].handle

\* A group whose commands did not overlap: its open socket is in the map, it is
\* a member by its last command only, and at most one command is under way.
GroupInv(a, g) ==
  /\ \A h \in Handles : os[a][g][h].status = "open" => sockets[a][g] = h
  /\ state[a][g] = "MEMBER" => sockets[a][g] # NoHandle /\ last[a][g] = "join"
  /\ \A i \in Slots : Pending(a, i, g) =>
       /\ Binding(a, i) => sockets[a][g] = NoHandle /\ last[a][g] = "join"
       /\ ~Binding(a, i) => state[a][g] = "NOT_MEMBER"
       /\ \A j \in Slots : Pending(a, j, g) => i = j

SocketInv ==
  /\ MapNeverDangles
  /\ BindingInv
  /\ \A a \in Agents, g \in Groups : ~raced[a][g] => GroupInv(a, g)

IInv == /\ TypeOK
        /\ SocketInv
        /\ DeliveredOnlyIfJoined

(* What the comments say without the reservation. *)

\* group-membership-manager.ts: "an agent must not receive multicast traffic for
\* a group it has not joined, or has left".
NoTrafficAfterLeave ==
  emitted.kind = "deliver" => last[emitted.agent][emitted.group] = "join"
=============================================================================

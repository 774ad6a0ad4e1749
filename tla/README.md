# Formal models of agentMom

TLA+ models of the agentMom demo system: agent processes that exchange messages by unicast (TCP),
multicast and broadcast (UDP), the control plane that forks, commands and kills them, and the
dashboard that shows what happens. Nine specifications, with a module of the envelope's operators, model
the parts that interleave, fail and restart; two abstract ones say what a connection and the supervisor
promise. TLC checks each on small instances. TLAPS proves for instances of any size every safety property
that TLC checks, that the supervisor implements its abstract specification, and that the framing implements the safety part of its own.

All paths below are relative to `src/packages/`.

## The system

One **control plane** process (`control-plane/src`) serves a REST interface. It forks one Node.js
process per **agent** (`agent/src`) and talks to each over an IPC channel: `init`, `peer-update` and
`cmd` one way, `ready`, `event` and `cmd-result` the other. The agents talk to each other over TCP
and UDP only. Everything is single-threaded JavaScript: the unit of atomicity is the code between
two `await`s, and any callback may run where a handler awaits.

| Part | State | Operations | What is hard |
|---|---|---|---|
| Group membership, multicast transport (`membership/`, `transports/multicast-*.ts`) | membership state per group, map group → socket, port table | join, leave, leave-then-inject, send-multicast, config-group, receive | handlers of one group overlap at their awaits; datagrams arrive late, or from elsewhere |
| Unicast transport, sequence check (`transports/unicast-transport.ts`, `core/src/protocol/sequence-checker.ts`, `legacy/`) | map recipient → connection, address book, send counters, last number seen | connect, send, receive, peer-update, 1.2 send | check-then-await in connect; restarts at either end; ports that change hands; lost writes |
| Best-effort sending (`transports/broadcast-transport.ts`, `reliability/`, the sending half of multicast) | drop rate, denied flag, default TTL, TTL of the shared socket | send, the dials | TTL of a shared socket; fallback address; error paths |
| Security, key holder, conversations (`security/`, `key-holder/`, `architecture/`) | group keys held, the key holder's keys and allow-list, the handler | decrypt, request, grant, deny, dispatch, switch | restarts and moves while requests, grants and pings are on their way |
| Supervisor, registry, routes (`control-plane/src`) | map id → child, pending commands, memberships as last reported | spawn, kill, command, exit, result, watchdogs | late answers, timeouts against exits, stale snapshots |
| Bootstrap and shutdown (`agent/src/main.ts`, `Agent.stop`) | stage of each process | SIGTERM, disconnect, close, SIGKILL | agents that wait for each other's connections to end |
| Admin routes, demo topology (`control-plane/src/main.ts`, `rest/admin.routes.ts`) | the children in order, each child's address book and dials | spawn-demo, `broadcastToAll`, `broadcastPeers` | loops of awaits that overlap with each other and with exits |
| Frame codec (`core/src/protocol/unicast-framing.ts`) | the decoder's buffer | encode, push | frames cut anywhere, streams that end anywhere |
| Envelope validator (`core/src/validation`) | none | validate, address check | signed shifts, the ends of the range, empty against missing fields |
| Log, live events, web dashboard (`log-aggregator.ts`, `ws/`, `web/src`) | the log, the connected clients, the event buffer, the graph's `lastSeen` | ingest, publish, reconnect, render | several clocks' worth of order, a feed with gaps, effects that run again |

What makes them correct:

* *Multicast*: nothing is delivered for a group the agent has not joined or has left; a member hears
  its group, on one socket; the map never leads to a closed socket; every command is answered.
* *Unicast*: without a reported anomaly the messages of each of a sender's counters came once and in order, and none
  is missing between them; an anomaly is reported only for a reason; a map entry lasts as long as its connection.
* *Frames and envelopes*: whole envelopes in the order they were written, never a part of one; what an agent
  builds is valid, and what is malformed is not decrypted.
* *Best effort*: the events tell what left and where to; the TTL of a datagram is that of its envelope;
  each send ends, and its socket is closed unless its TTL was refused.
* *Conversation*: the group key reaches the allow-list only and there is one; encrypted questions have
  encrypted answers; each ping has one answer; answers end.
* *Control plane*: no process without an owner, no leaked command, every request answered, the registry
  true when at rest; of each id one process at a time.
* *All agents*: address books and dials agree once all is quiet; one demo at a time.
* *Shutdown*: a killed agent ends, and so do all agents without the control plane.
* *Dashboard*: one history with the log, each event shown once.

## The modules

Each specification is a module of its own, with an `MC` module and configurations that give its
constants values; what is proved of `M` is in `MProofs`. They share no variables, but two layers meet: `Framing` implements
`Channel`, which is what `Unicast` assumes of a connection, and `ControlPlane` implements `Lifetimes`. Else each
takes from its neighbours what it needs as an environment, named below. A definition under a comment *Mutant of X* is a plausible
bug of `X`; it is used by no specification, only to see that a property notices it.

### Multicast

`state` and `sockets` are the maps of `GroupMembershipManager` and `MulticastTransport`; `os` is the
kernel's view of each socket object, with its receive buffer; `ports` is `AgentConfig.groups`. `cmds`
holds the command handlers in progress: `binding` and `sending` are the awaits of `join` and
`sendMulticast`, `reply` a handler about to send its `cmd-result`, `hung` one whose callback will not
come because its socket was closed under it. Each step of a handler is one action: `JoinBegin`,
`JoinComplete`, `JoinFail`, `JoinAgain`, `Leave`, `InjectBegin`, `InjectComplete`, `SendBegin`,
`SendComplete`, `SendFail`, `ConfigGroup`, `Reply`. `Receive` is the socket callback with
`classifyMulticastInbound`. `Arrivals` is the network: a datagram reaches any subset of the sockets
bound to its port. `last` and `raced` are history: the last membership command of a group and whether
two of them have overlapped.

The joins of `Agent.start` are joins like others after `Restart`. Encryption and the dials are in other modules.

### Unicast

Each ordered pair of agents has its direction, independent of the other, because an inbound connection
is never used to answer. `clients`, `book`, `seqCounters`, `legacySeq` and `lastSeen` are the code's maps.
`conns` are the sender's connection objects with their contents, messages that carry their number and what counted it
(a process of the sender, by its own counter or the 1.2 adapter's): `connecting` (the await of
`net.connect`, with the message that waits for it), `open`, `lost` (the far end has ended, the close
event has not come) and `left` (the near end has ended, the kernel still delivers). `Transmit` is
`connect` with the write that follows; `Send` and `LegacySend` number the message first, as the code
does. `Peers` and `Spawn` are `peerMap` and `broadcastPeers`; `AfterDeath` is what TCP does to a dead
process. History: `silent` (no `SEQUENCE_ANOMALY` so far), `got` (what was passed on, while silent), `orderly` (no cause
for an anomaly so far) and `life`, the processes of each sender.

`SilenceMeansOrder` is as strong as the code allows. Silence does not mean that nothing was lost: where a counter begins
anew, after a restart of the sender or with the first message of the 1.2 interface, the check cannot tell the new
counter's numbers from the old one's, and a loss there can be silent. What the property leaves is one counter at a time.

Spawning is one step here, ControlPlane and Topology take it apart. Frames are whole messages, which Framing justifies. An agent does not
send to itself. Which of two connections of a pair is read first is open, each is FIFO.

### Framing and Channel

`Channel` is the connection as the unicast transport uses it: envelopes arrive whole, once and in order until it
ends. `Framing` has the bytes: `EncodeFrame` with its big-endian prefix of four, a stream that hands over any number of its
bytes (`Data`), the decoder's loop (`Drain`, a recursive function) and what `UnicastTransport.receive` and
`decryptInbound` make of each envelope (`Receive`, `Read`). A writer that ends leaves any part of what it wrote
(`Leave`); a reset discards the rest, the decoder's buffer included (`End`). `sent` and `got` are history and the
variables of `Channel`; `outcome` is what became of each envelope.

### Envelope

No state: `ipv4ToInt` with the signed shifts of JavaScript at the width of four octets, `isMulticastAddress`,
`buildEnvelope`, `encryptOutbound`, `stampTtl` and `validateEnvelope` as operators. A text is missing, empty or
there. `Framing` and `Datagrams` extend it.

### Datagrams

One send from its command to its event, several at once. `send` is where it is, `own` its ephemeral
socket and `osTtl` the TTL of the group's shared socket. `SendShared` sets that TTL and leaves the datagram to
depart at a later tick (`MulticastSent`), `SendOwn` and `Bound` are the ephemeral case.
`SendBroadcast`, `LimitedSent`, `LimitedFails`, `DirectedSent` and `DirectedFails` are
`sendBroadcast` with its fallback; the dials are actions that may come at any time. A command's group
address is any sequence of parts, and `Rejected` is the code's check of it. History: `wire`, what left;
`crossed`, whether another send gave the shared socket a different TTL in between; `ranged`, whether the address lies in
224.0.0.0/4 by its first four bits, which is not how the code computes it; `verdict`, what the agent's validator would
say of the envelope, although no code asks it.

### Conversation

The messages between agents with the key that seals them, in a set: they arrive in any order. `KeyFor`
and `Readable` are `decryptInbound` of both security classes. `Reject`, `ServeKeyRequest`, `StoreKey`
and `Dispatch` are the ways through `Agent.receiveUnicast`, `receiveMulticast` and `receiveBroadcast`;
`Answers` and `Pong` are the two conversation handlers. Commands send, join, leave, switch the
architecture; processes end and start again with or without the key holder's role and their groups.
`Init` is the system after `spawnDemoTopology`. Messages of a command keep its id (`cmds`, `pongs` are
history). Kinds whose handling only reports them are one kind, "chat".

### ControlPlane

`agents` and `pending` are the supervisor's maps, `registry` is `AgentRegistry.memberships` for one group.
`req` are the HTTP handlers in progress and what each awaits: the ready message, an exit, a result, a
snapshot. `inbox` and `outbox` are the two directions of each IPC channel, `proc` and `killed` the
operating system's view. `SpawnBegin`, `ReadyMessage`, `SpawnTimeout`, `KillBegin`, `KillTimeout`,
`ExitEvent`, `CommandBegin`, `CommandTimeout` and `ResultMessage` are the supervisor's code between awaits,
with what the route does next; `refreshMembership` is the snapshot that follows a result. The agent is a process that answers
a command at once, later (`Finish`) or never. `crashed` stands for a control plane that sent to a child
whose exit event had not come. `dirty` is history: a request of the id ended without a refresh.

`Lifetimes` is its abstract specification: a process is forked only while none of its id runs, and no
process runs twice. `Supervised` is the refinement mapping: the processes that are alive, and those that were ever forked.

### Topology

The same supervisor with several ids, and what it does to all of them: `agents` keeps the order of insertion,
which is the order of `broadcastPeers` and `broadcastToAll`. A request is a spawn or a demo that awaits a ready message, or
a dial that awaits a result, with the ids it has still to visit. `Fork`, `ReadyMessage` (with `BroadcastPeers` and
`SpawnNext`, the next turn of `spawnDemoTopology`), `SpawnTimeout` and `ExitEvent` are the supervisor's; `Turn` is
`broadcastToAll` from one await to the next, after `DialBegin`, a `ResultMessage` or a `CommandTimeout`. Kills are
exits here. A result is matched as the code does, by its request's being pending, at the process that was asked.
History: `latest` dial, whether a process has ended, or its exit event has come, while dials were turned (`torn`),
whether a spawn timed out since the books were last sent (`late`).

### Dashboard

The way of an event: `channel` of each agent, the sink of `startControlPlane` (`Sink`: `Ingest` into the log,
`Publish` to the socket), `wire`, the `buffer` of `useLiveEvents`, the `events` React has rendered and the `graph` with
its `lastSeen`. `Render` is a run of the graph's effect, which also the poll of the agents causes; `Mount` and `Unmount`
are the page switch. `OnClose` loses what is on the wire, `Connect` opens another socket.
An event is a number, a timestamp and whether the log keeps its type.

### Shutdown

`stage` of each process and `link`, the connection of each ordered pair as its two ends know it: the
server closes only when all it accepted have ended, the client destroys only what its map holds.
`Dial`, `Accept` and `Called` are the handshake of a connect and what follows it, `Hear` is a message that arrives.
`AfterStop` is `UnicastTransport.close`, `Stop` its call on each signal and on the disconnect, a second time too;
`Drained` is the rest of `Agent.stop`. `Kill` and `KillTimeout` are the supervisor's, `ControlEnds` the loss of it.

`report` is what an agent owes the control plane, an event or a command's answer. `Report` is the `process.send` of
`main.ts`: with the channel closed it emits an error that nobody listens for, which ends the process (`Gone`). Before the
agent has noticed the disconnect (`told`) either may happen. This is what ends two agents whose connects
crossed as both began to stop: neither server can close, but each connect was made for a message, and its
`MESSAGE_SENT` finds no channel.

## The checks

| Run | Instance | Shows |
|---|---|---|
| `multicast` | 1 agent, 1 group, 2 ports, 2 handlers, 2 sockets, 1 datagram in flight that names this group, another or none, fair handlers | types, `MapNeverDangles`, `EveryCommandSettles`, and for groups without overlapping commands `DeliveredOnlyIfJoined`, `ExactlyItsSocket` |
| `multicast_leave` | as `multicast`, no fairness | finds `NoTrafficAfterLeave` violated |
| `unicast` | 3 agents of which 1 sends to 1 and the third may inherit its port, 2 ports, 2 connections, 2 messages per counter, 3 spawns, fair | `SilenceMeansOrder`, `AnomalyHasCause`, `ClientsSound`, `OneConnection`, `TrafficArrives` |
| `unicast_pair` | 2 addressees, all mortal, no fairness | finds `OneConnectionPerPair` violated |
| `control_plane` | 1 agent id, 2 processes, 2 requests, fair | `NoOrphan`, `PendingExact`, `RegistryAgrees`, `ImplementsLifetimes`, `EveryRequestSettles` |
| `shutdown` | 2 agents, fair | `KillEnds`, `NoOrphan` |
| `conversation` | 3 agents (key holder, allowed, not allowed), 2 commands, 2 keys, fair receiving | `OnlyAllowedRead`, `OneKeyPerGroup`, `NoDowngrade`, `OneAnswer`, `RequestServed`, `Quiet` |
| `datagrams` | 2 sends, TTLs 0, 5 and 300, 8 addresses, fair | `ReportsAreTrue`, `GoodEnvelopesLeave`, `TtlIsStamped`, `SocketsClosed`, `EverySendEnds` |
| `framing` | 5 envelopes, 3 sent, bodies of 1 to 3 two-valued bytes, fair | `ImplementsChannel` (with `Channel`'s liveness), `NothingHeldBack`, `ReadsWhatIsBuilt` |
| `topology` | 2 ids, 3 processes, 2 requests, 2 dials | `PeersConverge`, `DialsAgree`, `OneDemo` |
| `dashboard` | 2 agents, 4 events, 3 ticks of the clock, log and buffer of 2 | `AnimatedOnce`, `FeedMatchesLog` |
| `dashboard_skips` | as `dashboard` | finds `EveryFlowAnimated` violated |

Most modules also state `TypeOK`; Framing, Topology and Dashboard spend their run on other properties, and their types
are proved as parts of their invariants. Shutdown's two properties are liveness.

**Bounds.** Two handlers, sends, requests or connections are what it takes for one to run in the other's await;
a third overlaps with one of them in the same way. Two ports let a port change hands and a group be
reconfigured. Two processes of one id are a predecessor whose traces are still about and its successor. Three
agents in `unicast` are a sender, its addressee and the one that inherits the addressee's port. One datagram
in flight suffices for properties of single deliveries; its TTL is 1, since a datagram that has expired is dropped
after all other checks and `DeliveryIsGated` is proved for every set of TTLs. Two commands in `conversation` are a
key request and the message that depends on it, or two pings. The addresses of `datagrams` are the ends of the range,
their neighbours on either side, too few parts, an octet too large, a part that is no number, and the first octet at the wrong
place; octets of sixteen values keep the integers within TLC's and have the range at the same four bits. In `framing` one byte in two
is a possible prefix byte, so that a decoder that lost its place would find other frames, and three frames fit one data event.
In `topology` three processes are the demo's two and a successor, or a demo beside a single spawn; two dials are two
values that compete, with a third, 0, of a fresh process. In `dashboard` four events overflow log and buffer twice and
three ticks leave some timestamps equal. `MaxSeq`, `MaxSpawns`, `MaxCommands`, `MaxKeys`, `MaxSent`, `MaxProcs`, `MaxDials`,
`MaxEvents` and `MaxTime` stop actions that would otherwise go on for ever; a state where they are used up is why
deadlock is not checked except in `multicast`, whose system never has to stop. Symmetry is used for the
requests of `topology` and the agents of `dashboard`, which have safety properties only.

**Fairness.** Weak fairness of the steps an event loop runs by itself: due callbacks, timers, messages in
a channel, TCP's delivering or failing, SIGKILL taking effect. Nothing is assumed of commands, of the
network's datagrams, of an agent's willingness to answer (in ControlPlane it may never do so) or of spawns.
In Shutdown the timer of `kill` runs only while the control plane is up, and a report that is due is sent. In Framing the stream delivers what it has and the
end of one whose writer is gone is noticed, from which `Channel`'s fairness follows.

**Refinement.** `framing` has TLC check that Framing implements Channel, its liveness included, for the variables of
the same names; the decoder's buffer and the bytes are hidden. `control_plane` checks that ControlPlane
implements Lifetimes; TLAPS proves it, and of the former the safety part, `Channel`'s `SafeSpec`.

## What was found

1. **A leave can be undone** (`multicast_leave`). A join that is still binding when `leave` comes
   completes afterwards and sets the group to MEMBER (`agent/src/transports/multicast-transport.ts:74`).
   ASSUMPTIONS.md:17 has leave take effect immediately. Short of such overlaps the promise holds
   (`DeliveredOnlyIfJoined`, proved).
2. **More than one connection per pair** (`unicast_pair`). `connect` looks for a connection before it
   awaits one (`unicast-transport.ts:89`), so overlapping sends open several, against ASSUMPTIONS.md:16. The
   sequence check reports what is overtaken, a sender that restarts apart (`SilenceMeansOrder`); short of such overlaps there is one connection (`OneConnection`).
3. **Some messages have no packet** (`dashboard_skips`). The topology graph remembers only the last timestamp it
   took (`web/src/components/AgentTopologyGraph.tsx:28-29`) and passes over what is rendered later with the same or an
   earlier one, against lines 6-7 of the file. Messages of several agents, or several of one millisecond, do this.
   While timestamps rise each event is animated, and once (`AnimatedOnce`, proved).

The models have more effects that no document of the repository speaks about and no property forbids:

* a send whose socket is closed under it leaves its handler hanging (`hung`);
* a datagram can leave with the TTL of another send (`crossed`), which `TtlIsStamped` exempts;
* a TTL the operating system refuses leaves an ephemeral socket open, which `SocketsClosed` exempts;
* a message that is lost as its sender restarts, or beside the 1.2 interface's, may be lost without a
  `SEQUENCE_ANOMALY` (see Unicast);
* agents that wait for each other after the control plane has gone end by an unhandled error, not by `stop`: a handler for
  that error would leave them waiting (the mutant `ReportSwallowed` of `NoOrphan`).

## The proofs

`MulticastProofs` proves, for any sets of agents, groups, ports, handler slots and sockets that satisfy
`MulticastAssumption` (there is a group and a port, the port table is total, `NoHandle` is no socket, the special
values are not among the ordinary ones):

* `TypeCorrect`: `Spec => []TypeOK`.
* `MapIsSound`: `Spec => []MapNeverDangles`.
* `DeliveryIsGated`: `Spec => []DeliveredOnlyIfJoined`.
* `MembersHear`: `Spec => []ExactlyItsSocket`.

All but the first follow from the invariant `IInv` (lemma `Invariance`). None of the properties is inductive:
whether a completing join may enter its socket in the map depends on who else is under way. `BindingInv`
says that a handler that binds owns a socket nobody else binds and the map does not name. `GroupInv` says
of a group without overlapping commands that at most one handler of it is pending, that a binding one found no socket and
was the last command, that a sending leave-then-inject has ended the membership, and that a member's
socket is in the map. The proof has one lemma per group of actions (`JoinInv`, `BoundInv`, `LeaveInv`,
`InjectInv`, `ReceiveInv`, `RestartInv`), on top of `QuietInv` and `LocalInv`: actions that leave sockets
and membership alone, or touch one group, need only be looked at there. `ArrivalsKeep` and `AfterCloseKeeps`
are the facts about the two operators that change many sockets or handlers at once.

`ControlPlaneProofs` proves, for any non-empty set of ids and any sets of processes and requests
(`ControlPlaneAssumption`):

* `TypeCorrect`: `Spec => []TypeOK`.
* `EveryProcessOwned`: `Spec => []NoOrphan`.
* `NoCommandLeaks`: `Spec => []PendingExact`.
* `SupervisorImplementsLifetimes`: `Spec => ImplementsLifetimes`.

`NoOrphan` is not inductive: an exit event removes its id from the map whatever the map says, which would take away the
place of a successor. `Owned` strengthens it: a process keeps its place until its exit *event*, not only until its exit, so
there is no successor yet. `PendingExact` is inductive with the types. `AgentInv`, `IncomingInv` and
`RequestInv` treat the processes, the events and the requests; `Taken` and `Put` are the facts about channels.
The refinement rests on `Owned` too: `spawn` looks only at its map, and the map has every process that is alive, so that an
id the map does not have has none. Every other step leaves the processes alone (`SameProcs`), makes a starting one
run (`ReadySupervised`), ends one (`ExitSupervised`) or notices that one has ended (`ExitEventSupervised`).

Its second part proves of the registry, from the same assumption,

* `RegistryIsTrueAtRest`: `Spec => []RegistryAgrees`.

`RegistryAgrees` speaks of an agent none of whose requests is in progress, and says nothing of how it came there. The
invariant `Rest` has what lies between a command and the registry: of each request there is one piece at most, a command, a
handler or a result, at one process (`Single`); it is at a process of the request's id, and its kind fits what
the request waits for, unless the request has given up (`Kept`); a process that runs has no predecessor with messages left, and
one that does not run has no commands (`Still`); the map leads to processes of the id (`Placed`). `Undisturbed` says
what follows for a process that is in the map while no request of its id has failed: it is starting and will report,
a command or a snapshot is still to come, or the *last* report among its messages is true, or there is none and the registry
is (`Converges`). Its lemmas are one for each action; `WorkKeeps`, `RequestKeeps`, `TakenKeeps` and `PostKeeps` do what
several share.

`UnicastProofs` proves, for any agents, ports and bounds and at least one connection object
(`UnicastAssumption`):

* `TypeCorrect`: `Spec => []TypeOK`.
* `MapNamesLiveConnections`: `Spec => ClientsSound`.
* `SilenceIsOrder`: `Spec => []SilenceMeansOrder`.
* `AnomaliesHaveCauses`: `Spec => []AnomalyHasCause`.
* `OneConnectionEach`: `Spec => []OneConnection`.

`ConnsSound` ties an object's state to its recipient and its far end. `ClientsSound` is about steps; it rests on the invariant
`EntriesLive`, that an entry names a connection to its recipient which is open or awaits its close event, and `EntryStep`
looks at each action. `SilenceMeansOrder` needs that the number a receiver remembers is the length of what it passed on,
where each message has its own place's number (`HistoryKept`); with it, that one counter's consecutive messages leave
none out is arithmetic (`Counted`). The last two need what an undisturbed
pair is like (`Intact`): one connection object at most, in the map once it is open, whose queue has exactly the numbers
the receiver has not seen, in order; if there is none, the receiver has seen all. `TransmitCases` takes `connect`, the operator that
both kinds of send share, apart once.

`ConversationProofs` proves, for any finite set of agents with the allow-list and the other roles among them
(`ConversationAssumption`):

* `TypeCorrect`: `Spec => []TypeOK`.
* `OnlyAllowedHoldTheKey`: `Spec => []OnlyAllowedRead`.
* `OneKeyWhileItLasts`: `Spec => []OneKeyPerGroup`.
* `AnswersStaySealed`: `Spec => []NoDowngrade`.
* `PingsAnsweredOnce`: `Spec => []OneAnswer`.
* `RequestsServed`: `Spec => []RequestServed`.

The invariant behind all is `Traced`: each message on its way belongs to a command that was given, as what it sent or as the one
kind of answer it has. A grant is therefore on its way to an agent of the allow-list only (`Holders`), and until the
key holder's process ends there is only the key it began with (`FirstKey`). `Counted` counts the pieces of a ping, on their way or
already answered, and of a key request: one at most, and one as long as both ends last. The type of `pongs`
needs that count too, so that `Shape`, the types without it, is proved first. Counting takes finiteness, hence the assumption.

`DatagramsProofs` proves, for any sends, groups and TTLs and any octet whose first four bits can be told from the rest
(`DatagramsAssumption`: its size is a multiple of 16; `EnvelopeAssumption`):

* `TypeCorrect`: `Spec => []TypeOK`.
* `ReportsTellTheTruth`: `Spec => []ReportsAreTrue`.
* `OnlyGoodEnvelopesLeave`: `Spec => []GoodEnvelopesLeave`.
* `StampedTtlLeaves`: `Spec => []TtlIsStamped`.
* `EphemeralSocketsClose`: `Spec => []SocketsClosed`.

The invariant says of each send what its socket is while it waits (`Sound`: the TTL set is the envelope's, on the shared
socket unless another send has crossed it) and what it has put on the network (`Reported`). `Vouching` adds what was
checked of its address and its envelope when it began, which no turn of a dial, join or leave changes. Under it is a lemma about
numbers, `RangeIsPrefix`: the shifts of `ipv4ToInt` overflow in the last round only (`ShiftsUp`), and its two comparisons decide
the first four bits. So the range check is proved for the octets of the code, 256, which TLC's integers cannot hold.

`TopologyProofs` proves, for any ids, any demo of at least one of them, and any number of processes, requests
and dials (`TopologyAssumption`):

* `BooksConverge`: `Spec => []PeersConverge`.
* `DemosExclude`: `Spec => []OneDemo`. A demo of no agents would not be seen as running, hence the assumption.
* `TypesKept`: `Spec => []TypeOK`, the types being defined there.
* `DialsSettle`: `Spec => []DialsAgree`, in its second part.

`Books`: of two children that run each knows the other, by its last peer update on the way or else by its book, unless a
spawn still awaits one of them. With the map's order (`OneEach`, `Known`) and what each request and the
table of pending commands can be (`Awaited`, `Plain`, `Queued`) it is inductive. The dials need more
(`DialInvariant`): each request goes through the map in its order and none overtakes an earlier one, since where both have
sent to an agent the earlier one's command is ahead in the inbox, its result in the outbox and its watchdog in the
table (`Ranked`). `Alike` is the fact about the two boxes of an agent that each of its steps is looked at with.

The attempt to prove `DialsAgree` failed first, for a good reason: with three agents an exit event that comes
while a later dial is turned lets that dial pass over an id, and with it overtake an earlier one. `torn` was raised by the exit
alone then; it now is by the exit event too, and TLC finds the same on three agents. The run's two agents had hidden it.

`FramingProofs` proves, for any envelopes, any way to write each as bytes of its own that leaves its length within the
prefix, and any number of values of a byte (`FramingAssumption`, `EnvelopeAssumption`):

* `FramingImplementsChannel`: `Spec => Abstract!SafeSpec`, which is `ImplementsChannel` without fairness.
* `DecoderHoldsNothingBack`: `Spec => []NothingHeldBack`.
* `BuiltEnvelopesAreRead`: `Spec => []ReadsWhatIsBuilt`.

Its first part shows that the decoder's loop ends, so that `Drain` is what its recursion says (`DrainRound`), and that a
length is read as it was written (`PrefixRead`). The library's induction theorem takes an operator, which the provers cannot
instantiate; `AllNumbers` is induction for a set instead, from the least number outside it, and the loop is followed with
it (`DrainLemma`). The invariant (`IInv`) is that the bytes held by the decoder and those under way, in a row, are the
frames of the envelopes sent and not yet got: all of them while the writer is there, a first part once it has ended
(`Carries`); and that the decoder holds no whole frame. Where one frame ends and the next begins is a function of its index
(`Spells`), so that no recursion is needed to say it. Without the second conjunct a data event could return what the last
one should have; without the first nothing would say that what comes next is a frame's beginning.

`DashboardProofs` proves, for any agents, any number of events and any size of the log and of the feed but zero
(`DashboardAssumption`):

* `FeedAgrees`: `Spec => []FeedMatchesLog`.
* `GraphAnimatesOnce`: `Spec => []AnimatedOnce`.

An event has one place at a time: on its agent's channel, or known to the log or the dashboard, and on the wire or in the
dashboard (`Numbers`). `History` is `FeedMatchesLog` with what lets it survive a reconnect: the log holds only events of the types it
keeps, and short of a loss the socket is open. The log and the feed lose their oldest events at
different times; `EndAppend`, `EndDropShown` and `EndDropLog` are what that does to two histories of which one is
the end of the other, and `Cut` is what it does to one. `Screen` has the graph. What React has rendered is the buffer of an earlier
moment, of which the buffer may since have lost any part (`Rendered`), and `lastSeen` divides the buffer in what has
been animated and what has not (`Animated`): of a rising feed, comparing with the last timestamp is as good
as remembering the events. `EffectDoes` is that fact for one run of the effect.

Only model-checked: all liveness, Channel's included, since fairness and ENABLED are out of the prover's reach. This is all
there is of Shutdown.

The three findings are TLC's counterexamples.

## Not modelled

* Cryptography: a ciphertext opens with its key and with no other (AES-GCM fails closed); keys do not collide.
* Host names, payloads, the wording of events, the texts `JSON` reads and writes, a frame whose body is not JSON (no sender writes one).
* `decode` of the frame codec and `STRAY_CRYPTO_FIELDS` and the like in use: no code of the system calls the one or acts on the other.
  `envelope-validator.ts` says that the invariants are enforced there, but the agent asks it only about encrypted unicasts; that
  envelopes satisfy them all the same is `GoodEnvelopesLeave`.
* An agent that sends to itself.
* What `Number` makes of the parts of an address: an empty part is 0 to it, and it reads hexadecimal. The model begins with
  the numbers.
* The log's query filter, `LiveEventHub.close`, the bind of the HTTP port, the routes that only read. The log is in the order of
  arrival, although its header calls it chronological.
* The dashboard's pages, drawing and badges (`useAction`): displays of a test harness, which promise nothing about runs that
  overlap. So is what the Security page believes of an agent's keys (`hasKey`).
* In Topology, membership and the registry, which are ControlPlane's, and kills, which are exits.

## What could come next

The system's own logic is modelled, and the safety the runs check is proved. Left are the dashboard's
pages, and of Shutdown, whose properties are liveness, the safety they rest on: an agent that has noticed the loss of the
control plane and has a connection in its map has a report due. The end of such agents would still be TLC's to check.

------------------------------ MODULE Topology ------------------------------
(***************************************************************************)
(* What the control plane does to all agents together: the demo topology   *)
(* is spawned one agent after the other, each spawn that ends well sends   *)
(* every child the address book, and the dials of the admin routes are     *)
(* turned agent by agent.  Each is a loop of awaits, and while it waits    *)
(* other requests run, processes end and their exit events come in.        *)
(*                                                                         *)
(* The supervisor's part is ControlPlane's with the state these loops need *)
(* added: the map keeps the order of insertion, an inbox has peer updates  *)
(* and dials, and a process stands for the address it was configured with. *)
(***************************************************************************)
EXTENDS Integers, Sequences, SequencesExt

CONSTANTS
  Ids,        \* agent ids
  Demo,       \* DEMO_TOPOLOGY: ids in the order they are spawned
  MaxProcs,   \* bound: processes forked
  MaxDials,   \* bound: times the dial is set, each time to another value
  Reqs        \* requests in progress at once

Procs == 1 .. MaxProcs
NoProc == 0

\* The dial of a new process is at 0, and then where the nth request has set it.
Values == 0 .. MaxDials

ASSUME TopologyAssumption ==
  /\ {MaxProcs, MaxDials} \subseteq Nat
  /\ Demo \in Seq(Ids) \ {<<>>}
  /\ "ready" \notin Reqs

VARIABLES
  agents,     \* AgentSupervisor.agents: the children, in the order of insertion
  forks,      \* how many have been forked
  proc,       \* each process
  book,       \* the peers each process knows
  dial,       \* the dial of each process
  inbox,      \* messages on their way to each process
  outbox,     \* ... and from it
  req,        \* each request
  pending,    \* AgentSupervisor.pending, in the order in which the watchdogs expire
  latest,     \* history: the latest dial and the children there were when it began
  torn,       \* history: a process has ended, or its exit event has come, while dials
              \* were being turned
  late,       \* history: a spawn has timed out since the book was last sent
  crashed     \* the control plane is down

vars == <<agents, forks, proc, book, dial, inbox, outbox, req, pending, latest, torn, late,
          crashed>>

processes == <<proc, book, dial>>
history == <<latest, torn, late>>

\* The states of a process are ControlPlane's.  A request is "idle", a "spawn" or a
\* "demo" that awaits the ready of proc, or a "dial" that awaits the result of its command
\* to proc; todo has the ids that remain.
NoBook == [i \in Ids |-> NoProc]

Idle == [kind |-> "idle", proc |-> NoProc, todo |-> <<>>, value |-> 0]

Init ==
  /\ agents = <<>> /\ forks = 0
  /\ proc = [p \in Procs |-> [id |-> CHOOSE i \in Ids : TRUE, state |-> "unused"]]
  /\ book = [p \in Procs |-> NoBook]
  /\ dial = [p \in Procs |-> 0]
  /\ inbox = [p \in Procs |-> <<>>] /\ outbox = [p \in Procs |-> <<>>]
  /\ req = [r \in Reqs |-> Idle] /\ pending = <<>>
  /\ latest = [value |-> 0, told |-> {}]
  /\ torn = FALSE /\ late = FALSE /\ crashed = FALSE

Live(p) == proc[p].state \in {"starting", "running"}

Children == {agents[n] : n \in DOMAIN agents}
InMap(i) == \E p \in Children : proc[p].id = i
ChildOf(i) == CHOOSE p \in Children : proc[p].id = i

Turning(r) == req[r].kind = "dial"
Spawning(r) == req[r].kind \in {"spawn", "demo"}
AwaitsReady(r, p) == Spawning(r) /\ req[r].proc = p

-----------------------------------------------------------------------------
(* The agent processes. *)

BecomeReady(p) ==
  /\ proc[p].state = "starting"
  /\ proc' = [proc EXCEPT ![p].state = "running"]
  /\ outbox' = [outbox EXCEPT ![p] = Append(@, "ready")]
  /\ UNCHANGED <<agents, forks, book, dial, inbox, req, pending, history, crashed>>

\* It failed to start, was killed or crashed.
Exit(p) ==
  /\ Live(p)
  /\ proc' = [proc EXCEPT ![p].state = "exited"]
  /\ inbox' = [inbox EXCEPT ![p] = <<>>]
  /\ book' = [book EXCEPT ![p] = NoBook]
  /\ dial' = [dial EXCEPT ![p] = 0]
  /\ torn' = (torn \/ \E r \in Reqs : Turning(r))
  /\ UNCHANGED <<agents, forks, outbox, req, pending, latest, late, crashed>>

\* Agent.onMessage: a peer update replaces the book, a dial is turned and answered.
\* The handlers are there as soon as the process is, so that start() may still run.
Handle(p) ==
  /\ Live(p) /\ inbox[p] # <<>>
  /\ inbox' = [inbox EXCEPT ![p] = Tail(@)]
  /\ LET m == Head(inbox[p]) IN
     \/ /\ m.type = "peer-update"
        /\ book' = [book EXCEPT ![p] = m.peers]
        /\ UNCHANGED <<dial, outbox>>
     \/ /\ m.type = "cmd"
        /\ dial' = [dial EXCEPT ![p] = m.value]
        /\ outbox' = [outbox EXCEPT ![p] = Append(@, m.req)]
        /\ UNCHANGED book
  /\ UNCHANGED <<agents, forks, proc, req, pending, history, crashed>>

-----------------------------------------------------------------------------
(* Spawning. *)

\* A request that may begin: no answer to an earlier one is still under way, which
\* the random ids of the commands would keep apart.
Fresh(r) ==
  /\ req[r] = Idle
  /\ \A p \in Procs :
       /\ \A n \in DOMAIN inbox[p] : inbox[p][n].type = "cmd" => inbox[p][n].req # r
       /\ \A n \in DOMAIN outbox[p] : outbox[p][n] # r

Demos == {r \in Reqs : req[r].kind = "demo"}

\* spawn, up to its await of ready: the child takes its place in the map at once.
Fork(r, kind, i, todo) ==
  LET p == forks + 1 IN
  /\ p <= MaxProcs
  /\ forks' = p
  /\ agents' = Append(agents, p)
  /\ proc' = [proc EXCEPT ![p] = [id |-> i, state |-> "starting"]]
  /\ req' = [req EXCEPT ![r] = [kind |-> kind, proc |-> p, todo |-> todo, value |-> 0]]

\* POST /agents
SpawnBegin(r, i) ==
  /\ Fresh(r)
  /\ ~InMap(i)
  /\ Fork(r, "spawn", i, <<>>)
  /\ UNCHANGED <<book, dial, inbox, outbox, pending, history, crashed>>

\* Mutant of DemoBegin: only the agents that are ready count.
DemoBeginReady(r) ==
  /\ Fresh(r)
  /\ ~InMap(Head(Demo)) /\ \A p \in Children : proc[p].state # "running"
  /\ Fork(r, "demo", Head(Demo), Tail(Demo))
  /\ UNCHANGED <<book, dial, inbox, outbox, pending, history, crashed>>

\* POST /admin/spawn-demo, and the start of the command line.  When there are agents
\* the request is answered with their ids.
DemoBegin(r) ==
  /\ Fresh(r)
  /\ agents = <<>>
  /\ Fork(r, "demo", Head(Demo), Tail(Demo))
  /\ UNCHANGED <<book, dial, inbox, outbox, pending, history, crashed>>

\* The 10 s watchdog ends the spawn and a demo with it; the child stays.
SpawnTimeout(r) ==
  /\ Spawning(r)
  /\ req' = [req EXCEPT ![r] = Idle]
  /\ late' = TRUE
  /\ UNCHANGED <<agents, forks, processes, inbox, outbox, pending, latest, torn, crashed>>

Dead(p) == proc[p].state = "exited"

Peers == [i \in Ids |-> IF InMap(i) THEN ChildOf(i) ELSE NoProc]

\* Mutant of BroadcastPeers: the children that are starting are left out.
BroadcastPeersReady ==
  inbox' = [p \in Procs |->
              IF p \in Children /\ proc[p].state = "running"
              THEN Append(inbox[p], [type |-> "peer-update", peers |-> Peers])
              ELSE inbox[p]]

\* Every child, the ones that are starting included.
BroadcastPeers ==
  inbox' = [p \in Procs |->
              IF p \in Children THEN Append(inbox[p], [type |-> "peer-update", peers |-> Peers])
              ELSE inbox[p]]

\* What remains of the demo: the next agent is spawned, unless one of its id is there,
\* and then the demo fails.
SpawnNext(r) ==
  LET todo == req[r].todo IN
  IF todo = <<>> \/ InMap(Head(todo))
  THEN req' = [req EXCEPT ![r] = Idle] /\ UNCHANGED <<agents, forks, proc>>
  ELSE Fork(r, "demo", Head(todo), Tail(todo))

\* The ready message; a spawn that has timed out takes no notice.
ReadyMessage(p) ==
  /\ outbox[p] # <<>> /\ Head(outbox[p]) = "ready"
  /\ outbox' = [outbox EXCEPT ![p] = Tail(@)]
  /\ \/ /\ \A r \in Reqs : ~AwaitsReady(r, p)
        /\ UNCHANGED <<agents, forks, proc, inbox, req, late, crashed>>
     \/ \E r \in Reqs :
          /\ AwaitsReady(r, p)
          /\ ~(\E q \in Children : Dead(q))
          /\ BroadcastPeers /\ late' = FALSE
          /\ SpawnNext(r)
          /\ UNCHANGED crashed
     \* child.send to a process that has exited raises an error event nobody handles.
     \/ /\ \E r \in Reqs : AwaitsReady(r, p)
        /\ \E q \in Children : Dead(q)
        /\ crashed' = TRUE
        /\ UNCHANGED <<agents, forks, proc, inbox, req, late>>
  /\ UNCHANGED <<book, dial, pending, latest, torn>>

\* The exit event: the map forgets the child, and a spawn that awaits it rejects.
ExitEvent(p) ==
  /\ Dead(p)
  /\ proc' = [proc EXCEPT ![p].state = "gone"]
  /\ \E n \in DOMAIN agents : agents[n] = p /\ agents' = RemoveAt(agents, n)
  /\ req' = [r \in Reqs |-> IF AwaitsReady(r, p) THEN Idle ELSE req[r]]
  /\ torn' = (torn \/ \E r \in Reqs : Turning(r))
  /\ UNCHANGED <<forks, book, dial, inbox, outbox, pending, latest, late, crashed>>

-----------------------------------------------------------------------------
(* Dials. *)

\* broadcastToAll, from one await to the next: the ids that have left the map are
\* passed over (their command rejects), the next gets its command.
Turn(r, v, todo, waiting) ==
  LET n == SelectInSeq(todo, InMap) IN
  IF n = 0
  THEN /\ req' = [req EXCEPT ![r] = Idle] /\ pending' = waiting
       /\ UNCHANGED <<inbox, crashed>>
  ELSE IF Dead(ChildOf(todo[n]))
  THEN crashed' = TRUE /\ UNCHANGED <<req, inbox, pending>>
  ELSE /\ req' = [req EXCEPT ![r] = [kind |-> "dial", proc |-> ChildOf(todo[n]),
                                     todo |-> SubSeq(todo, n + 1, Len(todo)), value |-> v]]
       /\ inbox' = [inbox EXCEPT ![ChildOf(todo[n])] =
                      Append(@, [type |-> "cmd", req |-> r, value |-> v])]
       /\ pending' = Append(waiting, r)
       /\ UNCHANGED crashed

\* PATCH /admin/reliability, /broadcast-permission or /default-ttl.
DialBegin(r) ==
  LET v == latest.value + 1 IN
  /\ Fresh(r) /\ v <= MaxDials
  /\ Turn(r, v, [n \in DOMAIN agents |-> proc[agents[n]].id], pending)
  /\ latest' = [value |-> v, told |-> Children]
  /\ torn' = (torn /\ \E s \in Reqs : Turning(s))
  /\ UNCHANGED <<agents, forks, processes, outbox, late>>

\* A cmd-result: the next agent's turn.  One that is no longer awaited is dropped, also
\* when its request has gone on to another agent.
ResultMessage(p) ==
  LET r == Head(outbox[p]) IN
  /\ outbox[p] # <<>> /\ r # "ready"
  /\ outbox' = [outbox EXCEPT ![p] = Tail(@)]
  /\ \/ /\ req[r].proc = p
        /\ \E n \in DOMAIN pending :
             pending[n] = r /\ Turn(r, req[r].value, req[r].todo, RemoveAt(pending, n))
     \/ /\ req[r].proc # p \/ \A n \in DOMAIN pending : pending[n] # r
        /\ UNCHANGED <<inbox, req, pending, crashed>>
  /\ UNCHANGED <<agents, forks, processes, history>>

\* Mutant of CommandTimeout: a command that fails ends the loop.
CommandTimeoutThrows ==
  /\ pending # <<>>
  /\ req' = [req EXCEPT ![Head(pending)] = Idle]
  /\ pending' = Tail(pending)
  /\ UNCHANGED <<agents, forks, processes, inbox, outbox, history, crashed>>

\* The 8 s watchdog of the command that has waited longest: the next agent's turn.
CommandTimeout ==
  /\ pending # <<>>
  /\ LET r == Head(pending) IN Turn(r, req[r].value, req[r].todo, Tail(pending))
  /\ UNCHANGED <<agents, forks, processes, outbox, history>>

-----------------------------------------------------------------------------

\* What the agents do when the control plane is down is Shutdown's.
Next ==
  /\ ~crashed
  /\ \/ CommandTimeout
     \/ \E p \in Procs : \/ BecomeReady(p) \/ Exit(p) \/ Handle(p)
                         \/ ReadyMessage(p) \/ ResultMessage(p) \/ ExitEvent(p)
     \/ \E r \in Reqs : \/ SpawnTimeout(r) \/ DemoBegin(r) \/ DialBegin(r)
                        \/ \E i \in Ids : SpawnBegin(r, i)

Spec == Init /\ [][Next]_vars

-----------------------------------------------------------------------------

\* When no spawn waits, none has timed out since and every message has been handled,
\* each running agent has the address of each: no interleaving of the spawns, and no
\* end of a process between them, leaves two agents with an older book.
PeersConverge ==
  /\ \A r \in Reqs : ~Spawning(r)
  /\ ~late /\ ~crashed
  /\ \A p \in Procs : inbox[p] = <<>>
  => \A p, q \in Children : Live(p) /\ Live(q) => book[p][proc[q].id] = q

\* When all requests have been answered and their commands handled, the agents there
\* were have what the latest request set, however the requests overlapped and whichever
\* agents were too slow, unless a process ended or an exit event came meanwhile: an id
\* that is spawned again has another place in the map, and requests that reach the agents
\* in different orders overtake one another.
DialsAgree ==
  /\ \A r \in Reqs : ~Turning(r)
  /\ ~torn /\ ~crashed
  /\ \A p \in Procs : inbox[p] = <<>>
  => \A p \in latest.told : Live(p) => dial[p] = latest.value

\* One demo is spawned at a time, so that no two fork the same agents.
OneDemo == \A r, s \in Demos : r = s
=============================================================================

---------------------------- MODULE ControlPlane ----------------------------
(***************************************************************************)
(* The control plane: AgentSupervisor, which forks, commands and kills the *)
(* agent processes, the routes that use it and the registry's view of the  *)
(* memberships.                                                            *)
(*                                                                         *)
(* A request is one asynchronous HTTP handler of the control plane.  It    *)
(* waits for a ready message, an exit event, a command's result or a       *)
(* watchdog, and any number of other handlers run meanwhile.  The IPC      *)
(* channel of a process is a queue in each direction; what is in it when   *)
(* the process exits is lost on the way in and still arrives on the way    *)
(* out.  The agent is seen from here as a process that answers commands,   *)
(* late, or never; of its state the registry knows one membership.         *)
(***************************************************************************)
EXTENDS Integers, Sequences

CONSTANTS
  Ids,        \* agent ids
  Procs,      \* processes that may ever be forked
  NoProc,
  Reqs        \* requests in progress at once

ASSUME ControlPlaneAssumption == Ids # {} /\ NoProc \notin Procs

VARIABLES
  agents,     \* AgentSupervisor.agents: the child of each id
  proc,       \* each process
  killed,     \* the processes that were sent SIGKILL
  inbox,      \* commands on their way to each process
  outbox,     \* messages on their way from each process
  handlers,   \* command handlers each process has in progress
  member,     \* each process: is a member of the group
  req,        \* each request
  pending,    \* AgentSupervisor.pending
  registry,   \* AgentRegistry.memberships: is listed as a member of the group
  dirty,      \* history: a request of the id has ended without a refresh
  crashed     \* the control plane is down

vars == <<agents, proc, killed, inbox, outbox, handlers, member, req, pending, registry,
          dirty, crashed>>

\* "exited": dead, the exit event is still to come; "gone": it has come.
States == {"unused", "starting", "running", "exited", "gone"}

Commands == {"join", "leave", "leave-then-inject", "snapshot"}

Command == [req : Reqs, cmd : Commands]

Ready == [type |-> "ready"]

Result == [type : {"cmd-result"}, req : Reqs, ok : BOOLEAN, data : BOOLEAN]

\* What a request waits for.
Awaits == {"nothing", "ready", "exit", "result", "snapshot"}

Request == [await : Awaits, id : Ids, proc : Procs \union {NoProc}]

TypeOK ==
  /\ agents \in [Ids -> Procs \union {NoProc}]
  /\ proc \in [Procs -> [state : States, id : Ids, atStart : BOOLEAN]]
  /\ killed \subseteq Procs
  /\ inbox \in [Procs -> Seq(Command)]
  /\ outbox \in [Procs -> Seq(Result \union {Ready})]
  /\ handlers \in [Procs -> SUBSET Command]
  /\ member \in [Procs -> BOOLEAN]
  /\ req \in [Reqs -> Request]
  /\ pending \subseteq Reqs
  /\ registry \in [Ids -> BOOLEAN]
  /\ dirty \in [Ids -> BOOLEAN]
  /\ crashed \in BOOLEAN

Idle == [await |-> "nothing", id |-> CHOOSE i \in Ids : TRUE, proc |-> NoProc]

Init ==
  /\ agents = [i \in Ids |-> NoProc]
  /\ proc = [p \in Procs |-> [state |-> "unused", id |-> Idle.id, atStart |-> FALSE]]
  /\ killed = {}
  /\ inbox = [p \in Procs |-> <<>>]
  /\ outbox = [p \in Procs |-> <<>>]
  /\ handlers = [p \in Procs |-> {}]
  /\ member = [p \in Procs |-> FALSE]
  /\ req = [r \in Reqs |-> Idle]
  /\ pending = {}
  /\ registry = [i \in Ids |-> FALSE]
  /\ dirty = [i \in Ids |-> FALSE]
  /\ crashed = FALSE

Live(p) == proc[p].state \in {"starting", "running"}

-----------------------------------------------------------------------------
(* The agent processes. *)

\* start() has bound its sockets and joined its first groups.  A fork takes longer
\* than reading what an earlier process of the same id has left in its channel.
BecomeReady(p) ==
  /\ proc[p].state = "starting"
  /\ \A q \in Procs : q # p /\ proc[q].id = proc[p].id => outbox[q] = <<>>
  /\ proc' = [proc EXCEPT ![p].state = "running"]
  /\ member' = [member EXCEPT ![p] = @ \/ proc[p].atStart]
  /\ outbox' = [outbox EXCEPT ![p] = Append(@, Ready)]
  /\ UNCHANGED <<agents, killed, inbox, handlers, req, pending, registry, dirty, crashed>>

\* The process ends: it failed to start, crashed, or was signalled.
Exit(p) ==
  /\ Live(p)
  /\ proc' = [proc EXCEPT ![p].state = "exited", ![p].atStart = FALSE]
  /\ killed' = killed \ {p}
  /\ inbox' = [inbox EXCEPT ![p] = <<>>]
  /\ handlers' = [handlers EXCEPT ![p] = {}]
  /\ member' = [member EXCEPT ![p] = FALSE]
  /\ UNCHANGED <<agents, outbox, req, pending, registry, dirty, crashed>>

\* Mutant of Answer: the result carries no data.
AnswerBare(p, r, ok, data) ==
  outbox' = [outbox EXCEPT ![p] = Append(@, [type |-> "cmd-result", req |-> r, ok |-> ok])]

Answer(p, r, ok, data) ==
  outbox' = [outbox EXCEPT ![p] = Append(@, [type |-> "cmd-result", req |-> r,
                                             ok |-> ok, data |-> data])]

\* Agent.onMessage takes the next command.  A leave or a snapshot is answered at
\* once, and so is the join of a group it is in.
Handle(p) ==
  /\ Live(p) /\ inbox[p] # <<>>
  /\ inbox' = [inbox EXCEPT ![p] = Tail(@)]
  /\ LET c == Head(inbox[p])
         now == c.cmd \in {"leave", "snapshot"} \/ (c.cmd = "join" /\ member[p])
     IN /\ member' = [member EXCEPT ![p] = @ /\ c.cmd \notin {"leave", "leave-then-inject"}]
        /\ IF now THEN Answer(p, c.req, TRUE, member[p]) /\ UNCHANGED handlers
           ELSE /\ handlers' = [handlers EXCEPT ![p] = @ \union {c}]
                /\ UNCHANGED outbox
  /\ UNCHANGED <<agents, proc, killed, req, pending, registry, dirty, crashed>>

\* What the handler awaited has come, well or badly.
Finish(p, c, ok) ==
  /\ c \in handlers[p]
  /\ handlers' = [handlers EXCEPT ![p] = @ \ {c}]
  /\ member' = [member EXCEPT ![p] = @ \/ (c.cmd = "join" /\ ok)]
  /\ Answer(p, c.req, ok, FALSE)
  /\ UNCHANGED <<agents, proc, killed, inbox, req, pending, registry, dirty, crashed>>

-----------------------------------------------------------------------------
(* Requests. *)

Waits(r, for) == req[r].await = for

\* A request that may begin: nothing of an earlier one is still under way, which
\* the random ids of the commands would keep apart.
Fresh(r) ==
  /\ Waits(r, "nothing")
  /\ \A p \in Procs :
       /\ \A i \in DOMAIN inbox[p] : inbox[p][i].req # r
       /\ \A i \in DOMAIN outbox[p] : outbox[p][i] # Ready => outbox[p][i].req # r
       /\ \A c \in handlers[p] : c.req # r

Await(r, for, i, p) == req' = [req EXCEPT ![r] = [await |-> for, id |-> i, proc |-> p]]

Starting(i) == \E r \in Reqs : Waits(r, "ready") /\ req[r].id = i

\* POST /agents, up to the await of ready.
SpawnBegin(r, i, p, atStart) ==
  /\ ~crashed /\ Fresh(r)
  /\ agents[i] = NoProc
  /\ proc[p].state = "unused"
  /\ agents' = [agents EXCEPT ![i] = p]
  /\ proc' = [proc EXCEPT ![p] = [state |-> "starting", id |-> i, atStart |-> atStart]]
  /\ Await(r, "ready", i, p)
  /\ dirty' = [dirty EXCEPT ![i] = FALSE]
  /\ UNCHANGED <<killed, inbox, outbox, handlers, member, pending, registry, crashed>>

\* The 10 s watchdog: spawn rejects, the child stays.
SpawnTimeout(r) ==
  /\ ~crashed /\ Waits(r, "ready")
  /\ req' = [req EXCEPT ![r] = Idle]
  /\ dirty' = [dirty EXCEPT ![req[r].id] = TRUE]
  /\ UNCHANGED <<agents, proc, killed, inbox, outbox, handlers, member, pending,
                 registry, crashed>>

\* child.send to a process that has exited raises an error event nobody handles.
SendFails(i) == agents[i] # NoProc /\ proc[agents[i]].state = "exited"

Crash == /\ crashed' = TRUE
         /\ UNCHANGED <<agents, proc, killed, inbox, handlers, member, req, pending,
                        registry, dirty>>

\* Mutant of Seed: what an earlier process of the id was a member of stays listed.
SeedKeeps(p) == registry[proc[p].id]

\* AgentRegistry.seed: the groups the agent was told to join at its start.
Seed(p) == proc[p].atStart

\* The ready message: every child is sent the peers and the route seeds the
\* registry; a spawn that has timed out takes no notice.
ReadyMessage(p) ==
  /\ ~crashed /\ outbox[p] # <<>> /\ Head(outbox[p]) = Ready
  /\ outbox' = [outbox EXCEPT ![p] = Tail(@)]
  /\ LET waiting == {r \in Reqs : Waits(r, "ready") /\ req[r].proc = p}
     IN \/ /\ waiting # {} /\ \E i \in Ids : SendFails(i)
           /\ Crash
        \/ /\ waiting = {} \/ \A i \in Ids : ~SendFails(i)
           /\ req' = [r \in Reqs |-> IF r \in waiting THEN Idle ELSE req[r]]
           /\ registry' = IF waiting = {} THEN registry
                          ELSE [registry EXCEPT ![proc[p].id] = Seed(p)]
           /\ UNCHANGED <<agents, proc, killed, inbox, handlers, member, pending,
                          dirty, crashed>>

\* Mutant of KillBegin: the child leaves the map when it is signalled.
KillBeginForgets(r, i) ==
  /\ ~crashed /\ Fresh(r)
  /\ agents[i] # NoProc
  /\ Await(r, "exit", i, agents[i])
  /\ agents' = [agents EXCEPT ![i] = NoProc]
  /\ UNCHANGED <<proc, killed, inbox, outbox, handlers, member, pending,
                 registry, dirty, crashed>>

\* DELETE /agents/:id.  SIGTERM asks the process to end, which it may do anyway.
KillBegin(r, i) ==
  /\ ~crashed /\ Fresh(r)
  /\ agents[i] # NoProc
  /\ Await(r, "exit", i, agents[i])
  /\ UNCHANGED <<agents, proc, killed, inbox, outbox, handlers, member, pending,
                 registry, dirty, crashed>>

\* After 1.5 s: SIGKILL, and the request is answered without the exit.
KillTimeout(r) ==
  /\ ~crashed /\ Waits(r, "exit")
  /\ killed' = killed \union {p \in Procs : p = req[r].proc /\ Live(p)}
  /\ req' = [req EXCEPT ![r] = Idle]
  /\ UNCHANGED <<agents, proc, inbox, outbox, handlers, member, pending,
                 registry, dirty, crashed>>

\* The exit event of a child: the map forgets its id, a spawn that waits for it
\* rejects and a kill resolves; commands are left to their watchdogs.
ExitEvent(p) ==
  /\ ~crashed /\ proc[p].state = "exited"
  /\ proc' = [proc EXCEPT ![p].state = "gone"]
  /\ agents' = [agents EXCEPT ![proc[p].id] = NoProc]
  /\ req' = [r \in Reqs |->
               IF req[r].proc = p /\ req[r].await \in {"ready", "exit"} THEN Idle ELSE req[r]]
  /\ UNCHANGED <<killed, inbox, outbox, handlers, member, pending, registry, dirty, crashed>>

\* AgentSupervisor.command for request r, to the child the id has now.
Post(r, i, cmd, for) ==
  LET p == agents[i] IN
  /\ inbox' = [inbox EXCEPT ![p] = Append(@, [req |-> r, cmd |-> cmd])]
  /\ pending' = pending \union {r}
  /\ Await(r, for, i, p)

\* A join, leave or leave-then-inject request.
CommandBegin(r, i, cmd) ==
  /\ ~crashed /\ Fresh(r)
  /\ agents[i] # NoProc
  /\ \/ /\ SendFails(i)
        /\ Crash /\ UNCHANGED outbox
     \/ /\ ~SendFails(i)
        /\ Post(r, i, cmd, "result")
        /\ dirty' = [dirty EXCEPT ![i] = @ \/ Starting(i)]
        /\ UNCHANGED <<agents, proc, killed, outbox, handlers, member, registry, crashed>>

\* Mutant of CommandTimeout: no answer from a process that has exited is waited for.
CommandTimeoutLive(r) ==
  /\ ~crashed /\ r \in pending /\ Live(req[r].proc)
  /\ pending' = pending \ {r}
  /\ req' = [req EXCEPT ![r] = Idle]
  /\ dirty' = [dirty EXCEPT ![req[r].id] = TRUE]
  /\ UNCHANGED <<agents, proc, killed, inbox, outbox, handlers, member, registry, crashed>>

\* Mutant of CommandTimeout: the entry stays in the table.
CommandTimeoutKeeps(r) ==
  /\ ~crashed /\ r \in pending /\ ~Waits(r, "nothing")
  /\ req' = [req EXCEPT ![r] = Idle]
  /\ dirty' = [dirty EXCEPT ![req[r].id] = TRUE]
  /\ UNCHANGED <<agents, proc, killed, inbox, outbox, handlers, member, pending, registry,
                 crashed>>

\* The 8 s watchdog of a command: the request fails and refreshes nothing.
CommandTimeout(r) ==
  /\ ~crashed /\ r \in pending
  /\ pending' = pending \ {r}
  /\ req' = [req EXCEPT ![r] = Idle]
  /\ dirty' = [dirty EXCEPT ![req[r].id] = TRUE]
  /\ UNCHANGED <<agents, proc, killed, inbox, outbox, handlers, member, registry, crashed>>

\* A cmd-result.  The result of the command leads to a snapshot of the agent,
\* which may be another process by now; the snapshot's goes to the registry.
ResultMessage(p) ==
  LET m == Head(outbox[p])
      r == m.req
      i == req[r].id
      ours == r \in pending
      refresh == ours /\ Waits(r, "result") /\ m.ok /\ agents[i] # NoProc
      store == ours /\ Waits(r, "snapshot")
  IN
  /\ ~crashed /\ outbox[p] # <<>> /\ m # Ready
  /\ outbox' = [outbox EXCEPT ![p] = Tail(@)]
  /\ \/ /\ refresh /\ SendFails(i)
        /\ Crash
     \/ /\ refresh /\ ~SendFails(i)
        /\ Post(r, i, "snapshot", "snapshot")
        /\ UNCHANGED <<agents, proc, killed, handlers, member, registry, dirty, crashed>>
     \/ /\ ~refresh
        /\ pending' = pending \ {r}
        /\ req' = IF ours THEN [req EXCEPT ![r] = Idle] ELSE req
        /\ registry' = IF store THEN [registry EXCEPT ![i] = m.data] ELSE registry
        /\ dirty' = IF ours /\ ~store THEN [dirty EXCEPT ![i] = TRUE] ELSE dirty
        /\ UNCHANGED <<agents, proc, killed, inbox, handlers, member, crashed>>

-----------------------------------------------------------------------------

Agent(p) == BecomeReady(p) \/ Exit(p) \/ Handle(p)

Incoming(p) == ReadyMessage(p) \/ ResultMessage(p) \/ ExitEvent(p)

Outgoing(r) ==
  \/ SpawnTimeout(r) \/ KillTimeout(r) \/ CommandTimeout(r)
  \/ \E i \in Ids :
       \/ KillBegin(r, i)
       \/ \E p \in Procs, atStart \in BOOLEAN : SpawnBegin(r, i, p, atStart)
       \/ \E cmd \in Commands \ {"snapshot"} : CommandBegin(r, i, cmd)

Next ==
  \/ \E p \in Procs : \/ Agent(p) \/ Incoming(p)
                      \/ \E c \in handlers[p], ok \in BOOLEAN : Finish(p, c, ok)
  \/ \E r \in Reqs : Outgoing(r)

Spec == Init /\ [][Next]_vars

\* The control plane's event loop runs its callbacks and timers.  Nothing is assumed of
\* the agents: they may never answer.
Fairness ==
  /\ \A r \in Reqs : WF_vars(SpawnTimeout(r) \/ KillTimeout(r) \/ CommandTimeout(r))
  /\ \A p \in Procs : WF_vars(Incoming(p))

FairSpec == Spec /\ Fairness

-----------------------------------------------------------------------------

\* A process that runs is the child of its id: no request can fork a second one
\* beside it, and none runs that the supervisor could no longer command or kill.
NoOrphan == \A p \in Procs : Live(p) => agents[proc[p].id] = p

\* Why it holds: the child keeps its place until its exit event has come, so that the
\* event removes no other's.
Owns(p) == Live(p) \/ proc[p].state = "exited"

Owned == \A p \in Procs : Owns(p) => agents[proc[p].id] = p

\* The processes as those who use the control plane see them.
Supervised == INSTANCE Lifetimes WITH
  running <- [i \in Ids |-> {p \in Procs : Live(p) /\ proc[p].id = i}],
  used <- {p \in Procs : proc[p].state # "unused"}

\* AgentSupervisor implements it, whatever times out, crashes or is killed meanwhile: a
\* process is forked only when none of its id runs, and none runs twice.
ImplementsLifetimes == Supervised!Spec

\* The table of pending commands has an entry for each request that waits for an
\* answer and no other: nothing leaks, whatever becomes of the agents.
PendingExact == pending = {r \in Reqs : req[r].await \in {"result", "snapshot"}}

\* When no request of a running agent is in progress, the registry lists what the
\* agent is a member of, unless a request failed on the way or a command overtook
\* the spawn.
RegistryAgrees ==
  \A i \in Ids :
    /\ agents[i] # NoProc /\ Live(agents[i]) /\ ~crashed
    /\ \A r \in Reqs : ~Waits(r, "nothing") => req[r].id # i
    /\ ~dirty[i]
    => registry[i] = member[agents[i]]

\* Every request is answered, be the agent dead, hung or slow.
EveryRequestSettles ==
  \A r \in Reqs : []<>(Waits(r, "nothing") \/ crashed)
=============================================================================

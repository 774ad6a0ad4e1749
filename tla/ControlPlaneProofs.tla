------------------------- MODULE ControlPlaneProofs -------------------------
(***************************************************************************)
(* Proofs about ControlPlane, for every set of ids, processes and requests:*)
(* the supervisor's books, and (the second part) the group registry.       *)
(***************************************************************************)
EXTENDS ControlPlane, TLAPS

Message == Result \union {Ready}

LEMMA IdleType == Idle \in Request /\ Idle.await = "nothing" /\ Idle.id \in Ids
<1>1. (CHOOSE i \in Ids : TRUE) \in Ids
  BY ControlPlaneAssumption
<1>2. QED
  BY <1>1 DEF Idle, Request, Awaits

\* What is left in a channel after a message was taken from it.
LEMMA Taken ==
  ASSUME NEW S, NEW f \in [Procs -> Seq(S)], NEW p \in Procs, f[p] # <<>>
  PROVE  /\ Head(f[p]) \in S
         /\ [f EXCEPT ![p] = Tail(@)] \in [Procs -> Seq(S)]
<1>1. f[p] \in Seq(S)
  OBVIOUS
<1>2. Head(f[p]) \in S /\ Tail(f[p]) \in Seq(S)
  BY <1>1
<1>3. QED
  BY <1>2

\* ... and after one was put into it.
LEMMA Put ==
  ASSUME NEW S, NEW f \in [Procs -> Seq(S)], NEW p, NEW m \in S
  PROVE  [f EXCEPT ![p] = Append(@, m)] \in [Procs -> Seq(S)]
<1>1. CASE p \in Procs
  <2>1. Append(f[p], m) \in Seq(S)
    BY <1>1
  <2>2. QED
    BY <2>1
<1>2. CASE p \notin Procs
  BY <1>2
<1>3. QED
  BY <1>1, <1>2

\* A message other than ready is a result, which names its request.
LEMMA ResultType ==
  ASSUME TypeOK, NEW p \in Procs, outbox[p] # <<>>, Head(outbox[p]) # Ready
  PROVE  Head(outbox[p]) \in Result /\ Head(outbox[p]).req \in Reqs
                                    /\ Head(outbox[p]).data \in BOOLEAN
<1>1. Head(outbox[p]) \in Message
  BY Taken DEF TypeOK, Message
<1>2. QED
  BY <1>1 DEF Message, Result

-----------------------------------------------------------------------------
(* Type correctness. *)

LEMMA InitType == Init => TypeOK
<1> SUFFICES ASSUME Init PROVE TypeOK
  OBVIOUS
<1>1. <<>> \in Seq(Command) /\ <<>> \in Seq(Message)
  OBVIOUS
<1>2. QED
  BY <1>1, IdleType DEF Init, TypeOK, Message, States

LEMMA NextType == TypeOK /\ [Next]_vars => TypeOK'
<1> SUFFICES ASSUME TypeOK, [Next]_vars PROVE TypeOK'
  OBVIOUS
<1> USE IdleType DEF Waits
<1>a. inbox \in [Procs -> Seq(Command)] /\ outbox \in [Procs -> Seq(Message)]
  BY DEF TypeOK, Message
<1>1. ASSUME NEW p \in Procs, BecomeReady(p) PROVE TypeOK'
  <2>1. outbox' \in [Procs -> Seq(Message)]
    BY <1>1, <1>a, Put DEF BecomeReady, Message
  <2>2. proc' \in [Procs -> [state : States, id : Ids, atStart : BOOLEAN]]
    <3>1. /\ proc' = [proc EXCEPT ![p].state = "running"]
          /\ proc \in [Procs -> [state : States, id : Ids, atStart : BOOLEAN]]
      BY <1>1 DEF BecomeReady, TypeOK
    <3>2. QED
      BY <3>1 DEF States
  <2>3. member' \in [Procs -> BOOLEAN]
    BY <1>1 DEF BecomeReady, TypeOK
  <2>4. UNCHANGED <<agents, killed, inbox, handlers, req, pending, registry, dirty, crashed>>
    BY <1>1 DEF BecomeReady
  <2>5. QED
    BY <2>1, <2>2, <2>3, <2>4 DEF TypeOK, Message
<1>2. ASSUME NEW p \in Procs, Exit(p) PROVE TypeOK'
  <2>1. inbox' \in [Procs -> Seq(Command)]
    BY <1>2, <1>a DEF Exit
  <2>2. proc' \in [Procs -> [state : States, id : Ids, atStart : BOOLEAN]]
    <3>1. /\ proc' = [proc EXCEPT ![p].state = "exited", ![p].atStart = FALSE]
          /\ proc \in [Procs -> [state : States, id : Ids, atStart : BOOLEAN]]
      BY <1>2 DEF Exit, TypeOK
    <3>2. QED
      BY <3>1 DEF States
  <2>3. handlers' \in [Procs -> SUBSET Command] /\ member' \in [Procs -> BOOLEAN]
    BY <1>2 DEF Exit, TypeOK
  <2>4. QED
    BY <1>2, <2>1, <2>2, <2>3 DEF Exit, TypeOK
<1>3. ASSUME NEW p \in Procs, Handle(p) PROVE TypeOK'
  <2> DEFINE c == Head(inbox[p])
  <2>1. c \in Command /\ inbox' \in [Procs -> Seq(Command)]
    BY <1>3, <1>a, Taken DEF Handle
  <2>2. c.req \in Reqs /\ member[p] \in BOOLEAN
    BY <2>1 DEF Command, TypeOK
  <2>3. CASE Answer(p, c.req, TRUE, member[p]) /\ UNCHANGED handlers
    <3>1. [type |-> "cmd-result", req |-> c.req, ok |-> TRUE, data |-> member[p]] \in Message
      BY <2>2 DEF Message, Result
    <3>2. outbox' \in [Procs -> Seq(Message)]
      BY <2>3, <1>a, <3>1, Put DEF Answer
    <3>3. member' \in [Procs -> BOOLEAN]
      BY <1>3 DEF Handle, TypeOK
    <3>4. QED
      BY <1>3, <2>1, <2>3, <3>2, <3>3 DEF Handle, TypeOK, Message
  <2>4. CASE handlers' = [handlers EXCEPT ![p] = @ \union {c}] /\ UNCHANGED outbox
    <3>1. handlers' \in [Procs -> SUBSET Command]
      BY <2>1, <2>4 DEF TypeOK
    <3>2. member' \in [Procs -> BOOLEAN]
      BY <1>3 DEF Handle, TypeOK
    <3>3. QED
      BY <1>3, <2>1, <2>4, <3>1, <3>2 DEF Handle, TypeOK
  <2>5. QED
    BY <1>3, <2>3, <2>4 DEF Handle
<1>4. ASSUME NEW p \in Procs, NEW c \in handlers[p], NEW ok \in BOOLEAN, Finish(p, c, ok)
      PROVE  TypeOK'
  <2>1. c \in Command
    BY DEF TypeOK
  <2>2. outbox' \in [Procs -> Seq(Message)]
    <3>1. [type |-> "cmd-result", req |-> c.req, ok |-> ok, data |-> FALSE] \in Message
      BY <2>1 DEF Command, Message, Result
    <3>2. QED
      BY <1>4, <1>a, <3>1, Put DEF Finish, Answer
  <2>3. QED
    BY <1>4, <2>2 DEF Finish, TypeOK, Message
<1>5. ASSUME NEW p \in Procs, ReadyMessage(p) PROVE TypeOK'
  <2>1. outbox' \in [Procs -> Seq(Message)]
    BY <1>5, <1>a, Taken DEF ReadyMessage
  <2>2. req' \in [Reqs -> Request] /\ registry' \in [Ids -> BOOLEAN]
    <3>1. CASE Crash
      BY <3>1 DEF Crash, TypeOK
    <3>2. CASE ~Crash
      <4> DEFINE W == {r \in Reqs : Waits(r, "ready") /\ req[r].proc = p}
      <4>1. /\ req' = [r \in Reqs |-> IF r \in W THEN Idle ELSE req[r]]
            /\ registry' = IF W = {} THEN registry
                           ELSE [registry EXCEPT ![proc[p].id] = Seed(p)]
        BY <1>5, <3>2 DEF ReadyMessage
      <4>2. /\ req \in [Reqs -> Request] /\ registry \in [Ids -> BOOLEAN]
            /\ Seed(p) \in BOOLEAN
        BY DEF TypeOK, Seed
      <4> HIDE DEF W
      <4>3. QED
        BY <4>1, <4>2
    <3>3. QED
      BY <3>1, <3>2
  <2>3. QED
    BY <1>5, <2>1, <2>2 DEF ReadyMessage, Crash, TypeOK, Message
<1>6. ASSUME NEW p \in Procs, ResultMessage(p) PROVE TypeOK'
  <2> DEFINE m == Head(outbox[p])
             i == req[m.req].id
             refresh == m.req \in pending /\ Waits(m.req, "result") /\ m.ok /\ agents[i] # NoProc
             store == m.req \in pending /\ Waits(m.req, "snapshot")
  <2>1. outbox' \in [Procs -> Seq(Message)]
    BY <1>6, <1>a, Taken DEF ResultMessage
  <2>2. m.req \in Reqs /\ m.data \in BOOLEAN
    BY <1>6, ResultType DEF ResultMessage
  <2>3. CASE refresh /\ SendFails(i) /\ Crash
    BY <2>1, <2>3 DEF Crash, TypeOK, Message
  <2>4. CASE refresh /\ Post(m.req, i, "snapshot", "snapshot")
             /\ UNCHANGED <<agents, proc, killed, handlers, member, registry, dirty, crashed>>
    <3>1. i \in Ids /\ agents[i] \in Procs
      BY <2>2, <2>4 DEF TypeOK, Request
    <3>2. inbox' \in [Procs -> Seq(Command)]
      <4>1. [req |-> m.req, cmd |-> "snapshot"] \in Command
        BY <2>2 DEF Command, Commands
      <4>2. QED
        BY <1>a, <2>4, <4>1, Put DEF Post
    <3>3. req' \in [Reqs -> Request]
      BY <2>2, <2>4, <3>1 DEF Post, Await, TypeOK, Request, Awaits
    <3>4. QED
      BY <2>1, <2>2, <2>4, <3>2, <3>3 DEF Post, TypeOK, Message
  <2>5. CASE /\ ~refresh
             /\ pending' = pending \ {m.req}
             /\ req' = IF m.req \in pending THEN [req EXCEPT ![m.req] = Idle] ELSE req
             /\ registry' = IF store THEN [registry EXCEPT ![i] = m.data] ELSE registry
             /\ dirty' = IF m.req \in pending /\ ~store THEN [dirty EXCEPT ![i] = TRUE] ELSE dirty
             /\ UNCHANGED <<agents, proc, killed, inbox, handlers, member, crashed>>
    BY <2>1, <2>2, <2>5 DEF TypeOK, Message
  <2>6. QED
    BY <1>6, <2>3, <2>4, <2>5 DEF ResultMessage
<1>7. ASSUME NEW p \in Procs, ExitEvent(p) PROVE TypeOK'
  <2>1. agents' \in [Ids -> Procs \union {NoProc}]
    BY <1>7 DEF ExitEvent, TypeOK
  <2>2. proc' \in [Procs -> [state : States, id : Ids, atStart : BOOLEAN]]
    <3>1. /\ proc' = [proc EXCEPT ![p].state = "gone"]
          /\ proc \in [Procs -> [state : States, id : Ids, atStart : BOOLEAN]]
      BY <1>7 DEF ExitEvent, TypeOK
    <3>2. QED
      BY <3>1 DEF States
  <2>3. req' \in [Reqs -> Request]
    <3>1. \A r \in Reqs : req[r] \in Request
      BY DEF TypeOK
    <3>2. QED
      BY <1>7, <3>1 DEF ExitEvent
  <2>4. QED
    BY <1>7, <2>1, <2>2, <2>3 DEF ExitEvent, TypeOK
<1>8. ASSUME NEW r \in Reqs, SpawnTimeout(r) \/ KillTimeout(r) \/ CommandTimeout(r)
      PROVE  TypeOK'
  <2>1. req' = [req EXCEPT ![r] = Idle]
    BY <1>8 DEF SpawnTimeout, KillTimeout, CommandTimeout
  <2>2. req' \in [Reqs -> Request]
    BY <2>1 DEF TypeOK
  <2>3. CASE SpawnTimeout(r)
    BY <2>2, <2>3 DEF SpawnTimeout, TypeOK
  <2>4. CASE KillTimeout(r)
    BY <2>2, <2>4 DEF KillTimeout, TypeOK
  <2>5. CASE CommandTimeout(r)
    BY <2>2, <2>5 DEF CommandTimeout, TypeOK
  <2>6. QED
    BY <1>8, <2>3, <2>4, <2>5
<1>9. ASSUME NEW r \in Reqs, NEW i \in Ids, KillBegin(r, i) PROVE TypeOK'
  BY <1>9 DEF KillBegin, Await, TypeOK, Request, Awaits
<1>10. ASSUME NEW r \in Reqs, NEW i \in Ids, NEW p \in Procs, NEW atStart \in BOOLEAN,
              SpawnBegin(r, i, p, atStart)
       PROVE  TypeOK'
  BY <1>10 DEF SpawnBegin, Await, TypeOK, Request, Awaits, States
<1>11. ASSUME NEW r \in Reqs, NEW i \in Ids, NEW cmd \in Commands, CommandBegin(r, i, cmd)
       PROVE  TypeOK'
  <2>1. CASE Crash /\ UNCHANGED outbox
    BY <2>1 DEF Crash, TypeOK
  <2>2. CASE /\ Post(r, i, cmd, "result")
             /\ dirty' = [dirty EXCEPT ![i] = @ \/ Starting(i)]
             /\ UNCHANGED <<agents, proc, killed, outbox, handlers, member, registry, crashed>>
    <3>1. inbox' \in [Procs -> Seq(Command)]
      <4>1. [req |-> r, cmd |-> cmd] \in Command
        BY DEF Command
      <4>2. QED
        BY <1>a, <2>2, <4>1, Put DEF Post
    <3>2. req' \in [Reqs -> Request]
      BY <2>2 DEF Post, Await, TypeOK, Request, Awaits
    <3>3. QED
      BY <2>2, <3>1, <3>2 DEF Post, TypeOK
  <2>3. QED
    BY <1>11, <2>1, <2>2 DEF CommandBegin
<1>12. CASE UNCHANGED vars
  BY <1>12 DEF vars, TypeOK
<1>13. QED
  BY <1>1, <1>2, <1>3, <1>4, <1>5, <1>6, <1>7, <1>8, <1>9, <1>10, <1>11, <1>12
  DEF Next, Agent, Incoming, Outgoing

\* The supervisor's maps, the channels and the requests keep their types.
THEOREM TypeCorrect == Spec => []TypeOK
<1>1. TypeOK /\ [Next]_vars => TypeOK'
  BY NextType
<1>2. QED
  BY InitType, <1>1, PTL DEF Spec

-----------------------------------------------------------------------------
(* The supervisor's map and its table of pending commands. *)

\* Nothing of the two changes hands when the processes alone take a step.
LEMMA AgentInv ==
  ASSUME TypeOK, Owned, PendingExact, NEW p \in Procs,
         \/ Agent(p)
         \/ \E c \in handlers[p], ok \in BOOLEAN : Finish(p, c, ok)
  PROVE  Owned' /\ PendingExact'
<1>1. UNCHANGED <<agents, req, pending>>
  BY DEF Agent, BecomeReady, Exit, Handle, Finish
<1>2. PendingExact'
  BY <1>1 DEF PendingExact
<1>3. \A q \in Procs : /\ Owns(q)' => Owns(q)
                       /\ proc'[q].id = proc[q].id
  <2>1. CASE BecomeReady(p)
    BY <2>1 DEF BecomeReady, Owns, Live, TypeOK
  <2>2. CASE Exit(p)
    BY <2>2 DEF Exit, Owns, Live, TypeOK
  <2>3. CASE Handle(p) \/ \E c \in handlers[p], ok \in BOOLEAN : Finish(p, c, ok)
    <3>1. UNCHANGED proc
      BY <2>3 DEF Handle, Finish
    <3>2. QED
      BY <3>1 DEF Owns, Live
  <2>4. QED
    BY <2>1, <2>2, <2>3 DEF Agent
<1>4. QED
  BY <1>1, <1>2, <1>3 DEF Owned

\* The answers and the exits the supervisor takes notice of.
LEMMA IncomingInv ==
  ASSUME TypeOK, Owned, PendingExact, NEW p \in Procs, Incoming(p)
  PROVE  Owned' /\ PendingExact'
<1> USE IdleType DEF Waits
<1>1. CASE ReadyMessage(p)
  <2>1. UNCHANGED <<agents, proc, pending>>
    BY <1>1 DEF ReadyMessage, Crash
  <2>2. PendingExact'
    BY <1>1, <2>1 DEF ReadyMessage, Crash, PendingExact, TypeOK
  <2>3. QED
    BY <2>1, <2>2 DEF Owned, Owns, Live
<1>2. CASE ResultMessage(p)
  <2>1. UNCHANGED <<agents, proc>>
    BY <1>2 DEF ResultMessage, Crash, Post
  <2>2. Head(outbox[p]).req \in Reqs
    BY <1>2, ResultType DEF ResultMessage
  <2>3. PendingExact'
    <3> DEFINE r == Head(outbox[p]).req
    <3>1. CASE UNCHANGED <<req, pending>>
      BY <3>1 DEF PendingExact
    <3>2. CASE Post(r, req[r].id, "snapshot", "snapshot")
      BY <2>2, <3>2 DEF Post, Await, PendingExact, TypeOK
    <3>3. CASE /\ pending' = pending \ {r}
               /\ req' = IF r \in pending THEN [req EXCEPT ![r] = Idle] ELSE req
      BY <2>2, <3>3 DEF PendingExact, TypeOK
    <3>4. QED
      BY <1>2, <3>1, <3>2, <3>3 DEF ResultMessage, Crash
  <2>4. QED
    BY <2>1, <2>3 DEF Owned, Owns, Live
<1>3. CASE ExitEvent(p)
  <2>1. PendingExact'
    BY <1>3 DEF ExitEvent, PendingExact, TypeOK
  <2>2. ASSUME NEW q \in Procs, Owns(q)'
        PROVE  agents'[proc'[q].id] = q
    <3>1. q # p /\ Owns(q) /\ proc'[q].id = proc[q].id
      BY <1>3, <2>2 DEF ExitEvent, Owns, Live, TypeOK
    <3>2. Owns(p)
      BY <1>3 DEF ExitEvent, Owns
    <3>3. proc[q].id # proc[p].id
      BY <3>1, <3>2 DEF Owned
    <3>4. QED
      BY <1>3, <3>1, <3>3 DEF ExitEvent, Owned, TypeOK
  <2>3. QED
    BY <2>1, <2>2 DEF Owned
<1>4. QED
  BY <1>1, <1>2, <1>3 DEF Incoming

\* The requests and their watchdogs.  A process is forked for an id that has none.
LEMMA RequestInv ==
  ASSUME TypeOK, Owned, PendingExact, NEW r \in Reqs, Outgoing(r)
  PROVE  Owned' /\ PendingExact'
<1> USE IdleType DEF Waits
<1>1. CASE SpawnTimeout(r) \/ KillTimeout(r) \/ CommandTimeout(r)
  <2>1. UNCHANGED <<agents, proc>>
    BY <1>1 DEF SpawnTimeout, KillTimeout, CommandTimeout
  <2>2. PendingExact'
    BY <1>1 DEF SpawnTimeout, KillTimeout, CommandTimeout, PendingExact, TypeOK
  <2>3. QED
    BY <2>1, <2>2 DEF Owned, Owns, Live
<1>2. ASSUME NEW i \in Ids, KillBegin(r, i)
      PROVE  Owned' /\ PendingExact'
  <2>1. UNCHANGED <<agents, proc>>
    BY <1>2 DEF KillBegin
  <2>2. PendingExact'
    BY <1>2 DEF KillBegin, Fresh, Await, PendingExact, TypeOK
  <2>3. QED
    BY <2>1, <2>2 DEF Owned, Owns, Live
<1>3. ASSUME NEW i \in Ids, NEW p \in Procs, NEW atStart \in BOOLEAN,
             SpawnBegin(r, i, p, atStart)
      PROVE  Owned' /\ PendingExact'
  <2>1. PendingExact'
    BY <1>3 DEF SpawnBegin, Fresh, Await, PendingExact, TypeOK
  <2>2. ASSUME NEW q \in Procs, Owns(q)'
        PROVE  agents'[proc'[q].id] = q
    <3>1. CASE q = p
      BY <1>3, <3>1 DEF SpawnBegin, TypeOK
    <3>2. CASE q # p
      <4>1. Owns(q) /\ proc'[q] = proc[q]
        BY <1>3, <2>2, <3>2 DEF SpawnBegin, Owns, Live, TypeOK
      <4>2. proc[q].id # i
        BY <1>3, <4>1, ControlPlaneAssumption DEF SpawnBegin, Owned
      <4>3. QED
        BY <1>3, <4>1, <4>2 DEF SpawnBegin, Owned, TypeOK
    <3>3. QED
      BY <3>1, <3>2
  <2>3. QED
    BY <2>1, <2>2 DEF Owned
<1>4. ASSUME NEW i \in Ids, NEW cmd \in Commands, CommandBegin(r, i, cmd)
      PROVE  Owned' /\ PendingExact'
  <2>1. UNCHANGED <<agents, proc>>
    BY <1>4 DEF CommandBegin, Crash
  <2>2. PendingExact'
    BY <1>4 DEF CommandBegin, Crash, Fresh, Post, Await, PendingExact, TypeOK
  <2>3. QED
    BY <2>1, <2>2 DEF Owned, Owns, Live
<1>5. QED
  BY <1>1, <1>2, <1>3, <1>4 DEF Outgoing

LEMMA Invariance == Spec => [](TypeOK /\ Owned /\ PendingExact)
<1>1. Init => Owned /\ PendingExact
  BY IdleType DEF Init, Owned, Owns, Live, PendingExact
<1>2. TypeOK /\ Owned /\ PendingExact /\ [Next]_vars => (Owned /\ PendingExact)'
  <2> SUFFICES ASSUME TypeOK, Owned, PendingExact, [Next]_vars
               PROVE  Owned' /\ PendingExact'
    OBVIOUS
  <2>1. CASE UNCHANGED vars
    BY <2>1 DEF vars, Owned, Owns, Live, PendingExact
  <2>2. CASE Next
    <3>1. ASSUME NEW p \in Procs,
                 \/ Agent(p) \/ Incoming(p)
                 \/ \E c \in handlers[p], ok \in BOOLEAN : Finish(p, c, ok)
          PROVE  Owned' /\ PendingExact'
      <4>1. CASE Incoming(p)
        BY <4>1, IncomingInv
      <4>2. CASE Agent(p) \/ \E c \in handlers[p], ok \in BOOLEAN : Finish(p, c, ok)
        BY <4>2, AgentInv
      <4>3. QED
        BY <3>1, <4>1, <4>2
    <3>2. ASSUME NEW r \in Reqs, Outgoing(r)
          PROVE  Owned' /\ PendingExact'
      BY <3>2, RequestInv
    <3>3. QED
      BY <2>2, <3>1, <3>2 DEF Next
  <2>3. QED
    BY <2>1, <2>2
<1>3. QED
  BY InitType, NextType, <1>1, <1>2, PTL DEF Spec

\* No process runs that the supervisor's map does not name for its id: none can be
\* forked beside it, and each can be commanded and killed.
THEOREM EveryProcessOwned == Spec => []NoOrphan
<1>1. Owned => NoOrphan
  BY DEF Owned, Owns, NoOrphan
<1>2. QED
  BY Invariance, <1>1, PTL

\* What those who use the control plane see of the processes.
SupervisedStep == [Supervised!Next]_(Supervised!vars)

\* A step that leaves the states of the processes alone is none of theirs.
LEMMA SameProcs == UNCHANGED proc => SupervisedStep
BY DEF SupervisedStep, Supervised!vars, Live

\* Readiness is not seen.
LEMMA ReadySupervised ==
  ASSUME TypeOK, NEW p \in Procs, BecomeReady(p)
  PROVE  SupervisedStep
<1>1. \A q \in Procs : /\ Live(q)' <=> Live(q)
                       /\ proc'[q].id = proc[q].id
                       /\ proc'[q].state # "unused" <=> proc[q].state # "unused"
  BY DEF BecomeReady, Live, TypeOK
<1>2. UNCHANGED Supervised!vars
  BY <1>1 DEF Supervised!vars
<1>3. QED
  BY <1>2 DEF SupervisedStep

\* Nor is the exit event, which comes after the end.
LEMMA ExitEventSupervised ==
  ASSUME TypeOK, NEW p \in Procs, ExitEvent(p)
  PROVE  SupervisedStep
<1>1. \A q \in Procs : /\ Live(q)' <=> Live(q)
                       /\ proc'[q].id = proc[q].id
                       /\ proc'[q].state # "unused" <=> proc[q].state # "unused"
  BY DEF ExitEvent, Live, TypeOK
<1>2. UNCHANGED Supervised!vars
  BY <1>1 DEF Supervised!vars
<1>3. QED
  BY <1>2 DEF SupervisedStep

\* The end of a process is the end of the one that runs.
LEMMA ExitSupervised ==
  ASSUME TypeOK, NEW p \in Procs, Exit(p)
  PROVE  SupervisedStep
<1> DEFINE runs(j) == {q \in Procs : Live(q) /\ proc[q].id = j}
<1>0. PICK i \in Ids : i = proc[p].id
  BY DEF TypeOK
<1>1. p \in runs(i)
  BY <1>0 DEF Exit
<1>2. /\ \A q \in Procs : Live(q)' <=> Live(q) /\ q # p
      /\ \A q \in Procs : proc'[q].id = proc[q].id
      /\ \A q \in Procs : proc'[q].state # "unused" <=> proc[q].state # "unused"
  BY DEF Exit, Live, TypeOK
<1>3. \A j \in Ids : {q \in Procs : Live(q) /\ proc[q].id = j}'
                     = IF j = i THEN runs(j) \ {p} ELSE runs(j)
  BY <1>0, <1>2
<1>4. [j \in Ids |-> {q \in Procs : Live(q) /\ proc[q].id = j}]'
      = [[j \in Ids |-> runs(j)] EXCEPT ![i] = @ \ {p}]
  BY <1>1, <1>3
<1>5. UNCHANGED {q \in Procs : proc[q].state # "unused"}
  BY <1>2
<1>6. Supervised!End(i, p)
  BY <1>1, <1>4, <1>5 DEF Supervised!End
<1>7. QED
  BY <1>6 DEF SupervisedStep, Supervised!Next

\* A fork finds none of its id running, because one that ran would be in the map.
LEMMA SpawnSupervised ==
  ASSUME TypeOK, Owned,
         NEW r \in Reqs, NEW i \in Ids, NEW p \in Procs, NEW atStart \in BOOLEAN,
         SpawnBegin(r, i, p, atStart)
  PROVE  SupervisedStep
<1> DEFINE runs(j) == {q \in Procs : Live(q) /\ proc[q].id = j}
<1>1. runs(i) = {}
  BY ControlPlaneAssumption DEF SpawnBegin, Owned, Owns
<1>2. ~Live(p) /\ proc[p].state = "unused"
  BY DEF SpawnBegin, Live
<1>3. \A q \in Procs : /\ Live(q)' <=> Live(q) \/ q = p
                       /\ proc'[q].id = IF q = p THEN i ELSE proc[q].id
                       /\ proc'[q].state # "unused" <=> proc[q].state # "unused" \/ q = p
  BY DEF SpawnBegin, Live, TypeOK
<1>4. \A j \in Ids : {q \in Procs : Live(q) /\ proc[q].id = j}'
                     = IF j = i THEN {p} ELSE runs(j)
  BY <1>1, <1>2, <1>3
<1>5. [j \in Ids |-> {q \in Procs : Live(q) /\ proc[q].id = j}]'
      = [[j \in Ids |-> runs(j)] EXCEPT ![i] = {p}]
  BY <1>4
<1>6. {q \in Procs : proc[q].state # "unused"}'
      = {q \in Procs : proc[q].state # "unused"} \union {p}
  BY <1>3
<1>7. Supervised!Fork(i, p)
  BY <1>1, <1>2, <1>5, <1>6 DEF Supervised!Fork
<1>8. QED
  BY <1>7 DEF SupervisedStep, Supervised!Next

LEMMA NextSupervised == TypeOK /\ Owned /\ [Next]_vars => SupervisedStep
<1> SUFFICES ASSUME TypeOK, Owned, [Next]_vars PROVE SupervisedStep
  OBVIOUS
<1>1. ASSUME NEW p \in Procs, Agent(p) PROVE SupervisedStep
  <2>1. CASE Handle(p)
    BY <2>1, SameProcs DEF Handle
  <2>2. QED
    BY <1>1, <2>1, ReadySupervised, ExitSupervised DEF Agent
<1>2. ASSUME NEW p \in Procs, Incoming(p) PROVE SupervisedStep
  <2>1. CASE ReadyMessage(p)
    BY <2>1, SameProcs DEF ReadyMessage, Crash
  <2>2. CASE ResultMessage(p)
    BY <2>2, SameProcs DEF ResultMessage, Crash
  <2>3. QED
    BY <1>2, <2>1, <2>2, ExitEventSupervised DEF Incoming
<1>3. ASSUME NEW p \in Procs, NEW c, NEW ok, Finish(p, c, ok) PROVE SupervisedStep
  BY <1>3, SameProcs DEF Finish
<1>4. ASSUME NEW r \in Reqs, Outgoing(r) PROVE SupervisedStep
  <2>1. CASE SpawnTimeout(r) \/ KillTimeout(r) \/ CommandTimeout(r)
    BY <2>1, SameProcs DEF SpawnTimeout, KillTimeout, CommandTimeout
  <2>2. ASSUME NEW i \in Ids, KillBegin(r, i) PROVE SupervisedStep
    BY <2>2, SameProcs DEF KillBegin
  <2>3. ASSUME NEW i \in Ids, NEW cmd \in Commands, CommandBegin(r, i, cmd)
        PROVE  SupervisedStep
    BY <2>3, SameProcs DEF CommandBegin, Crash
  <2>4. QED
    BY <1>4, <2>1, <2>2, <2>3, SpawnSupervised DEF Outgoing
<1>5. CASE UNCHANGED vars
  BY <1>5, SameProcs DEF vars
<1>6. QED
  BY <1>1, <1>2, <1>3, <1>4, <1>5 DEF Next

\* AgentSupervisor implements the lifetimes it promises: whatever is spawned, killed,
\* timed out or crashed meanwhile, of each id one process runs at a time and none runs
\* twice.
THEOREM SupervisorImplementsLifetimes == Spec => ImplementsLifetimes
<1>1. Init => Supervised!Init
  BY DEF Init, Supervised!Init, Live
<1>2. QED
  BY Invariance, NextSupervised, <1>1, PTL
     DEF Spec, ImplementsLifetimes, Supervised!Spec, SupervisedStep

\* The table of pending commands has the requests that wait for an answer and no
\* others, whatever becomes of their processes and in whatever order the answers,
\* exits and watchdogs come.
THEOREM NoCommandLeaks == Spec => []PendingExact
<1>1. QED
  BY Invariance, PTL

-----------------------------------------------------------------------------
(***************************************************************************)
(* Why the registry tells the truth at rest, for any number of agents,     *)
(* processes and requests.                                                 *)
(*                                                                         *)
(* Between the command that changes a membership and the registry lie the  *)
(* command, its handler, its result, the snapshot asked for next and the   *)
(* snapshot's result, at a process that may have been replaced since.  The *)
(* invariant follows them: of a request there is one piece at most, at a   *)
(* process of the request's id, and of a kind with what the request waits  *)
(* for; and the last report on its way to the registry says what is true,  *)
(* unless a command or a snapshot is yet to come.                          *)
(***************************************************************************)

\* A message of S is among those of s, and at most one is.
Among(s, S) == \E n \in DOMAIN s : s[n] \in S
Lone(s, S) == \A m, n \in DOMAIN s : s[m] \in S /\ s[n] \in S => m = n

\* What is under way of a request: its command, the refresh's included, and its result.
Ask(r) == {c \in Command : c.req = r}
Does(r) == {c \in Command : c.req = r /\ c.cmd # "snapshot"}
Looks(r) == {c \in Command : c.req = r /\ c.cmd = "snapshot"}
Tell(r) == {m \in Result : m.req = r}

Asked(p, r) == Among(inbox[p], Ask(r))
Commanded(p, r) == Among(inbox[p], Does(r))
Questioned(p, r) == Among(inbox[p], Looks(r))
Busy(p, r) == \E c \in handlers[p] : c.req = r
Told(p, r) == Among(outbox[p], Tell(r))
Readied(p) == Among(outbox[p], {Ready})
Has(p, r) == Asked(p, r) \/ Busy(p, r) \/ Told(p, r)

\* There is at most one piece of each request, and one ready message of a process.
Tidy(p) ==
  /\ \A r \in Reqs :
       /\ Lone(inbox[p], Ask(r)) /\ Lone(outbox[p], Tell(r))
       /\ \A c, d \in handlers[p] : c.req = r /\ d.req = r => c = d
       /\ ~(Asked(p, r) /\ Busy(p, r))
       /\ ~(Asked(p, r) /\ Told(p, r))
       /\ ~(Busy(p, r) /\ Told(p, r))
  /\ Lone(outbox[p], {Ready})

Single ==
  /\ \A p \in Procs : Tidy(p)
  /\ \A p, q \in Procs, r \in Reqs : Has(p, r) /\ Has(q, r) => p = q

\* The map leads to a process of the id.
Placed == \A i \in Ids, p \in Procs : agents[i] = p => Owns(p) /\ proc[p].id = i

\* What is over leaves nothing behind but messages, and those only until a successor
\* is ready.
Still ==
  \A p \in Procs :
    /\ ~Live(p) => ~member[p] /\ \A r \in Reqs : ~Asked(p, r) /\ ~Busy(p, r)
    /\ proc[p].state = "unused" => outbox[p] = <<>>
    /\ proc[p].state = "starting" => ~Readied(p)
    /\ proc[p].state = "running" =>
         \A q \in Procs : q # p /\ proc[q].id = proc[p].id => outbox[q] = <<>>

\* A request that waits has its pieces at a process of its id.
Expects(p, r, kinds) == Waits(r, "nothing") \/ (req[r].id = proc[p].id /\ req[r].await \in kinds)

Kept ==
  \A p \in Procs, r \in Reqs :
    /\ Commanded(p, r) \/ Busy(p, r) => Expects(p, r, {"result"})
    /\ Questioned(p, r) => Expects(p, r, {"snapshot"})
    /\ Told(p, r) => Expects(p, r, {"result", "snapshot"})

\* The messages that will change the registry, and what they make of it.
Reports(R) == {Ready} \union {m \in Result : m.req \in R}
Value(m, start) == IF m = Ready THEN start ELSE m.data

\* Once all of s has come, the registry agrees.
Converges(s, S, start, listed, truth) ==
  /\ ~Among(s, S) => listed = truth
  /\ \A n \in DOMAIN s :
       s[n] \in S /\ (\A m \in DOMAIN s : n < m => s[m] \notin S) => Value(s[n], start) = truth

Refreshing == {r \in Reqs : Waits(r, "snapshot")}

Spawning(i, p, r) == Waits(r, "ready") /\ req[r].proc = p /\ req[r].id = i

Commanding(i) == \E r \in Reqs : req[r].id = i /\ Waits(r, "result")

Clean(i, p) ==
  /\ \A r \in Reqs : Has(p, r) => ~Waits(r, "nothing")
  /\ proc[p].state = "starting" \/ Readied(p) => \E r \in Reqs : Spawning(i, p, r)
  /\ proc[p].state = "starting" =>
       /\ ~member[p]
       /\ \A r \in Reqs : ~Busy(p, r) /\ ~Commanded(p, r)
  /\ \/ Commanding(i)
     \/ \E r \in Reqs : Questioned(p, r)
     \/ proc[p].state = "starting"
     \/ Converges(outbox[p], Reports(Refreshing), proc[p].atStart, registry[i], member[p])

Undisturbed ==
  \A i \in Ids, p \in Procs :
    agents[i] = p /\ Live(p) /\ ~dirty[i] /\ ~crashed => Clean(i, p)

-----------------------------------------------------------------------------
(* Queues. *)

LEMMA ReadyIsNoResult == Ready \notin Result /\ Ready \in Message /\ Result \subseteq Message
<1>1. \A m \in Result : m.type = "cmd-result"
  BY DEF Result
<1>2. Ready.type = "ready"
  BY DEF Ready
<1>3. QED
  BY <1>1, <1>2 DEF Message

\* What is left of a queue whose first message was taken.
LEMMA Shorter ==
  ASSUME NEW T, NEW s \in Seq(T), s # <<>>
  PROVE  /\ Head(s) \in T /\ Tail(s) \in Seq(T)
         /\ DOMAIN s = 1 .. Len(s) /\ Len(s) \in Nat \ {0} /\ Head(s) = s[1]
         /\ DOMAIN Tail(s) = 1 .. Len(s) - 1
         /\ \A n \in 1 .. Len(s) - 1 : Tail(s)[n] = s[n + 1]
OBVIOUS

LEMMA Shrunk ==
  ASSUME NEW T, NEW s \in Seq(T), s # <<>>, NEW S
  PROVE  /\ Lone(s, S) => Lone(Tail(s), S)
         /\ Among(Tail(s), S) => Among(s, S)
         /\ Head(s) \in S => Among(s, S)
         /\ Head(s) \in S /\ Lone(s, S) => ~Among(Tail(s), S)
         /\ Head(s) \notin S /\ Among(s, S) => Among(Tail(s), S)
<1> DEFINE t == Tail(s)
<1>1. /\ DOMAIN s = 1 .. Len(s) /\ Len(s) \in Nat \ {0} /\ Head(s) = s[1]
      /\ DOMAIN t = 1 .. Len(s) - 1
      /\ \A n \in 1 .. Len(s) - 1 : t[n] = s[n + 1]
  BY Shorter
<1> HIDE DEF t
<1>2. /\ \A n \in DOMAIN t : n + 1 \in DOMAIN s /\ t[n] = s[n + 1] /\ n + 1 # 1 /\ n \in Nat
      /\ 1 \in DOMAIN s
      /\ \A n \in DOMAIN s : n = 1 \/ (n - 1 \in DOMAIN t /\ t[n - 1] = s[n])
  BY <1>1
<1>3. Lone(s, S) => Lone(t, S)
  <2> SUFFICES ASSUME Lone(s, S), NEW m \in DOMAIN t, NEW n \in DOMAIN t, t[m] \in S, t[n] \in S
               PROVE  m = n
    BY DEF Lone
  <2>1. m + 1 = n + 1
    BY <1>2 DEF Lone
  <2>2. QED
    BY <1>2, <2>1
<1>4. Among(t, S) => Among(s, S)
  BY <1>2 DEF Among
<1>5. Head(s) \in S => Among(s, S)
  BY <1>1, <1>2 DEF Among
<1>6. Head(s) \in S /\ Lone(s, S) => ~Among(t, S)
  BY <1>1, <1>2 DEF Among, Lone
<1>7. Head(s) \notin S /\ Among(s, S) => Among(t, S)
  BY <1>1, <1>2 DEF Among
<1>8. QED
  BY <1>3, <1>4, <1>5, <1>6, <1>7 DEF t

\* ... and of one that a message was added to.
LEMMA Longer ==
  ASSUME NEW T, NEW s \in Seq(T), NEW m \in T
  PROVE  /\ DOMAIN s = 1 .. Len(s) /\ Len(s) \in Nat
         /\ DOMAIN Append(s, m) = 1 .. Len(s) + 1
         /\ Append(s, m)[Len(s) + 1] = m
         /\ \A n \in 1 .. Len(s) : Append(s, m)[n] = s[n]
OBVIOUS

LEMMA Grown ==
  ASSUME NEW T, NEW s \in Seq(T), NEW m \in T, NEW S
  PROVE  /\ Among(Append(s, m), S) <=> Among(s, S) \/ m \in S
         /\ Lone(s, S) /\ ~(Among(s, S) /\ m \in S) => Lone(Append(s, m), S)
<1> DEFINE t == Append(s, m)
           l == Len(s) + 1
<1>1. /\ DOMAIN s = 1 .. Len(s) /\ Len(s) \in Nat /\ DOMAIN t = 1 .. l
      /\ t[l] = m /\ \A n \in 1 .. Len(s) : t[n] = s[n]
  BY Longer
<1> HIDE DEF t
<1>2. /\ \A n \in DOMAIN s : n \in DOMAIN t /\ t[n] = s[n]
      /\ l \in DOMAIN t /\ \A n \in DOMAIN t : n = l \/ n \in DOMAIN s
  BY <1>1
<1> HIDE DEF l
<1>3. Among(t, S) <=> Among(s, S) \/ m \in S
  BY <1>1, <1>2 DEF Among
<1>4. Lone(s, S) /\ ~(Among(s, S) /\ m \in S) => Lone(t, S)
  BY <1>1, <1>2 DEF Among, Lone
<1>5. QED
  BY <1>3, <1>4 DEF t

LEMMA Empty == ASSUME NEW S PROVE ~Among(<<>>, S) /\ Lone(<<>>, S)
BY DEF Among, Lone

\* A command, put into a process's channel or taken from it.
LEMMA CommandTaken ==
  ASSUME NEW s \in Seq(Command), s # <<>>, NEW r \in Reqs, Lone(s, Ask(r))
  PROVE  /\ Head(s) \in Command
         /\ Lone(Tail(s), Ask(r))
         /\ Among(Tail(s), Ask(r)) <=> Among(s, Ask(r)) /\ Head(s).req # r
         /\ Among(Tail(s), Does(r)) <=> Among(s, Does(r)) /\ Head(s).req # r
         /\ Among(Tail(s), Looks(r)) <=> Among(s, Looks(r)) /\ Head(s).req # r
         /\ Head(s).req = r => /\ Among(s, Ask(r))
                               /\ Head(s).cmd = "snapshot" => Among(s, Looks(r))
                               /\ Head(s).cmd # "snapshot" => Among(s, Does(r))
<1>1. Head(s) \in Command
  BY Shorter
<1>2. /\ Head(s) \in Ask(r) <=> Head(s).req = r
      /\ Head(s) \in Does(r) <=> Head(s).req = r /\ Head(s).cmd # "snapshot"
      /\ Head(s) \in Looks(r) <=> Head(s).req = r /\ Head(s).cmd = "snapshot"
  BY <1>1 DEF Ask, Does, Looks
<1>3. \A t : Among(t, Does(r)) \/ Among(t, Looks(r)) => Among(t, Ask(r))
  BY DEF Among, Ask, Does, Looks
<1>4. /\ Lone(Tail(s), Ask(r))
      /\ Among(Tail(s), Ask(r)) <=> Among(s, Ask(r)) /\ Head(s).req # r
      /\ Head(s).req = r => Among(s, Ask(r))
  BY <1>2, Shrunk
<1>5. /\ Among(Tail(s), Does(r)) => Among(s, Does(r)) /\ Among(Tail(s), Ask(r))
      /\ Among(s, Does(r)) /\ Head(s) \notin Does(r) => Among(Tail(s), Does(r))
      /\ Head(s) \in Does(r) => Among(s, Does(r))
  BY <1>3, Shrunk
<1>6. /\ Among(Tail(s), Looks(r)) => Among(s, Looks(r)) /\ Among(Tail(s), Ask(r))
      /\ Among(s, Looks(r)) /\ Head(s) \notin Looks(r) => Among(Tail(s), Looks(r))
      /\ Head(s) \in Looks(r) => Among(s, Looks(r))
  BY <1>3, Shrunk
<1>7. QED
  BY <1>1, <1>2, <1>4, <1>5, <1>6

LEMMA CommandPut ==
  ASSUME NEW s \in Seq(Command), NEW c \in Command, NEW r \in Reqs
  PROVE  LET t == Append(s, c)
         IN /\ Among(t, Ask(r)) <=> Among(s, Ask(r)) \/ c.req = r
            /\ Among(t, Does(r)) <=> Among(s, Does(r)) \/ (c.req = r /\ c.cmd # "snapshot")
            /\ Among(t, Looks(r)) <=> Among(s, Looks(r)) \/ (c.req = r /\ c.cmd = "snapshot")
            /\ Lone(s, Ask(r)) /\ ~(Among(s, Ask(r)) /\ c.req = r) => Lone(t, Ask(r))
<1>1. /\ c \in Ask(r) <=> c.req = r
      /\ c \in Does(r) <=> c.req = r /\ c.cmd # "snapshot"
      /\ c \in Looks(r) <=> c.req = r /\ c.cmd = "snapshot"
  BY DEF Ask, Does, Looks
<1>2. QED
  BY <1>1, Grown

\* The same of the messages from a process.
LEMMA MessageTaken ==
  ASSUME NEW s \in Seq(Message), s # <<>>, NEW r \in Reqs, Lone(s, Tell(r)), Lone(s, {Ready})
  PROVE  /\ Head(s) \in Message
         /\ Lone(Tail(s), Tell(r)) /\ Lone(Tail(s), {Ready})
         /\ Head(s) = Ready => /\ Among(Tail(s), Tell(r)) <=> Among(s, Tell(r))
                               /\ Among(s, {Ready}) /\ ~Among(Tail(s), {Ready})
         /\ Head(s) # Ready => /\ Among(Tail(s), Tell(r)) <=> Among(s, Tell(r)) /\ Head(s).req # r
                               /\ Among(Tail(s), {Ready}) <=> Among(s, {Ready})
                               /\ Head(s).req = r => Among(s, Tell(r))
<1>1. Head(s) \in Message
  BY Shorter
<1>2. /\ Head(s) = Ready => Head(s) \notin Tell(r)
      /\ Head(s) # Ready => (Head(s) \in Tell(r) <=> Head(s).req = r)
  BY <1>1, ReadyIsNoResult DEF Message, Tell
<1>3. Lone(Tail(s), Tell(r)) /\ Lone(Tail(s), {Ready})
  BY Shrunk
<1>4. /\ Head(s) \in Tell(r) => Among(s, Tell(r)) /\ ~Among(Tail(s), Tell(r))
      /\ Head(s) \notin Tell(r) => (Among(Tail(s), Tell(r)) <=> Among(s, Tell(r)))
  BY Shrunk
<1>5. /\ Head(s) = Ready => Among(s, {Ready}) /\ ~Among(Tail(s), {Ready})
      /\ Head(s) # Ready => (Among(Tail(s), {Ready}) <=> Among(s, {Ready}))
  BY Shrunk
<1>6. QED
  BY <1>1, <1>2, <1>3, <1>4, <1>5

LEMMA ResultPut ==
  ASSUME NEW s \in Seq(Message), NEW m \in Result, NEW r \in Reqs
  PROVE  LET t == Append(s, m)
         IN /\ Among(t, Tell(r)) <=> Among(s, Tell(r)) \/ m.req = r
            /\ Among(t, {Ready}) <=> Among(s, {Ready})
            /\ Lone(s, Tell(r)) /\ ~(Among(s, Tell(r)) /\ m.req = r) => Lone(t, Tell(r))
            /\ Lone(s, {Ready}) => Lone(t, {Ready})
<1>1. m \in Message /\ m # Ready /\ (m \in Tell(r) <=> m.req = r)
  BY ReadyIsNoResult DEF Tell
<1>2. QED
  BY <1>1, Grown

LEMMA ReadyPut ==
  ASSUME NEW s \in Seq(Message), NEW r \in Reqs
  PROVE  LET t == Append(s, Ready)
         IN /\ Among(t, Tell(r)) <=> Among(s, Tell(r))
            /\ Among(t, {Ready})
            /\ Lone(s, Tell(r)) => Lone(t, Tell(r))
            /\ Lone(s, {Ready}) /\ ~Among(s, {Ready}) => Lone(t, {Ready})
<1>1. Ready \in Message /\ Ready \notin Tell(r)
  BY ReadyIsNoResult DEF Tell
<1>2. QED
  BY <1>1, Grown

\* A message taken keeps the registry on its way to the truth.
LEMMA ConvergesTaken ==
  ASSUME NEW s \in Seq(Message), s # <<>>, NEW S, NEW start, NEW listed, NEW truth,
         Converges(s, S, start, listed, truth)
  PROVE  /\ Head(s) \in S => Converges(Tail(s), S, start, Value(Head(s), start), truth)
         /\ Head(s) \notin S => Converges(Tail(s), S, start, listed, truth)
<1> DEFINE t == Tail(s)
<1>1. /\ DOMAIN s = 1 .. Len(s) /\ Len(s) \in Nat \ {0} /\ Head(s) = s[1]
      /\ DOMAIN t = 1 .. Len(s) - 1
      /\ \A n \in 1 .. Len(s) - 1 : t[n] = s[n + 1]
  BY Shorter
<1> HIDE DEF t
<1>2. /\ \A n \in DOMAIN t : n + 1 \in DOMAIN s /\ t[n] = s[n + 1] /\ n \in Nat
      /\ 1 \in DOMAIN s /\ \A n \in DOMAIN s : n \in Nat
      /\ \A n \in DOMAIN s : n = 1 \/ (n - 1 \in DOMAIN t /\ t[n - 1] = s[n])
  BY <1>1
<1>3. ASSUME NEW n \in DOMAIN t, t[n] \in S, \A m \in DOMAIN t : n < m => t[m] \notin S
      PROVE  Value(t[n], start) = truth
  <2>1. n + 1 \in DOMAIN s /\ s[n + 1] \in S /\ t[n] = s[n + 1]
    BY <1>2, <1>3
  <2>2. ASSUME NEW m \in DOMAIN s, n + 1 < m PROVE s[m] \notin S
    <3>1. m # 1 /\ n < m - 1
      BY <1>2, <2>2
    <3>2. m - 1 \in DOMAIN t /\ t[m - 1] = s[m]
      BY <1>2, <3>1
    <3>3. QED
      BY <1>3, <3>1, <3>2
  <2>3. QED
    BY <2>1, <2>2 DEF Converges
<1>4. ASSUME Head(s) \in S, ~Among(t, S) PROVE Value(Head(s), start) = truth
  <2>1. 1 \in DOMAIN s /\ s[1] \in S /\ Head(s) = s[1]
    BY <1>1, <1>2, <1>4
  <2>2. ASSUME NEW m \in DOMAIN s, 1 < m PROVE s[m] \notin S
    BY <1>2, <1>4, <2>2 DEF Among
  <2>3. QED
    BY <2>1, <2>2 DEF Converges
<1>5. Head(s) \notin S /\ ~Among(t, S) => listed = truth
  BY Shrunk DEF Converges, t
<1>6. QED
  BY <1>3, <1>4, <1>5 DEF Converges, t

\* A message that says the truth brings it there.
LEMMA ConvergesPut ==
  ASSUME NEW s \in Seq(Message), NEW x \in Message, NEW S, NEW start, NEW listed, NEW truth
  PROVE  /\ x \in S /\ Value(x, start) = truth
              => Converges(Append(s, x), S, start, listed, truth)
         /\ x \notin S /\ Converges(s, S, start, listed, truth)
              => Converges(Append(s, x), S, start, listed, truth)
<1> DEFINE t == Append(s, x)
           l == Len(s) + 1
<1>1. /\ DOMAIN s = 1 .. Len(s) /\ Len(s) \in Nat /\ DOMAIN t = 1 .. l
      /\ t[l] = x /\ \A n \in 1 .. Len(s) : t[n] = s[n]
  BY Longer
<1> HIDE DEF t
<1>2. /\ \A n \in DOMAIN s : n \in DOMAIN t /\ t[n] = s[n] /\ n < l
      /\ l \in DOMAIN t /\ \A n \in DOMAIN t : n = l \/ n \in DOMAIN s
  BY <1>1
<1> HIDE DEF l
<1>3. ASSUME x \in S, Value(x, start) = truth PROVE Converges(t, S, start, listed, truth)
  BY <1>1, <1>2, <1>3 DEF Converges, Among
<1>4. ASSUME x \notin S, Converges(s, S, start, listed, truth)
      PROVE  Converges(t, S, start, listed, truth)
  <2>1. Among(t, S) <=> Among(s, S)
    BY <1>1, <1>2, <1>4 DEF Among
  <2>2. ASSUME NEW n \in DOMAIN t, t[n] \in S, \A m \in DOMAIN t : n < m => t[m] \notin S
        PROVE  Value(t[n], start) = truth
    <3>1. n \in DOMAIN s /\ s[n] = t[n]
      BY <1>1, <1>2, <1>4, <2>2
    <3>2. \A m \in DOMAIN s : n < m => s[m] \notin S
      BY <1>2, <2>2
    <3>3. QED
      BY <1>4, <2>2, <3>1, <3>2 DEF Converges
  <2>3. QED
    BY <1>4, <2>1, <2>2 DEF Converges
<1>5. QED
  BY <1>3, <1>4 DEF t

\* Which requests refresh matters only for those that have a result in the queue.
LEMMA ConvergesSame ==
  ASSUME NEW s \in Seq(Message), NEW R, NEW R2, NEW start, NEW listed, NEW truth,
         \A r \in Reqs : Among(s, Tell(r)) => (r \in R <=> r \in R2),
         Converges(s, Reports(R), start, listed, truth)
  PROVE  Converges(s, Reports(R2), start, listed, truth)
<1>1. ASSUME NEW n \in DOMAIN s
      PROVE  s[n] \in Reports(R) <=> s[n] \in Reports(R2)
  <2>1. s[n] \in Message
    OBVIOUS
  <2>2. CASE s[n] = Ready
    BY <2>2 DEF Reports
  <2>3. CASE s[n] # Ready
    <3>1. s[n] \in Result /\ s[n].req \in Reqs /\ s[n] \in Tell(s[n].req)
      BY <2>1, <2>3 DEF Message, Result, Tell
    <3>2. Among(s, Tell(s[n].req))
      BY <3>1 DEF Among
    <3>3. QED
      BY <2>3, <3>1, <3>2 DEF Reports
  <2>4. QED
    BY <2>2, <2>3
<1>2. QED
  BY <1>1 DEF Converges, Among

-----------------------------------------------------------------------------
(* Steps. *)

LEMMA Queues ==
  ASSUME TypeOK, NEW p \in Procs
  PROVE  /\ inbox[p] \in Seq(Command) /\ outbox[p] \in Seq(Message)
         /\ handlers[p] \in SUBSET Command /\ member[p] \in BOOLEAN
         /\ proc[p].state \in States /\ proc[p].id \in Ids /\ proc[p].atStart \in BOOLEAN
BY DEF TypeOK, Message

LEMMA AskedKinds ==
  ASSUME NEW p, NEW r
  PROVE  Asked(p, r) <=> Commanded(p, r) \/ Questioned(p, r)
BY DEF Asked, Commanded, Questioned, Among, Ask, Does, Looks

\* The step puts nothing new under way at p.
Fewer(p) ==
  \A r \in Reqs :
    /\ Has(p, r)' => Has(p, r)
    /\ Commanded(p, r)' \/ Busy(p, r)' => Commanded(p, r) \/ Busy(p, r)
    /\ Questioned(p, r)' => Questioned(p, r)

LEMMA SameAt ==
  ASSUME NEW p \in Procs, inbox'[p] = inbox[p], outbox'[p] = outbox[p], handlers'[p] = handlers[p]
  PROVE  /\ Fewer(p) /\ (Tidy(p) => Tidy(p)')
         /\ \A r \in Reqs : Has(p, r)' <=> Has(p, r)
         /\ Readied(p)' <=> Readied(p)
<1>1. \A r \in Reqs : /\ Asked(p, r)' <=> Asked(p, r)
                      /\ Commanded(p, r)' <=> Commanded(p, r)
                      /\ Questioned(p, r)' <=> Questioned(p, r)
                      /\ Busy(p, r)' <=> Busy(p, r)
                      /\ Told(p, r)' <=> Told(p, r)
  BY DEF Asked, Commanded, Questioned, Busy, Told, Ask, Does, Looks, Tell
<1>2. Readied(p)' <=> Readied(p)
  BY DEF Readied
<1>3. Tidy(p) => Tidy(p)'
  BY <1>1 DEF Tidy, Ask, Tell
<1>4. QED
  BY <1>1, <1>2, <1>3 DEF Fewer, Has

LEMMA SingleStays ==
  ASSUME Single, \A p \in Procs : Tidy(p)' /\ Fewer(p)
  PROVE  Single'
BY DEF Single, Fewer

\* Nothing becomes of what is kept, as long as requests only give up.
LEMMA KeptStays ==
  ASSUME Kept, \A p \in Procs : Fewer(p),
         \A p \in Procs : proc'[p].id = proc[p].id \/ \A r \in Reqs : ~Has(p, r),
         \A r \in Reqs : \/ req'[r] = req[r] \/ req'[r].await = "nothing"
                         \/ \A p \in Procs : ~Has(p, r)'
  PROVE  Kept'
<1> SUFFICES ASSUME NEW p \in Procs, NEW r \in Reqs
             PROVE  /\ Commanded(p, r)' \/ Busy(p, r)' => Expects(p, r, {"result"})'
                    /\ Questioned(p, r)' => Expects(p, r, {"snapshot"})'
                    /\ Told(p, r)' => Expects(p, r, {"result", "snapshot"})'
  BY DEF Kept
<1>1. CASE Has(p, r)'
  <2>1. Has(p, r) /\ proc'[p].id = proc[p].id
    BY <1>1 DEF Fewer
  <2>2. CASE req'[r].await = "nothing"
    BY <2>2 DEF Expects, Waits
  <2>3. CASE req'[r] = req[r]
    <3>1. \A kinds : Expects(p, r, kinds)' <=> Expects(p, r, kinds)
      BY <2>1, <2>3 DEF Expects, Waits
    <3>2. /\ Commanded(p, r) \/ Busy(p, r) => Expects(p, r, {"result"})
          /\ Questioned(p, r) => Expects(p, r, {"snapshot"})
          /\ Has(p, r) => Expects(p, r, {"result", "snapshot"})
      BY AskedKinds DEF Kept, Has, Expects
    <3>3. QED
      BY <2>1, <3>1, <3>2 DEF Fewer, Expects
  <2>4. QED
    BY <1>1, <2>2, <2>3
<1>2. CASE ~Has(p, r)'
  <2>1. ~(Asked(p, r)' \/ Busy(p, r)' \/ Told(p, r)')
    BY <1>2 DEF Has
  <2>2. Asked(p, r)' <=> Commanded(p, r)' \/ Questioned(p, r)'
    BY DEF Asked, Commanded, Questioned, Among, Ask, Does, Looks
  <2>3. QED
    BY <2>1, <2>2
<1>3. QED
  BY <1>1, <1>2

\* What is under way belongs to a request that waits for a result or a snapshot, if it
\* waits at all.
LEMMA KeptFor ==
  ASSUME Kept, NEW p \in Procs, NEW r \in Reqs, Has(p, r)
  PROVE  Expects(p, r, {"result", "snapshot"})
BY AskedKinds DEF Kept, Has, Expects

LEMMA FreshHasNone ==
  ASSUME TypeOK, NEW r \in Reqs, Fresh(r)
  PROVE  /\ Waits(r, "nothing")
         /\ \A p \in Procs : ~Has(p, r) /\ ~Asked(p, r) /\ ~Busy(p, r) /\ ~Told(p, r)
<1> SUFFICES ASSUME NEW p \in Procs PROVE ~Asked(p, r) /\ ~Busy(p, r) /\ ~Told(p, r)
  BY DEF Fresh, Has
<1>1. ~Asked(p, r)
  BY DEF Fresh, Asked, Among, Ask
<1>2. ~Busy(p, r)
  BY DEF Fresh, Busy
<1>3. ~Told(p, r)
  BY ReadyIsNoResult DEF Fresh, Told, Among, Tell
<1>4. QED
  BY <1>1, <1>2, <1>3

\* A step elsewhere.  Whatever it makes of the registry, a process that has yet to start
\* will report to it.
LEMMA CleanStays ==
  ASSUME TypeOK, NEW i \in Ids, NEW p \in Procs, Clean(i, p),
         inbox'[p] = inbox[p], outbox'[p] = outbox[p], handlers'[p] = handlers[p],
         member'[p] = member[p], proc'[p] = proc[p],
         registry'[i] = registry[i] \/ proc[p].state = "starting",
         \A r \in Reqs : Has(p, r) => req'[r] = req[r],
         \A r \in Reqs : Spawning(i, p, r) \/ (req[r].id = i /\ Waits(r, "result"))
                           => req'[r] = req[r]
  PROVE  Clean(i, p)'
<1>1. /\ \A r \in Reqs : Has(p, r)' <=> Has(p, r)
      /\ \A r \in Reqs : Busy(p, r)' <=> Busy(p, r)
      /\ \A r \in Reqs : Commanded(p, r)' <=> Commanded(p, r)
      /\ \A r \in Reqs : Questioned(p, r)' <=> Questioned(p, r)
      /\ Readied(p)' <=> Readied(p)
  <2>1. \A r \in Reqs : /\ Commanded(p, r)' <=> Commanded(p, r)
                        /\ Questioned(p, r)' <=> Questioned(p, r)
                        /\ Busy(p, r)' <=> Busy(p, r)
    BY DEF Commanded, Questioned, Busy, Does, Looks
  <2>2. QED
    BY <2>1, SameAt
<1>2. \A r \in Reqs : Has(p, r)' => ~Waits(r, "nothing")'
  BY <1>1 DEF Clean, Waits
<1>3. \A r \in Reqs : Spawning(i, p, r) => Spawning(i, p, r)'
  BY DEF Spawning, Waits
<1>4. Commanding(i) => Commanding(i)'
  BY DEF Commanding, Waits
<1>5. proc'[p].state # "starting" /\
      Converges(outbox[p], Reports(Refreshing), proc[p].atStart, registry[i], member[p])
      => Converges(outbox'[p], Reports(Refreshing'), proc'[p].atStart, registry'[i], member'[p])
  <2>1. \A r \in Reqs : Among(outbox[p], Tell(r)) => (r \in Refreshing <=> r \in Refreshing')
    BY DEF Has, Told, Refreshing, Waits
  <2>2. outbox[p] \in Seq(Message)
    BY Queues
  <2>3. QED
    BY <2>1, <2>2, ConvergesSame
<1>6. /\ (proc[p].state = "starting" \/ Readied(p))' => \E r \in Reqs : Spawning(i, p, r)'
      /\ proc'[p].state = "starting" =>
           /\ ~member'[p]
           /\ \A r \in Reqs : ~Busy(p, r)' /\ ~Commanded(p, r)'
  BY <1>1, <1>3 DEF Clean
<1>7. \/ Commanding(i)'
      \/ \E r \in Reqs : Questioned(p, r)'
      \/ proc'[p].state = "starting"
      \/ Converges(outbox'[p], Reports(Refreshing'), proc'[p].atStart, registry'[i], member'[p])
  BY <1>1, <1>4, <1>5 DEF Clean
<1>8. QED
  BY <1>2, <1>6, <1>7 DEF Clean, Reports

-----------------------------------------------------------------------------
(* The processes. *)

Rest == Single /\ Placed /\ Still /\ Kept /\ Undisturbed

LEMMA BecomeReadyKeeps ==
  ASSUME TypeOK, Owned, Rest, NEW q \in Procs, BecomeReady(q)
  PROVE  Rest'
<1>1. /\ proc[q].state = "starting"
      /\ \A p \in Procs : p # q /\ proc[p].id = proc[q].id => outbox[p] = <<>>
      /\ UNCHANGED <<agents, inbox, handlers, req, registry, dirty, crashed>>
      /\ outbox'[q] = Append(outbox[q], Ready)
      /\ member'[q] = (member[q] \/ proc[q].atStart)
      /\ \A p \in Procs : p # q => outbox'[p] = outbox[p] /\ member'[p] = member[p]
  BY DEF BecomeReady, TypeOK
<1>2. /\ proc'[q].state = "running"
      /\ proc'[q].id = proc[q].id /\ proc'[q].atStart = proc[q].atStart
      /\ \A p \in Procs : p # q => proc'[p] = proc[p]
  BY DEF BecomeReady, TypeOK
<1>3. \A p \in Procs : /\ Live(p)' <=> Live(p)
                       /\ Owns(p)' <=> Owns(p)
                       /\ proc'[p].id = proc[p].id
  BY <1>1, <1>2 DEF Live, Owns
<1>4. outbox[q] \in Seq(Message) /\ Tidy(q) /\ ~Readied(q)
  BY <1>1, Queues DEF Rest, Single, Still
<1>5. /\ \A r \in Reqs : /\ Told(q, r)' <=> Told(q, r)
                         /\ Lone(outbox'[q], Tell(r))
      /\ Readied(q)' /\ Lone(outbox'[q], {Ready})
  <2>1. ASSUME NEW r \in Reqs
        PROVE  /\ Among(outbox'[q], Tell(r)) <=> Among(outbox[q], Tell(r))
               /\ Lone(outbox'[q], Tell(r))
    BY <1>1, <1>4, ReadyPut DEF Tidy
  <2>2. Ready \in Message
    BY ReadyIsNoResult
  <2>3. Among(outbox'[q], {Ready}) /\ Lone(outbox'[q], {Ready})
    BY <1>1, <1>4, <2>2, Grown DEF Tidy, Readied
  <2>4. QED
    BY <2>1, <2>3 DEF Told, Readied, Tell
<1>6. \A r \in Reqs : /\ Asked(q, r)' <=> Asked(q, r)
                      /\ Commanded(q, r)' <=> Commanded(q, r)
                      /\ Questioned(q, r)' <=> Questioned(q, r)
                      /\ Busy(q, r)' <=> Busy(q, r)
  BY <1>1 DEF Asked, Commanded, Questioned, Busy, Ask, Does, Looks
<1>7. \A p \in Procs : Tidy(p)' /\ Fewer(p)
  <2>1. Tidy(q)'
    BY <1>1, <1>4, <1>5, <1>6 DEF Tidy, Ask, Tell
  <2>2. Fewer(q)
    BY <1>5, <1>6 DEF Fewer, Has
  <2>3. ASSUME NEW p \in Procs, p # q PROVE Tidy(p)' /\ Fewer(p)
    BY <1>1, <2>3, SameAt DEF Rest, Single
  <2>4. QED
    BY <2>1, <2>2, <2>3
<1>8. Single' /\ Kept'
  BY <1>1, <1>3, <1>7, SingleStays, KeptStays DEF Rest
<1>9. Placed'
  BY <1>1, <1>3 DEF Rest, Placed
<1>10. Still'
  <2> SUFFICES ASSUME NEW p \in Procs
               PROVE  /\ ~Live(p)' => ~member'[p] /\ \A r \in Reqs : ~Asked(p, r)' /\ ~Busy(p, r)'
                      /\ proc'[p].state = "unused" => outbox'[p] = <<>>
                      /\ proc'[p].state = "starting" => ~Readied(p)'
                      /\ proc'[p].state = "running" =>
                           \A x \in Procs : x # p /\ proc'[x].id = proc'[p].id => outbox'[x] = <<>>
    BY DEF Still
  <2>1. CASE p = q
    BY <1>1, <1>2, <1>3, <2>1 DEF Live
  <2>2. CASE p # q
    <3>1. /\ ~Live(p) => ~member[p] /\ \A r \in Reqs : ~Asked(p, r) /\ ~Busy(p, r)
          /\ proc[p].state = "unused" => outbox[p] = <<>>
          /\ proc[p].state = "starting" => ~Readied(p)
          /\ proc[p].state = "running" =>
               \A x \in Procs : x # p /\ proc[x].id = proc[p].id => outbox[x] = <<>>
      BY DEF Rest, Still
    <3>2. proc[p].state = "running" => proc[q].id # proc[p].id
      BY <1>1, <2>2 DEF Owned, Owns, Live
    <3>3. \A r \in Reqs : (Asked(p, r)' <=> Asked(p, r)) /\ (Busy(p, r)' <=> Busy(p, r))
      BY <1>1 DEF Asked, Busy, Ask
    <3>4. Readied(p)' <=> Readied(p)
      BY <1>1, <2>2 DEF Readied
    <3>5. QED
      BY <1>1, <1>2, <1>3, <2>2, <3>1, <3>2, <3>3, <3>4
  <2>3. QED
    BY <2>1, <2>2
<1>11. Undisturbed'
  <2> SUFFICES ASSUME NEW i \in Ids, NEW p \in Procs,
                      agents'[i] = p, Live(p)', ~dirty'[i], ~crashed'
               PROVE  Clean(i, p)'
    BY DEF Undisturbed
  <2>1. Clean(i, p)
    BY <1>1, <1>3 DEF Rest, Undisturbed
  <2>2. CASE p # q
    BY <1>1, <1>2, <2>1, <2>2, CleanStays
  <2>3. CASE p = q
    <3>1. \A r \in Reqs : Has(q, r)' => ~Waits(r, "nothing")'
      BY <1>1, <1>5, <1>6, <2>1, <2>3 DEF Clean, Has, Waits
    <3>2. \E r \in Reqs : Spawning(i, q, r)'
      BY <1>1, <2>1, <2>3 DEF Clean, Spawning, Waits
    <3>3. ~member[q]
      BY <1>1, <2>1, <2>3 DEF Clean
    <3>4. Converges(outbox'[q], Reports(Refreshing'), proc'[q].atStart, registry'[i], member'[q])
      <4>1. Ready \in Message /\ Ready \in Reports(Refreshing')
        BY ReadyIsNoResult DEF Reports
      <4>2. Value(Ready, proc'[q].atStart) = member'[q]
        BY <1>1, <1>2, <3>3, Queues DEF Value
      <4>3. QED
        BY <1>1, <1>4, <4>1, <4>2, ConvergesPut
    <3>5. QED
      BY <1>2, <2>3, <3>1, <3>2, <3>4 DEF Clean, Reports
  <2>4. QED
    BY <2>2, <2>3
<1>12. QED
  BY <1>8, <1>9, <1>10, <1>11 DEF Rest

LEMMA ExitKeeps ==
  ASSUME TypeOK, Owned, Rest, NEW q \in Procs, Exit(q)
  PROVE  Rest'
<1>1. /\ Live(q)
      /\ UNCHANGED <<agents, outbox, req, registry, dirty, crashed>>
      /\ inbox'[q] = <<>> /\ handlers'[q] = {} /\ ~member'[q]
      /\ \A p \in Procs : p # q => /\ inbox'[p] = inbox[p] /\ handlers'[p] = handlers[p]
                                   /\ member'[p] = member[p]
  BY DEF Exit, TypeOK
<1>2. /\ proc'[q].state = "exited" /\ proc'[q].id = proc[q].id
      /\ \A p \in Procs : p # q => proc'[p] = proc[p]
  BY DEF Exit, TypeOK
<1>3. \A p \in Procs : /\ p # q => (Live(p)' <=> Live(p))
                       /\ Owns(p)' <=> Owns(p)
                       /\ proc'[p].id = proc[p].id
  BY <1>1, <1>2 DEF Live, Owns
<1>4. \A r \in Reqs : /\ ~Asked(q, r)' /\ ~Commanded(q, r)' /\ ~Questioned(q, r)' /\ ~Busy(q, r)'
                      /\ Lone(inbox'[q], Ask(r))
                      /\ Told(q, r)' <=> Told(q, r)
  BY <1>1, Empty DEF Asked, Commanded, Questioned, Busy, Told, Ask, Does, Looks, Tell
<1>5. \A p \in Procs : Tidy(p)' /\ Fewer(p)
  <2>1. Tidy(q)'
    BY <1>1, <1>4 DEF Rest, Single, Tidy, Ask, Tell
  <2>2. Fewer(q)
    BY <1>4 DEF Fewer, Has
  <2>3. ASSUME NEW p \in Procs, p # q PROVE Tidy(p)' /\ Fewer(p)
    BY <1>1, <2>3, SameAt DEF Rest, Single
  <2>4. QED
    BY <2>1, <2>2, <2>3
<1>6. Single' /\ Kept'
  BY <1>1, <1>3, <1>5, SingleStays, KeptStays DEF Rest
<1>7. Placed'
  BY <1>1, <1>3 DEF Rest, Placed
<1>8. Still'
  <2> SUFFICES ASSUME NEW p \in Procs
               PROVE  /\ ~Live(p)' => ~member'[p] /\ \A r \in Reqs : ~Asked(p, r)' /\ ~Busy(p, r)'
                      /\ proc'[p].state = "unused" => outbox'[p] = <<>>
                      /\ proc'[p].state = "starting" => ~Readied(p)'
                      /\ proc'[p].state = "running" =>
                           \A x \in Procs : x # p /\ proc'[x].id = proc'[p].id => outbox'[x] = <<>>
    BY DEF Still
  <2>1. CASE p = q
    BY <1>1, <1>2, <1>4, <2>1
  <2>2. CASE p # q
    <3>1. \A r \in Reqs : (Asked(p, r)' <=> Asked(p, r)) /\ (Busy(p, r)' <=> Busy(p, r))
      BY <1>1, <2>2 DEF Asked, Busy, Ask
    <3>2. Readied(p)' <=> Readied(p)
      BY <1>1 DEF Readied
    <3>3. QED
      BY <1>1, <1>2, <1>3, <2>2, <3>1, <3>2 DEF Rest, Still
  <2>3. QED
    BY <2>1, <2>2
<1>9. Undisturbed'
  <2> SUFFICES ASSUME NEW i \in Ids, NEW p \in Procs,
                      agents'[i] = p, Live(p)', ~dirty'[i], ~crashed'
               PROVE  Clean(i, p)'
    BY DEF Undisturbed
  <2>1. p # q
    BY <1>2 DEF Live
  <2>2. Clean(i, p)
    BY <1>1, <1>3, <2>1 DEF Rest, Undisturbed
  <2>3. QED
    BY <1>1, <1>2, <2>1, <2>2, CleanStays
<1>10. QED
  BY <1>6, <1>7, <1>8, <1>9 DEF Rest

\* A step of a live process that keeps its own pieces in order.
LEMMA WorkKeeps ==
  ASSUME TypeOK, Owned, Rest, NEW q \in Procs, Live(q),
         UNCHANGED <<agents, proc, req, registry, dirty, crashed>>,
         \A p \in Procs : p # q => /\ inbox'[p] = inbox[p] /\ outbox'[p] = outbox[p]
                                   /\ handlers'[p] = handlers[p] /\ member'[p] = member[p],
         Tidy(q)', Fewer(q), Readied(q)' <=> Readied(q),
         \A i \in Ids : agents[i] = q /\ ~dirty[i] /\ ~crashed => Clean(i, q)'
  PROVE  Rest'
<1>1. \A p \in Procs : Tidy(p)' /\ Fewer(p)
  BY SameAt DEF Rest, Single
<1>2. Single' /\ Kept'
  BY <1>1, SingleStays, KeptStays DEF Rest
<1>3. \A p \in Procs : (Live(p)' <=> Live(p)) /\ (Owns(p)' <=> Owns(p))
  BY DEF Live, Owns
<1>4. Placed'
  BY <1>3 DEF Rest, Placed
<1>5. Still'
  <2> SUFFICES ASSUME NEW p \in Procs
               PROVE  /\ ~Live(p)' => ~member'[p] /\ \A r \in Reqs : ~Asked(p, r)' /\ ~Busy(p, r)'
                      /\ proc'[p].state = "unused" => outbox'[p] = <<>>
                      /\ proc'[p].state = "starting" => ~Readied(p)'
                      /\ proc'[p].state = "running" =>
                           \A x \in Procs : x # p /\ proc'[x].id = proc'[p].id => outbox'[x] = <<>>
    BY DEF Still
  <2>1. /\ ~Live(p) => ~member[p] /\ \A r \in Reqs : ~Asked(p, r) /\ ~Busy(p, r)
        /\ proc[p].state = "unused" => outbox[p] = <<>>
        /\ proc[p].state = "starting" => ~Readied(p)
        /\ proc[p].state = "running" =>
             \A x \in Procs : x # p /\ proc[x].id = proc[p].id => outbox[x] = <<>>
    BY DEF Rest, Still
  <2>2. proc[p].state = "running" /\ p # q => proc[q].id # proc[p].id
    BY DEF Owned, Owns, Live
  <2>3. CASE p = q
    BY <1>3, <2>1, <2>3 DEF Live
  <2>4. CASE p # q
    <3>1. \A r \in Reqs : (Asked(p, r)' <=> Asked(p, r)) /\ (Busy(p, r)' <=> Busy(p, r))
      BY <2>4 DEF Asked, Busy, Ask
    <3>2. Readied(p)' <=> Readied(p)
      BY <2>4 DEF Readied
    <3>3. QED
      BY <1>3, <2>1, <2>2, <2>4, <3>1, <3>2
  <2>5. QED
    BY <2>3, <2>4
<1>6. Undisturbed'
  <2> SUFFICES ASSUME NEW i \in Ids, NEW p \in Procs,
                      agents'[i] = p, Live(p)', ~dirty'[i], ~crashed'
               PROVE  Clean(i, p)'
    BY DEF Undisturbed
  <2>1. Clean(i, p)
    BY <1>3 DEF Rest, Undisturbed
  <2>2. CASE p = q
    BY <2>2
  <2>3. CASE p # q
    BY <2>1, <2>3, CleanStays
  <2>4. QED
    BY <2>2, <2>3
<1>7. QED
  BY <1>2, <1>4, <1>5, <1>6 DEF Rest

\* An answer put into a queue where there was none.
LEMMA Answered ==
  ASSUME TypeOK, NEW q \in Procs, Tidy(q), NEW m \in Result, NEW r \in Reqs,
         outbox' = [outbox EXCEPT ![q] = Append(@, m)]
  PROVE  /\ Told(q, r)' <=> Told(q, r) \/ m.req = r
         /\ ~(Told(q, r) /\ m.req = r) => Lone(outbox'[q], Tell(r))
         /\ Readied(q)' <=> Readied(q)
         /\ Lone(outbox'[q], {Ready})
         /\ outbox'[q] = Append(outbox[q], m)
         /\ \A p \in Procs : p # q => outbox'[p] = outbox[p]
<1>1. /\ outbox'[q] = Append(outbox[q], m)
      /\ \A p \in Procs : p # q => outbox'[p] = outbox[p]
  BY DEF TypeOK
<1>2. outbox[q] \in Seq(Message) /\ Lone(outbox[q], Tell(r)) /\ Lone(outbox[q], {Ready})
  BY Queues DEF Tidy
<1>3. /\ Among(outbox'[q], Tell(r)) <=> Among(outbox[q], Tell(r)) \/ m.req = r
      /\ Among(outbox'[q], {Ready}) <=> Among(outbox[q], {Ready})
      /\ ~(Among(outbox[q], Tell(r)) /\ m.req = r) => Lone(outbox'[q], Tell(r))
      /\ Lone(outbox'[q], {Ready})
  <2>1. m \in Message /\ m \notin {Ready} /\ (m \in Tell(r) <=> m.req = r)
    BY ReadyIsNoResult DEF Tell
  <2>2. /\ Among(outbox'[q], Tell(r)) <=> Among(outbox[q], Tell(r)) \/ m \in Tell(r)
        /\ ~(Among(outbox[q], Tell(r)) /\ m \in Tell(r)) => Lone(outbox'[q], Tell(r))
    BY <1>1, <1>2, <2>1, Grown
  <2>3. /\ Among(outbox'[q], {Ready}) <=> Among(outbox[q], {Ready}) \/ m \in {Ready}
        /\ ~(Among(outbox[q], {Ready}) /\ m \in {Ready}) => Lone(outbox'[q], {Ready})
    BY <1>1, <1>2, <2>1, Grown
  <2>4. QED
    BY <2>1, <2>2, <2>3
<1>4. QED
  BY <1>1, <1>3 DEF Told, Readied, Tell

LEMMA HandleKeeps ==
  ASSUME TypeOK, Owned, Rest, NEW q \in Procs, Handle(q)
  PROVE  Rest'
<1>1. PICK c \in Command : c = Head(inbox[q])
  BY Queues, Shorter DEF Handle
<1>2. PICK t \in Reqs : t = c.req
  BY DEF Command
<1>3. /\ Live(q) /\ inbox[q] \in Seq(Command) /\ inbox[q] # <<>>
      /\ UNCHANGED <<agents, proc, req, registry, dirty, crashed>>
      /\ inbox'[q] = Tail(inbox[q])
      /\ \A p \in Procs : p # q => inbox'[p] = inbox[p] /\ member'[p] = member[p]
      /\ Tidy(q)
  <2>1. inbox[q] \in Seq(Command) /\ Tidy(q)
    BY Queues DEF Rest, Single
  <2>2. QED
    BY <2>1 DEF Handle, TypeOK
<1>4. \A r \in Reqs : /\ Lone(inbox'[q], Ask(r))
                      /\ Asked(q, r)' <=> Asked(q, r) /\ t # r
                      /\ Commanded(q, r)' <=> Commanded(q, r) /\ t # r
                      /\ Questioned(q, r)' <=> Questioned(q, r) /\ t # r
                      /\ t = r => /\ Asked(q, r)
                                  /\ c.cmd = "snapshot" => Questioned(q, r)
                                  /\ c.cmd # "snapshot" => Commanded(q, r)
  <2> SUFFICES ASSUME NEW r \in Reqs
               PROVE  /\ Lone(Tail(inbox[q]), Ask(r))
                      /\ Among(Tail(inbox[q]), Ask(r)) <=> Among(inbox[q], Ask(r)) /\ t # r
                      /\ Among(Tail(inbox[q]), Does(r)) <=> Among(inbox[q], Does(r)) /\ t # r
                      /\ Among(Tail(inbox[q]), Looks(r)) <=> Among(inbox[q], Looks(r)) /\ t # r
                      /\ t = r => /\ Among(inbox[q], Ask(r))
                                  /\ c.cmd = "snapshot" => Among(inbox[q], Looks(r))
                                  /\ c.cmd # "snapshot" => Among(inbox[q], Does(r))
    BY <1>3 DEF Asked, Commanded, Questioned, Ask, Does, Looks
  <2>1. Lone(inbox[q], Ask(r))
    BY <1>3 DEF Tidy
  <2>2. QED
    BY <1>1, <1>2, <1>3, <2>1, CommandTaken
<1>5. Asked(q, t) /\ ~Busy(q, t) /\ ~Told(q, t)
  BY <1>3, <1>4 DEF Tidy
<1>6. ASSUME NEW i \in Ids, agents[i] = q, ~dirty[i], ~crashed
      PROVE  /\ Clean(i, q) /\ ~Waits(t, "nothing")
             /\ c.cmd # "snapshot" => Commanding(i) /\ proc[q].state # "starting"
             /\ c.cmd = "snapshot" => t \in Refreshing
  <2>1. Clean(i, q) /\ proc[q].id = i
    BY <1>3, <1>6 DEF Rest, Undisturbed, Placed
  <2>2. ~Waits(t, "nothing")
    BY <1>5, <2>1 DEF Clean, Has
  <2>3. c.cmd # "snapshot" => req[t].id = i /\ Waits(t, "result") /\ Commanded(q, t)
    BY <1>4, <2>1, <2>2 DEF Rest, Kept, Expects, Waits
  <2>4. c.cmd = "snapshot" => Waits(t, "snapshot")
    BY <1>4, <2>2 DEF Rest, Kept, Expects, Waits
  <2>5. QED
    BY <2>1, <2>2, <2>3, <2>4 DEF Commanding, Refreshing, Clean
<1>7. CASE Answer(q, t, TRUE, member[q]) /\ UNCHANGED handlers
  <2>1. PICK m \in Result : /\ outbox' = [outbox EXCEPT ![q] = Append(@, m)]
                            /\ m.req = t /\ m.data = member[q]
    <3> DEFINE x == [type |-> "cmd-result", req |-> t, ok |-> TRUE, data |-> member[q]]
    <3>1. x \in Result /\ x.req = t /\ x.data = member[q]
      BY Queues DEF Result
    <3>2. outbox' = [outbox EXCEPT ![q] = Append(@, x)]
      BY <1>7 DEF Answer
    <3>3. QED
      BY <3>1, <3>2
  <2>2. /\ \A r \in Reqs : /\ Told(q, r)' <=> Told(q, r) \/ t = r
                           /\ ~(Told(q, r) /\ t = r) => Lone(outbox'[q], Tell(r))
        /\ Readied(q)' <=> Readied(q)
        /\ Lone(outbox'[q], {Ready})
        /\ outbox'[q] = Append(outbox[q], m)
        /\ \A p \in Procs : p # q => outbox'[p] = outbox[p]
    <3>1. Tidy(q) /\ outbox' = [outbox EXCEPT ![q] = Append(@, m)]
      BY <1>3, <2>1
    <3>2. ASSUME NEW r \in Reqs
          PROVE  /\ Told(q, r)' <=> Told(q, r) \/ m.req = r
                 /\ ~(Told(q, r) /\ m.req = r) => Lone(outbox'[q], Tell(r))
                 /\ Readied(q)' <=> Readied(q)
                 /\ Lone(outbox'[q], {Ready})
                 /\ outbox'[q] = Append(outbox[q], m)
                 /\ \A p \in Procs : p # q => outbox'[p] = outbox[p]
      BY <3>1, Answered
    <3>3. m.req = t
      BY <2>1
    <3>4. QED
      BY <3>2, <3>3
  <2>3. \A r \in Reqs : Busy(q, r)' <=> Busy(q, r)
    BY <1>7 DEF Busy
  <2>4. Tidy(q)'
    BY <1>3, <1>4, <1>5, <1>7, <2>2, <2>3 DEF Tidy, Ask, Tell
  <2>5. Fewer(q)
    BY <1>4, <1>5, <2>2, <2>3 DEF Fewer, Has
  <2>6. ASSUME NEW i \in Ids, agents[i] = q, ~dirty[i], ~crashed
        PROVE  Clean(i, q)'
    <3>1. /\ Clean(i, q) /\ ~Waits(t, "nothing")
          /\ c.cmd # "snapshot" => Commanding(i) /\ proc[q].state # "starting"
          /\ c.cmd = "snapshot" => t \in Refreshing
      BY <1>6, <2>6
    <3>2. \A r \in Reqs : Has(q, r)' => ~Waits(r, "nothing")'
      BY <1>3, <2>5, <3>1 DEF Fewer, Clean, Waits
    <3>3. (proc[q].state = "starting" \/ Readied(q))' => \E r \in Reqs : Spawning(i, q, r)'
      BY <1>3, <2>2, <3>1 DEF Clean, Spawning, Waits
    <3>4. proc'[q].state = "starting" =>
            ~member'[q] /\ \A r \in Reqs : ~Busy(q, r)' /\ ~Commanded(q, r)'
      <4>1. proc'[q].state = "starting" => ~member[q]
        BY <1>3, <3>1 DEF Clean
      <4>2. ~member[q] => ~member'[q]
        BY DEF Handle, TypeOK
      <4>3. QED
        BY <1>3, <1>4, <2>3, <3>1, <4>1, <4>2 DEF Clean
    <3>5. CASE c.cmd # "snapshot"
      <4>1. Commanding(i)'
        BY <1>3, <3>1, <3>5 DEF Commanding, Waits
      <4>2. QED
        BY <3>2, <3>3, <3>4, <4>1 DEF Clean
    <3>6. CASE c.cmd = "snapshot"
      <4>1. member'[q] = member[q]
        BY <1>1, <3>6 DEF Handle, TypeOK
      <4>2. m \in Message /\ m # Ready /\ m \in Reports(Refreshing')
        BY <1>3, <2>1, <3>1, <3>6, ReadyIsNoResult DEF Reports, Refreshing, Waits
      <4>3. Value(m, proc'[q].atStart) = member'[q]
        BY <2>1, <4>1, <4>2 DEF Value
      <4>4. outbox[q] \in Seq(Message)
        BY Queues
      <4>5. Converges(outbox'[q], Reports(Refreshing'), proc'[q].atStart, registry'[i], member'[q])
        BY <2>2, <4>2, <4>3, <4>4, ConvergesPut
      <4>6. QED
        BY <3>2, <3>3, <3>4, <4>5 DEF Clean, Reports
    <3>7. QED
      BY <3>5, <3>6
  <2>7. QED
    BY <1>3, <1>7, <2>2, <2>4, <2>5, <2>6, WorkKeeps
<1>8. CASE /\ handlers' = [handlers EXCEPT ![q] = @ \union {c}]
           /\ UNCHANGED outbox
           /\ c.cmd # "snapshot"
  <2>1. /\ handlers'[q] = handlers[q] \union {c}
        /\ \A p \in Procs : p # q => handlers'[p] = handlers[p]
    BY <1>8 DEF TypeOK
  <2>2. \A r \in Reqs : /\ Busy(q, r)' <=> Busy(q, r) \/ t = r
                        /\ Told(q, r)' <=> Told(q, r)
                        /\ \A d, e \in handlers'[q] : d.req = r /\ e.req = r => d = e
    <3>1. \A r \in Reqs : /\ Busy(q, r)' <=> Busy(q, r) \/ t = r
                          /\ Told(q, r)' <=> Told(q, r)
      BY <1>2, <1>8, <2>1 DEF Busy, Told, Tell
    <3>2. \A r \in Reqs : \A d, e \in handlers'[q] : d.req = r /\ e.req = r => d = e
      BY <1>2, <1>3, <1>5, <2>1 DEF Busy, Tidy
    <3>3. QED
      BY <3>1, <3>2
  <2>3. Readied(q)' <=> Readied(q)
    BY <1>8 DEF Readied
  <2>4. Tidy(q)'
    BY <1>3, <1>4, <1>5, <1>8, <2>2 DEF Tidy, Ask, Tell
  <2>5. Fewer(q)
    BY <1>4, <1>5, <1>8, <2>2 DEF Fewer, Has
  <2>6. ASSUME NEW i \in Ids, agents[i] = q, ~dirty[i], ~crashed
        PROVE  Clean(i, q)'
    <3>1. Clean(i, q) /\ Commanding(i) /\ proc[q].state # "starting"
      BY <1>6, <1>8, <2>6
    <3>2. \A r \in Reqs : Has(q, r)' => ~Waits(r, "nothing")'
      BY <1>3, <2>5, <3>1 DEF Fewer, Clean, Waits
    <3>3. (proc[q].state = "starting" \/ Readied(q))' => \E r \in Reqs : Spawning(i, q, r)'
      BY <1>3, <2>3, <3>1 DEF Clean, Spawning, Waits
    <3>4. Commanding(i)' /\ proc'[q].state # "starting"
      BY <1>3, <3>1 DEF Commanding, Waits
    <3>5. QED
      BY <3>2, <3>3, <3>4 DEF Clean
  <2>7. QED
    BY <1>3, <1>8, <2>1, <2>3, <2>4, <2>5, <2>6, WorkKeeps
<1>9. QED
  BY <1>1, <1>2, <1>7, <1>8 DEF Handle

LEMMA FinishKeeps ==
  ASSUME TypeOK, Owned, Rest, NEW q \in Procs, NEW c \in handlers[q], NEW ok \in BOOLEAN,
         Finish(q, c, ok)
  PROVE  Rest'
<1>1. PICK t \in Reqs : t = c.req
  BY Queues DEF Command
<1>2. /\ UNCHANGED <<agents, proc, inbox, req, registry, dirty, crashed>>
      /\ handlers'[q] = handlers[q] \ {c}
      /\ \A p \in Procs : p # q => handlers'[p] = handlers[p] /\ member'[p] = member[p]
      /\ Tidy(q)
  BY DEF Finish, TypeOK, Rest, Single
<1>3. Busy(q, t) /\ ~Asked(q, t) /\ ~Told(q, t) /\ Live(q)
  <2>1. Busy(q, t)
    BY <1>1 DEF Busy
  <2>2. QED
    BY <1>2, <2>1 DEF Tidy, Rest, Still
<1>4. PICK m \in Result : outbox' = [outbox EXCEPT ![q] = Append(@, m)] /\ m.req = t
  <2> DEFINE x == [type |-> "cmd-result", req |-> t, ok |-> ok, data |-> FALSE]
  <2>1. x \in Result /\ x.req = t
    BY DEF Result
  <2>2. outbox' = [outbox EXCEPT ![q] = Append(@, x)]
    BY <1>1 DEF Finish, Answer
  <2>3. QED
    BY <2>1, <2>2
<1>5. /\ \A r \in Reqs : /\ Told(q, r)' <=> Told(q, r) \/ t = r
                         /\ ~(Told(q, r) /\ t = r) => Lone(outbox'[q], Tell(r))
      /\ Readied(q)' <=> Readied(q)
      /\ Lone(outbox'[q], {Ready})
      /\ \A p \in Procs : p # q => outbox'[p] = outbox[p]
  <2>1. ASSUME NEW r \in Reqs
        PROVE  /\ Told(q, r)' <=> Told(q, r) \/ m.req = r
               /\ ~(Told(q, r) /\ m.req = r) => Lone(outbox'[q], Tell(r))
               /\ Readied(q)' <=> Readied(q)
               /\ Lone(outbox'[q], {Ready})
               /\ \A p \in Procs : p # q => outbox'[p] = outbox[p]
    BY <1>2, <1>4, Answered
  <2>2. m.req = t
    BY <1>4
  <2>3. QED
    BY <2>1, <2>2
<1>6. \A r \in Reqs : /\ Busy(q, r)' <=> Busy(q, r) /\ t # r
                      /\ Asked(q, r)' <=> Asked(q, r)
                      /\ Commanded(q, r)' <=> Commanded(q, r)
                      /\ Questioned(q, r)' <=> Questioned(q, r)
                      /\ \A d, e \in handlers'[q] : d.req = r /\ e.req = r => d = e
  <2>1. \A r \in Reqs : /\ Asked(q, r)' <=> Asked(q, r)
                        /\ Commanded(q, r)' <=> Commanded(q, r)
                        /\ Questioned(q, r)' <=> Questioned(q, r)
    BY <1>2 DEF Asked, Commanded, Questioned, Ask, Does, Looks
  <2>2. \A r \in Reqs : /\ Busy(q, r)' <=> Busy(q, r) /\ t # r
                        /\ \A d, e \in handlers'[q] : d.req = r /\ e.req = r => d = e
    BY <1>1, <1>2 DEF Busy, Tidy
  <2>3. QED
    BY <2>1, <2>2
<1>7. Tidy(q)'
  <2>1. \A r \in Reqs : Lone(inbox'[q], Ask(r))
    BY <1>2 DEF Tidy
  <2>2. \A r \in Reqs : Lone(outbox'[q], Tell(r))
    BY <1>3, <1>5
  <2>3. ASSUME NEW r \in Reqs
        PROVE  /\ ~(Asked(q, r)' /\ Busy(q, r)')
               /\ ~(Asked(q, r)' /\ Told(q, r)')
               /\ ~(Busy(q, r)' /\ Told(q, r)')
    BY <1>2, <1>3, <1>5, <1>6 DEF Tidy
  <2>4. QED
    BY <1>5, <1>6, <2>1, <2>2, <2>3 DEF Tidy, Ask, Tell
<1>8. Fewer(q)
  BY <1>3, <1>5, <1>6 DEF Fewer, Has
<1>9. ASSUME NEW i \in Ids, agents[i] = q, ~dirty[i], ~crashed
      PROVE  Clean(i, q)'
  <2>1. Clean(i, q) /\ proc[q].id = i
    BY <1>3, <1>9 DEF Rest, Undisturbed, Placed
  <2>2. ~Waits(t, "nothing")
    BY <1>3, <2>1 DEF Clean, Has
  <2>3. req[t].id = i /\ Waits(t, "result") /\ proc[q].state # "starting"
    BY <1>3, <2>1, <2>2 DEF Rest, Kept, Expects, Waits, Clean
  <2>4. \A r \in Reqs : Has(q, r)' => ~Waits(r, "nothing")'
    BY <1>2, <1>8, <2>1 DEF Fewer, Clean, Waits
  <2>5. (proc[q].state = "starting" \/ Readied(q))' => \E r \in Reqs : Spawning(i, q, r)'
    BY <1>2, <1>5, <2>1 DEF Clean, Spawning, Waits
  <2>6. Commanding(i)' /\ proc'[q].state # "starting"
    BY <1>2, <2>3 DEF Commanding, Waits
  <2>7. QED
    BY <2>4, <2>5, <2>6 DEF Clean
<1>10. QED
  BY <1>2, <1>3, <1>5, <1>7, <1>8, <1>9, WorkKeeps

-----------------------------------------------------------------------------
(* The requests. *)

\* A request changes what it waits for, and nothing is under way of it unless it gives up.
LEMMA RequestKeeps ==
  ASSUME TypeOK, Rest, NEW r \in Reqs,
         UNCHANGED <<agents, proc, inbox, outbox, handlers, member, registry, crashed>>,
         \A s \in Reqs : s # r => req'[s] = req[s],
         req'[r].await = "nothing" \/ \A p \in Procs : ~Has(p, r),
         \A i \in Ids : ~dirty'[i] =>
           /\ ~dirty[i]
           /\ \A p \in Procs : agents[i] = p => ~Has(p, r) /\ ~Spawning(i, p, r)
           /\ ~(req[r].id = i /\ Waits(r, "result"))
  PROVE  Rest'
<1>1. \A p \in Procs : /\ Tidy(p)' /\ Fewer(p) /\ (Readied(p)' <=> Readied(p))
                       /\ \A s \in Reqs : Has(p, s)' <=> Has(p, s)
  BY SameAt DEF Rest, Single
<1>2. Single' /\ Kept'
  BY <1>1, SingleStays, KeptStays DEF Rest
<1>3. \A p \in Procs : (Live(p)' <=> Live(p)) /\ (Owns(p)' <=> Owns(p))
  BY DEF Live, Owns
<1>4. Placed'
  BY <1>3 DEF Rest, Placed
<1>5. Still'
  <2>1. \A p \in Procs, s \in Reqs : (Asked(p, s)' <=> Asked(p, s)) /\ (Busy(p, s)' <=> Busy(p, s))
    BY DEF Asked, Busy, Ask
  <2>2. QED
    BY <1>1, <1>3, <2>1 DEF Rest, Still
<1>6. Undisturbed'
  <2> SUFFICES ASSUME NEW i \in Ids, NEW p \in Procs,
                      agents'[i] = p, Live(p)', ~dirty'[i], ~crashed'
               PROVE  Clean(i, p)'
    BY DEF Undisturbed
  <2>1. Clean(i, p)
    BY <1>3 DEF Rest, Undisturbed
  <2>2. /\ \A s \in Reqs : Has(p, s) => req'[s] = req[s]
        /\ \A s \in Reqs : Spawning(i, p, s) \/ (req[s].id = i /\ Waits(s, "result"))
                             => req'[s] = req[s]
    OBVIOUS
  <2>3. QED
    BY <2>1, <2>2, CleanStays
<1>7. QED
  BY <1>2, <1>4, <1>5, <1>6 DEF Rest

\* Whose pieces are at the process the map has for an id.
LEMMA Placing ==
  ASSUME Rest, NEW i \in Ids, NEW p \in Procs, agents[i] = p, NEW r \in Reqs, Has(p, r)
  PROVE  Waits(r, "nothing") \/ (req[r].id = i /\ req[r].await \in {"result", "snapshot"})
BY KeptFor DEF Rest, Placed, Expects

LEMMA SpawnTimeoutKeeps ==
  ASSUME TypeOK, Rest, NEW r \in Reqs, SpawnTimeout(r)
  PROVE  Rest'
<1>1. /\ Waits(r, "ready") /\ req[r].id \in Ids
      /\ req'[r].await = "nothing"
      /\ \A s \in Reqs : s # r => req'[s] = req[s]
      /\ \A i \in Ids : ~dirty'[i] => ~dirty[i] /\ i # req[r].id
      /\ UNCHANGED <<agents, proc, inbox, outbox, handlers, member, registry, crashed>>
  BY DEF SpawnTimeout, TypeOK, Request, Idle
<1>2. \A i \in Ids : ~dirty'[i] =>
        /\ ~dirty[i]
        /\ \A p \in Procs : agents[i] = p => ~Has(p, r) /\ ~Spawning(i, p, r)
        /\ ~(req[r].id = i /\ Waits(r, "result"))
  BY <1>1, Placing DEF Waits, Spawning
<1>3. QED
  BY <1>1, <1>2, RequestKeeps

LEMMA KillTimeoutKeeps ==
  ASSUME TypeOK, Rest, NEW r \in Reqs, KillTimeout(r)
  PROVE  Rest'
<1>1. /\ Waits(r, "exit")
      /\ req'[r].await = "nothing"
      /\ \A s \in Reqs : s # r => req'[s] = req[s]
      /\ UNCHANGED <<agents, proc, inbox, outbox, handlers, member, registry, dirty, crashed>>
  BY DEF KillTimeout, TypeOK, Idle
<1>2. \A i \in Ids : ~dirty'[i] =>
        /\ ~dirty[i]
        /\ \A p \in Procs : agents[i] = p => ~Has(p, r) /\ ~Spawning(i, p, r)
        /\ ~(req[r].id = i /\ Waits(r, "result"))
  BY <1>1, Placing DEF Waits, Spawning
<1>3. QED
  BY <1>1, <1>2, RequestKeeps

LEMMA WatchdogKeeps ==
  ASSUME TypeOK, PendingExact, Rest, NEW r \in Reqs, CommandTimeout(r)
  PROVE  Rest'
<1>1. /\ req[r].await \in {"result", "snapshot"} /\ req[r].id \in Ids
      /\ req'[r].await = "nothing"
      /\ \A s \in Reqs : s # r => req'[s] = req[s]
      /\ \A i \in Ids : ~dirty'[i] => ~dirty[i] /\ i # req[r].id
      /\ UNCHANGED <<agents, proc, inbox, outbox, handlers, member, registry, crashed>>
  BY DEF CommandTimeout, TypeOK, Request, Idle, PendingExact
<1>2. \A i \in Ids : ~dirty'[i] =>
        /\ ~dirty[i]
        /\ \A p \in Procs : agents[i] = p => ~Has(p, r) /\ ~Spawning(i, p, r)
        /\ ~(req[r].id = i /\ Waits(r, "result"))
  BY <1>1, Placing DEF Waits, Spawning
<1>3. QED
  BY <1>1, <1>2, RequestKeeps

LEMMA KillBeginKeeps ==
  ASSUME TypeOK, Rest, NEW r \in Reqs, NEW i \in Ids, KillBegin(r, i)
  PROVE  Rest'
<1>1. /\ Fresh(r)
      /\ \A s \in Reqs : s # r => req'[s] = req[s]
      /\ UNCHANGED <<agents, proc, inbox, outbox, handlers, member, registry, dirty, crashed>>
  BY DEF KillBegin, Await, TypeOK
<1>2. Waits(r, "nothing") /\ \A p \in Procs : ~Has(p, r)
  BY <1>1, FreshHasNone
<1>3. \A j \in Ids : ~dirty'[j] =>
        /\ ~dirty[j]
        /\ \A p \in Procs : agents[j] = p => ~Has(p, r) /\ ~Spawning(j, p, r)
        /\ ~(req[r].id = j /\ Waits(r, "result"))
  BY <1>1, <1>2 DEF Waits, Spawning
<1>4. QED
  BY <1>1, <1>2, <1>3, RequestKeeps

LEMMA SpawnBeginKeeps ==
  ASSUME TypeOK, Rest, NEW r \in Reqs, NEW i \in Ids, NEW q \in Procs,
         NEW atStart \in BOOLEAN, SpawnBegin(r, i, q, atStart)
  PROVE  Rest'
<1>1. /\ Fresh(r) /\ agents[i] = NoProc /\ proc[q].state = "unused"
      /\ agents'[i] = q /\ \A j \in Ids : j # i => agents'[j] = agents[j] /\ dirty'[j] = dirty[j]
      /\ UNCHANGED <<inbox, outbox, handlers, member, registry, crashed>>
  BY DEF SpawnBegin, TypeOK
<1>2. /\ proc'[q].state = "starting" /\ proc'[q].id = i
      /\ \A p \in Procs : p # q => proc'[p] = proc[p]
      /\ req'[r].await = "ready" /\ req'[r].proc = q /\ req'[r].id = i
      /\ \A s \in Reqs : s # r => req'[s] = req[s]
  BY DEF SpawnBegin, Await, TypeOK
<1>3. Waits(r, "nothing") /\ \A p \in Procs : ~Has(p, r)
  BY <1>1, FreshHasNone
<1>4. /\ ~member[q] /\ outbox[q] = <<>> /\ ~Readied(q)
      /\ \A s \in Reqs : ~Has(q, s) /\ ~Asked(q, s) /\ ~Busy(q, s)
  <2>1. ~member[q] /\ outbox[q] = <<>> /\ \A s \in Reqs : ~Asked(q, s) /\ ~Busy(q, s)
    BY <1>1 DEF Rest, Still, Live
  <2>2. ~Readied(q) /\ \A s \in Reqs : ~Told(q, s)
    BY <2>1, Empty DEF Readied, Told
  <2>3. QED
    BY <2>1, <2>2 DEF Has
<1>5. \A p \in Procs : /\ Tidy(p)' /\ Fewer(p) /\ (Readied(p)' <=> Readied(p))
                       /\ \A s \in Reqs : Has(p, s)' <=> Has(p, s)
  BY <1>1, SameAt DEF Rest, Single
<1>6. \A p \in Procs, s \in Reqs : (Asked(p, s)' <=> Asked(p, s)) /\ (Busy(p, s)' <=> Busy(p, s))
  BY <1>1 DEF Asked, Busy, Ask
<1>7. Single' /\ Kept'
  <2>1. \A p \in Procs : proc'[p].id = proc[p].id \/ \A s \in Reqs : ~Has(p, s)
    BY <1>2, <1>4
  <2>2. \A s \in Reqs : req'[s] = req[s] \/ \A p \in Procs : ~Has(p, s)'
    BY <1>2, <1>3, <1>5
  <2>3. QED
    BY <1>5, <2>1, <2>2, SingleStays, KeptStays DEF Rest
<1>8. Placed'
  BY <1>1, <1>2 DEF Rest, Placed, Owns, Live
<1>9. Still'
  BY <1>1, <1>2, <1>4, <1>5, <1>6 DEF Rest, Still, Live
<1>10. Undisturbed'
  <2> SUFFICES ASSUME NEW j \in Ids, NEW p \in Procs,
                      agents'[j] = p, Live(p)', ~dirty'[j], ~crashed'
               PROVE  Clean(j, p)'
    BY DEF Undisturbed
  <2>1. CASE j = i
    <3>1. p = q /\ Spawning(i, q, r)'
      BY <1>1, <1>2, <2>1 DEF Spawning, Waits
    <3>2. \A s \in Reqs : ~Has(q, s)' /\ ~Commanded(q, s)' /\ ~Busy(q, s)'
      BY <1>4, <1>5, <1>6, <1>1 DEF Asked, Commanded, Among, Ask, Does
    <3>3. QED
      BY <1>1, <1>2, <1>4, <2>1, <3>1, <3>2 DEF Clean
  <2>2. CASE j # i
    <3>1. agents[j] = p /\ p # q
      BY <1>1, <2>2 DEF Rest, Placed, Owns, Live
    <3>2. Clean(j, p)
      BY <1>1, <1>2, <2>2, <3>1 DEF Rest, Undisturbed, Live
    <3>3. /\ \A s \in Reqs : Has(p, s) => req'[s] = req[s]
          /\ \A s \in Reqs : Spawning(j, p, s) \/ (req[s].id = j /\ Waits(s, "result"))
                               => req'[s] = req[s]
      BY <1>2, <1>3 DEF Spawning, Waits
    <3>4. QED
      BY <1>1, <1>2, <3>1, <3>2, <3>3, CleanStays
  <2>3. QED
    BY <2>1, <2>2
<1>11. QED
  BY <1>7, <1>8, <1>9, <1>10 DEF Rest

LEMMA ExitEventKeeps ==
  ASSUME TypeOK, Owned, Rest, NEW q \in Procs, ExitEvent(q)
  PROVE  Rest'
<1>1. /\ proc[q].state = "exited" /\ proc[q].id \in Ids
      /\ agents'[proc[q].id] = NoProc
      /\ \A j \in Ids : j # proc[q].id => agents'[j] = agents[j]
      /\ UNCHANGED <<inbox, outbox, handlers, member, registry, dirty, crashed>>
      /\ proc'[q].state = "gone" /\ proc'[q].id = proc[q].id
      /\ \A p \in Procs : p # q => proc'[p] = proc[p]
  BY DEF ExitEvent, TypeOK
<1>2. \A r \in Reqs : \/ req'[r] = req[r]
                      \/ /\ req'[r].await = "nothing"
                         /\ req[r].proc = q /\ req[r].await \in {"ready", "exit"}
  BY DEF ExitEvent, Idle
<1>3. \A p \in Procs : /\ Live(p)' <=> Live(p)
                       /\ p # q => (Owns(p)' <=> Owns(p))
                       /\ proc'[p].id = proc[p].id
  BY <1>1 DEF Live, Owns
<1>4. \A p \in Procs : /\ Tidy(p)' /\ Fewer(p) /\ (Readied(p)' <=> Readied(p))
                       /\ \A s \in Reqs : Has(p, s)' <=> Has(p, s)
  BY <1>1, SameAt DEF Rest, Single
<1>5. \A p \in Procs, s \in Reqs : (Asked(p, s)' <=> Asked(p, s)) /\ (Busy(p, s)' <=> Busy(p, s))
  BY <1>1 DEF Asked, Busy, Ask
<1>6. Single' /\ Kept'
  BY <1>2, <1>3, <1>4, SingleStays, KeptStays DEF Rest
<1>7. \A i \in Ids, p \in Procs : agents'[i] = p => agents[i] = p /\ p # q
  BY <1>1, ControlPlaneAssumption DEF Rest, Placed
<1>8. Placed'
  BY <1>3, <1>7 DEF Rest, Placed
<1>9. Still'
  BY <1>1, <1>3, <1>4, <1>5 DEF Rest, Still
<1>10. Undisturbed'
  <2> SUFFICES ASSUME NEW i \in Ids, NEW p \in Procs,
                      agents'[i] = p, Live(p)', ~dirty'[i], ~crashed'
               PROVE  Clean(i, p)'
    BY DEF Undisturbed
  <2>1. agents[i] = p /\ p # q
    BY <1>7
  <2>2. Clean(i, p)
    BY <1>1, <1>3, <2>1 DEF Rest, Undisturbed
  <2>3. \A s \in Reqs : Has(p, s) => req'[s] = req[s]
    BY <1>2, <2>1, <2>2, Placing DEF Clean, Waits
  <2>4. \A s \in Reqs : Spawning(i, p, s) \/ (req[s].id = i /\ Waits(s, "result"))
                          => req'[s] = req[s]
    BY <1>2, <2>1 DEF Spawning, Waits
  <2>5. QED
    BY <1>1, <2>1, <2>2, <2>3, <2>4, CleanStays
<1>11. QED
  BY <1>6, <1>8, <1>9, <1>10 DEF Rest

\* A message is taken from a process's channel.
LEMMA OneTaken ==
  ASSUME TypeOK, Single, NEW q \in Procs, outbox[q] # <<>>,
         outbox' = [outbox EXCEPT ![q] = Tail(@)]
  PROVE  /\ outbox'[q] = Tail(outbox[q]) /\ outbox[q] \in Seq(Message)
         /\ \A p \in Procs : p # q => outbox'[p] = outbox[p]
         /\ \A p \in Procs, r \in Reqs : /\ Told(p, r)' => Told(p, r)
                                         /\ Lone(outbox'[p], Tell(r))
         /\ \A p \in Procs : /\ Readied(p)' => Readied(p)
                             /\ Lone(outbox'[p], {Ready})
                             /\ outbox[p] = <<>> => outbox'[p] = <<>>
         /\ Head(outbox[q]) = Ready => Readied(q) /\ ~Readied(q)'
         /\ Head(outbox[q]) # Ready =>
              /\ Readied(q)' <=> Readied(q)
              /\ \A r \in Reqs : Head(outbox[q]).req = r => Told(q, r) /\ ~Told(q, r)'
<1>1. /\ outbox'[q] = Tail(outbox[q])
      /\ \A p \in Procs : p # q => outbox'[p] = outbox[p]
      /\ outbox[q] \in Seq(Message)
  BY Queues DEF TypeOK
<1>2. \A p \in Procs : Lone(outbox[p], {Ready}) /\ \A r \in Reqs : Lone(outbox[p], Tell(r))
  BY DEF Single, Tidy
<1>3. /\ Lone(outbox'[q], {Ready})
      /\ Readied(q)' => Readied(q)
      /\ Head(outbox[q]) = Ready => Readied(q) /\ ~Readied(q)'
      /\ Head(outbox[q]) # Ready => (Readied(q)' <=> Readied(q))
  <2>1. /\ Lone(Tail(outbox[q]), {Ready})
        /\ Among(Tail(outbox[q]), {Ready}) => Among(outbox[q], {Ready})
        /\ Head(outbox[q]) \in {Ready} => /\ Among(outbox[q], {Ready})
                                          /\ ~Among(Tail(outbox[q]), {Ready})
        /\ Head(outbox[q]) \notin {Ready} /\ Among(outbox[q], {Ready})
             => Among(Tail(outbox[q]), {Ready})
    BY <1>1, <1>2, Shrunk
  <2>2. QED
    BY <1>1, <2>1 DEF Readied
<1>4. ASSUME NEW r \in Reqs
      PROVE  /\ Lone(outbox'[q], Tell(r))
             /\ Told(q, r)' => Told(q, r)
             /\ Head(outbox[q]) # Ready /\ Head(outbox[q]).req = r => Told(q, r) /\ ~Told(q, r)'
  <2>1. /\ Lone(Tail(outbox[q]), Tell(r))
        /\ Head(outbox[q]) = Ready => (Among(Tail(outbox[q]), Tell(r)) <=> Among(outbox[q], Tell(r)))
        /\ Head(outbox[q]) # Ready =>
             /\ Among(Tail(outbox[q]), Tell(r)) <=> Among(outbox[q], Tell(r)) /\ Head(outbox[q]).req # r
             /\ Head(outbox[q]).req = r => Among(outbox[q], Tell(r))
    BY <1>1, <1>2, MessageTaken
  <2>2. QED
    BY <1>1, <2>1 DEF Told, Tell
<1>5. ASSUME NEW p \in Procs, p # q
      PROVE  /\ \A r \in Reqs : (Told(p, r)' <=> Told(p, r)) /\ Lone(outbox'[p], Tell(r))
             /\ Readied(p)' <=> Readied(p)
             /\ Lone(outbox'[p], {Ready})
             /\ outbox[p] = <<>> => outbox'[p] = <<>>
  BY <1>1, <1>2, <1>5 DEF Told, Readied, Tell
<1>6. QED
  BY <1>1, <1>3, <1>4, <1>5

\* Nothing but the registry is affected when no command follows from it.
LEMMA TakenKeeps ==
  ASSUME TypeOK, Rest, NEW q \in Procs, outbox[q] # <<>>,
         outbox' = [outbox EXCEPT ![q] = Tail(@)],
         UNCHANGED <<agents, proc, inbox, handlers, member>>,
         \A r \in Reqs : req'[r] = req[r] \/ req'[r].await = "nothing"
  PROVE  Single' /\ Placed' /\ Still' /\ Kept'
<1>1. /\ \A p \in Procs, r \in Reqs : /\ Told(p, r)' => Told(p, r)
                                      /\ Lone(outbox'[p], Tell(r))
      /\ \A p \in Procs : /\ Readied(p)' => Readied(p)
                          /\ Lone(outbox'[p], {Ready})
                          /\ outbox[p] = <<>> => outbox'[p] = <<>>
  BY OneTaken DEF Rest
<1>2. \A p \in Procs, r \in Reqs : /\ Asked(p, r)' <=> Asked(p, r)
                                   /\ Commanded(p, r)' <=> Commanded(p, r)
                                   /\ Questioned(p, r)' <=> Questioned(p, r)
                                   /\ Busy(p, r)' <=> Busy(p, r)
  BY DEF Asked, Commanded, Questioned, Busy, Ask, Does, Looks
<1>3. ASSUME NEW p \in Procs PROVE Tidy(p)' /\ Fewer(p)
  <2>1. Tidy(p)
    BY DEF Rest, Single
  <2>2. Tidy(p)'
    BY <1>1, <1>2, <2>1 DEF Tidy, Ask, Tell
  <2>3. Fewer(p)
    BY <1>1, <1>2 DEF Fewer, Has
  <2>4. QED
    BY <2>2, <2>3
<1>4. Single' /\ Kept'
  BY <1>3, SingleStays, KeptStays DEF Rest
<1>5. \A p \in Procs : (Live(p)' <=> Live(p)) /\ (Owns(p)' <=> Owns(p))
  BY DEF Live, Owns
<1>6. Placed'
  BY <1>5 DEF Rest, Placed
<1>7. Still'
  BY <1>1, <1>2, <1>5 DEF Rest, Still
<1>8. QED
  BY <1>4, <1>6, <1>7

LEMMA ReadyMessageKeeps ==
  ASSUME TypeOK, Owned, Rest, NEW q \in Procs, ReadyMessage(q)
  PROVE  Rest'
<1> DEFINE waiting == {r \in Reqs : Waits(r, "ready") /\ req[r].proc = q}
<1>1. /\ outbox[q] # <<>> /\ Head(outbox[q]) = Ready
      /\ outbox' = [outbox EXCEPT ![q] = Tail(@)]
      /\ UNCHANGED <<agents, proc, inbox, handlers, member, dirty>>
      /\ \A r \in Reqs : \/ req'[r] = req[r]
                         \/ req'[r].await = "nothing" /\ Waits(r, "ready") /\ req[r].proc = q
  BY DEF ReadyMessage, Crash, Idle
<1>2. Single' /\ Placed' /\ Still' /\ Kept'
  BY <1>1, TakenKeeps
<1>3. CASE crashed'
  BY <1>2, <1>3 DEF Rest, Undisturbed
<1>4. CASE ~crashed'
  <2>1. /\ ~crashed
        /\ registry' = IF waiting = {} THEN registry
                       ELSE [registry EXCEPT ![proc[q].id] = proc[q].atStart]
    BY <1>4 DEF ReadyMessage, Crash, Seed
  <2>2. proc[q].id \in Ids /\ registry \in [Ids -> BOOLEAN]
    BY DEF TypeOK
  <2> SUFFICES ASSUME NEW i \in Ids, NEW p \in Procs,
                      agents'[i] = p, Live(p)', ~dirty'[i]
               PROVE  Clean(i, p)'
    BY <1>2 DEF Rest, Undisturbed
  <2>3. Clean(i, p) /\ proc[p].id = i /\ agents[i] = p /\ Live(p)
    BY <1>1, <2>1 DEF Rest, Undisturbed, Placed, Live
  <2>4. \A r \in Reqs : Has(p, r) => req'[r] = req[r]
    BY <1>1, <2>3, Placing DEF Waits
  <2>5. outbox[q] \in Seq(Message) /\ outbox'[q] = Tail(outbox[q])
        /\ Readied(q) /\ ~Readied(q)'
        /\ \A r \in Reqs : Told(q, r)' => Told(q, r)
        /\ \A x \in Procs : x # q => outbox'[x] = outbox[x]
    BY <1>1, OneTaken DEF Rest
  <2>6. CASE p # q
    <3>1. registry'[i] = registry[i] \/ proc[p].state = "starting"
      BY <1>1, <2>1, <2>2, <2>3, <2>6 DEF Rest, Still, Live
    <3>2. \A r \in Reqs : Spawning(i, p, r) \/ (req[r].id = i /\ Waits(r, "result"))
                            => req'[r] = req[r]
      BY <1>1, <2>6 DEF Spawning, Waits
    <3>3. QED
      BY <1>1, <2>3, <2>4, <2>5, <2>6, <3>1, <3>2, CleanStays
  <2>7. CASE p = q
    <3>1. PICK r \in Reqs : Spawning(i, q, r)
      BY <2>3, <2>5, <2>7 DEF Clean
    <3>2. registry'[i] = proc[q].atStart /\ proc[q].state # "starting"
      <4>1. waiting # {}
        BY <3>1 DEF Spawning
      <4>2. QED
        BY <2>1, <2>2, <2>3, <2>5, <2>7, <4>1 DEF Rest, Still
    <3>3. \A s \in Reqs : Has(q, s)' => ~Waits(s, "nothing")'
      <4>1. \A s \in Reqs : Has(q, s)' => Has(q, s)
        BY <1>1, <2>5 DEF Has, Asked, Busy, Ask
      <4>2. QED
        BY <2>3, <2>4, <2>7, <4>1 DEF Clean, Waits
    <3>4. CASE Commanding(i)
      <4>1. Commanding(i)'
        BY <1>1, <3>4 DEF Commanding, Waits
      <4>2. QED
        BY <1>1, <2>5, <2>7, <3>2, <3>3, <4>1 DEF Clean
    <3>5. CASE \E s \in Reqs : Questioned(q, s)
      <4>1. \E s \in Reqs : Questioned(q, s)'
        BY <1>1, <3>5 DEF Questioned, Looks
      <4>2. QED
        BY <1>1, <2>5, <2>7, <3>2, <3>3, <4>1 DEF Clean
    <3>6. CASE Converges(outbox[q], Reports(Refreshing), proc[q].atStart, registry[i], member[q])
      <4>1. Ready \in Reports(Refreshing) /\ Value(Ready, proc[q].atStart) = registry'[i]
        BY <3>2 DEF Reports, Value
      <4>2. Converges(outbox'[q], Reports(Refreshing), proc[q].atStart, registry'[i], member[q])
        BY <1>1, <2>5, <3>6, <4>1, ConvergesTaken
      <4>3. \A s \in Reqs : s \in Refreshing <=> s \in Refreshing'
        BY <1>1 DEF Refreshing, Waits
      <4>4. outbox'[q] \in Seq(Message)
        BY <1>1, <2>5
      <4>5. Converges(outbox'[q], Reports(Refreshing'), proc[q].atStart, registry'[i], member[q])
        BY <4>2, <4>3, <4>4, ConvergesSame
      <4>6. QED
        BY <1>1, <2>5, <2>7, <3>2, <3>3, <4>5 DEF Clean, Reports
    <3>7. QED
      BY <2>3, <2>7, <3>2, <3>4, <3>5, <3>6 DEF Clean
  <2>8. QED
    BY <2>6, <2>7
<1>5. QED
  BY <1>3, <1>4

\* What the channel of the process it is sent to holds then.
LEMMA OnePosted ==
  ASSUME TypeOK, NEW r \in Reqs, NEW i \in Ids, NEW cmd \in Commands, NEW for,
         NEW k \in Procs, k = agents[i], Post(r, i, cmd, for)
  PROVE  /\ req'[r].await = for /\ req'[r].id = i
         /\ \A s \in Reqs : s # r => req'[s] = req[s]
         /\ \A p \in Procs : p # k => inbox'[p] = inbox[p]
         /\ \A s \in Reqs :
              /\ Asked(k, s)' <=> Asked(k, s) \/ s = r
              /\ Commanded(k, s)' <=> Commanded(k, s) \/ (s = r /\ cmd # "snapshot")
              /\ Questioned(k, s)' <=> Questioned(k, s) \/ (s = r /\ cmd = "snapshot")
              /\ Lone(inbox[k], Ask(s)) /\ ~(Asked(k, s) /\ s = r) => Lone(inbox'[k], Ask(s))
<1> DEFINE c == [req |-> r, cmd |-> cmd]
<1>1. /\ req'[r].await = for /\ req'[r].id = i
      /\ \A s \in Reqs : s # r => req'[s] = req[s]
      /\ \A p \in Procs : p # k => inbox'[p] = inbox[p]
  BY DEF Post, Await, TypeOK
<1>2. c \in Command /\ c.req = r /\ c.cmd = cmd
  BY DEF Command
<1>3. inbox'[k] = Append(inbox[k], c) /\ inbox[k] \in Seq(Command)
  BY Queues DEF Post, TypeOK
<1> HIDE DEF c
<1>4. ASSUME NEW s \in Reqs
      PROVE  /\ Among(inbox'[k], Ask(s)) <=> Among(inbox[k], Ask(s)) \/ s = r
             /\ Among(inbox'[k], Does(s))
                  <=> Among(inbox[k], Does(s)) \/ (s = r /\ cmd # "snapshot")
             /\ Among(inbox'[k], Looks(s))
                  <=> Among(inbox[k], Looks(s)) \/ (s = r /\ cmd = "snapshot")
             /\ Lone(inbox[k], Ask(s)) /\ ~(Among(inbox[k], Ask(s)) /\ s = r)
                  => Lone(inbox'[k], Ask(s))
  BY <1>2, <1>3, CommandPut
<1>5. QED
  BY <1>1, <1>4 DEF Asked, Commanded, Questioned, Ask, Does, Looks

\* A command is sent to the process of an id; nothing of its request is under way.
LEMMA PostKeeps ==
  ASSUME TypeOK, Rest, NEW r \in Reqs, NEW i \in Ids, NEW cmd \in Commands,
         NEW for \in {"result", "snapshot"}, (cmd = "snapshot") <=> (for = "snapshot"),
         agents[i] # NoProc, ~SendFails(i), Post(r, i, cmd, for),
         UNCHANGED <<agents, proc, handlers, member>>,
         \A p \in Procs : ~Asked(p, r) /\ ~Busy(p, r) /\ ~Told(p, r)',
         \A p \in Procs, s \in Reqs : /\ Told(p, s)' => Told(p, s)
                                      /\ Lone(outbox'[p], Tell(s)),
         \A p \in Procs : /\ Readied(p)' => Readied(p)
                          /\ Lone(outbox'[p], {Ready})
                          /\ outbox[p] = <<>> => outbox'[p] = <<>>
  PROVE  Single' /\ Placed' /\ Still' /\ Kept'
<1>1. PICK k \in Procs : k = agents[i]
  BY DEF TypeOK
<1>2. Live(k) /\ proc[k].id = i
  BY <1>1 DEF Rest, Placed, Owns, SendFails
<1>3. /\ req'[r].await = for /\ req'[r].id = i
      /\ \A s \in Reqs : s # r => req'[s] = req[s]
      /\ \A p \in Procs : p # k => inbox'[p] = inbox[p]
  BY <1>1, OnePosted
<1>4. \A s \in Reqs : /\ Asked(k, s)' <=> Asked(k, s) \/ s = r
                      /\ Commanded(k, s)' <=> Commanded(k, s) \/ (s = r /\ cmd # "snapshot")
                      /\ Questioned(k, s)' <=> Questioned(k, s) \/ (s = r /\ cmd = "snapshot")
                      /\ Lone(inbox'[k], Ask(s))
  <2>1. \A s \in Reqs : Lone(inbox[k], Ask(s)) /\ ~(Asked(k, s) /\ s = r)
    BY DEF Rest, Single, Tidy
  <2>2. QED
    BY <1>1, <2>1, OnePosted
<1>5. \A p \in Procs, s \in Reqs :
        /\ p # k => /\ Asked(p, s)' <=> Asked(p, s)
                    /\ Commanded(p, s)' <=> Commanded(p, s)
                    /\ Questioned(p, s)' <=> Questioned(p, s)
                    /\ Lone(inbox'[p], Ask(s))
        /\ Busy(p, s)' <=> Busy(p, s)
  BY <1>3 DEF Asked, Commanded, Questioned, Busy, Ask, Does, Looks, Rest, Single, Tidy
<1>6. \A p \in Procs, s \in Reqs : /\ s # r /\ Has(p, s)' => Has(p, s)
                                   /\ Has(p, r)' => p = k
  BY <1>4, <1>5 DEF Has
<1>7. Single'
  <2>1. ASSUME NEW p \in Procs PROVE Tidy(p)'
    <3>1. Tidy(p)
      BY DEF Rest, Single
    <3>2. \A s \in Reqs : /\ Lone(inbox'[p], Ask(s)) /\ Lone(outbox'[p], Tell(s))
                          /\ \A c, d \in handlers'[p] : c.req = s /\ d.req = s => c = d
      BY <1>4, <1>5, <3>1 DEF Tidy
    <3>3. \A s \in Reqs : /\ ~(Asked(p, s)' /\ Busy(p, s)')
                          /\ ~(Asked(p, s)' /\ Told(p, s)')
                          /\ ~(Busy(p, s)' /\ Told(p, s)')
      BY <1>4, <1>5, <3>1 DEF Tidy
    <3>4. QED
      BY <3>2, <3>3 DEF Tidy, Ask, Tell
  <2>2. \A p, x \in Procs, s \in Reqs : Has(p, s)' /\ Has(x, s)' => p = x
    BY <1>6 DEF Rest, Single
  <2>3. QED
    BY <2>1, <2>2 DEF Single
<1>8. \A p \in Procs : (Live(p)' <=> Live(p)) /\ (Owns(p)' <=> Owns(p))
  BY DEF Live, Owns
<1>9. Placed'
  BY <1>8 DEF Rest, Placed
<1>10. Still'
  BY <1>2, <1>4, <1>5, <1>8 DEF Rest, Still
<1>11. Kept'
  <2> SUFFICES ASSUME NEW p \in Procs, NEW s \in Reqs
               PROVE  /\ Commanded(p, s)' \/ Busy(p, s)' => Expects(p, s, {"result"})'
                      /\ Questioned(p, s)' => Expects(p, s, {"snapshot"})'
                      /\ Told(p, s)' => Expects(p, s, {"result", "snapshot"})'
    BY DEF Kept
  <2>1. CASE s # r
    <3>1. \A kinds : Expects(p, s, kinds)' <=> Expects(p, s, kinds)
      BY <1>3, <2>1 DEF Expects, Waits
    <3>2. /\ Commanded(p, s)' \/ Busy(p, s)' => Commanded(p, s) \/ Busy(p, s)
          /\ Questioned(p, s)' => Questioned(p, s)
          /\ Told(p, s)' => Told(p, s)
      BY <1>4, <1>5, <2>1
    <3>3. QED
      BY <3>1, <3>2 DEF Rest, Kept
  <2>2. CASE s = r
    <3>1. ~Commanded(p, r) /\ ~Questioned(p, r) /\ ~Busy(p, r)' /\ ~Told(p, r)'
      BY <1>5, AskedKinds
    <3>2. /\ Commanded(p, r)' => p = k /\ cmd # "snapshot"
          /\ Questioned(p, r)' => p = k /\ cmd = "snapshot"
      BY <1>4, <1>5, <3>1
    <3>3. QED
      BY <1>2, <1>3, <2>2, <3>1, <3>2 DEF Expects, Waits
  <2>3. QED
    BY <2>1, <2>2
<1>12. QED
  BY <1>7, <1>9, <1>10, <1>11

LEMMA CommandBeginKeeps ==
  ASSUME TypeOK, Rest, NEW r \in Reqs, NEW i \in Ids, NEW cmd \in Commands \ {"snapshot"},
         CommandBegin(r, i, cmd)
  PROVE  Rest'
<1>1. /\ Fresh(r) /\ agents[i] # NoProc
      /\ UNCHANGED <<agents, proc, outbox, handlers, member, registry>>
  BY DEF CommandBegin, Crash
<1>2. /\ Waits(r, "nothing")
      /\ \A p \in Procs : ~Has(p, r) /\ ~Asked(p, r) /\ ~Busy(p, r) /\ ~Told(p, r)
  BY <1>1, FreshHasNone
<1>3. CASE Crash /\ UNCHANGED outbox
  <2>1. UNCHANGED <<agents, proc, inbox, outbox, handlers, member, req>> /\ crashed'
    BY <1>3 DEF Crash
  <2>2. \A p \in Procs : /\ Tidy(p)' /\ Fewer(p) /\ (Readied(p)' <=> Readied(p))
                         /\ \A s \in Reqs : Has(p, s)' <=> Has(p, s)
    BY <2>1, SameAt DEF Rest, Single
  <2>3. Single' /\ Kept'
    BY <2>1, <2>2, SingleStays, KeptStays DEF Rest
  <2>4. \A p \in Procs, s \in Reqs : (Asked(p, s)' <=> Asked(p, s)) /\ (Busy(p, s)' <=> Busy(p, s))
    BY <2>1 DEF Asked, Busy, Ask
  <2>5. Placed' /\ Still'
    BY <2>1, <2>2, <2>4 DEF Rest, Placed, Still, Owns, Live
  <2>6. QED
    BY <2>1, <2>3, <2>5 DEF Rest, Undisturbed
<1>4. CASE /\ ~SendFails(i)
           /\ Post(r, i, cmd, "result")
           /\ dirty' = [dirty EXCEPT ![i] = @ \/ Starting(i)]
           /\ UNCHANGED crashed
  <2>1. \A p \in Procs : /\ Readied(p)' <=> Readied(p)
                         /\ Lone(outbox'[p], {Ready})
                         /\ \A s \in Reqs : /\ Told(p, s)' <=> Told(p, s)
                                            /\ Lone(outbox'[p], Tell(s))
    BY <1>1 DEF Readied, Told, Tell, Rest, Single, Tidy
  <2>2. Single' /\ Placed' /\ Still' /\ Kept'
    BY <1>1, <1>2, <1>4, <2>1, PostKeeps
  <2>3. PICK k \in Procs : k = agents[i]
    BY <1>1 DEF TypeOK
  <2>4. /\ req'[r].await = "result" /\ req'[r].id = i
        /\ \A s \in Reqs : s # r => req'[s] = req[s]
        /\ \A p \in Procs : p # k => inbox'[p] = inbox[p]
    BY <1>4, <2>3 DEF Post, Await, TypeOK
  <2> SUFFICES ASSUME NEW j \in Ids, NEW p \in Procs,
                      agents'[j] = p, Live(p)', ~dirty'[j], ~crashed'
               PROVE  Clean(j, p)'
    BY <2>2 DEF Rest, Undisturbed
  <2>5. ~dirty[j] /\ (j = i => ~Starting(i))
    <3>1. j # i => dirty'[j] = dirty[j]
      BY <1>4 DEF TypeOK
    <3>2. j = i => (dirty'[j] <=> dirty[j] \/ Starting(i))
      BY <1>4 DEF TypeOK
    <3>3. QED
      BY <3>1, <3>2
  <2>6. Clean(j, p) /\ agents[j] = p /\ proc[p].id = j
    BY <1>1, <1>4, <2>5 DEF Rest, Undisturbed, Placed, Live
  <2>7. CASE p = k
    <3>1. j = i
      BY <2>3, <2>6, <2>7 DEF Rest, Placed
    <3>2. proc[p].state # "starting" /\ ~Readied(p)
      BY <2>5, <2>6, <3>1 DEF Clean, Spawning, Starting
    <3>3. \A s \in Reqs : Has(p, s)' => ~Waits(s, "nothing")'
      <4>1. ASSUME NEW s \in Reqs, Has(p, s)', s # r PROVE Has(p, s)
        <5>1. Asked(p, s)' => Asked(p, s)
          BY <1>4, <2>3, <2>7, <4>1, OnePosted
        <5>2. Busy(p, s)' => Busy(p, s)
          BY <1>1 DEF Busy
        <5>3. QED
          BY <2>1, <4>1, <5>1, <5>2 DEF Has
      <4>2. QED
        BY <2>4, <2>6, <4>1 DEF Clean, Waits
    <3>4. Commanding(j)'
      BY <2>4, <3>1 DEF Commanding, Waits
    <3>5. QED
      BY <1>1, <2>1, <3>2, <3>3, <3>4 DEF Clean
  <2>8. CASE p # k
    <3>1. /\ \A s \in Reqs : Has(p, s) => req'[s] = req[s]
          /\ \A s \in Reqs : Spawning(j, p, s) \/ (req[s].id = j /\ Waits(s, "result"))
                               => req'[s] = req[s]
      BY <1>2, <2>4 DEF Spawning, Waits
    <3>2. QED
      BY <1>1, <2>4, <2>6, <2>8, <3>1, CleanStays
  <2>9. QED
    BY <2>7, <2>8
<1>5. QED
  BY <1>3, <1>4 DEF CommandBegin

LEMMA ResultMessageKeeps ==
  ASSUME TypeOK, PendingExact, Rest, NEW q \in Procs, ResultMessage(q)
  PROVE  Rest'
<1>1. PICK m \in Result : m = Head(outbox[q]) /\ m.req \in Reqs /\ m # Ready
  BY ResultType DEF ResultMessage
<1>2. PICK r \in Reqs : r = m.req
  BY <1>1
<1>3. PICK i0 \in Ids : i0 = req[r].id
  BY DEF TypeOK, Request
<1>4. /\ outbox[q] # <<>> /\ ~crashed
      /\ outbox' = [outbox EXCEPT ![q] = Tail(@)]
      /\ UNCHANGED <<agents, proc, handlers, member>>
  BY DEF ResultMessage, Crash
<1>5. /\ outbox[q] \in Seq(Message) /\ outbox'[q] = Tail(outbox[q])
      /\ \A p \in Procs : p # q => outbox'[p] = outbox[p]
      /\ \A p \in Procs, s \in Reqs : Told(p, s)' => Told(p, s)
      /\ Readied(q)' <=> Readied(q)
      /\ Told(q, r) /\ ~Told(q, r)'
      /\ \A p \in Procs, s \in Reqs : Lone(outbox'[p], Tell(s))
      /\ \A p \in Procs : /\ Readied(p)' => Readied(p)
                          /\ Lone(outbox'[p], {Ready})
                          /\ outbox[p] = <<>> => outbox'[p] = <<>>
  BY <1>1, <1>2, <1>4, OneTaken DEF Rest
<1>6. /\ \A p \in Procs : ~Asked(p, r) /\ ~Busy(p, r)
      /\ \A p \in Procs : Has(p, r) => p = q
      /\ ~Waits(r, "nothing") =>
           proc[q].id = i0 /\ (Waits(r, "result") \/ Waits(r, "snapshot"))
  <2>1. \A p \in Procs : Has(p, r) => p = q
    BY <1>5 DEF Rest, Single, Has
  <2>2. ~Asked(q, r) /\ ~Busy(q, r)
    BY <1>5 DEF Rest, Single, Tidy
  <2>3. Expects(q, r, {"result", "snapshot"})
    BY <1>5 DEF Rest, Kept
  <2>4. QED
    BY <1>3, <2>1, <2>2, <2>3 DEF Has, Expects, Waits
<1>7. CASE crashed'
  <2>1. UNCHANGED <<inbox, req>>
    BY <1>4, <1>7 DEF ResultMessage, Crash
  <2>2. QED
    BY <1>4, <1>7, <2>1, TakenKeeps DEF Rest, Undisturbed
\* The refresh.
<1>8. CASE /\ ~crashed'
           /\ Waits(r, "result") /\ agents[i0] # NoProc /\ ~SendFails(i0)
           /\ Post(r, i0, "snapshot", "snapshot")
           /\ UNCHANGED <<registry, dirty>>
  <2>1. PICK k \in Procs : k = agents[i0]
    BY <1>8 DEF TypeOK
  <2>2. Single' /\ Placed' /\ Still' /\ Kept'
    <3>1. "snapshot" \in Commands /\ "snapshot" \in {"result", "snapshot"}
      BY DEF Commands
    <3>2. \A p \in Procs : ~Told(p, r)'
      BY <1>5, <1>6 DEF Has
    <3>3. QED
      BY <1>4, <1>5, <1>6, <1>8, <3>1, <3>2, PostKeeps
  <2>3. /\ req'[r].await = "snapshot"
        /\ \A s \in Reqs : s # r => req'[s] = req[s]
        /\ \A p \in Procs : p # k => inbox'[p] = inbox[p]
        /\ \A s \in Reqs : /\ Asked(k, s)' <=> Asked(k, s) \/ s = r
                           /\ Commanded(k, s)' <=> Commanded(k, s)
        /\ Questioned(k, r)'
    <3>1. "snapshot" \in Commands
      BY DEF Commands
    <3>2. QED
      BY <1>8, <2>1, <3>1, OnePosted
  <2> SUFFICES ASSUME NEW i \in Ids, NEW p \in Procs,
                      agents'[i] = p, Live(p)', ~dirty'[i]
               PROVE  Clean(i, p)'
    BY <2>2 DEF Rest, Undisturbed
  <2>4. Clean(i, p) /\ agents[i] = p /\ proc[p].id = i
    BY <1>4, <1>8 DEF Rest, Undisturbed, Placed, Live
  <2>5. CASE p = k
    <3>1. \A s \in Reqs : Busy(p, s)' <=> Busy(p, s)
      BY <1>4 DEF Busy
    <3>2. Readied(p)' => Readied(p)
      BY <1>5
    <3>3. \A s \in Reqs : Has(p, s)' => ~Waits(s, "nothing")'
      <4>1. \A s \in Reqs : Has(p, s)' => s = r \/ Has(p, s)
        BY <1>5, <2>3, <2>5, <3>1 DEF Has
      <4>2. QED
        BY <2>3, <2>4, <4>1 DEF Clean, Waits
    <3>4. \A s \in Reqs : Spawning(i, p, s) => Spawning(i, p, s)'
      BY <1>8, <2>3 DEF Spawning, Waits
    <3>5. QED
      BY <1>4, <2>3, <2>4, <2>5, <3>1, <3>2, <3>3, <3>4 DEF Clean
  <2>6. CASE p # k
    <3>1. p # q
      BY <1>6, <1>8, <2>1, <2>4, <2>6 DEF Waits
    <3>2. i # i0
      BY <2>1, <2>4, <2>6
    <3>3. /\ \A s \in Reqs : Has(p, s) => req'[s] = req[s]
          /\ \A s \in Reqs : Spawning(i, p, s) \/ (req[s].id = i /\ Waits(s, "result"))
                               => req'[s] = req[s]
      BY <1>3, <1>6, <1>8, <2>3, <3>1, <3>2 DEF Spawning, Waits
    <3>4. QED
      BY <1>4, <1>5, <1>8, <2>3, <2>4, <2>6, <3>1, <3>3, CleanStays
  <2>7. QED
    BY <2>5, <2>6
\* The end of the request, or of one that has given up.
<1>9. CASE /\ ~crashed' /\ UNCHANGED inbox
           /\ \A s \in Reqs : s # r => req'[s] = req[s]
           /\ \A i \in Ids : i # i0 => registry'[i] = registry[i]
           /\ \A i \in Ids : ~dirty'[i] => ~dirty[i]
           /\ \/ Waits(r, "nothing") /\ req'[r] = req[r] /\ UNCHANGED registry
              \/ Waits(r, "result") /\ req'[r].await = "nothing" /\ UNCHANGED registry /\ dirty'[i0]
              \/ Waits(r, "snapshot") /\ req'[r].await = "nothing" /\ registry'[i0] = m.data
  <2>1. Single' /\ Placed' /\ Still' /\ Kept'
    BY <1>4, <1>9, TakenKeeps
  <2> SUFFICES ASSUME NEW i \in Ids, NEW p \in Procs,
                      agents'[i] = p, Live(p)', ~dirty'[i]
               PROVE  Clean(i, p)'
    BY <2>1 DEF Rest, Undisturbed
  <2>2. Clean(i, p) /\ agents[i] = p /\ proc[p].id = i /\ Live(p)
    BY <1>4, <1>9 DEF Rest, Undisturbed, Placed, Live
  <2>3. CASE p # q
    <3>1. registry'[i] = registry[i] \/ proc[p].state = "starting"
      <4>1. CASE UNCHANGED registry
        BY <4>1
      <4>2. CASE Waits(r, "snapshot") /\ i = i0
        BY <1>4, <1>6, <2>2, <2>3, <4>2 DEF Rest, Still, Live, Waits
      <4>3. QED
        BY <1>9, <4>1, <4>2
    <3>2. /\ \A s \in Reqs : Has(p, s) => req'[s] = req[s]
          /\ \A s \in Reqs : Spawning(i, p, s) \/ (req[s].id = i /\ Waits(s, "result"))
                               => req'[s] = req[s]
      BY <1>3, <1>6, <1>9, <2>3 DEF Spawning, Waits
    <3>3. QED
      BY <1>4, <1>5, <1>9, <2>2, <2>3, <3>1, <3>2, CleanStays
  <2>4. CASE p = q
    <3>1. Waits(r, "snapshot") /\ req'[r].await = "nothing" /\ registry'[i] = m.data /\ i = i0
      <4>1. ~Waits(r, "nothing")
        BY <1>5, <2>2, <2>4 DEF Clean, Has
      <4>2. i = i0
        BY <1>6, <2>2, <2>4, <4>1
      <4>3. QED
        BY <1>9, <4>1, <4>2
    <3>2. /\ \A s \in Reqs : /\ Asked(q, s)' <=> Asked(q, s)
                             /\ Commanded(q, s)' <=> Commanded(q, s)
                             /\ Questioned(q, s)' <=> Questioned(q, s)
                             /\ Busy(q, s)' <=> Busy(q, s)
      BY <1>4, <1>9 DEF Asked, Commanded, Questioned, Busy, Ask, Does, Looks
    <3>3. \A s \in Reqs : Has(q, s)' => Has(q, s) /\ s # r
      BY <1>5, <1>6, <3>2 DEF Has
    <3>4. \A s \in Reqs : Has(q, s)' => ~Waits(s, "nothing")'
      BY <1>9, <2>2, <2>4, <3>3 DEF Clean, Waits
    <3>5. /\ \A s \in Reqs : Spawning(i, q, s) => Spawning(i, q, s)'
          /\ Commanding(i) => Commanding(i)'
      BY <1>9, <3>1 DEF Spawning, Commanding, Waits
    <3>6. Converges(outbox[q], Reports(Refreshing), proc[q].atStart, registry[i], member[q])
            => Converges(outbox'[q], Reports(Refreshing'), proc'[q].atStart, registry'[i], member'[q])
      <4> HAVE Converges(outbox[q], Reports(Refreshing), proc[q].atStart, registry[i], member[q])
      <4>1. m \in Reports(Refreshing) /\ Value(m, proc[q].atStart) = registry'[i]
        <5>1. r \in Refreshing /\ m.req = r /\ m # Ready
          BY <1>1, <1>2, <3>1 DEF Refreshing
        <5>2. m \in Reports(Refreshing)
          BY <5>1 DEF Reports
        <5>3. Value(m, proc[q].atStart) = m.data
          BY <5>1 DEF Value
        <5>4. QED
          BY <3>1, <5>2, <5>3
      <4>2. Converges(outbox'[q], Reports(Refreshing), proc[q].atStart, registry'[i], member[q])
        <5>1. m = Head(outbox[q]) /\ outbox[q] # <<>> /\ outbox[q] \in Seq(Message)
          BY <1>1, <1>4, <1>5
        <5>2. Converges(Tail(outbox[q]), Reports(Refreshing), proc[q].atStart,
                        Value(m, proc[q].atStart), member[q])
          BY <4>1, <5>1, ConvergesTaken
        <5>3. QED
          BY <1>5, <4>1, <5>2
      <4>3. \A s \in Reqs : Among(outbox'[q], Tell(s)) => (s \in Refreshing <=> s \in Refreshing')
        <5>1. ~Among(outbox'[q], Tell(r))
          BY <1>5 DEF Told, Tell
        <5>2. \A s \in Reqs : s # r => (s \in Refreshing <=> s \in Refreshing')
          BY <1>9 DEF Refreshing, Waits
        <5>3. QED
          BY <5>1, <5>2
      <4>4. outbox'[q] \in Seq(Message)
        BY <1>4, <1>5
      <4>5. Converges(outbox'[q], Reports(Refreshing'), proc[q].atStart, registry'[i], member[q])
        BY <4>2, <4>3, <4>4, ConvergesSame
      <4>6. QED
        BY <1>4, <4>5
    <3>7. /\ (proc[q].state = "starting" \/ Readied(q))' => \E s \in Reqs : Spawning(i, q, s)'
          /\ proc'[q].state = "starting" =>
               ~member'[q] /\ \A s \in Reqs : ~Busy(q, s)' /\ ~Commanded(q, s)'
      BY <1>4, <1>5, <2>2, <2>4, <3>2, <3>5 DEF Clean
    <3>8. \/ Commanding(i)'
          \/ \E s \in Reqs : Questioned(q, s)'
          \/ proc'[q].state = "starting"
          \/ Converges(outbox'[q], Reports(Refreshing'), proc'[q].atStart, registry'[i], member'[q])
      BY <1>4, <2>2, <2>4, <3>2, <3>5, <3>6 DEF Clean
    <3>9. QED
      BY <2>4, <3>4, <3>7, <3>8 DEF Clean, Reports
  <2>5. QED
    BY <2>3, <2>4
<1>10. QED
  <2>1. /\ r \in pending <=> Waits(r, "result") \/ Waits(r, "snapshot")
        /\ r \notin pending => Waits(r, "nothing")
    BY <1>6 DEF PendingExact, Waits
  <2>2. \/ crashed'
        \/ /\ Waits(r, "result") /\ agents[i0] # NoProc /\ ~SendFails(i0)
           /\ Post(r, i0, "snapshot", "snapshot")
           /\ UNCHANGED <<registry, dirty, crashed>>
        \/ /\ UNCHANGED <<inbox, crashed>>
           /\ req' = IF r \in pending THEN [req EXCEPT ![r] = Idle] ELSE req
           /\ registry' = IF r \in pending /\ Waits(r, "snapshot")
                          THEN [registry EXCEPT ![i0] = m.data] ELSE registry
           /\ dirty' = IF r \in pending /\ ~(r \in pending /\ Waits(r, "snapshot"))
                       THEN [dirty EXCEPT ![i0] = TRUE] ELSE dirty
    BY <1>1, <1>2, <1>3 DEF ResultMessage, Crash
  <2>3. CASE /\ UNCHANGED <<inbox, crashed>>
             /\ req' = IF r \in pending THEN [req EXCEPT ![r] = Idle] ELSE req
             /\ registry' = IF r \in pending /\ Waits(r, "snapshot")
                            THEN [registry EXCEPT ![i0] = m.data] ELSE registry
             /\ dirty' = IF r \in pending /\ ~(r \in pending /\ Waits(r, "snapshot"))
                         THEN [dirty EXCEPT ![i0] = TRUE] ELSE dirty
    <3>1. /\ \A s \in Reqs : s # r => req'[s] = req[s]
          /\ r \in pending => req'[r].await = "nothing"
          /\ r \notin pending => req'[r] = req[r]
      BY <2>3, IdleType DEF TypeOK
    <3>2. /\ \A i \in Ids : i # i0 => registry'[i] = registry[i]
          /\ r \in pending /\ Waits(r, "snapshot") => registry'[i0] = m.data
          /\ ~(r \in pending /\ Waits(r, "snapshot")) => UNCHANGED registry
      BY <2>3 DEF TypeOK
    <3>3. /\ \A i \in Ids : ~dirty'[i] => ~dirty[i]
          /\ r \in pending /\ ~Waits(r, "snapshot") => dirty'[i0]
      BY <2>3 DEF TypeOK
    <3>4. QED
      BY <1>4, <1>9, <2>1, <2>3, <3>1, <3>2, <3>3 DEF Waits
  <2>4. QED
    BY <1>4, <1>7, <1>8, <2>2, <2>3

-----------------------------------------------------------------------------

LEMMA InitRest == Init => Rest
<1> SUFFICES ASSUME Init PROVE Rest
  OBVIOUS
<1>1. \A p \in Procs : /\ inbox[p] = <<>> /\ outbox[p] = <<>> /\ handlers[p] = {}
                       /\ ~member[p] /\ proc[p].state = "unused"
  BY DEF Init
<1>2. \A i \in Ids : agents[i] \notin Procs
  BY ControlPlaneAssumption DEF Init
<1>3. \A p \in Procs, r \in Reqs : /\ ~Asked(p, r) /\ ~Commanded(p, r) /\ ~Questioned(p, r)
                                   /\ ~Busy(p, r) /\ ~Told(p, r) /\ ~Has(p, r)
                                   /\ Lone(inbox[p], Ask(r)) /\ Lone(outbox[p], Tell(r))
  BY <1>1, Empty DEF Asked, Commanded, Questioned, Busy, Told, Has
<1>4. \A p \in Procs : ~Readied(p) /\ Lone(outbox[p], {Ready})
  BY <1>1, Empty DEF Readied
<1>5. Single
  BY <1>1, <1>3, <1>4 DEF Single, Tidy
<1>6. Placed /\ Undisturbed
  BY <1>2 DEF Placed, Undisturbed
<1>7. Still
  BY <1>1, <1>3 DEF Still
<1>8. Kept
  BY <1>3 DEF Kept
<1>9. QED
  BY <1>5, <1>6, <1>7, <1>8 DEF Rest

LEMMA SameRest ==
  ASSUME TypeOK, Rest, UNCHANGED vars
  PROVE  Rest'
<1>1. \A p \in Procs : /\ Tidy(p)' /\ Fewer(p) /\ (Readied(p)' <=> Readied(p))
                       /\ \A s \in Reqs : Has(p, s)' <=> Has(p, s)
  BY SameAt DEF vars, Rest, Single
<1>2. Single' /\ Kept'
  BY <1>1, SingleStays, KeptStays DEF vars, Rest
<1>3. \A p \in Procs, s \in Reqs : (Asked(p, s)' <=> Asked(p, s)) /\ (Busy(p, s)' <=> Busy(p, s))
  BY DEF vars, Asked, Busy, Ask
<1>4. Placed' /\ Still'
  BY <1>1, <1>3 DEF vars, Rest, Placed, Still, Owns, Live
<1>5. Undisturbed'
  <2> SUFFICES ASSUME NEW i \in Ids, NEW p \in Procs,
                      agents'[i] = p, Live(p)', ~dirty'[i], ~crashed'
               PROVE  Clean(i, p)'
    BY DEF Undisturbed
  <2>1. Clean(i, p)
    BY DEF vars, Rest, Undisturbed, Live
  <2>2. QED
    BY <2>1, CleanStays DEF vars
<1>6. QED
  BY <1>2, <1>4, <1>5 DEF Rest

LEMMA NextRest == TypeOK /\ Owned /\ PendingExact /\ Rest /\ [Next]_vars => Rest'
<1> SUFFICES ASSUME TypeOK, Owned, PendingExact, Rest, [Next]_vars PROVE Rest'
  OBVIOUS
<1>1. ASSUME NEW p \in Procs, Agent(p) PROVE Rest'
  BY <1>1, BecomeReadyKeeps, ExitKeeps, HandleKeeps DEF Agent
<1>2. ASSUME NEW p \in Procs, NEW c \in handlers[p], NEW ok \in BOOLEAN, Finish(p, c, ok)
      PROVE  Rest'
  BY <1>2, FinishKeeps
<1>3. ASSUME NEW p \in Procs, Incoming(p) PROVE Rest'
  BY <1>3, ReadyMessageKeeps, ResultMessageKeeps, ExitEventKeeps DEF Incoming
<1>4. ASSUME NEW r \in Reqs, Outgoing(r) PROVE Rest'
  <2>1. CASE SpawnTimeout(r) \/ KillTimeout(r) \/ CommandTimeout(r)
    BY <2>1, SpawnTimeoutKeeps, KillTimeoutKeeps, WatchdogKeeps
  <2>2. ASSUME NEW i \in Ids, KillBegin(r, i) PROVE Rest'
    BY <2>2, KillBeginKeeps
  <2>3. ASSUME NEW i \in Ids, NEW p \in Procs, NEW atStart \in BOOLEAN,
               SpawnBegin(r, i, p, atStart)
        PROVE  Rest'
    BY <2>3, SpawnBeginKeeps
  <2>4. ASSUME NEW i \in Ids, NEW cmd \in Commands \ {"snapshot"}, CommandBegin(r, i, cmd)
        PROVE  Rest'
    BY <2>4, CommandBeginKeeps
  <2>5. QED
    BY <1>4, <2>1, <2>2, <2>3, <2>4 DEF Outgoing
<1>5. QED
  BY <1>1, <1>2, <1>3, <1>4, SameRest DEF Next

\* When no request of an agent that runs is in progress, nothing is under way of one that
\* would change the registry, and what came last told the truth.
LEMMA RestAgrees == TypeOK /\ Rest => RegistryAgrees
<1> SUFFICES ASSUME TypeOK, Rest, NEW i \in Ids, agents[i] # NoProc, Live(agents[i]), ~crashed,
                    \A r \in Reqs : ~Waits(r, "nothing") => req[r].id # i,
                    ~dirty[i]
             PROVE  registry[i] = member[agents[i]]
  BY DEF RegistryAgrees
<1>1. PICK p \in Procs : p = agents[i]
  BY DEF TypeOK
<1>2. Clean(i, p)
  BY <1>1 DEF Rest, Undisturbed
<1>3. \A r \in Reqs : ~Has(p, r)
  BY <1>1, <1>2, Placing DEF Clean
<1>4. proc[p].state # "starting" /\ ~Readied(p)
  BY <1>2 DEF Clean, Spawning, Waits
<1>5. ~Commanding(i) /\ \A r \in Reqs : ~Questioned(p, r)
  BY <1>3, AskedKinds DEF Commanding, Waits, Has
<1>6. ~Among(outbox[p], Reports(Refreshing))
  <2> SUFFICES ASSUME NEW n \in DOMAIN outbox[p], outbox[p][n] \in Reports(Refreshing)
               PROVE  FALSE
    BY DEF Among
  <2>1. outbox[p][n] # Ready
    BY <1>4 DEF Readied, Among
  <2>2. PICK r \in Reqs : outbox[p][n] \in Tell(r)
    BY <2>1 DEF Reports, Refreshing, Tell
  <2>3. QED
    BY <1>3, <2>2 DEF Has, Told, Among
<1>7. QED
  BY <1>1, <1>2, <1>4, <1>5, <1>6 DEF Clean, Converges

\* At rest the registry lists what each running agent is a member of, unless a request
\* failed on the way or a command overtook the spawn: whatever the requests, however
\* they interleave, and whichever process of the id answered them.
THEOREM RegistryIsTrueAtRest == Spec => []RegistryAgrees
<1>1. Spec => [](TypeOK /\ Owned /\ PendingExact)
  BY Invariance
<1>2. Init => Rest
  BY InitRest
<1>3. TypeOK /\ Owned /\ PendingExact /\ Rest /\ [Next]_vars => Rest'
  BY NextRest
<1>4. TypeOK /\ Rest => RegistryAgrees
  BY RestAgrees
<1>5. QED
  BY <1>1, <1>2, <1>3, <1>4, PTL DEF Spec
=============================================================================

------------------------------ MODULE Shutdown ------------------------------
(***************************************************************************)
(* How the agent processes end.  SIGTERM from the supervisor's kill, or    *)
(* the loss of the control plane, starts Agent.stop, which destroys the    *)
(* outbound connections the transport knows and then waits until every     *)
(* inbound one has ended (net.Server.close); only then does it close the   *)
(* other sockets and exit.  A connect that is under way escapes it, and    *)
(* two agents that connect to each other then wait for each other: with a  *)
(* control plane SIGKILL ends them, without one it is the report of the    *)
(* message sent, which finds the IPC channel closed.                       *)
(*                                                                         *)
(* A connection is external TCP seen from both ends: the server counts it  *)
(* once it has accepted it, the client has it in UnicastTransport.clients  *)
(* once the connect callback has run.                                      *)
(***************************************************************************)
EXTENDS Integers

CONSTANT Agents

VARIABLES
  stage,    \* of each process: "running"; "stopping": in unicast.close; "exited"
  link,     \* the connection of each ordered pair: "none"; "dialing": neither end has
            \* it; "accepted": the server has; "called": the client has; "open": both
  asked,    \* the processes that kill has sent SIGTERM
  term,     \* ... and that have yet to notice
  killed,   \* the processes that kill has sent SIGKILL
  control,  \* the control plane is up
  told,     \* the agents whose IPC channel has disconnected
  report    \* the agents with an event or an answer to send over it

vars == <<stage, link, asked, term, killed, control, told, report>>

signals == <<asked, term, killed, control, told>>

Init ==
  /\ stage = [a \in Agents |-> "running"]
  /\ link = [a \in Agents |-> [b \in Agents |-> "none"]]
  /\ asked = {} /\ term = {} /\ killed = {}
  /\ control = TRUE /\ told = {}
  /\ report = {}

-----------------------------------------------------------------------------
(* Connections. *)

\* connect: a handler of a sends to b, for a command or, also in stop(), to answer a
\* message it has received and reported.  Where nobody listens it rejects, and the
\* command's answer says so.
Dial(a, b) ==
  /\ stage[a] # "exited" /\ a \notin told /\ a # b
  /\ link[a][b] = "none"
  /\ IF stage[b] = "running"
     THEN link' = [link EXCEPT ![a][b] = "dialing"] /\ UNCHANGED report
     ELSE report' = report \union {a} /\ UNCHANGED link
  /\ UNCHANGED <<stage, signals>>

\* The server's connection event.
Accept(a, b) ==
  /\ stage[b] = "running"
  /\ \/ link[a][b] = "dialing" /\ link' = [link EXCEPT ![a][b] = "accepted"]
     \/ link[a][b] = "called" /\ link' = [link EXCEPT ![a][b] = "open"]
  /\ UNCHANGED <<stage, signals, report>>

\* The client's connect callback: the connection takes its place in clients, the message
\* is written, and MESSAGE_SENT is reported.
Called(a, b) ==
  /\ stage[a] # "exited"
  /\ \/ link[a][b] = "dialing" /\ link' = [link EXCEPT ![a][b] = "called"]
     \/ link[a][b] = "accepted" /\ link' = [link EXCEPT ![a][b] = "open"]
  /\ report' = report \union {a}
  /\ UNCHANGED <<stage, signals>>

\* A message arrives at b, which reports MESSAGE_RECEIVED.
Hear(a, b) ==
  /\ link[a][b] = "open"
  /\ report' = report \union {b}
  /\ UNCHANGED <<stage, link, signals>>

-----------------------------------------------------------------------------
(* The end of a process. *)

\* UnicastTransport.close: a's outbound connections are destroyed, those known to
\* it; nobody accepts what has dialed a and was not accepted.
AfterStop(a, x, y) ==
  IF \/ x = a /\ link[x][y] \in {"called", "open"}
     \/ y = a /\ link[x][y] \in {"dialing", "called"}
  THEN "none" ELSE link[x][y]

\* Those whose connect to a is refused now: their commands fail.
Refused(a) == {x \in Agents : link[x][a] = "dialing"}

\* shutdown, on each SIGTERM and on the loss of the channel.  A second one destroys what
\* has come into clients since and waits for the same server.
Stop(a) ==
  /\ stage[a] # "exited"
  /\ \/ a \in term /\ term' = term \ {a} /\ UNCHANGED told
     \/ ~control /\ a \notin told /\ told' = told \union {a} /\ UNCHANGED term
  /\ stage' = [stage EXCEPT ![a] = "stopping"]
  /\ link' = [x \in Agents |-> [y \in Agents |-> AfterStop(a, x, y)]]
  /\ report' = report \union Refused(a)
  /\ UNCHANGED <<asked, killed, control>>

\* The connections of a process end with it, and kill has its exit event.
Gone(a) ==
  /\ stage' = [stage EXCEPT ![a] = "exited"]
  /\ link' = [x \in Agents |-> [y \in Agents |-> IF a \in {x, y} THEN "none" ELSE link[x][y]]]
  /\ asked' = asked \ {a} /\ term' = term \ {a}
  /\ report' = (report \union Refused(a)) \ {a}
  /\ UNCHANGED <<killed, control, told>>

Inbound(a) == {x \in Agents : link[x][a] \in {"accepted", "open"}}

\* The server's close callback, the other sockets' and process.exit.
Drained(a) ==
  /\ stage[a] = "stopping"
  /\ Inbound(a) = {}
  /\ Gone(a)

\* SIGKILL takes effect.
Killed(a) ==
  /\ stage[a] # "exited" /\ a \in killed
  /\ Gone(a)


\* process.send.  On a closed channel its error event, which nobody listens for, ends the
\* process; where the channel is broken and its disconnect still to come the write may
\* fail so or be lost.
Report(a) ==
  /\ a \in report
  /\ \/ ~control /\ Gone(a)
     \/ a \notin told /\ report' = report \ {a} /\ UNCHANGED <<stage, link, signals>>

-----------------------------------------------------------------------------
(* The control plane. *)

\* AgentSupervisor.kill, which may be called again before the exit.
Kill(a) ==
  /\ control /\ stage[a] # "exited"
  /\ asked' = asked \union {a} /\ term' = term \union {a}
  /\ UNCHANGED <<stage, link, killed, control, told, report>>

\* Mutant of KillTimeout: the fallback is for a process that did not begin to stop.
KillTimeoutRunning(a) ==
  /\ control /\ a \in asked \ killed /\ stage[a] = "running"
  /\ killed' = killed \union {a}
  /\ UNCHANGED <<stage, link, asked, term, control, told, report>>

\* 1.5 s later the process has not exited.
KillTimeout(a) ==
  /\ control /\ a \in asked \ killed
  /\ killed' = killed \union {a}
  /\ UNCHANGED <<stage, link, asked, term, control, told, report>>

\* The control plane ends without having killed the agents: each has a disconnect.
ControlEnds ==
  /\ control
  /\ control' = FALSE
  /\ UNCHANGED <<stage, link, asked, term, killed, told, report>>

-----------------------------------------------------------------------------

Next ==
  \/ ControlEnds
  \/ \E a \in Agents : \/ Stop(a) \/ Drained(a) \/ Killed(a) \/ Report(a)
                       \/ Kill(a) \/ KillTimeout(a)
                       \/ \E b \in Agents : \/ Dial(a, b) \/ Accept(a, b)
                                            \/ Called(a, b) \/ Hear(a, b)

Spec == Init /\ [][Next]_vars

\* The event loops, the kernel and, as long as it is up, the control plane's timers
\* run what is due.  That anything is sent or heard is not assumed.
Fairness ==
  \A a \in Agents :
    /\ WF_vars(Stop(a)) /\ WF_vars(Drained(a)) /\ WF_vars(Killed(a))
    /\ WF_vars(Report(a)) /\ WF_vars(KillTimeout(a))
    /\ \A b \in Agents : WF_vars(Accept(a, b)) /\ WF_vars(Called(a, b))

FairSpec == Spec /\ Fairness

-----------------------------------------------------------------------------

Exited(a) == stage[a] = "exited"

\* A kill ends its process as long as the control plane is up, whoever is connected.
KillEnds == \A a \in Agents : a \in asked ~> (Exited(a) \/ ~control)

\* main.ts: "If the control plane (our IPC parent) goes away, do not linger as an
\* orphan holding a unicast/multicast/broadcast port."  Agents that were connecting to
\* each other do not: stop waits for ever then, and the report of the message that each
\* connect was for ends the process.
NoOrphan == (~control) ~> (\A a \in Agents : Exited(a))
=============================================================================

----------------------------- MODULE Dashboard -----------------------------
(***************************************************************************)
(* The way of an event: from the agent it happened in over the agent's IPC *)
(* channel to the control plane, which logs it and publishes it to the     *)
(* dashboard's socket, into the dashboard's rolling buffer, to the screen: *)
(* the message flows of the topology graph.                                *)
(*                                                                         *)
(* Agents and dashboard read one host's clock.  What is published while    *)
(* the socket is down is lost to the dashboard.                            *)
(***************************************************************************)
EXTENDS Integers, Sequences, SequencesExt

CONSTANTS
  Agents,
  MaxLog,     \* LogAggregator.max
  Limit,      \* of useLiveEvents
  MaxEvents,  \* bound: events
  MaxTime     \* bound: the clock

ASSUME DashboardAssumption == {MaxLog, Limit} \subseteq Nat \ {0}

VARIABLES
  now,        \* Date.now()
  count,      \* events so far
  channel,    \* events on their way from each agent
  log,        \* LogAggregator.entries
  socket,     \* the dashboard's connection to /live is open
  wire,       \* frames on their way to it
  buffer,     \* the state of useLiveEvents
  events,     \* ... as last rendered
  graph,      \* the topology graph: on screen, lastSeen and what it has animated
  lost,       \* history: the socket has been down
  disorder,   \* history: the feed had an event no later than the one before
  again       \* history: the graph has animated an event a second time

vars == <<now, count, channel, log, socket, wire, buffer, events, graph, lost, disorder,
          again>>

feed == <<channel, log, wire>>
screen == <<events, graph, again>>

NotShown == [shown |-> FALSE, lastSeen |-> 0, flows |-> {}]

Init ==
  /\ now = 1 /\ count = 0
  /\ channel = [a \in Agents |-> <<>>]
  /\ log = <<>> /\ wire = <<>> /\ buffer = <<>> /\ events = <<>>
  /\ socket = TRUE
  /\ graph = NotShown
  /\ lost = FALSE /\ disorder = FALSE /\ again = FALSE

-----------------------------------------------------------------------------
(* Agents and control plane. *)

\* An event: the clock may have moved since the last one, or not.
Emit(a, logged, t) ==
  /\ t \in {now, now + 1} /\ now' = t
  /\ count < MaxEvents
  /\ count' = count + 1
  /\ channel' = [channel EXCEPT ![a] = Append(@, [n |-> count', ts |-> t, logged |-> logged])]
  /\ UNCHANGED <<log, socket, wire, buffer, screen, lost, disorder>>

\* Of an event the log wants to know whether its type is one of those it keeps.
Loggable(e) == e.logged

Latest(s, n) == SubSeq(s, IF Len(s) > n THEN Len(s) - n + 1 ELSE 1, Len(s))

\* Mutant of Ingest: the log is kept in the order of the timestamps.
IngestByTime(e) ==
  Latest(SelectSeq(log, LAMBDA x : x.ts <= e.ts) \o <<e>>
         \o SelectSeq(log, LAMBDA x : x.ts > e.ts), MaxLog)

\* LogAggregator.ingest
Ingest(e) == IF Loggable(e) THEN Latest(Append(log, e), MaxLog) ELSE log

\* LiveEventHub.publish: a frame to each client that is connected.
Publish(e) == wire' = IF socket THEN Append(wire, e) ELSE wire

\* The supervisor's sink has the next event of an agent: it is logged, then published.
Sink(a) ==
  /\ channel[a] # <<>>
  /\ LET e == Head(channel[a]) IN log' = Ingest(e) /\ Publish(e)
  /\ channel' = [channel EXCEPT ![a] = Tail(@)]
  /\ UNCHANGED <<now, count, socket, buffer, screen, lost, disorder>>

-----------------------------------------------------------------------------
(* useLiveEvents. *)

\* onmessage: the buffer keeps the last Limit events.
OnMessage ==
  /\ wire # <<>>
  /\ LET e == Head(wire) IN
     /\ buffer' = Append(Latest(buffer, Limit - 1), e)
     /\ disorder' = (disorder \/ (buffer # <<>> /\ e.ts <= Last(buffer).ts))
  /\ wire' = Tail(wire)
  /\ UNCHANGED <<now, count, channel, log, socket, screen, lost>>

\* onclose; frames that have not arrived never do.
OnClose ==
  /\ socket
  /\ socket' = FALSE /\ wire' = <<>> /\ lost' = TRUE
  /\ UNCHANGED <<now, count, channel, log, buffer, screen, disorder>>

\* 1.5 s later connect opens another socket.
Connect ==
  /\ ~socket
  /\ socket' = TRUE
  /\ UNCHANGED <<now, count, feed, buffer, screen, lost, disorder>>

-----------------------------------------------------------------------------
(* The topology graph. *)

\* Mutant of Fresh: the timestamp last seen counts again.
FreshOrEqual(evs, lastSeen) == {i \in DOMAIN evs : evs[i].ts >= lastSeen}

\* Which of the events are later than the timestamp last seen.
Fresh(evs, lastSeen) == {i \in DOMAIN evs : evs[i].ts > lastSeen}

\* The graph's effect: what is later than lastSeen is animated, and the last of these
\* is where the next run of the effect starts.
Effect(evs, lastSeen, flows) ==
  LET fresh == Fresh(evs, lastSeen)
      new == {evs[i].n : i \in fresh}
  IN /\ graph' = [shown |-> TRUE, flows |-> flows \union new,
                  lastSeen |-> IF fresh = {} THEN lastSeen ELSE evs[Max(fresh)].ts]
     /\ again' = (again \/ new \intersect flows # {})

\* React renders what the buffer has by now; the effect runs when there are other
\* events, and when the poll of the agents has set another list.
Render ==
  /\ events' = buffer
  /\ IF graph.shown THEN Effect(buffer, graph.lastSeen, graph.flows)
     ELSE UNCHANGED <<graph, again>>
  /\ UNCHANGED <<now, count, feed, socket, buffer, lost, disorder>>

\* The page with the graph is opened: the component starts anew.
Mount ==
  /\ ~graph.shown
  /\ Effect(events, 0, {})
  /\ UNCHANGED <<now, count, feed, socket, buffer, events, lost, disorder>>

Unmount ==
  /\ graph.shown
  /\ graph' = NotShown /\ again' = FALSE
  /\ UNCHANGED <<now, count, feed, socket, buffer, events, lost, disorder>>

-----------------------------------------------------------------------------

Next ==
  \/ OnMessage \/ OnClose \/ Connect \/ Render \/ Mount \/ Unmount
  \/ \E a \in Agents :
       \/ Sink(a)
       \/ \E logged \in BOOLEAN, t \in 1 .. MaxTime : Emit(a, logged, t)

Spec == Init /\ [][Next]_vars

-----------------------------------------------------------------------------

\* As long as each event of the feed is later than the one before, the graph animates
\* each that has been rendered once, however the renderings, the polls of the agents
\* and the arrivals interleave.
AnimatedOnce ==
  ~disorder => /\ ~again
               /\ graph.shown => \A i \in DOMAIN events : events[i].n \in graph.flows

\* AgentTopologyGraph.tsx: "packets animate along an edge whenever a message flows."  Each
\* message that has been rendered has been animated, whatever its timestamp.
EveryFlowAnimated ==
  graph.shown => \A i \in DOMAIN events : events[i].n \in graph.flows

\* The events two histories share are in the same order in both.
SameOrder(s, t) ==
  \A i, j \in DOMAIN s, k, l \in DOMAIN t :
    s[i] = t[k] /\ s[j] = t[l] => (i < j <=> k < l)

\* One of two histories, of the events to be logged, is the end of the other: what only
\* one of them still has comes before all they share.
CommonEnd(shown, logs) ==
  /\ \A i \in DOMAIN shown :
       Loggable(shown[i]) /\ (\A k \in DOMAIN logs : logs[k] # shown[i]) =>
         \A k \in DOMAIN logs : \E j \in DOMAIN shown : i < j /\ shown[j] = logs[k]
  /\ \A k \in DOMAIN logs :
       (\A i \in DOMAIN shown : shown[i] # logs[k]) =>
         \A i \in DOMAIN shown :
           Loggable(shown[i]) => \E l \in DOMAIN logs : k < l /\ logs[l] = shown[i]

\* What the dashboard shows and what the control plane has logged are one history: the
\* events they share are in the same order, and as long as the socket has been up one
\* is the end of the other.
FeedMatchesLog ==
  /\ SameOrder(buffer \o wire, log)
  /\ ~lost => CommonEnd(buffer \o wire, log)
=============================================================================

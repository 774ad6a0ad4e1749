------------------------------ MODULE Unicast ------------------------------
(***************************************************************************)
(* The unicast transport: TCP connections, one per ordered pair of agents, *)
(* the sequence numbers of their messages and the receiver's check of them.*)
(*                                                                         *)
(* Each direction of a pair is independent of the other: an inbound        *)
(* connection is never used to answer.  A command handler that awaits      *)
(* net.connect owns one connection object and the message it will write;   *)
(* with a connection at hand a send numbers its message and writes it in   *)
(* one step, since only microtasks lie between.                            *)
(*                                                                         *)
(* TCP, the operating system's ports and the life of the processes are     *)
(* external.  An address book reaches an agent as a peer-update, sent by   *)
(* the control plane after each spawn and not after a death.               *)
(***************************************************************************)
EXTENDS Integers, Sequences, FiniteSets

CONSTANTS
  Agents,      \* agent identities
  NoAgent,
  Senders,     \* the agents that are told to send
  Targets,     \* ... and to whom
  Mortal,      \* the agents whose process may end
  Ports,       \* unicast ports; a spawn may use any port nobody listens on
  NoPort,      \* the address book has no entry
  Conns,       \* connection objects an agent may have at once
  NoConn,
  MaxSeq,      \* messages a process numbers for one recipient
  MaxSpawns    \* processes spawned

ASSUME UnicastAssumption ==
  /\ Senders \subseteq Agents /\ Targets \subseteq Agents /\ Mortal \subseteq Agents
  /\ NoAgent \notin Agents /\ NoPort \notin Ports
  /\ Conns # {} /\ NoConn \notin Conns
  /\ MaxSeq \in Nat /\ MaxSpawns \in Nat

VARIABLES
  up,          \* the process runs and listens
  port,        \* ... on this port
  book,        \* UnicastDeps.peers: the port of each peer, if it has an entry
  mail,        \* peer-updates on their way to each agent, oldest first
  seqCounters, \* Agent.seqCounters, per recipient
  legacySeq,   \* AgentMom1_2Adapter.seq
  lastSeen,    \* SequenceChecker.lastSeen: [receiver][sender]
  clients,     \* UnicastTransport.clients: [sender][recipient]
  conns,       \* each outbound connection object with what it carries
  life,        \* processes of each sender so far
  got,         \* history: what each receiver passed on of each sender, while silent
  silent,      \* history: the receiver reported no SEQUENCE_ANOMALY of the sender
  orderly,     \* history: nothing has disturbed the sender's traffic
  spawned      \* processes spawned so far

vars == <<up, port, book, mail, seqCounters, legacySeq, lastSeen, clients, conns,
          life, got, silent, orderly, spawned>>

\* "lost": the far end is gone and the close event has not come.
\* "left": the near end is gone and the kernel still delivers what it had taken.
Statuses == {"free", "connecting", "open", "lost", "left"}

Numbers == 0 .. MaxSeq

\* What numbered a message: a process of its sender, with the 1.2 adapter's counter or
\* with its own.
Sources == Nat \X BOOLEAN

Message == [n : Numbers, by : Sources]

Conn == [status : Statuses, to : Agents \union {NoAgent}, port : Ports \union {NoPort},
         at : Agents \union {NoAgent}, q : Seq(Message)]

Book == [Agents -> Ports \union {NoPort}]

TypeOK ==
  /\ up \in [Agents -> BOOLEAN]
  /\ port \in Book
  /\ book \in [Agents -> Book]
  /\ mail \in [Agents -> Seq(Book)]
  /\ seqCounters \in [Agents -> [Agents -> Numbers]]
  /\ legacySeq \in [Agents -> Numbers]
  /\ lastSeen \in [Agents -> [Agents -> Numbers]]
  /\ clients \in [Agents -> [Agents -> Conns \union {NoConn}]]
  /\ conns \in [Agents -> [Conns -> Conn]]
  /\ life \in [Senders -> Nat]
  /\ got \in [Agents -> [Agents -> Seq(Message)]]
  /\ silent \in [Agents -> [Agents -> BOOLEAN]]
  /\ orderly \in [Agents -> [Agents -> BOOLEAN]]
  /\ spawned \in 0 .. MaxSpawns

FreeConn == [status |-> "free", to |-> NoAgent, port |-> NoPort, at |-> NoAgent,
             q |-> <<>>]

lives == <<life, spawned>>

EmptyBook == [a \in Agents |-> NoPort]
Zeros == [a \in Agents |-> 0]

Init ==
  /\ up = [a \in Agents |-> FALSE]
  /\ port = EmptyBook
  /\ book = [a \in Agents |-> EmptyBook]
  /\ mail = [a \in Agents |-> <<>>]
  /\ seqCounters = [a \in Agents |-> Zeros]
  /\ legacySeq = Zeros
  /\ lastSeen = [a \in Agents |-> Zeros]
  /\ clients = [a \in Agents |-> [b \in Agents |-> NoConn]]
  /\ conns = [a \in Agents |-> [c \in Conns |-> FreeConn]]
  /\ life = [s \in Senders |-> 0]
  /\ got = [a \in Agents |-> [b \in Agents |-> <<>>]]
  /\ silent = [a \in Agents |-> [b \in Agents |-> TRUE]]
  /\ orderly = [a \in Agents |-> [b \in Agents |-> TRUE]]
  /\ spawned = 0

-----------------------------------------------------------------------------
(* Processes and the address book. *)

\* The address book as the control plane has it once a is ready at port p.
Peers(a, p) == [b \in Agents |-> IF b = a THEN p ELSE IF up[b] THEN port[b] ELSE NoPort]

\* Once the new process is ready every running agent, itself included, is sent the
\* addresses of all of them.
Spawn(a, p) ==
  /\ ~up[a] /\ spawned < MaxSpawns
  /\ \A b \in Agents : up[b] => port[b] # p
  /\ spawned' = spawned + 1
  /\ life' = [s \in Senders |-> IF s = a THEN life[s] + 1 ELSE life[s]]
  /\ up' = [up EXCEPT ![a] = TRUE]
  /\ port' = [port EXCEPT ![a] = p]
  /\ mail' = [b \in Agents |-> IF b = a THEN <<Peers(a, p)>>
                              ELSE IF up[b] THEN Append(mail[b], Peers(a, p)) ELSE <<>>]
  /\ UNCHANGED <<book, seqCounters, legacySeq, lastSeen, clients, conns, got, silent,
                 orderly>>

\* updatePeers replaces the book and touches no connection.
PeerUpdate(a) ==
  /\ up[a] /\ mail[a] # <<>>
  /\ book' = [book EXCEPT ![a] = Head(mail[a])]
  /\ mail' = [mail EXCEPT ![a] = Tail(mail[a])]
  /\ UNCHANGED <<up, port, seqCounters, legacySeq, lastSeen, clients, conns, got,
                 silent, orderly, lives>>

\* The process ends, and with it its listener, its connections and all it knew: the
\* next one starts with nothing.  What others had written to it is gone, what it
\* had written itself is still in the kernel.
AfterDeath(x, c, a) ==
  IF x = a THEN CASE c.status = "open" -> [c EXCEPT !.status = "left"]
                  [] c.status \in {"connecting", "lost"} -> FreeConn
                  [] OTHER -> c
  ELSE IF c.at # a THEN c
  ELSE CASE c.status = "open" -> [c EXCEPT !.status = "lost", !.q = <<>>]
         [] c.status = "left" -> FreeConn
         [] OTHER -> c

Die(a) ==
  /\ up[a] /\ a \in Mortal
  /\ up' = [up EXCEPT ![a] = FALSE]
  /\ port' = [port EXCEPT ![a] = NoPort]
  /\ book' = [book EXCEPT ![a] = EmptyBook]
  /\ mail' = [mail EXCEPT ![a] = <<>>]
  /\ seqCounters' = [seqCounters EXCEPT ![a] = Zeros]
  /\ legacySeq' = [legacySeq EXCEPT ![a] = 0]
  /\ lastSeen' = [lastSeen EXCEPT ![a] = Zeros]
  /\ clients' = [clients EXCEPT ![a] = [b \in Agents |-> NoConn]]
  /\ conns' = [x \in Agents |-> [k \in Conns |-> AfterDeath(x, conns[x][k], a)]]
  /\ got' = [got EXCEPT ![a] = [b \in Agents |-> <<>>]]
  /\ silent' = [silent EXCEPT ![a] = [b \in Agents |-> TRUE]]
  /\ orderly' = [x \in Agents |-> [y \in Agents |->
       /\ orderly[x][y]
       /\ x = a => seqCounters[a][y] = 0
       /\ y = a => seqCounters[x][a] = 0]]
  /\ UNCHANGED lives

-----------------------------------------------------------------------------
(* Sending: UnicastTransport.sendUnicast and connect. *)

Connecting(a, b) == {c \in Conns : /\ conns[a][c].status = "connecting"
                                   /\ conns[a][c].to = b}

\* A connection object nobody uses, if there is one; which one makes no difference.
NewConn(a) ==
  LET free == {c \in Conns : conns[a][c].status = "free"}
  IN CHOOSE c \in Conns : free # {} => c \in free

\* Mutant of Transmit: connect never looks for a connection it already has.
TransmitAnew(a, b, m, undisturbed) ==
  /\ book[a][b] # NoPort
  /\ \E c \in Conns :
       /\ conns[a][c].status = "free"
       /\ conns' = [conns EXCEPT ![a][c] =
                      [status |-> "connecting", to |-> b, port |-> book[a][b],
                       at |-> NoAgent, q |-> <<m>>]]
  /\ orderly' = [orderly EXCEPT ![a][b] = /\ @ /\ undisturbed
                                          /\ Connecting(a, b) = {}]

\* connect and the write that follows it, for a message already numbered.  With
\* an entry in clients the message is written at once: on a connection whose far
\* end is gone it is lost, whether or not the write reports an error.
Transmit(a, b, m, undisturbed) ==
  \/ /\ clients[a][b] # NoConn
     /\ LET c == clients[a][b]
            alive == conns[a][c].status = "open"
        IN /\ conns' = IF alive THEN [conns EXCEPT ![a][c].q = Append(@, m)] ELSE conns
           /\ orderly' = [orderly EXCEPT ![a][b] = @ /\ undisturbed /\ alive]
  \/ /\ clients[a][b] = NoConn /\ book[a][b] = NoPort
     /\ orderly' = [orderly EXCEPT ![a][b] = FALSE]
     /\ UNCHANGED conns
  \/ /\ clients[a][b] = NoConn /\ book[a][b] # NoPort
     /\ LET c == NewConn(a) IN
          /\ conns[a][c].status = "free"
          /\ conns' = [conns EXCEPT ![a][c] =
                         [status |-> "connecting", to |-> b, port |-> book[a][b],
                          at |-> NoAgent, q |-> <<m>>]]
     /\ orderly' = [orderly EXCEPT ![a][b] = /\ @ /\ undisturbed
                                             /\ Connecting(a, b) = {}]

\* Message n of a's process, by its own counter or the 1.2 adapter's.
Numbered(a, n, legacy) == [n |-> n, by |-> <<life[a], legacy>>]

\* A send-unicast command, or a reply the agent sends: buildEnvelope takes the
\* next number whatever becomes of the message.
Send(a, b) ==
  /\ up[a] /\ a \in Senders /\ b \in Targets /\ b # a
  /\ seqCounters[a][b] < MaxSeq
  /\ seqCounters' = [seqCounters EXCEPT ![a][b] = @ + 1]
  /\ Transmit(a, b, Numbered(a, seqCounters[a][b] + 1, FALSE), TRUE)
  /\ UNCHANGED <<up, port, book, mail, legacySeq, lastSeen, clients, got, silent,
                 lives>>

\* AgentMom1_2Adapter.sendMessage numbers its messages by a counter of its own,
\* shared by all recipients.
LegacySend(a, b) ==
  /\ up[a] /\ a \in Senders /\ b \in Targets /\ b # a
  /\ legacySeq[a] < MaxSeq
  /\ legacySeq' = [legacySeq EXCEPT ![a] = @ + 1]
  /\ Transmit(a, b, Numbered(a, legacySeq[a] + 1, TRUE), FALSE)
  /\ UNCHANGED <<up, port, book, mail, seqCounters, lastSeen, clients, got, silent,
                 lives>>

\* Mutant of Connected: the message that waited for the connection is forgotten.
ConnectedUnwritten(a, c, x) ==
  LET b == conns[a][c].to IN
  /\ conns[a][c].status = "connecting"
  /\ up[x] /\ port[x] = conns[a][c].port
  /\ conns' = [conns EXCEPT ![a][c].status = "open", ![a][c].at = x, ![a][c].q = <<>>]
  /\ clients' = [clients EXCEPT ![a][b] = c]
  /\ orderly' = [orderly EXCEPT ![a][b] = @ /\ x = b]
  /\ UNCHANGED <<up, port, book, mail, seqCounters, legacySeq, lastSeen, got, silent,
                 lives>>

\* The connect callback: the connection, to whoever listens on the port by now,
\* takes its place in clients and the waiting message is written.
Connected(a, c, x) ==
  LET b == conns[a][c].to IN
  /\ conns[a][c].status = "connecting"
  /\ up[x] /\ port[x] = conns[a][c].port
  /\ conns' = [conns EXCEPT ![a][c].status = "open", ![a][c].at = x]
  /\ clients' = [clients EXCEPT ![a][b] = c]
  /\ orderly' = [orderly EXCEPT ![a][b] = @ /\ x = b]
  /\ UNCHANGED <<up, port, book, mail, seqCounters, legacySeq, lastSeen, got, silent,
                 lives>>

\* Nobody listens: the send rejects, its number is spent.
Refused(a, c) ==
  /\ conns[a][c].status = "connecting"
  /\ \A x \in Agents : up[x] => port[x] # conns[a][c].port
  /\ conns' = [conns EXCEPT ![a][c] = FreeConn]
  /\ orderly' = [orderly EXCEPT ![a][conns[a][c].to] = FALSE]
  /\ UNCHANGED <<up, port, book, mail, seqCounters, legacySeq, lastSeen, clients, got,
                 silent, lives>>

\* Mutant of Closed: the entry is removed, be it a successor's.
ClosedAny(a, c) ==
  LET b == conns[a][c].to IN
  /\ conns[a][c].status = "lost"
  /\ conns' = [conns EXCEPT ![a][c] = FreeConn]
  /\ clients' = [clients EXCEPT ![a][b] = NoConn]
  /\ UNCHANGED <<up, port, book, mail, seqCounters, legacySeq, lastSeen, got,
                 silent, orderly, lives>>

\* The close event, once the socket notices that its far end is gone.
Closed(a, c) ==
  LET b == conns[a][c].to IN
  /\ conns[a][c].status = "lost"
  /\ conns' = [conns EXCEPT ![a][c] = FreeConn]
  /\ clients' = [clients EXCEPT ![a][b] = IF @ = c THEN NoConn ELSE @]
  /\ UNCHANGED <<up, port, book, mail, seqCounters, legacySeq, lastSeen, got,
                 silent, orderly, lives>>

\* The kernel gives up, or is done with, what an ended process had written.
Abandon(a, c) ==
  /\ conns[a][c].status = "left"
  /\ conns' = [conns EXCEPT ![a][c] = FreeConn]
  /\ UNCHANGED <<up, port, book, mail, seqCounters, legacySeq, lastSeen, clients, got,
                 silent, orderly, lives>>

-----------------------------------------------------------------------------
(* Receiving: UnicastTransport.receive and SequenceChecker.observe. *)

\* Mutant of Anomalous: a gap goes unnoticed.
AnomalousBehind(r, s, n) == n <= lastSeen[r][s]

Anomalous(r, s, n) == n # lastSeen[r][s] + 1

\* Mutant of Highest.
Total(m, n) == m + n

Highest(m, n) == IF m > n THEN m ELSE n

\* The next message on a connection of a reaches the process at its far end.
Receive(a, c) ==
  LET m == Head(conns[a][c].q)
      b == conns[a][c].to
      r == conns[a][c].at
  IN
  /\ conns[a][c].status \in {"open", "left"} /\ conns[a][c].q # <<>>
  /\ conns' = [conns EXCEPT ![a][c].q = Tail(@)]
  /\ IF r # b THEN UNCHANGED <<lastSeen, silent, got>>
     ELSE /\ lastSeen' = [lastSeen EXCEPT ![r][a] = Highest(@, m.n)]
          /\ silent' = [silent EXCEPT ![r][a] = @ /\ ~Anomalous(r, a, m.n)]
          /\ got' = [got EXCEPT ![r][a] = IF silent'[r][a] THEN Append(@, m) ELSE <<>>]
  /\ UNCHANGED <<up, port, book, mail, seqCounters, legacySeq, clients, orderly,
                 lives>>

-----------------------------------------------------------------------------

Next ==
  \/ \E a \in Agents : \/ \E p \in Ports : Spawn(a, p)
                       \/ PeerUpdate(a) \/ Die(a)
                       \/ \E b \in Agents : Send(a, b) \/ LegacySend(a, b)
  \/ \E a \in Agents, c \in Conns :
       \/ \E x \in Agents : Connected(a, c, x)
       \/ Refused(a, c) \/ Closed(a, c) \/ Abandon(a, c) \/ Receive(a, c)

Spec == Init /\ [][Next]_vars

\* The event loops run what is due and TCP either delivers or breaks; only senders have
\* connections of their own.
Fairness ==
  /\ \A a \in Agents : WF_vars(PeerUpdate(a))
  /\ \A a \in Senders, c \in Conns :
       /\ WF_vars(Refused(a, c) \/ \E x \in Agents : Connected(a, c, x))
       /\ WF_vars(Closed(a, c))
       /\ WF_vars(Receive(a, c) \/ Abandon(a, c))

FairSpec == Spec /\ Fairness

-----------------------------------------------------------------------------

\* The messages i to j of a history have one source.
Together(h, i, j) == \A k \in i .. j : h[k].by = h[i].by

\* BR-03: what silence means.  As long as an agent reports no anomaly of a sender, the
\* messages that it passed on are, for as long as all have come from one counter, that
\* counter's 1, 2, 3 ...; from then on those of one counter that come one after the
\* other leave none of its messages out; and those of one counter are always in order,
\* none of them twice.  It does not mean that nothing was lost where the counter
\* changes, by a restart of the sender or by the 1.2 interface: the message of a new
\* process may be lost and the next one be what the checker expects.
SilenceMeansOrder ==
  \A r, s \in Agents : silent[r][s] =>
    LET h == got[r][s] IN
    /\ \A j \in DOMAIN h : Together(h, 1, j) => h[j].n = j
    /\ \A i, j \in DOMAIN h : i < j /\ h[i].by = h[j].by =>
         /\ h[i].n < h[j].n
         /\ Together(h, i, j) => h[j].n - h[i].n = j - i

\* BR-02: every anomaly has a cause: two connects to the recipient overlapped, a
\* send failed, one of the two processes ended, or the 1.2 interface was used.
AnomalyHasCause ==
  \A r, s \in Agents : orderly[s][r] => silent[r][s]

EntriesFollow ==
  \A a, b \in Agents : clients[a][b] # NoConn =>
    (clients'[a][b] # NoConn <=> conns'[a][clients[a][b]].status \in {"open", "lost"})

\* An entry of the map is there as long as its connection can be written to or has its
\* close event to come, or is replaced: a send never finds a dead entry that no event
\* will remove, and the close event of a connection that has been replaced leaves the
\* entry of its successor.
ClientsSound == [][EntriesFollow]_vars

\* A1.2, where no two connects overlapped: the open connection of a pair is the
\* one in the map, so that there is one at most.
OneConnection ==
  \A a, b \in Agents, c \in Conns :
    /\ orderly[a][b]
    /\ conns[a][c].status = "open" /\ conns[a][c].to = b
    => clients[a][b] = c

\* 3.2.1.1 / 3.2.1.4: what an undisturbed sender sends is all received in the end.
TrafficArrives ==
  \A s, r \in Agents : []<>(orderly[s][r] => Len(got[r][s]) = seqCounters[s][r])

\* ASSUMPTIONS.md, A1.2: "Exactly one persistent TCP connection per ordered agent
\* pair, so TCP's per-connection ordering suffices; no application resequencing is
\* built."
OneConnectionPerPair ==
  \A a, b \in Agents :
    Cardinality({c \in Conns : conns[a][c].status = "open" /\ conns[a][c].to = b}) <= 1
=============================================================================

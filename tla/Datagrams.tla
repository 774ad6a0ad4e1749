----------------------------- MODULE Datagrams -----------------------------
(***************************************************************************)
(* Best-effort sending: the multicast and broadcast sends of one agent,    *)
(* from the command to the datagram and the event that reports it, with    *)
(* the demo's dials (drop rate, denied broadcast, default TTL) turned      *)
(* meanwhile.  The envelope is that of the module Envelope.                *)
(*                                                                         *)
(* dgram is external.  A datagram leaves at a later tick than the call of  *)
(* send, with the TTL its socket has then; the sends to a group the agent  *)
(* has joined share one socket, any other has an ephemeral socket.         *)
(***************************************************************************)
EXTENDS Envelope, FiniteSets

CONSTANTS
  Sends,       \* the sends
  Groups,      \* what commands give for a group address
  Ttls,        \* TTLs a command or the dial may ask for
  NoTtl        \* the command asks for none

ASSUME DatagramsAssumption ==
  /\ Ttls \subseteq Nat
  /\ NoTtl \notin Nat
  /\ OctetSize % 16 = 0
  /\ Undefined \notin Groups

\* DEFAULT_TTL_UNSUPPORTED_ASSUMPTION, which is also what a new socket has.
DefaultTtl == 1

VARIABLES
  dropRate,    \* BestEffortSimulator.dropRate
  denied,      \* BroadcastTransport.simulateDenied
  defaultTtl,  \* MulticastTransport.defaultTtl
  joined,      \* the group has a socket in MulticastTransport.sockets
  osTtl,       \* the TTL of that socket
  send,        \* each send
  own,         \* the ephemeral socket of each send: none, or its TTL
  wire,        \* history: the datagrams that left for each send
  crossed,     \* history: the shared socket was given another TTL before the send's
               \* datagram left
  ranged,      \* history: the group address of the send's command is a multicast address
  verdict      \* history: what validateEnvelope would say of the send's envelope

vars == <<dropRate, denied, defaultTtl, joined, osTtl, send, own, wire, crossed,
          ranged, verdict>>

checked == <<ranged, verdict>>

Rates == {"none", "some", "all"}

TtlValues == Ttls \union {DefaultTtl}

\* What the operating system takes for a multicast TTL.
Valid(ttl) == ttl \in 0 .. 255

Addresses == {"group", "limited", "directed"}

\* Where a send is: "binding" and the two "sending" states are awaits; the others are
\* the event or the error it ended with, "hung" an await that never ends.
Awaits == {"idle", "binding", "multicast", "limited", "fallback"}

Outcomes == {"sent", "dropped", "denied", "rejected", "failed", "hung"}

NoAddress == "none"

Send == [at : Awaits \union Outcomes, ttl : TtlValues, shared : BOOLEAN,
         address : Addresses \union {NoAddress}]

Datagram == [address : Addresses, ttl : TtlValues, field : TtlValues]

TypeOK ==
  /\ dropRate \in Rates
  /\ denied \in BOOLEAN
  /\ defaultTtl \in TtlValues
  /\ joined \in BOOLEAN
  /\ osTtl \in TtlValues
  /\ send \in [Sends -> Send]
  /\ own \in [Sends -> TtlValues \union {NoTtl}]
  /\ wire \in [Sends -> SUBSET Datagram]
  /\ crossed \in [Sends -> BOOLEAN]
  /\ ranged \in [Sends -> BOOLEAN]
  /\ verdict \in [Sends -> ValidationCode \union {"none"}]

Fresh == [at |-> "idle", ttl |-> DefaultTtl, shared |-> FALSE, address |-> NoAddress]

Init ==
  /\ dropRate = "none"
  /\ denied = FALSE
  /\ defaultTtl = DefaultTtl
  /\ joined \in BOOLEAN
  /\ osTtl = DefaultTtl
  /\ send = [s \in Sends |-> Fresh]
  /\ own = [s \in Sends |-> NoTtl]
  /\ wire = [s \in Sends |-> {}]
  /\ crossed = [s \in Sends |-> FALSE]
  /\ ranged = [s \in Sends |-> FALSE]
  /\ verdict = [s \in Sends |-> "none"]

At(s, where) == send[s].at = where

Goes(s, where) == send' = [send EXCEPT ![s].at = where]

\* Mutant of Reports: the address is not filled in.
ReportsNowhere(s, address) ==
  send' = [send EXCEPT ![s].at = "sent", ![s].address = "unknown"]

\* The event that reports the send names the address it went to.
Reports(s, address) == send' = [send EXCEPT ![s].at = "sent", ![s].address = address]

Departs(s, address, ttl) ==
  wire' = [wire EXCEPT ![s] = @ \union {[address |-> address, ttl |-> ttl,
                                         field |-> send[s].ttl]}]

-----------------------------------------------------------------------------
(* The dials, and the membership of the group. *)

SetDropRate(rate) ==
  /\ dropRate' = rate
  /\ UNCHANGED <<denied, defaultTtl, joined, osTtl, send, own, wire, crossed, checked>>

SetSimulateDenied(v) ==
  /\ denied' = v
  /\ UNCHANGED <<dropRate, defaultTtl, joined, osTtl, send, own, wire, crossed, checked>>

SetDefaultTtl(ttl) ==
  /\ defaultTtl' = ttl
  /\ UNCHANGED <<dropRate, denied, joined, osTtl, send, own, wire, crossed, checked>>

Join ==
  /\ ~joined /\ joined' = TRUE
  /\ osTtl' = DefaultTtl
  /\ UNCHANGED <<dropRate, denied, defaultTtl, send, own, wire, crossed, checked>>

\* The socket is closed: what waits to be sent through it is never called back.
Leave ==
  /\ joined /\ joined' = FALSE
  /\ osTtl' = DefaultTtl
  /\ send' = [s \in Sends |-> IF At(s, "multicast") /\ send[s].shared
                              THEN [send[s] EXCEPT !.at = "hung"]
                              ELSE send[s]]
  /\ UNCHANGED <<dropRate, denied, defaultTtl, own, wire, crossed, checked>>

-----------------------------------------------------------------------------
(* BestEffortSimulator.shouldDrop, checked once, before the message is numbered. *)

MayDrop == dropRate # "none"
MayPass == dropRate # "all"

Dropped(s) ==
  /\ At(s, "idle") /\ MayDrop
  /\ Goes(s, "dropped")
  /\ UNCHANGED <<dropRate, denied, defaultTtl, joined, osTtl, own, wire, crossed, checked>>

\* The envelope does not fit a datagram, or there is no group key to encrypt it with.
Unsendable(s) ==
  /\ At(s, "idle") /\ MayPass
  /\ Goes(s, "failed")
  /\ UNCHANGED <<dropRate, denied, defaultTtl, joined, osTtl, own, wire, crossed, checked>>

-----------------------------------------------------------------------------
(* MulticastTransport.sendMulticast. *)

\* What 224.0.0.0/4 is: the first four bits of the first octet are 1110.
InRange(g) ==
  Len(g) = 4 /\ (\A i \in 1 .. 4 : g[i] \in Octets) /\ g[1] \div (OctetSize \div 16) = 14

\* BR-10: the addresses that pass the check.
Passing == {g \in Groups : IsMulticastAddress(g)}

Ranged(s, g) == ranged' = [ranged EXCEPT ![s] = InRange(g)]

Rejected(s, g) ==
  /\ At(s, "idle") /\ MayPass /\ g \notin Passing
  /\ Goes(s, "rejected")
  /\ Ranged(s, g)
  /\ UNCHANGED <<dropRate, denied, defaultTtl, joined, osTtl, own, wire, crossed, verdict>>

\* The envelope is built for command and mode, encrypted if so told.
Builds(s, env, encrypted) ==
  verdict' = [verdict EXCEPT ![s] = ValidateEnvelope(IF encrypted THEN EncryptOutbound(env)
                                                                 ELSE env)]

\* A multicast envelope, with the TTL its datagram is to have.
BuildsMulticast(s, g, ttl, encrypted) ==
  Builds(s, StampTtl(BuildEnvelope("multicast", Undefined, g, Undefined), ttl), encrypted)

Waiting(s, ttl, where, shared) ==
  [at |-> where, ttl |-> ttl, shared |-> shared, address |-> NoAddress]

\* The sends that wait on the shared socket while s gives it another TTL.
CrossedBy(s, ttl) ==
  [x \in Sends |-> \/ crossed[x]
                   \/ /\ x # s /\ At(x, "multicast") /\ send[x].shared
                      /\ ttl # send[x].ttl]

\* setMulticastTTL and send, through the group's socket.  A TTL the operating system
\* refuses ends the send before it.
SendShared(s, given, g, encrypted) ==
  LET ttl == IF given = NoTtl THEN defaultTtl ELSE given IN
  /\ At(s, "idle") /\ MayPass /\ joined /\ g \in Passing
  /\ Ranged(s, g) /\ BuildsMulticast(s, g, ttl, encrypted)
  /\ \/ /\ Valid(ttl)
        /\ osTtl' = ttl
        /\ send' = [send EXCEPT ![s] = Waiting(s, ttl, "multicast", TRUE)]
        /\ crossed' = CrossedBy(s, ttl)
     \/ /\ ~Valid(ttl)
        /\ Goes(s, "failed")
        /\ UNCHANGED <<osTtl, crossed>>
  /\ UNCHANGED <<dropRate, denied, defaultTtl, joined, own, wire>>

\* ... through an ephemeral one, which is to be bound first.  The TTL is settled.
SendOwn(s, given, g, encrypted) ==
  LET ttl == IF given = NoTtl THEN defaultTtl ELSE given IN
  /\ At(s, "idle") /\ MayPass /\ ~joined /\ g \in Passing
  /\ Ranged(s, g) /\ BuildsMulticast(s, g, ttl, encrypted)
  /\ send' = [send EXCEPT ![s] = Waiting(s, ttl, "binding", FALSE)]
  /\ own' = [own EXCEPT ![s] = DefaultTtl]
  /\ UNCHANGED <<dropRate, denied, defaultTtl, joined, osTtl, wire, crossed>>

\* Mutant of Bound: the ephemeral socket keeps the TTL it was made with.
BoundDefault(s) ==
  /\ At(s, "binding")
  /\ Goes(s, "multicast")
  /\ UNCHANGED <<dropRate, denied, defaultTtl, joined, osTtl, own, wire, crossed, checked>>

\* The ephemeral socket is bound.  If its TTL is refused nobody closes it.
Bound(s) ==
  LET ttl == send[s].ttl IN
  /\ At(s, "binding")
  /\ IF Valid(ttl) THEN Goes(s, "multicast") /\ own' = [own EXCEPT ![s] = ttl]
                   ELSE Goes(s, "failed") /\ UNCHANGED own
  /\ UNCHANGED <<dropRate, denied, defaultTtl, joined, osTtl, wire, crossed, checked>>

\* The datagram leaves and the send is called back, which closes an ephemeral socket.
MulticastSent(s) ==
  /\ At(s, "multicast")
  /\ Departs(s, "group", IF send[s].shared THEN osTtl ELSE own[s])
  /\ Reports(s, "group")
  /\ own' = [own EXCEPT ![s] = NoTtl]
  /\ UNCHANGED <<dropRate, denied, defaultTtl, joined, osTtl, crossed, checked>>

\* Mutant of MulticastFails: the socket is closed when the send succeeds only.
MulticastFailsOpen(s) ==
  /\ At(s, "multicast")
  /\ Goes(s, "failed")
  /\ UNCHANGED <<dropRate, denied, defaultTtl, joined, osTtl, own, wire, crossed, checked>>

MulticastFails(s) ==
  /\ At(s, "multicast")
  /\ Goes(s, "failed")
  /\ own' = [own EXCEPT ![s] = NoTtl]
  /\ UNCHANGED <<dropRate, denied, defaultTtl, joined, osTtl, wire, crossed, checked>>

-----------------------------------------------------------------------------
(* BroadcastTransport.sendBroadcast. *)

SendBroadcast(s) ==
  /\ At(s, "idle") /\ MayPass
  /\ Goes(s, IF denied THEN "denied" ELSE "limited")
  /\ Builds(s, BuildEnvelope("broadcast", Undefined, Undefined, Undefined), FALSE)
  /\ UNCHANGED <<dropRate, denied, defaultTtl, joined, osTtl, own, wire, crossed, ranged>>

\* Mutant of LimitedSent: the directed address is tried as well.
LimitedSentBoth(s) ==
  /\ At(s, "limited")
  /\ Departs(s, "limited", DefaultTtl)
  /\ Goes(s, "fallback")
  /\ UNCHANGED <<dropRate, denied, defaultTtl, joined, osTtl, own, crossed, checked>>

LimitedSent(s) ==
  /\ At(s, "limited")
  /\ Departs(s, "limited", DefaultTtl)
  /\ Reports(s, "limited")
  /\ UNCHANGED <<dropRate, denied, defaultTtl, joined, osTtl, own, crossed, checked>>

\* EACCES or EPERM is reported; after any other error the subnet's own address is
\* tried, if there is one.
LimitedFails(s) ==
  /\ At(s, "limited")
  /\ \E where \in {"denied", "fallback", "failed"} : Goes(s, where)
  /\ UNCHANGED <<dropRate, denied, defaultTtl, joined, osTtl, own, wire, crossed, checked>>

DirectedSent(s) ==
  /\ At(s, "fallback")
  /\ Departs(s, "directed", DefaultTtl)
  /\ Reports(s, "directed")
  /\ UNCHANGED <<dropRate, denied, defaultTtl, joined, osTtl, own, crossed, checked>>

\* Mutant of DirectedFails: the limited address is tried again.
DirectedFailsRetry(s) ==
  /\ At(s, "fallback")
  /\ Goes(s, "limited")
  /\ UNCHANGED <<dropRate, denied, defaultTtl, joined, osTtl, own, wire, crossed, checked>>

\* Whatever the error of the second attempt is, the command fails.
DirectedFails(s) ==
  /\ At(s, "fallback")
  /\ Goes(s, "failed")
  /\ UNCHANGED <<dropRate, denied, defaultTtl, joined, osTtl, own, wire, crossed, checked>>

-----------------------------------------------------------------------------

Begin(s) ==
  \/ Dropped(s) \/ Unsendable(s) \/ SendBroadcast(s)
  \/ \E g \in Groups :
       \/ Rejected(s, g)
       \/ \E given \in Ttls \union {NoTtl}, encrypted \in BOOLEAN :
            SendShared(s, given, g, encrypted) \/ SendOwn(s, given, g, encrypted)

Progress(s) == \/ Bound(s) \/ MulticastSent(s) \/ MulticastFails(s)
               \/ LimitedSent(s) \/ LimitedFails(s) \/ DirectedSent(s) \/ DirectedFails(s)

Dial == \/ \E rate \in Rates : SetDropRate(rate)
        \/ \E v \in BOOLEAN : SetSimulateDenied(v)
        \/ \E ttl \in Ttls : SetDefaultTtl(ttl)

Next == \/ \E s \in Sends : Begin(s) \/ Progress(s)
        \/ Dial \/ Join \/ Leave

Spec == Init /\ [][Next]_vars

\* The agent's event loop runs every callback that is due.
FairSpec == Spec /\ \A s \in Sends : WF_vars(Progress(s))

-----------------------------------------------------------------------------

\* BR-12, BR-13, BR-23: the events tell what happened.  A send that is reported as
\* sent put one datagram on the network, to the address the report names; one that was
\* dropped, denied, failed or hangs put none; and none ever put a second one.
ReportsAreTrue ==
  \A s \in Sends :
    IF At(s, "sent") THEN {d.address : d \in wire[s]} = {send[s].address}
                          /\ Cardinality(wire[s]) = 1
    ELSE wire[s] = {}

\* BR-10: a command's group address is rejected exactly if it lies outside 224.0.0.0/4,
\* and what an agent builds for a group or for all is an envelope by the invariants of
\* its own validator.
GoodEnvelopesLeave ==
  \A s \in Sends :
    /\ At(s, "rejected") => ~ranged[s]
    /\ wire[s] # {} => verdict[s] = "OK"
    /\ (\E d \in wire[s] : d.address = "group") => ranged[s]

\* BR-08, COND-20: a multicast datagram leaves with the TTL its envelope states,
\* unless another send has given the socket they share another TTL meanwhile.
TtlIsStamped ==
  \A s \in Sends : ~crossed[s] =>
    \A d \in wire[s] : d.address = "group" => d.ttl = d.field

\* An ephemeral socket does not outlive its send, unless its TTL was refused.
SocketsClosed ==
  \A s \in Sends :
    own[s] # NoTtl => \/ At(s, "binding") \/ At(s, "multicast")
                      \/ At(s, "failed") /\ ~Valid(send[s].ttl)

\* BR-23: a send ends, with its event or its error, and is not tried for ever.
EverySendEnds == \A s \in Sends : ~At(s, "idle") ~> send[s].at \in Outcomes
=============================================================================

---------------------------- MODULE MCMulticast ----------------------------
(* Instances of Multicast for TLC. *)
EXTENDS Multicast

CONSTANT p1

\* Every group starts on the same port, as groups missing from the table do.
MCGroupPort == [g \in Groups |-> p1]
=============================================================================

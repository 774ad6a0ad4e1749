----------------------------- MODULE MCUnicast -----------------------------
(* Instance: A sends; C may inherit a port. *)
EXTENDS Unicast

CONSTANTS A, B, C, p1, p2, c1, c2
=============================================================================

-------------------------- MODULE MCControlPlane --------------------------
(* Instance: one id, whose process may be followed by a second. *)
EXTENDS ControlPlane

CONSTANTS X, P1, P2, R1, R2
=============================================================================

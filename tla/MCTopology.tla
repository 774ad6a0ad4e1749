----------------------------- MODULE MCTopology -----------------------------
EXTENDS Topology

CONSTANTS A, B, R1, R2

DemoAgents == <<A, B>>

Symmetry == Permutations(Reqs)
=============================================================================

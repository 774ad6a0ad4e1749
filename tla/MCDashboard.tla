---------------------------- MODULE MCDashboard ----------------------------
EXTENDS Dashboard

CONSTANTS A, B

Symmetry == Permutations(Agents)
=============================================================================

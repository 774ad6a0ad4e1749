---------------------------- MODULE MCShutdown ----------------------------
EXTENDS Shutdown

CONSTANTS A, B
=============================================================================

----------------------------- MODULE Lifetimes -----------------------------
(***************************************************************************)
(* What the supervisor promises of the agent processes: of each id one     *)
(* runs at a time, and each process runs once.                             *)
(***************************************************************************)
CONSTANTS Ids, Procs

VARIABLES
  running,   \* the processes that run, of each id
  used       \* those that have been forked

vars == <<running, used>>

Init ==
  /\ running = [i \in Ids |-> {}]
  /\ used = {}

Fork(i, p) ==
  /\ running[i] = {} /\ p \notin used
  /\ running' = [running EXCEPT ![i] = {p}]
  /\ used' = used \union {p}

End(i, p) ==
  /\ p \in running[i]
  /\ running' = [running EXCEPT ![i] = @ \ {p}]
  /\ UNCHANGED used

Next == \E i \in Ids, p \in Procs : Fork(i, p) \/ End(i, p)

Spec == Init /\ [][Next]_vars
=============================================================================

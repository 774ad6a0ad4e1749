SPECIFICATION FairSpec
CONSTANTS
  X = X
  P1 = P1
  P2 = P2
  R1 = R1
  R2 = R2
  Ids = {X}
  Procs = {P1, P2}
  NoProc = NoProc
  Reqs = {R1, R2}
INVARIANTS
  TypeOK
  NoOrphan
  PendingExact
  RegistryAgrees
PROPERTIES
  ImplementsLifetimes
  EveryRequestSettles
CHECK_DEADLOCK FALSE

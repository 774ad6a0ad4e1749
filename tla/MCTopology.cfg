SPECIFICATION Spec
CONSTANTS
  A = A
  B = B
  R1 = R1
  R2 = R2
  Ids = {A, B}
  Demo <- DemoAgents
  MaxProcs = 3
  MaxDials = 2
  Reqs = {R1, R2}
INVARIANTS
  PeersConverge
  DialsAgree
  OneDemo
SYMMETRY Symmetry
CHECK_DEADLOCK FALSE

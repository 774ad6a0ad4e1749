SPECIFICATION FairSpec
CONSTANTS
  A = A
  B = B
  Agents = {A, B}
PROPERTIES
  KillEnds
  
CHECK_DEADLOCK FALSE

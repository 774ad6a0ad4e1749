SPECIFICATION Spec
CONSTANTS
  A = A
  B = B
  Agents = {A, B}
  MaxLog = 2
  Limit = 2
  MaxEvents = 4
  MaxTime = 3
INVARIANT EveryFlowAnimated
SYMMETRY Symmetry
CHECK_DEADLOCK FALSE

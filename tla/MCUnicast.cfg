SPECIFICATION FairSpec
CONSTANTS
  A = A
  B = B
  C = C
  p1 = p1
  p2 = p2
  c1 = c1
  c2 = c2
  Agents = {A, B, C}
  NoAgent = NoAgent
  Senders = {A}
  Targets = {B}
  Mortal = {A, B}
  Ports = {p1, p2}
  NoPort = NoPort
  Conns = {c1, c2}
  NoConn = NoConn
  MaxSeq = 2
  MaxSpawns = 3
INVARIANTS
  TypeOK
  SilenceMeansOrder
  AnomalyHasCause
  OneConnection
PROPERTIES
  ClientsSound
  TrafficArrives
CHECK_DEADLOCK FALSE

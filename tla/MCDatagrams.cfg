SPECIFICATION FairSpec
CONSTANTS
  s1 = s1
  s2 = s2
  Sends = {s1, s2}
  Ttls = {0, 5, 300}
  NoTtl = NoTtl
  OctetSize = 16
  NaN = NaN
  Undefined = Undefined
  Groups <- MCGroups
INVARIANTS
  TypeOK
  ReportsAreTrue
  GoodEnvelopesLeave
  TtlIsStamped
  SocketsClosed
PROPERTIES
  EverySendEnds
CHECK_DEADLOCK FALSE

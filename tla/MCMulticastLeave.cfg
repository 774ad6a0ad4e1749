CONSTANTS
  Agents = {a1}
  Groups = {g1}
  p1 = p1
  Ports = {p1, p2}
  GroupPort <- MCGroupPort
  Slots = {c1, c2}
  Handles = {h1, h2}
  NoHandle = NoHandle
  Named = {g1, g2}
  NoGroup = NoGroup
  Garbage = Garbage
  Ttls = {0, 1}
  MaxInFlight = 1
SPECIFICATION Spec
INVARIANT NoTrafficAfterLeave


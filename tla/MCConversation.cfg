SPECIFICATION FairSpec
CONSTANTS
  B = B
  C = C
  D = D
  Agents = {B, C, D}
  KeyHolder = D
  AllowList = {C, D}
  Components = {B}
  Switched = {C}
  Movers = {C}
  Mortal = {D}
  Senders = {D}
  Bodies = {"ping"}
  MaxCommands = 2
  MaxKeys = 2
INVARIANTS
  TypeOK
  OnlyAllowedRead
  OneKeyPerGroup
  NoDowngrade
  OneAnswer
  RequestServed
PROPERTIES
  Quiet
CHECK_DEADLOCK FALSE

SPECIFICATION Spec
CONSTANTS
  A = A
  B = B
  Me = A
  OctetSize = 2
  NaN = NaN
  Undefined = Undefined
  Envelopes <- MCEnvelopes
  Text <- MCText
  Base = 2
  Unparsable = Unparsable
  MaxSent = 3
INVARIANTS
  ReadsWhatIsBuilt
  NothingHeldBack
PROPERTY ImplementsChannel
CHECK_DEADLOCK FALSE

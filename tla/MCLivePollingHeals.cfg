SPECIFICATION Spec
CONSTANTS
  a1 = a1
  a2 = a2
  Address = {a1, a2}
  None = None
  Poll = {p1}
  Cycle = {c1}
  Handler = {h1}
  Op = {p1, c1, h1}
  Offer <- TwoAddresses
  MaxMoves = 1
  MaxLost = 1
  MaxSets = 2
  MaxRequests = 2
  MaxCrashes = 1
PROPERTIES
  Converges
CHECK_DEADLOCK FALSE

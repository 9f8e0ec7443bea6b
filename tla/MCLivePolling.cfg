SPECIFICATION Spec
SYMMETRY Symmetry
CONSTANTS
  a1 = a1
  a2 = a2
  Address = {a1, a2}
  None = None
  Poll = {p1, p2}
  Cycle = {c1}
  Handler = {h1, h2}
  Op = {p1, p2, c1, h1, h2}
  Offer <- WithAndWithout
  MaxMoves = 0
  MaxLost = 0
  MaxSets = 2
  MaxRequests = 3
  MaxCrashes = 1
INVARIANTS
  InTurn
  ShowsOwnAddress
PROPERTIES
  ImplementsQueue
  ValuesNeverGoBack
CHECK_DEADLOCK FALSE

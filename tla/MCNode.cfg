SPECIFICATION NodeSpec
CONSTANTS
  p1 = p1
  p2 = p2
  p3 = p3
  Peer = {p1, p2}
  Capacity = 1
  DispatchTTL = 1
  HalfLife = 12
  MaxWorth = 1
  MaxInFlight = 2
  None = None
  Salt <- EqualSalts
  FloorDepth = 100
  FloorCut = 10
  MaxClock = 1
  MaxLag = 1
  EpochModulus = 1
  MaxWant = 1
  MaxCandidates = 1
  MaxCount = 1
  Results = {"soft"}
  Scores = {0}
  Points = {1}
  Followed = {p1}
  MaxRunning = 2
INVARIANTS
  TypeOK
  BusyStamped
  AccountCovers
PROPERTIES
  ReclaimNotEarly

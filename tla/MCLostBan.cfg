SPECIFICATION BanSpec
CONSTANTS
  p1 = p1
  p2 = p2
  p3 = p3
  Peer = {p1, p2}
  Capacity = 1
  DispatchTTL = 1
  HalfLife = 12
  MaxWorth = 1
  MaxInFlight = 1
  None = None
  Salt <- EqualSalts
  FloorDepth = 100
  FloorCut = 10
  MaxClock = 0
  MaxLag = 0
  EpochModulus = 1
  MaxWant = 1
  MaxCandidates = 1
  MaxCount = 0
  Results = {"measured"}
  Scores = {0}
  Points = {1}
SYMMETRY Symmetry
INVARIANTS
  BannedIneligible

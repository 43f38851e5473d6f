SPECIFICATION LiveSpec
CONSTANTS
  p1 = p1
  p2 = p2
  p3 = p3
  Peer = {p1}
  Capacity = 1
  DispatchTTL = 2
  HalfLife = 12
  MaxWorth = 1
  MaxInFlight = 2
  None = None
  Salt <- EqualSalts
  FloorDepth = 100
  FloorCut = 10
  MaxClock = 4
  MaxLag = 1
  EpochModulus = 1
  MaxWant = 1
  MaxCandidates = 1
  MaxCount = 1
  Results = {"soft"}
  Scores = {0}
  Points = {1}
PROPERTIES
  AbandonedFreed

SPECIFICATION Spec
CONSTANTS
  p1 = p1
  p2 = p2
  p3 = p3
  Peer = {p1, p2, p3}
  Capacity = 1
  DispatchTTL = 1
  HalfLife = 12
  MaxWorth = 1
  MaxInFlight = 1
  None = None
  Salt <- EqualSalts
  FloorDepth = 100
  FloorCut = 10
  MaxClock = 1
  MaxLag = 1
  EpochModulus = 1
  MaxWant = 1
  MaxCandidates = 2
  MaxCount = 0
  Results = {"measured"}
  Scores = {0}
  Points = {1}
SYMMETRY Symmetry
INVARIANTS
  SideMapsTracked
  EvictionIsTheLoop
PROPERTIES
  BoundRestored
  LiveLinkKept
  BusyShedLast
  WorthKept
  ImplementsPool

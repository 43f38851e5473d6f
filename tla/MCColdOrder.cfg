SPECIFICATION Spec
CONSTANTS
  p1 = p1
  p2 = p2
  p3 = p3
  p4 = p4
  Peer = {p1, p2, p3}
  Capacity = 4
  DispatchTTL = 1
  HalfLife = 12
  MaxWorth = 1
  MaxInFlight = 1
  None = None
  Salt <- SmallSalts
  FloorDepth = 104
  FloorCut = 16
  Wants = {3}
  Results = {"unmeasured"}
  Scores = {0}
INVARIANTS
  ColdByCoverage

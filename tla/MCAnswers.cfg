SPECIFICATION Spec
CONSTANTS
  p1 = p1
  p2 = p2
  p3 = p3
  p4 = p4
  Peer = {p1, p2, p3}
  Capacity = 4
  DispatchTTL = 1
  HalfLife = 12
  MaxWorth = 1
  MaxInFlight = 1
  None = None
  Salt <- SmallSalts
  FloorDepth = 104
  FloorCut = 16
  Wants = {1, 2, 3, 4}
  Results = {"measured", "hard"}
  Scores = {0, 8, 16}
INVARIANTS
  TypeOK
  PassOneIsTheLoop
  ProvenLeads
  ColdBudgetKept
  NoSlotLost

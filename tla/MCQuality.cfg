SPECIFICATION Spec
CONSTANTS
  p1 = p1
  Peer = {p1}
  Capacity = 1
  DispatchTTL = 1
  HalfLife = 12
  MaxWorth = 1
  MaxInFlight = 1
  None = None
  Rates = {1, 2, 4}
  Unit = 4
  Scale = 64
  MaxSamples = 9
  Salts = {0, 100, 101, 200}
  FloorDepth = 100
  Bonuses = {0, 7}
INVARIANTS
  TypeOK
  FollowsShift
PROPERTIES
  LearnsAsAssumed
  FailureNeverHelps

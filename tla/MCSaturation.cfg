SPECIFICATION Spec
CONSTANTS
  p1 = p1
  p2 = p2
  Peer = {p1}
  Kinds = {"direct", "relayed"}
  Rates = {7, 10}
  Unit = 4
  MaxInFlight = 4
  MaxCount = 1
  MaxSamples = 3
  None = None
INVARIANTS
  TypeOK
  PointWithinEvidence
  OverloadCounted
  PenaltyFair

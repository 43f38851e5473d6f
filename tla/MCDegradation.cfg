SPECIFICATION Spec
CONSTANTS
  p1 = p1
  p2 = p2
  Peer = {p1}
  Kinds = {"relayed"}
  Rates = {7, 10}
  Unit = 4
  MaxInFlight = 5
  MaxCount = 1
  MaxSamples = 3
  None = None
PROPERTIES
  DegradationLowers

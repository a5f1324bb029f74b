SPECIFICATION Spec
CONSTANTS
  x = x  y = y  u = u  v = v  w = w  z = z
  NoClient = NoClient
  Lower <- ToLower
  SizeOf <- Size
  Segments <- PathSegments
  IgnoredHeaders = {}
  Policy <- Secrets
  TooLong = {}
  States = {"open", "full"}
  InitialState = "open"
  Clients = {x, y, u, v}
  Setups <- AppendSetups
  Transitions <- Cart
  MaxVariables = 4
  MaxKeys = 2
  Upstream <- Origin
INVARIANTS
  MissRecordedOnce
  ReplayedIsRecorded
PROPERTIES
  EveryRequestEnds
CHECK_DEADLOCK FALSE

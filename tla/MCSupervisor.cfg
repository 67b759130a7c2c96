SPECIFICATION MCSpec
CONSTANTS
  HAConnections = 3
  EdgeCapacity = 2
  IsStaticEdge = TRUE
  MaxRetries = 1
  c1 = c1
  c2 = c2
  c3 = c3
  c4 = c4
  v6a = v6a
  v6b = v6b
  v6c = v6c
  v4a = v4a
  v4b = v4b
  v4c = v4c
  Nil = Nil
  None = None
  Conns = {c1, c2, c3, c4}
  RegionList <- MixedLists
  IPVersion <- Versions
  OverrideIPVersion = "Auto"
INVARIANTS AddrsSound EnoughAddrs
PROPERTIES AddrSteps RunStops FailedIsRetried
CHECK_DEADLOCK FALSE

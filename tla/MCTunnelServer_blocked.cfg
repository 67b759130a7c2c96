CONSTANTS
  c1 = c1
  c2 = c2
  Conns = {c1}
  QueueSize = 2
  Selectors = {"static", "default", "remote"}
  MaxRetries = 2
  MaxEdgeAddrRetries = 1
  SpareAddrs = TRUE
SPECIFICATION FairSpec
CHECK_DEADLOCK FALSE
INVARIANTS ServeSound
PROPERTIES SwitchNeedsReason BlockedQuicFallsBack ServeStops

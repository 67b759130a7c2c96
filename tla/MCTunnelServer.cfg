CONSTANTS
  c1 = c1
  c2 = c2
  Conns = {c1, c2}
  QueueSize = 3
  Selectors = {"default"}
  MaxRetries = 1
  MaxEdgeAddrRetries = 0
  SpareAddrs = FALSE
SPECIFICATION Spec
CHECK_DEADLOCK FALSE
SYMMETRY ConnSymmetry
CONSTRAINT NoEventDropped
INVARIANTS ReadyIsHonest

CONSTANTS
  HAConnections = 3
  EdgeCapacity = 3
  IsStaticEdge = FALSE
  MaxRetries = 1
  Nil = Nil
SPECIFICATION Spec
CHECK_DEADLOCK FALSE
INVARIANTS Bookkeeping
PROPERTIES GraceOnlyWhenAllConnected

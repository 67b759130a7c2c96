SPECIFICATION MCSpec
CONSTANTS
  Sessions = {s1, s2}
  IDs = {x1, x2}
  Nil = Nil
  Reqs = {r1}
INVARIANTS SessionsSound HonestOutcome CleanTeardown
PROPERTIES SessionsEnd UnregisteredEnds PipeWindsDown
CHECK_DEADLOCK FALSE

SPECIFICATION Spec
CONSTANTS
  LastVersion = 2
  Configs <- MCConfigs
  MaxWrites = 2
  EnvFails = TRUE
  p1 = p1
  p2 = p2
  Procs = {p1, p2}
  CommandChoices <- MCChoices
  None = None
  Stranger = Stranger
  MaxRetries = 1
  PollAttempts = 2
INVARIANTS SomeGoodBinary LockSound
PROPERTIES ShutdownCompletes UpdateTakesEffect ServicesConverge CommandEnds
CHECK_DEADLOCK FALSE

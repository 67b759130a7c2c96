SPECIFICATION MCSpec
CONSTANTS
  Updaters = {u1, u2}
  MaxVersion = 2
  WarpVersions = {1}
  Generations = 3
  Nil = Nil
  Confs <- MCConfs
  CLIs <- MCCLIs
  Asks <- MCAsks
  RegexpMatch <- AllRegexps
  Lower <- AllLower
  ManagementHost <- MCManagementHost
  c1 = c1
  c2 = c2
  Conns = {c1, c2}
  ActorChoices <- MCActors
  Tails = {c2}
  Window = 1
  MaxEvents = 2
INVARIANTS ServesLatest FirstMeantRule MigrationKeepsOrigins
PROPERTIES ImplementsConfigService OriginsStop GoneClientFreesSession PreemptedIsClosed
CHECK_DEADLOCK FALSE

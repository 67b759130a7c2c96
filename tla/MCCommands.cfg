SPECIFICATION CommandsSpec
CONSTANTS
  TunnelNames = {"a", "b"}
  MaxTunnels = 3
  VnetNames = {"x", "y"}
  MaxVnets = 3
  GarbledCreate = FALSE
  Sessions <- MCSessions
  MaxCommands = 3
INVARIANTS CreatedIsRunnable NoOrphanTunnel
PROPERTY OnlyWhatWasAsked
CHECK_DEADLOCK FALSE

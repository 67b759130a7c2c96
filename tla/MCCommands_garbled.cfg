SPECIFICATION CommandsSpec
CONSTANTS
  TunnelNames = {"a", "b"}
  MaxTunnels = 3
  VnetNames = {"x", "y"}
  MaxVnets = 3
  GarbledCreate = TRUE
  Sessions <- MCSessions
  MaxCommands = 3
INVARIANT CreatedIsRunnable
CHECK_DEADLOCK FALSE

SPECIFICATION Spec
CONSTANTS
    DefaultWindow = 2
    MaxWindow = 3
    WriteBufferMax = 1
    MaxFrameSize = 1
    MaxStreamID = 1
    Loads <- MCLoads
    MaxHeartbeats = 2
    MaxTraffic = 1
INVARIANTS FlowControlSound HandshakeSound HealthyNotDropped
PROPERTY DeadConnectionNoticed
CHECK_DEADLOCK FALSE

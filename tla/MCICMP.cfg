SPECIFICATION ICMPSpec
CONSTANTS
  Conns = {c1, c2}
  Keys <- MCKeys
  NumEchoIDs = 2
  PacketChanCapacity = 1
  MaxPackets = 3
INVARIANTS FlowsSound
PROPERTY QuietFlowsEnd
CHECK_DEADLOCK FALSE

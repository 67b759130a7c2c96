SPECIFICATION ICMPSpec
CONSTANTS
  Conns = {c1, c2}
  Keys <- MCKeys
  NumEchoIDs = 2
  PacketChanCapacity = 1
  MaxPackets = 4
INVARIANT UniqueEchoID
CHECK_DEADLOCK FALSE

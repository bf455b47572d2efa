SPECIFICATION Spec
CONSTANTS
  None = None
  Messages <- CommandMessages
  Packets <- CommandPackets
  PacketSize = 4
  VersionLen = 1
  HeaderLen = 3
  V1Len = 4
  MaxMessage = 7
  SessionMod = 3
  MaxGeneration = 2
  LateCompletions = TRUE
CHECK_DEADLOCK FALSE
INVARIANT
  OldPacketRejected

SPECIFICATION Spec
CONSTANTS
  None = None
  Messages <- CommandMessages
  Packets <- CommandPackets
  PacketSize = 4
  VersionLen = 1
  HeaderLen = 3
  V1Len = 4
  MaxMessage = 7
  SessionMod = 3
  MaxGeneration = 3
  LateCompletions = FALSE
CHECK_DEADLOCK FALSE
INVARIANTS
  TypeOK RebootOnlyComplete NothingDropped
PROPERTY
  SessionFresh

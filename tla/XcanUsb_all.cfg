SPECIFICATION FairSpec
CONSTANTS
  None = None
  Messages <- AllMessages
  Packets <- AllPackets
  PacketSize = 4
  VersionLen = 1
  HeaderLen = 3
  V1Len = 4
  MaxMessage = 7
  SessionMod = 3
  MaxGeneration = 2
  LateCompletions = TRUE
CHECK_DEADLOCK FALSE
INVARIANTS
  Reassembly WakeNotLost LinkAlive ResponseOfThisConnection
  RebootAfterOwnResponse StaleNeverExecuted
PROPERTIES
  RequestStable AtMostOnce Rearmed

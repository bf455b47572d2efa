SPECIFICATION FairSpec
CONSTANTS
  old = old
  new = new
  unsigned = unsigned
  None = None
  Images <- MCImages
  Length <- MCLength
  HeaderImages <- MCHeaderImages
  SignedImages <- MCSignedImages
  Installed = old
  PageWords = 2
  Pages = 4
  MinWords = 2
  ChunkMax = 2
INVARIANTS
  TypeOK PendingVerified RollbackIntact AckedStored WriteTargetErased
  CompleteMeansPending FlashExclusive
PROPERTIES
  UnconfirmedReverts EraseEnds Implements

SPECIFICATION FairSpec
CONSTANTS
  old = old
  new = new
  newer = newer
  unsigned = unsigned
  None = None
  Images <- MCImages
  SignedImages <- MCSignedImages
  Installed = old
  Updates <- MCUpdates
  Size <- NearSizes
  Pages = 4
  MaxCuts = 1
  TornMagic = TRUE
\* halt() in boot/main.c stops; BootEnds shows that it is not reached
CHECK_DEADLOCK FALSE
INVARIANTS
  TypeOK NothingLost ResumeFindsHeaders
PROPERTIES
  Implements UpdateTaken BootEnds

SPECIFICATION FairSpec
CONSTANTS
  old = old
  new = new
  other = other
  mixed = mixed
  None = None
  Images <- MCImages
  Length <- MCLength
  HeaderImages <- MCHeaderImages
  SignedImages <- MCSignedImages
  Installed = old
  Files <- MCFiles
  Mixed = mixed
  PageWords = 1
  Pages = 4
  MinWords = 1
  ChunkMax = 1
  MaxAttempts = 2
  MaxRuns = 3
INVARIANTS
  TypeOK
PROPERTIES
  AnswerIsOwn PromiseKept UndisturbedSucceeds RunEnds

SPECIFICATION Spec
CONSTANTS
  old = old
  new = new
  newer = newer
  unsigned = unsigned
  None = None
  Images <- MCImages
  SignedImages <- MCSignedImages
  Installed = old
  Updates <- MCUpdates
  Size <- NearSizes
  Pages = 4
  MaxCuts = 2
  TornMagic = FALSE
PROPERTY
  CutsSurvived

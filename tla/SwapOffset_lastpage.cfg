SPECIFICATION Spec
CONSTANTS
  old = old
  new = new
  newer = newer
  unsigned = unsigned
  None = None
  Images <- MCImages
  SignedImages <- MCSignedImages
  Installed = old
  Updates <- MCUpdates
  Size <- FarSizes
  Pages = 4
  MaxCuts = 1
  TornMagic = FALSE
PROPERTY
  UnconfirmedGoesBack

SPECIFICATION FairSpec
CONSTANTS
  Mark = 1
  Reserved = 0
  MaxPayload = 2
  MaxBytes = 6
  MaxPiece = 4
INVARIANTS
  TypeOK CutIndependent
PROPERTY
  Terminates

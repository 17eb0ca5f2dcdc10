\* Up to five characters ever inserted, so up to five pieces.
SPECIFICATION Spec
CONSTANTS
  a = a
  b = b
  Char   <- MCChar
  Inputs <- MCInputs
  EraseLens = {0, 1, 2, 9}
  MaxAdded  = 5
INVARIANTS
  TypeOK
  PiecesApart
  ReadsAgree
PROPERTY
  Implements

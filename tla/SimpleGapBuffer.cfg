\* A buffer constructed with room for one character, so that it grows.
SPECIFICATION Spec
CONSTANTS
  a = a
  b = b
  Char   <- MCChar
  Inputs <- MCInputs
  Zero        = zero
  InitialSize = 1
  CharGrowth  = 2
  EraseLens   = {0, 1, 2, 9}
  MaxText     = 4
INVARIANT
  TypeOK
PROPERTY
  Implements

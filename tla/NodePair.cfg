\* Two nodes edited byte by byte; every allocation may fail.
SPECIFICATION Spec
CONSTANTS
  a = a
  b = b
  Char   <- MCChar
  Inputs <- MCInputs
  Zero       = zero
  DefaultGap = 1
  DeletePad  = 1
  MaxText    = 3
  AllocMayFail = TRUE
INVARIANTS
  TypeOK
  ReadsAgree
PROPERTIES
  Implements
  EachNodeExact

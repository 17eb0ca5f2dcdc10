\* The fuzzer exits when it has reported a bug.
SPECIFICATION FuzzSpec
CONSTANTS
  Node = {n1, n2, n3}
  head = head
  Nil  = Nil
  a = a
  b = b
  Char   <- TwoChars
  Inputs <- Repeats
  EraseLens = {1, 2, 3}
  MaxLevel = 2
  NodeMax  = 1
  SizeMod  = 16
  MaxText  = 4
  AllocMayFail = TRUE
SYMMETRY Symmetry
CHECK_DEADLOCK FALSE
INVARIANT OnlyFailuresCaught

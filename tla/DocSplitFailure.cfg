SPECIFICATION Spec
CONSTANTS
  Node = {n1, n2, n3}
  head = head
  Nil  = Nil
  a = a
  b = b
  Char   <- OneChar
  Inputs <- Runs
  EraseLens = {1, 2}
  MaxLevel = 2
  NodeMax  = 2
  SizeMod  = 16
  MaxText  = 4
  AllocMayFail = TRUE
SYMMETRY Symmetry
INVARIANT ConsistentAfterFailure

SPECIFICATION FairSpec
CONSTANTS
  Node = {n1, n2}
  head = head
  Nil  = Nil
  a = a
  b = b
  Char   <- OneChar
  Inputs <- RunsAndEmpty
  EraseLens = {1, 15}
  MaxLevel = 2
  NodeMax  = 2
  SizeMod  = 16
  MaxText  = 3
  AllocMayFail = FALSE
PROPERTY EraseReturns

\* Edits of a text in at most four nodes on three levels, no failures.
SPECIFICATION Spec
CONSTANTS
  Node = {n1, n2, n3, n4}
  head = head
  Nil  = Nil
  a = a
  b = b
  Char   <- TwoChars
  Inputs <- Words
  EraseLens = {1, 3}
  MaxLevel = 3
  NodeMax  = 1
  SizeMod  = 16
  MaxText  = 4
  AllocMayFail = FALSE
SYMMETRY Symmetry
INVARIANTS
  TypeOK
  SpanExact
  LevelsNested
  NoLeak
  MemorySafe
  FindExact
  TargetExists
  ReadsAgree
  NodeSizeBounded
PROPERTIES
  OthersUndisturbed
  Implements

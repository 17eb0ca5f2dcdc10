\* Empty insertions, lengths beyond the end, and allocations that fail.
SPECIFICATION FairSpec
CONSTANTS
  Node = {n1, n2, n3}
  head = head
  Nil  = Nil
  a = a
  b = b
  Char   <- OneChar
  Inputs <- RunsAndEmpty
  EraseLens = {0, 1, 2, 5}
  MaxLevel = 2
  NodeMax  = 2
  SizeMod  = 16
  MaxText  = 4
  AllocMayFail = TRUE
INVARIANTS
  
  TotalSizeNeverAhead
  SpanExact
  LevelsNested
  MemorySafe
  NoEmptyNode
PROPERTIES
  LosesOnlyNewBlocks
  CallsReturn

SPECIFICATION Spec
CONSTANTS
  Size  <- TheSize
  Times <- TheTimes
  Block <- TheBlock
  Chunk = 2
  Repeats = 2
  Period = 4
  Available <- All
INVARIANTS
  EditsInRange
  SameWork
PROPERTY Finishes

SPECIFICATION Spec
CONSTANTS
  Node = {n1, n2, n3, n4}
  head = head
  Nil  = Nil
  a = a
  u = u
  Nul = Nul
  Bad = Bad
  Char   <- TheChars
  Width  <- TheWidth
  Inputs <- TheInputs
  DelLens = {1, 3, 6}
  MaxHeight = 3
  NodeStrSize = 2
  MaxText  = 5
SYMMETRY Symmetry
INVARIANTS
  TypeOK
  RopeCheck
  IterExact
  MemorySafe
  NeverStuck
PROPERTIES
  Implements
  CallsProgress

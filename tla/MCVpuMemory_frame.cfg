CONSTANTS
  Modulus = 16
  DefaultMemLen = 4
  SdzFrame = 2
  StackSize = 3
  Byte = {0, 1}
  Payloads <- MarkedPayloads
  RegValues = {2, 15}
  MemSizes = {4, 5}
  StaticLimit = 3

SPECIFICATION Spec

INVARIANTS
  TypeOK
  InBounds
  StaticIntact
  StackPlaced

PROPERTY StackConfined

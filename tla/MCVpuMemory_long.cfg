CONSTANTS
  Modulus = 32
  DefaultMemLen = 4
  SdzFrame = 2
  StackSize = 3
  Byte = {0, 1}
  Payloads <- LongPayloads
  RegValues = {2, 31}
  MemSizes = {4, 5}
  StaticLimit = 6

SPECIFICATION Spec

INVARIANT StaticIntact

CONSTANTS
  Modulus = 16
  DefaultMemLen = 5
  SdzFrame = 2
  StackSize = 3
  Byte = {0, 1, 2}
  Payloads <- MixedPayloads
  RegValues = {2, 15}
  MemSizes = {5, 6}
  StaticLimit = 2

SPECIFICATION DisciplinedSpec

PROPERTY StackPromise

SPECIFICATION Spec
CONSTANTS
    ByteBits = 1
    MemLen <- MCMemLen
    DefaultMem <- MCMemLen
    DataBase <- MCDataBase
    Garbage <- MCGarbage
    Programs <- MCCharacter
CHECK_DEADLOCK FALSE
INVARIANT OperandsIntact

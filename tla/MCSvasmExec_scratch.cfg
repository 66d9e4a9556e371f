SPECIFICATION Spec
CONSTANTS
    ByteBits = 1
    MemLen <- MCMemLen
    DefaultMem <- MCMemLen
    DataBase <- MCDataBase
    Garbage <- MCGarbage
    Programs <- MCScratch
CHECK_DEADLOCK FALSE
PROPERTY ImplementsSource

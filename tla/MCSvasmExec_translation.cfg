SPECIFICATION Spec
CONSTANTS
    ByteBits = 1
    MemLen <- MCMemLen
    DefaultMem <- MCMemLen
    DataBase <- MCDataBase
    Garbage <- MCGarbage
    Programs <- MCPrograms
CHECK_DEADLOCK FALSE
INVARIANTS TypeOK RoundTrip OperandsIntact
PROPERTIES ImplementsSource Finishes

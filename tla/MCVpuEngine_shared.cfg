CONSTANTS
  NProc = 2
  Modulus = 16
  Threadings = {TRUE}
  Programs <- SharingPrograms
SPECIFICATION Spec
PROPERTY PrivateStacks
CHECK_DEADLOCK FALSE

CONSTANTS
  NProc = 3
  Modulus = 16
  Threadings = {TRUE, FALSE}
  Programs <- CallingPrograms
SPECIFICATION SoleCallerSpec
PROPERTIES PrivateStacks ReturnsToCaller
CHECK_DEADLOCK FALSE

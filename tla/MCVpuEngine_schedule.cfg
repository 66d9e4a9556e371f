CONSTANTS
  NProc = 3
  Modulus = 8
  Threadings = {TRUE, FALSE}
  Programs <- ScheduledPrograms
SPECIFICATION FairSpec
INVARIANTS TypeOK NoneLost FewMissedTurns
PROPERTIES OneTurnARound SpentOnce EndedLeaves KeepsRunning Completion
CHECK_DEADLOCK FALSE

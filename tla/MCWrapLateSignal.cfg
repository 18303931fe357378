CONSTANTS
  NULL = NULL
  Shared = FALSE
  Deadline = FALSE
  CanDetach = FALSE
  MaxChunks = 1
  Time <- MCOneTime
  ClockSteps = FALSE

SPECIFICATION FairSpec
PROPERTY LateSignalKeepsOutcome
CHECK_DEADLOCK FALSE

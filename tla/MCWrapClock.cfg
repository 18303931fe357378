CONSTANTS
  NULL = NULL
  Shared = FALSE
  Deadline = FALSE
  CanDetach = FALSE
  MaxChunks = 1
  Time <- MCTime
  ClockSteps = TRUE

SPECIFICATION Spec
INVARIANT OutputFailureClosesRun
CHECK_DEADLOCK FALSE

CONSTANTS
  NULL = NULL
  Shared = FALSE
  Deadline = FALSE
  CanDetach = FALSE
  MaxChunks = 1
  Time <- MCTime
  ClockSteps = FALSE

SPECIFICATION FairSpec
INVARIANTS
  CommandHasRecord
  SuccessIsEarned
  StatusTellsRecord
  OutcomeTellsWhy
  RunIsClosed
PROPERTIES
  SignalEndsWrap
CHECK_DEADLOCK FALSE

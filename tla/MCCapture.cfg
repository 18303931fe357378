CONSTANTS
  Shared = TRUE
  Deadline = TRUE
  CanDetach = TRUE
  MaxChunks = 2
  JobFaults = TRUE

SPECIFICATION RunSpec
INVARIANTS
  CountsSettled
  NothingTruncated
  OwnKillNotReported
  FailedStartLeavesNothing
PROPERTIES
  OutputFailureEnds
  CancellationEnds
  ImplementsCapture
CHECK_DEADLOCK FALSE

CONSTANTS
  a1 = a1
  c1 = c1
  c2 = c2
  Adders = {a1}
  Closers = {c1, c2}
  MaxTries = 2
  MaxFaults = 1

SPECIFICATION FairSpec
INVARIANTS
  StatusIsTrue
  RecordedOnce
PROPERTIES
  IntentsAreRecorded
CHECK_DEADLOCK FALSE

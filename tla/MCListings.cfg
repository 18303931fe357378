\* Paging through runs, and through findings, while other processes write.
CONSTANTS
  RunID = {1, 2, 3, 4}
  FindingID = {1, 2, 3}
  ClosureID = {1, 2}
  Time = {1, 2}
  NoQuery = NoQuery
  NULL = NULL
  Needle <- MCNeedle
  Specific <- MCSpecific
  Texts <- MCTexts
  NameOf <- MCNameOf
  Options <- MCOptions
  InitialLedgers <- MCLedgers

SPECIFICATION ListingSpec
INVARIANTS
  NothingSkipped
  PagesPartition
PROPERTIES
  RelevanceNeverFalls
CHECK_DEADLOCK FALSE

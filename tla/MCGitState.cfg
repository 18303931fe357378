CONSTANTS
  p1 = p1
  c1 = c1
  c2 = c2
  Proc = {p1}
  Wrap = {p1}
  Writers = {p1}
  Cwd <- Below
  Commits = {c1, c2}
  Ignored = FALSE
  Faults = TRUE
  MaxChanges = 1

SPECIFICATION FairSpec
INVARIANTS
  ReportWasTrue
  OwnLedgerKeepsClean
PROPERTIES
  DetectEnds
CHECK_DEADLOCK FALSE

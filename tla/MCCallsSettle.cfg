CONSTANTS
  NULL = NULL
  p1 = p1
  p2 = p2
  r1 = r1
  r2 = r2
  e1 = e1
  e2 = e2
  m1 = m1
  s1 = s1
  RunID = {r1, r2}
  EventID = {e1, e2}
  FindingID = {}
  ClosureID = {}
  Meta = {m1}
  ValidMeta = {m1}
  Content = {}
  Signal = {s1}
  Time = {0, 1, 2}
  Proc = {p1, p2}
  Requests <- MCRequests
  InitialLedgers <- MCLedgers
  BusyRetries = 1
  MaxCalls = 2

SPECIFICATION CallsSpec
INVARIANTS
  SchemaAgreesWithCode
PROPERTIES
  CallsSettle
CHECK_DEADLOCK FALSE

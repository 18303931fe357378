CONSTANTS
  NULL = NULL
  r1 = r1
  r2 = r2
  r3 = r3
  e1 = e1
  e2 = e2
  e3 = e3
  e4 = e4
  e5 = e5
  e6 = e6
  f1 = f1
  f2 = f2
  k1 = k1
  k2 = k2
  m1 = m1
  x1 = x1
  p1 = p1
  p2 = p2
  RunID = {r1, r2, r3}
  EventID = {e1, e2, e3, e4, e5, e6}
  FindingID = {f1, f2}
  ClosureID = {k1, k2}
  Meta = {m1}
  ValidMeta = {m1}
  Content = {x1}
  Signal = {}
  Time = {1, 2}
  Proc = {p1, p2}
  Requests <- MCRequests
  InitialLedgers <- MCLedgers
  BusyRetries = 1
  MaxCalls = 2

SPECIFICATION StoreSpec
SYMMETRY Symmetry
INVARIANTS
  TypeOK
  DoctorFindsNothing
  AcknowledgedIsRecorded
  SnapshotsAgree
  LinksResolve
  SchemaAgreesWithCode
PROPERTIES
  AppendOnly
  RetryNeverRefused
  KeepsPromise
CHECK_DEADLOCK FALSE

SPECIFICATION Spec
CONSTANTS
  None = None
  t1 = t1
  t2 = t2
  r1 = r1
  r2 = r2
  p1 = p1
  p2 = p2
  d1 = d1
  x1 = x1
  z1 = z1
  g1 = g1
  Tasks = {t1}
  Routes = {r1, r2}
  Reports = {p1, p2}
  Declines = {d1}
  Inspections = {x1}
  Clears = {z1}
  Toggles = {g1}
  Unnamed = {r1, r2}
  Contents = {same}
  same = same
  MaxAge = 0
  MaxRecords = 1
  MaxEvents = 1
  MaxRunning = 2
  MaxCalls = 3
INVARIANTS NamedRowOfOneDecision AuditTellsTruth EmittedWereSignalled
PROPERTIES PruneKeepsWithinLimits AcceptedIsReported
CHECK_DEADLOCK FALSE
SYMMETRY Interchangeable

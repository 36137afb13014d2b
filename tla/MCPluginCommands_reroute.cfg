SPECIFICATION Spec
CONSTANTS
  None = None
  t1 = t1
  t2 = t2
  r1 = r1
  r2 = r2
  p1 = p1
  d1 = d1
  x1 = x1
  z1 = z1
  g1 = g1
  Tasks = {t1}
  Routes = {r1, r2}
  Reports = {p1}
  Declines = {}
  Inspections = {}
  Clears = {}
  Toggles = {}
  Unnamed = {r1, r2}
  Contents = {same}
  same = same
  MaxAge = 0
  MaxRecords = 1
  MaxEvents = 0
  MaxRunning = 2
  MaxCalls = 3
INVARIANT RowOfOneDecision
CHECK_DEADLOCK FALSE
SYMMETRY Interchangeable

\* A caller whose flushes may overlap, with a failing append and resets between; one
\* whose routes and reports overlap; and the corpus commands in any order.  All
\* stop when all is done.
SPECIFICATION SideBySideSpec
CONSTANTS
  ExplicitIds <- MCExplicitIds
  MaxCounter = 2
  MaxFlights = 2
  MaxFailures = 1
  r1 = r1
  r2 = r2
  p1 = p1
  p2 = p2
  t = t
  Routes = {r1, r2}
  Reports = {p1, p2}
  Unkeyed = Unkeyed
  None = None
  CallerTasks = {t}
  Attempts = {0, 1}
  MaxClock = 1
  Overlap = TRUE
  Arrivals <- MCArrivals
  Issues = {1}
  Regressions = {1}
  Until = 1
  LastDay = 2
  CutOffs = {1, 2}
  MaxLandings = 3
  MaxCitations = 2
  MaxIssueOriginals = 1
  MaxLag = 1
  Spans = {1, 3}
  Unread = Unread
CONSTRAINTS InOrder Heeded
INVARIANTS FlushPersists TrackerSound ReportsAreOfOneRoute OutcomeStaysWithItsTask LinksAreExact
PROPERTIES AlwaysReports LinksStay
CHECK_DEADLOCK FALSE

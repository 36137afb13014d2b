\* An earlier cut-off is asked for after a later one.
SPECIFICATION CorpusSpec
CONSTANTS
  Arrivals <- MCArrivals
  Issues = {1}
  Regressions = {1}
  Until = 1
  LastDay = 2
  CutOffs = {1, 2}
  MaxLandings = 2
  MaxCitations = 2
  MaxIssueOriginals = 1
  MaxLag = 1
  Spans = {1, 3}
  Unread = Unread
CONSTRAINT Heeded
INVARIANT NoFixAfterCutoff
CHECK_DEADLOCK FALSE

SPECIFICATION DerivationsSpec
CONSTANTS
  m1 = m1
  m2 = m2
  Null = Null
  Inputs <- MCInputs
  Rates <- MCRates
  MaxOffers = 4
  ClaudeSessions = {1, 2}
  CodexSessions = {3, 4}
  ReportsDeltas = {3}
  Tasks = {1}
  Usages <- MCUsages
  Freshness = 1
  MaxUses = 2
  LastTime = 2
  MaxRollouts = 2
  Files = {1, 2}
  Lines = {1, 2, 3}
  Parents <- MCParents
  Merges <- MCMerges
  Landings <- MCLandings
  Horizons = {1, 2}
  Lags = {0, 2}
  MaxTime = 3
  MaxCommits = 3
  Unknown = Unknown
  PullRequests <- MCPullRequests
  Periods = {1, 2}
  MinCell = 2
  Floor = 6
  MaxRows = 6
  Nothing = Nothing
  Names = {"a", "a2", "b", "x"}
  ModelOf <- MCModelOf
  Pools <- MCPools
  Measures <- MCMeasures
  Prices <- MCPrices
  Budgets <- MCBudgets
  Exports <- MCExports
INVARIANTS EventsCountOnce LabelsAreSound ReportsAreValid RowsTellTheRun
PROPERTIES LabelSettles ClaimIsOwn
CONSTRAINT UntilClaimed
CHECK_DEADLOCK FALSE

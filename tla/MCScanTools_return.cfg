SPECIFICATION Spec
CONSTANTS
  MaxMerges = 3
  MaxTime = 3
  Scanners = {s1}
  Configs = {"c1", "c2"}
  Lookbacks = {1}
  AsOfs = {0}
  MaxPrs = 2
  Horizons = {1}
  FailurePercent = 50
  Nothing = Nothing
  MaxPerRun = 1
  BootstrapDays = 1
  HorizonDays = 1
  MaxTroubles = 1
INVARIANTS ScoredOnce NothingPassedOver
PROPERTIES IncrementalIsFull EveryCommitScored ScoresGetOutcomes
CHECK_DEADLOCK FALSE
CONSTRAINTS NotMisled OneMissed FirstConfig

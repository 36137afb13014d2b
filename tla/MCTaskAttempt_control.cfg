SPECIFICATION Spec
CONSTANTS
  a = a
  b = b
  c = c
  d = d
  w1 = w1
  w2 = w2
  d1 = d1
  d2 = d2
  Tasks = {t1}
  Ids = {a, b, c, d}
  Stages = {s1}
  Outcomes = {"succeeded", "failed"}
  WriteIds = {w1, w2}
  EvidenceKinds = {}
  MaxVersion = 0
  CodeIdentities = {}
  Sessions = {}
  DerivedIds = {}
  None = None
VIEW AttemptView
CONSTRAINT MintedInOrder
INVARIANTS SupersessionChain OneExecutionPerTask RetryReplacesNoSuccess
PROPERTIES StaleStaysStale SettlesOnceWhileCurrent
CHECK_DEADLOCK FALSE

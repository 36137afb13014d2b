SPECIFICATION Spec
CONSTANTS
  t1 = t1
  t2 = t2
  a = a
  b = b
  c = c
  e1 = e1
  e2 = e2
  e3 = e3
  e4 = e4
  C1 = C1
  x = x
  None = None
  Tasks = {t1, t2}
  Ids = {a, b, c}
  Stages = {s1}
  Outcomes = {"succeeded"}
  WriteIds = {w1}
  EvidenceKinds = {}
  MaxVersion = 0
  CodeIdentities = {}
  Sessions = {}
  DerivedIds = {}
  EventIds = {e1, e2, e3, e4}
  CandidateIds = {C1}
  Times = {1, 2}
  Bodies = {x}
  Events <- MCEvents
VIEW QueueView
CONSTRAINT Launches
INVARIANTS SameVerdict RefsHold
PROPERTIES QueueLogIsFinal
CHECK_DEADLOCK FALSE

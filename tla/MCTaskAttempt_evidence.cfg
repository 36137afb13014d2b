SPECIFICATION Spec
CONSTANTS
  a = a
  b = b
  c = c
  d = d
  w1 = w1
  w2 = w2
  d1 = d1
  d2 = d2
  Tasks = {t1}
  Ids = {a}
  Stages = {s1}
  Outcomes = {}
  WriteIds = {w1, w2}
  EvidenceKinds = {cost, code}
  MaxVersion = 2
  CodeIdentities = {h1}
  Sessions = {u1}
  DerivedIds = {d1, d2}
  None = None
VIEW AttemptView
CONSTRAINT MintedInOrder
INVARIANTS WriteCountedOnce
PROPERTIES EvidenceMovesForward
CHECK_DEADLOCK FALSE

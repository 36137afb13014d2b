--------------------------- MODULE MCTaskAttempt ---------------------------
EXTENDS TaskAttempt

CONSTANTS a, b, c, d, w1, w2, d1, d2

InOrder(seq, used) ==
  \A i, j \in DOMAIN seq : i < j /\ seq[j] \in used => seq[i] \in used

\* Minted ids are ordered here only to name them: the specification
\* compares them for equality alone, so every behaviour is, up to renaming,
\* one that mints them in order.  (A symmetry set says the same but costs TLC
\* more time than it saves on states this deep.)
MintedInOrder ==
  /\ InOrder(<<a, b, c, d>>, Declared)
  /\ InOrder(<<w1, w2>>, seenWrites)
  /\ InOrder(<<d1, d2>>, {x \in DerivedIds : derived[x] # None})

\* No step reads the decision the last one reported.
AttemptView == <<attemptVars, seenWrites, evidence, derivedVars>>
=============================================================================

---------------------------- MODULE MCScanTools ----------------------------
EXTENDS ScanTools

\* What follows once rows of another checkpoint were used is not looked at.
NotMisled == ~ misled

\* One pull request fails or is not found, as one step of the job fails.
OneMissed == Cardinality(missed) <= 1

\* The configurations differ in name only: the first scan has the first.
FirstConfig ==
  \A s \in Scanners : rowsFile = Nothing /\ scan[s] # Idle => scan[s].config = "c1"
=============================================================================

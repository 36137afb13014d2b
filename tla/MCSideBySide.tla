----------------------------- MODULE MCSideBySide -----------------------------
(* Three components that share nothing, side by side: a behaviour measures a   *)
(* task, routes tasks and reports their outcomes, or builds a corpus.          *)
EXTENDS CostTracker, Router, MCCorrectiveCorpus

VARIABLE subject    \* which of the three this behaviour does

CONSTANTS r1, r2, p1, p2, t

\* An id the tracker would generate first.
MCExplicitIds == {1}

\* Calls are made in the order of their names.
InOrder ==
  /\ route[r2].state # "idle" => route[r1].state # "idle"
  /\ report[p2].state # "idle" => report[p1].state # "idle"
  \* One call is enough that the server acts on twice.
  /\ \A e \in applied : e.attempt = 1 => e.call = r1

SideBySideInit ==
  /\ subject \in {"measure", "route", "correct"}
  /\ TrackerInit /\ RouterInit /\ CorpusInit

SideBySideNext ==
  /\ UNCHANGED subject
  /\ \/ subject = "measure" /\ TrackerNext /\ UNCHANGED <<allRouterVars, corpusVars>>
     \/ subject = "route" /\ RouterNext /\ UNCHANGED <<trackerVars, corpusVars>>
     \/ subject = "correct" /\ CorpusNext /\ UNCHANGED <<trackerVars, allRouterVars>>

SideBySideSpec ==
  /\ SideBySideInit
  /\ [][SideBySideNext]_<<subject, trackerVars, allRouterVars, corpusVars>>
  /\ LedgerServes
=============================================================================

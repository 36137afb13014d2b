----------------------------- MODULE ScanTools -----------------------------
(***************************************************************************)
(* The two tools of packages/scan that come back to a branch: the          *)
(* incremental report and shadow mode.  They share its history and nothing *)
(* else, so a behaviour uses one of them.                                  *)
(***************************************************************************)
EXTENDS IncrementalScan, ShadowScoring

VARIABLE tool

vars == <<historyVars, scanVars, shadowVars, tool>>

Init == HistoryInit /\ ScanInit /\ ShadowInit /\ tool \in {"report", "shadow"}

Next ==
  \/ HistoryNext /\ UNCHANGED <<scanVars, shadowVars, tool>>
  \/ tool = "report" /\ ScanNext /\ UNCHANGED <<historyVars, shadowVars, tool>>
  \/ tool = "shadow" /\ ShadowNext /\ UNCHANGED <<historyVars, scanVars, tool>>

\* The schedule starts a job every six hours, and one that labels every night.
Spec ==
  /\ Init /\ [][Next]_vars
  /\ WF_vars(tool = "shadow" /\ JobStep /\ UNCHANGED <<historyVars, scanVars, tool>>)
  /\ SF_vars(tool = "shadow" /\ Backfill /\ UNCHANGED <<historyVars, scanVars, tool>>)

(***************************************************************************)
(* Properties of shadow mode, when it is what runs.                        *)
(***************************************************************************)
\* A commit that stays on the branch is scored at last and its score published, if
\* it is not given up or too old, whatever fails or is rewritten on the way.
EveryCommitScored ==
  \A sha \in 1 .. MaxMerges :
    <>[](tool = "shadow" /\ sha \in Shas) => <>(PublishedScore(sha) \/ sha \in givenUp \cup tooOld)

\* A scored pull request that matures on the branch gets its outcome at last.
ScoresGetOutcomes ==
  \A sha \in 1 .. MaxMerges :
    <>[](tool = "shadow" /\ PublishedScore(sha) /\ Labellable(sha)) => <>PublishedOutcome(sha)
=============================================================================

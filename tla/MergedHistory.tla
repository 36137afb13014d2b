--------------------------- MODULE MergedHistory ---------------------------
(***************************************************************************)
(* The integration branch as packages/scan reads it with git: its first    *)
(* parent history, oldest first.  External to the code, modelled from how  *)
(* enumerateWindow, discoverMerges and the labeller read it.               *)
(*                                                                         *)
(* A commit lands a pull request or names none (pr), and may undo what an  *)
(* earlier one changed.  Committer times grow along the branch, and none   *)
(* lands in the second in which a tool has read the branch.                *)
(***************************************************************************)
EXTENDS Integers, Sequences, SequencesExt, FiniteSets

CONSTANTS
  MaxMerges,   \* bounds on the commits that ever land
  MaxTime      \* and on time

ASSUME HistoryAssumption == MaxMerges \in Nat /\ MaxTime \in Nat

VARIABLES branch, landed, clock

historyVars == <<branch, landed, clock>>

HistoryInit == branch = <<>> /\ landed = 0 /\ clock = 0

Commits == ToSet(branch)
Shas == {m.sha : m \in Commits}

Land(pr, undone) ==
  /\ landed < MaxMerges /\ clock < MaxTime
  /\ landed' = landed + 1
  /\ clock' = clock + 1
  /\ branch' = Append(branch, [sha |-> landed', at |-> clock', pr |-> pr, undoes |-> undone])

\* A force push drops the newest commits.
Rewrite ==
  /\ \E n \in 0 .. Len(branch) - 1 : branch' = SubSeq(branch, 1, n)
  /\ UNCHANGED <<landed, clock>>

Pass ==
  /\ clock < MaxTime
  /\ clock' = clock + 1
  /\ UNCHANGED <<branch, landed>>

HistoryNext ==
  \/ \E pr \in BOOLEAN, undone \in Shas \cup {0} : Land(pr, undone)
  \/ Rewrite
  \/ Pass

\* git merge-base --is-ancestor
IsAncestor(sha) == sha \in Shas

PositionOf(sha) == CHOOSE i \in DOMAIN branch : branch[i].sha = sha

\* Where the commits of git log cursor..branch are, or all of them.
Since(sha) == {i \in DOMAIN branch : IsAncestor(sha) => i > PositionOf(sha)}

\* Of these positions, those of the newest n commits.
NewestOf(S, n) == {i \in S : Cardinality({j \in S : j >= i}) <= n}

(***************************************************************************)
(* labelMergedPr at one horizon: missing until the horizon has passed, and *)
(* then what had become of the change by the horizon.                      *)
(***************************************************************************)
Matured(m, horizon, now) == m.at + horizon <= now

LabelAt(m, horizon, now) ==
  IF ~ Matured(m, horizon, now) THEN "missing_horizon"
  ELSE IF \E n \in Commits : n.undoes = m.sha /\ n.at <= m.at + horizon THEN "undone"
  ELSE "survived"
=============================================================================

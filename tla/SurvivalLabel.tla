---------------------------- MODULE SurvivalLabel ----------------------------
(***************************************************************************)
(* The survival labeller (packages/scan/src/survival-labeller.ts): a merged *)
(* pull request, the commits that land on the integration branch after it,  *)
(* and the label the labeller computes for each horizon from what git and   *)
(* GitHub answer at that moment.  The label contract it fills is             *)
(* packages/core/src/arbiter-survival-label.ts.                              *)
(*                                                                           *)
(* A file's content is abstracted to the marked lines it holds and to one    *)
(* flag for every other edit; a rename carries its content with it, so a     *)
(* file keeps its name here.  Time is counted in the unit of the horizons.   *)
(***************************************************************************)
EXTENDS Integers, Sequences, FiniteSets, FiniteSetsExt

CONSTANTS
  Files,        \* the files the pull request may touch
  Lines,        \* the marked lines of a file
  Parents,      \* trees the pull request may start from, [Files -> Blob]
  Merges,       \* trees it may leave
  Landings,     \* later commits: what one makes of a file, and whose it is
  Horizons,     \* days after the merge at which a label is due
  Lags,         \* by how much a commit's clock may be behind
  MaxTime,      \* bound: the last instant
  MaxCommits,   \* bound: commits on the branch
  Unknown       \* what the code writes as null

Blob == [here: BOOLEAN, lines: SUBSET Lines, other: BOOLEAN]
Landing == [blob: Blob, actor: {"human", "agent", "automation"}, sameTask: BOOLEAN]

ASSUME LabelAssumption ==
  /\ IsFiniteSet(Files) /\ IsFiniteSet(Lines)
  /\ Parents \cup Merges \subseteq [Files -> Blob] /\ Landings \subseteq Landing
  /\ Horizons \cup Lags \subseteq Nat
  /\ Unknown \notin {"survived", "followup", "substantially_rewritten", "reverted"}

VARIABLES
  parent,       \* the tree before the pull request
  branch,       \* the first-parent history, the pull request's merge first
  now,
  linkedAt,     \* instants of same-repository follow-up references
  edited        \* a person changed the branch before the merge

labelVars == <<parent, branch, now, linkedAt, edited>>

Commit(time, tree, actor, touched, sameTask) ==
  [time |-> time, tree |-> tree, actor |-> actor, touched |-> touched,
   sameTask |-> sameTask]

merged == branch[1].tree
Cutoff(h) == branch[1].time + h

-----------------------------------------------------------------------------
(* The substrate: the lines the pull request changed.                        *)

Added(f) == merged[f].lines \ parent[f].lines
Deleted(f) == parent[f].lines \ merged[f].lines

\* A file whose diff is empty once white space is ignored drops out.
Substrate == {f \in Files : Added(f) \cup Deleted(f) # {}}

\* A hunk counts its new lines; only a pure deletion counts its old ones.
Weight(f) == IF Added(f) # {} THEN Cardinality(Added(f)) ELSE Cardinality(Deleted(f))

TotalLines == MapThenSumSet(Weight, Substrate)

-----------------------------------------------------------------------------
(* The horizon's tree.                                                       *)

\* The walk is the branch, tip first; its running minimum of committer times.
Walk == [i \in DOMAIN branch |-> branch[Len(branch) + 1 - i]]

PrefixMin == [i \in DOMAIN Walk |-> Min({Walk[j].time : j \in 1..i})]

\* lookupHorizonTerminal: the binary search, here as the position in the walk.
Lookup(cutoff) ==
  LET mins == PrefixMin
      Search[w \in (1..Len(branch) + 1) \X (1..Len(branch) + 1)] ==
        LET lo == w[1]  hi == w[2]  mid == (lo + hi) \div 2
        IN IF lo >= hi THEN lo
           ELSE IF mins[mid] <= cutoff THEN Search[<<lo, mid>>] ELSE Search[<<mid + 1, hi>>]
  IN Search[<<1, Len(branch) + 1>>]

\* Beside Terminal, which is used: the branch as it stands.
Tip(h) == Len(branch)

\* Position on the branch of the horizon's last commit; the merge itself is in
\* time for every cutoff, so the search always ends on a commit.
Terminal(h) == Len(branch) + 1 - Lookup(Cutoff(h))

\* What `git log --first-parent --until -1`, the route without an index, answers.
GitTerminal(h) == Max({i \in DOMAIN branch : branch[i].time <= Cutoff(h)})

-----------------------------------------------------------------------------
(* The forward analysis from the merge to the horizon's tree.                *)

FileReverted(f, tree) == parent[f] # merged[f] /\ tree[f] = parent[f]

\* Lines of the change that are gone; a pure deletion is undone only by an
\* exact restoration of the file, and then is not counted as lost either.
Undone(f, tree) ==
  IF Added(f) # {}
  THEN IF tree[f].here THEN Added(f) \ tree[f].lines ELSE Added(f)
  ELSE {}

Surviving(f, tree) ==
  IF Added(f) # {} THEN Weight(f) - Cardinality(Undone(f, tree))
  ELSE IF FileReverted(f, tree) THEN 0 ELSE Weight(f)

RangeFollowup(tree) ==
  \E f \in Substrate :
    \/ Undone(f, tree) # {}
    \/ Added(f) = {} /\ FileReverted(f, tree)

\* Beside AllReverted, which is used: one restored file is enough.
SomeReverted(tree) == \E f \in Substrate : FileReverted(f, tree)

AllReverted(tree) == Substrate # {} /\ \A f \in Substrate : FileReverted(f, tree)

Linked(h) == \E t \in linkedAt : t > branch[1].time /\ t <= Cutoff(h)

Redispatched(h) ==
  \E i \in DOMAIN branch :
    branch[i].sameTask /\ branch[i].time > branch[1].time /\ branch[i].time <= Cutoff(h)

\* attributeUndoers: one kind of author among the commits since the merge that
\* touched the files, the pre-merge editor counted as a person; else nobody.
UndoneBy(h, undone) ==
  LET votes ==
        (IF undone
         THEN {branch[i].actor : i \in {j \in 2..Terminal(h) : branch[j].touched \in Substrate}}
              \ {"automation"}
         ELSE {})
        \cup (IF edited THEN {"human"} ELSE {})
  IN IF Cardinality(votes) = 1 THEN CHOOSE v \in votes : TRUE ELSE Unknown

-----------------------------------------------------------------------------
(* The label.                                                                *)

Missing(reason) ==
  [survived |-> Unknown, surviving |-> Unknown, total |-> Unknown, reverted |-> Unknown,
   undoneBy |-> Unknown, followup |-> Unknown, codes |-> {reason}, reportOutcome |-> Unknown]

\* deriveReportOutcome, first match wins; the ratio is surviving / total.
ReportOutcome(reverted, surviving, total, followup) ==
  CASE reverted -> "reverted"
    [] ~reverted /\ 2 * surviving < total -> "substantially_rewritten"
    [] ~reverted /\ 2 * surviving >= total /\ followup -> "followup"
    [] OTHER -> "survived"

ReasonCodes(evidence) ==
  LET found == {code \in DOMAIN evidence : evidence[code]}
  IN IF found = {} THEN {"no_evidence"} ELSE found

Analysed(h) ==
  LET tree == branch[Terminal(h)].tree
      surviving == MapThenSumSet(LAMBDA f : Surviving(f, tree), Substrate)
      reverted == AllReverted(tree)
      range == RangeFollowup(tree)
      followup == range \/ Linked(h) \/ Redispatched(h) \/ edited
  IN [survived |-> ~(reverted \/ followup), surviving |-> surviving,
      total |-> TotalLines, reverted |-> reverted, followup |-> followup,
      undoneBy |-> UndoneBy(h, range \/ reverted),
      codes |-> ReasonCodes(
        [exact_revert |-> reverted, line_range_followup |-> range,
         linked_issue_or_pr |-> Linked(h), pre_merge_human_edit |-> edited,
         task_redispatch |-> Redispatched(h),
         substantial_rewrite |-> ~reverted /\ 2 * surviving < TotalLines]),
      reportOutcome |-> ReportOutcome(reverted, surviving, TotalLines, followup)]

\* One label; `failing` is the git read that fails, "none" when none does.
LabelOf(h, failing) ==
  CASE Cutoff(h) > now -> Missing("missing_horizon")
    [] Cutoff(h) <= now /\ failing = "substrate" -> Missing("inaccessible_history")
    [] Cutoff(h) <= now /\ failing # "substrate" /\ TotalLines = 0 ->
         Missing("insufficient_line_range_substrate")
    [] Cutoff(h) <= now /\ failing \in {"walk", "analysis"} /\ TotalLines > 0 ->
         Missing("inaccessible_history")
    [] OTHER -> Analysed(h)

-----------------------------------------------------------------------------
LabelInit ==
  /\ parent \in Parents
  /\ \E tree \in Merges : branch = <<Commit(0, tree, "agent", Unknown, FALSE)>>
  /\ now = 0
  /\ linkedAt = {}
  /\ edited \in BOOLEAN

\* A commit lands that changes at most one file, with a clock that may lag.
Land ==
  \E f \in Files, landing \in Landings, lag \in Lags :
    LET last == branch[Len(branch)]
    IN /\ Len(branch) < MaxCommits
       /\ branch' = Append(branch,
            Commit(Max({0, now - lag}), [last.tree EXCEPT ![f] = landing.blob],
                   landing.actor, IF landing.blob = last.tree[f] THEN Unknown ELSE f,
                   landing.sameTask))
       /\ UNCHANGED <<parent, now, linkedAt, edited>>

\* Somebody opens an issue or a pull request that refers to this one.
Refer ==
  /\ linkedAt = {}    \* bound: one reference
  /\ linkedAt' = linkedAt \cup {now}
  /\ UNCHANGED <<parent, branch, now, edited>>

Wait ==
  /\ now < MaxTime
  /\ now' = now + 1
  /\ UNCHANGED <<parent, branch, linkedAt, edited>>

LabelNext == Land \/ Refer \/ Wait

LabelSpec == LabelInit /\ [][LabelNext]_labelVars

-----------------------------------------------------------------------------
(* Properties.                                                               *)

\* The contract's conditions on an outcome, which the schema states one by one
\* (arbiter-survival-label-schema.ts): a missing label imputes nothing and has
\* exactly one cause; a computed one survived exactly if it is reported so, has
\* a reason for what it reports, and blames nobody for what survived.
LabelIsValid ==
  \A h \in Horizons, failing \in {"none", "substrate", "walk", "analysis"} :
    LET label == LabelOf(h, failing)
    IN IF label.reportOutcome = Unknown
       THEN /\ \E reason \in {"missing_horizon", "inaccessible_history",
                              "insufficient_line_range_substrate"} : label = Missing(reason)
       ELSE /\ label.surviving \in 0..label.total
            /\ label.survived <=> label.reportOutcome = "survived"
            /\ label.reverted <=> label.reportOutcome = "reverted"
            /\ label.reverted <=> "exact_revert" \in label.codes
            /\ label.reportOutcome = "substantially_rewritten" <=>
                 "substantial_rewrite" \in label.codes
            /\ label.reportOutcome = "followup" => label.followup
            /\ label.survived <=> label.codes = {"no_evidence"}
            /\ label.undoneBy # Unknown => ~label.survived

\* The label speaks of the tree the branch had at the horizon, found by the
\* precomputed walk as git itself would answer, whatever the order of the
\* committer times (buildHorizonTerminalIndex): what survived is all still
\* there, and a pull request is reverted exactly when each of its files is as it
\* was before it.
LabelSpeaksOfItsTree ==
  \A h \in Horizons :
    Terminal(h) = GitTerminal(h) /\
    LET label == LabelOf(h, "none")
        tree == branch[GitTerminal(h)].tree
    IN label.reportOutcome # Unknown =>
         /\ label.survived =>
              \A f \in Substrate : Added(f) # {} => tree[f].here /\ Added(f) \subseteq tree[f].lines
         /\ label.reverted <=> \A f \in Substrate : tree[f] = parent[f]

\* Whichever of its reads fails (the substrate, the walk or the analysis), and
\* whatever the order of the clocks, the label of a pull request whose files are
\* of one hunk each is one the contract allows, of the tree the branch had at the
\* horizon.  An ls-tree that fails and is swallowed, and a lookup that fails, are
\* left out.
LabelIsSound == LabelIsValid /\ LabelSpeaksOfItsTree

\* A label computed after its horizon is final: what lands or is said later
\* changes nothing, unless a commit is dated back into the horizon.  Shadow
\* scores and cached labels are written once and rely on it.
LabelSettles ==
  [][\A h \in Horizons :
       now > Cutoff(h) /\ branch'[Len(branch')].time > Cutoff(h)
         => LabelOf(h, "none")' = LabelOf(h, "none")]_labelVars
=============================================================================

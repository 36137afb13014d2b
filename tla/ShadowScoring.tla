--------------------------- MODULE ShadowScoring ---------------------------
(***************************************************************************)
(* Shadow mode, packages/scan/src/shadow and the job that runs it          *)
(* (.github/workflows/arbiter-shadow.yml): the data directory is fetched,  *)
(* newly landed commits are scored, matured ones are labelled, and the     *)
(* directory is pushed.  One job runs at a time (the workflow's            *)
(* concurrency group); a step may fail or be killed, and the next step     *)
(* runs all the same.                                                      *)
(*                                                                         *)
(* Abstracted: features, scores and thresholds, and the order of the rows  *)
(* that one run appends, which nothing reads; what the validators of rows  *)
(* refuse is one of the ways in which a commit is given up.                *)
(***************************************************************************)
EXTENDS MergedHistory

CONSTANTS
  MaxPerRun,      \* --max-prs
  BootstrapDays, HorizonDays,
  MaxTroubles     \* bound on what fails in a behaviour

ASSUME ShadowAssumption ==
  /\ MaxPerRun \in Nat \ {0}
  /\ BootstrapDays \in Nat /\ HorizonDays \in Nat /\ MaxTroubles \in Nat

VARIABLES
  published,   \* the data branch
  data,        \* the data directory of the job
  fetched,     \* it was fetched from the data branch
  job,         \* what the job does next
  pending,     \* rows scored and not appended yet, and the cursor after them
  givenUp,     \* commits whose scoring failed
  tooOld,      \* commits that lay before the bootstrap window of some run
  troubles

shadowVars == <<published, data, fetched, job, pending, givenUp, tooOld, troubles>>

EmptyData == [cursor |-> 0, scores |-> <<>>, outcomes |-> <<>>]
NoRows == [rows |-> <<>>, before |-> 0, after |-> 0]

ShadowInit ==
  /\ published = EmptyData
  /\ data = EmptyData
  /\ fetched = FALSE
  /\ job = "idle"
  /\ pending = NoRows
  /\ givenUp = {} /\ tooOld = {} /\ troubles = 0

Trouble == troubles < MaxTroubles /\ troubles' = troubles + 1
NoTrouble == UNCHANGED troubles

ShaSet(rows) == {row.sha : row \in ToSet(rows)}

\* "Prepare arbiter-shadow data branch": a fetch that fails leaves a directory
\* that starts anew, on a branch that cannot be pushed over the other.
Prepare ==
  /\ job = "idle" /\ job' = "scoring"
  /\ \/ data' = published /\ fetched' = TRUE /\ NoTrouble
     \/ data' = EmptyData /\ fetched' = FALSE /\ Trouble
  /\ UNCHANGED <<published, pending, givenUp, tooOld>>

(***************************************************************************)
(* runShadowScore.                                                         *)
(***************************************************************************)
Bootstraps == data.cursor = 0 \/ ~ IsAncestor(data.cursor)
Recent(m) == m.at >= clock - BootstrapDays

\* A cursor that is gone from the branch is waited for.
CandidatesAfterCursor ==
  {i \in DOMAIN branch :
     IF data.cursor = 0 THEN Recent(branch[i])
     ELSE IsAncestor(data.cursor) /\ i > PositionOf(data.cursor)}

\* Where on the branch the commits are that a run may score.
Candidates ==
  {i \in DOMAIN branch :
     IF Bootstraps THEN Recent(branch[i]) ELSE i > PositionOf(data.cursor)}

\* discoverMerges: from the cursor on, oldest first, no more than fit one run.
Discovered == {i \in Candidates : Cardinality({j \in Candidates : j <= i}) <= MaxPerRun}

NewestDiscovered == CHOOSE i \in Discovered : \A j \in Discovered : j <= i

\* Rows are not compared with what was scored before.
NeverScored(m) == FALSE

ScoredBefore(m) == m.sha \in ShaSet(data.scores)

NotScored == {m \in {branch[i] : i \in Discovered} : ~ ScoredBefore(m)}

\* What cannot be extracted is skipped, and the cursor passes it.
Score ==
  /\ job = "scoring"
  /\ \E failed \in SUBSET NotScored :
       LET rows == SetToSeq(NotScored \ failed)
           after == IF Discovered = {} THEN data.cursor ELSE branch[NewestDiscovered].sha
       IN /\ pending' = [rows |-> rows, before |-> data.cursor, after |-> after]
          /\ givenUp' = givenUp \cup {m.sha : m \in failed}
          /\ IF failed = {} THEN NoTrouble ELSE Trouble
          /\ job' = IF rows = <<>> THEN "stating" ELSE "appending"
  /\ tooOld' = IF Bootstraps THEN tooOld \cup {m.sha : m \in {n \in Commits : ~ Recent(n)}}
               ELSE tooOld
  /\ UNCHANGED <<published, data, fetched>>

\* No worktree, or no history: an error, with the cursor where it was.
ScoreFails ==
  /\ job = "scoring" /\ Trouble
  /\ pending' = [rows |-> <<>>, before |-> data.cursor, after |-> data.cursor]
  /\ job' = "stating"
  /\ UNCHANGED <<published, data, fetched, givenUp, tooOld>>

\* A cursor that passes the rows that were not appended.
AppendOrPass ==
  /\ job = "appending" /\ job' = "stating"
  /\ \/ data' = [data EXCEPT !.scores = @ \o pending.rows] /\ NoTrouble
     \/ Trouble /\ UNCHANGED data
  /\ UNCHANGED <<published, fetched, pending, givenUp, tooOld>>

\* A row that cannot be appended leaves the cursor to find its commit again.
AppendRows ==
  /\ job = "appending" /\ job' = "stating"
  /\ \/ /\ data' = [data EXCEPT !.scores = @ \o pending.rows]
        /\ NoTrouble /\ UNCHANGED pending
     \/ /\ pending' = [pending EXCEPT !.after = pending.before]
        /\ Trouble /\ UNCHANGED data
  /\ UNCHANGED <<published, fetched, givenUp, tooOld>>

\* writeState, whose failure is ignored.
WriteState ==
  /\ job = "stating" /\ job' = "labelling"
  /\ \/ data' = [data EXCEPT !.cursor = pending.after] /\ NoTrouble
     \/ Trouble /\ UNCHANGED data
  /\ pending' = NoRows
  /\ UNCHANGED <<published, fetched, givenUp, tooOld>>

(***************************************************************************)
(* runShadowBackfill, at night: what matured and has no outcome is         *)
(* labelled, if the branch still has it; what fails is tried again.        *)
(***************************************************************************)
\* Only what matures today is labelled.
MaturedToday ==
  {i \in DOMAIN data.scores : LET m == data.scores[i] IN
     m.pr /\ m.sha \in Shas /\ m.sha \notin ShaSet(data.outcomes) /\ m.at + HorizonDays = clock}

\* Where the rows of scores.jsonl are that are to be labelled.
Unlabelled ==
  {i \in DOMAIN data.scores : LET m == data.scores[i] IN
     m.pr /\ m.sha \in Shas /\ m.sha \notin ShaSet(data.outcomes)
       /\ Matured(m, HorizonDays, clock)}

Backfill ==
  /\ job = "labelling" /\ job' = "pushing"
  /\ \E failed \in SUBSET Unlabelled :
       LET labelled == SetToSeq(Unlabelled \ failed)
           outcome(m) == [sha |-> m.sha, at |-> clock, label |-> LabelAt(m, HorizonDays, clock)]
       IN /\ data' = [data EXCEPT !.outcomes =
               @ \o [k \in DOMAIN labelled |-> outcome(data.scores[labelled[k]])]]
          /\ IF failed = {} THEN NoTrouble ELSE Trouble
  /\ UNCHANGED <<published, fetched, pending, givenUp, tooOld>>

\* Not the nightly run.
SkipBackfill ==
  /\ job = "labelling" /\ job' = "pushing"
  /\ UNCHANGED <<published, data, fetched, pending, givenUp, tooOld, troubles>>

\* A killed step: the job goes on with what the directory holds.
StepKilled ==
  /\ job \in {"scoring", "appending", "stating"} /\ Trouble
  /\ job' = "labelling"
  /\ pending' = NoRows
  /\ UNCHANGED <<published, data, fetched, givenUp, tooOld>>

\* A directory without the history of the data branch is refused.
Push ==
  /\ job = "pushing" /\ job' = "idle"
  /\ \/ published' = (IF fetched \/ published = EmptyData THEN data ELSE published) /\ NoTrouble
     \/ UNCHANGED published /\ Trouble
  /\ UNCHANGED <<data, fetched, pending, givenUp, tooOld>>

JobKilled ==
  /\ job # "idle" /\ Trouble
  /\ job' = "idle"
  /\ pending' = NoRows
  /\ UNCHANGED <<published, data, fetched, givenUp, tooOld>>

JobStep ==
  Prepare \/ Score \/ ScoreFails \/ AppendRows \/ WriteState \/ Backfill \/ SkipBackfill \/ Push

ShadowNext == JobStep \/ StepKilled \/ JobKilled

(***************************************************************************)
(* Properties.                                                             *)
(***************************************************************************)
Once(rows) == \A i, j \in DOMAIN rows : rows[i].sha = rows[j].sha => i = j

\* Each commit has one score and one outcome, whatever was lost, killed or
\* scored again from an older cursor.
ScoredOnce ==
  \A d \in {published, data} : Once(d.scores) /\ Once(d.outcomes)

\* No commit is passed over in silence: what the cursor has passed is scored,
\* was given up, or lay before the window of a run that had no cursor.
NothingPassedOver ==
  \A d \in {published, data} : IsAncestor(d.cursor) =>
    \A i \in 1 .. PositionOf(d.cursor) :
      branch[i].sha \in ShaSet(d.scores) \cup givenUp \cup tooOld

PublishedScore(sha) == sha \in ShaSet(published.scores)
PublishedOutcome(sha) == sha \in ShaSet(published.outcomes)

Labellable(sha) ==
  \E m \in Commits : m.sha = sha /\ m.pr /\ Matured(m, HorizonDays, clock)
=============================================================================

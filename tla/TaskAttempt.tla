---------------------------- MODULE TaskAttempt ----------------------------
(***************************************************************************)
(* The reference reducer of the task_attempt/v1 log,                       *)
(* packages/core/src/task-cost/attempt-reducer.ts.  The log is order       *)
(* sensitive: one step of this specification applies the next log entry,   *)
(* any entry the validator (attempt-validators.ts) lets through, and       *)
(* records the decision the reducer reports for it.                        *)
(*                                                                         *)
(* Abstracted: timestamps, legacy ids and value slugs (no rule reads       *)
(* them), the index and key of a decision, and the five control actions,   *)
(* which are an outcome or "any other action" (outcome = None).            *)
(***************************************************************************)
EXTENDS Naturals, Sequences, FiniteSets

CONSTANTS
  Tasks,          \* issue identifiers, never minted
  Ids,            \* minted ids of pairs, arms, runs and stage attempts
  Stages,         \* stage slugs
  Outcomes,       \* the outcomes a producer reports
  WriteIds,       \* write_id of control and evidence writes
  EvidenceKinds,  \* evidence kinds
  MaxVersion,     \* bound on evidence_version
  CodeIdentities, \* code identities an attempt can have seen
  Sessions,       \* harness sessions
  DerivedIds,     \* derived_id of derived results
  None            \* an absent optional field, an undeclared id, a null outcome

Kinds == {"pair", "arm", "run", "stage_attempt"}
Roles == {"primary", "challenger"}
Slots == Stages \cup Roles \cup {None}

(***************************************************************************)
(* Entries the validator accepts.                                          *)
(***************************************************************************)
AttemptRecords ==
  {r \in [kind : Kinds, id : Ids, task_id : Tasks, parent_id : Tasks \cup Ids,
          slot : Slots, retry_of : Ids \cup {None},
          code_identity : CodeIdentities \cup {None}, session_refs : SUBSET Sessions] :
     /\ r.parent_id # r.id
     /\ r.kind = "pair" => r.parent_id = r.task_id
     /\ r.kind = "run" => r.parent_id \in {r.task_id} \cup Ids
     /\ r.kind \in {"arm", "stage_attempt"} => r.parent_id \in Ids
     /\ r.slot \in (CASE r.kind = "stage_attempt" -> Stages
                      [] r.kind = "arm" -> Roles
                      [] OTHER -> {None})
     /\ r.retry_of # None => /\ r.kind \in {"run", "stage_attempt"}
                             /\ r.retry_of \notin {r.id, r.parent_id}}

Refs == [task_id : Tasks, run_id : Ids, stage_attempt_id : Ids \cup {None}]

ControlWrites == [write_id : WriteIds, attempt : Refs, outcome : Outcomes \cup {None}]

EvidenceWrites ==
  [write_id : WriteIds, attempt : Refs, evidence_kind : EvidenceKinds,
   evidence_version : 1..MaxVersion,
   code_identity : CodeIdentities \cup {None}, session_refs : SUBSET Sessions]

\* Derived results of one input: a result is stale as soon as one input is.
DerivedResults ==
  {d \in [derived_id : DerivedIds, attempt : Refs, evidence_kind : EvidenceKinds,
          evidence_version : 1..MaxVersion, supersedes : DerivedIds \cup {None}] :
     d.supersedes # d.derived_id}

(***************************************************************************)
(* State.                                                                  *)
(***************************************************************************)
GroupKeys ==
  (Tasks \X {"execution"} \X {None}) \cup (Ids \X {"run"} \X {None})
    \cup (Ids \X {"arm"} \X Roles) \cup (Ids \X {"stage"} \X Stages)

EntityState ==
  [kind : Kinds, task_id : Tasks, parent_id : Tasks \cup Ids, slot : Slots,
   retry_of : Ids \cup {None}, superseded_by : Ids \cup {None},
   outcome : Outcomes \cup {None}, code_identity : CodeIdentities \cup {None},
   session_refs : SUBSET Sessions]

\* latest_version = 0: no evidence of that kind has arrived (versions start at 1).
EvidenceState == [latest_version : 0..MaxVersion, write_ids : Seq(WriteIds)]

RecordTypes == {"attempt", "control", "evidence", "derived"}
Reasons ==
  {"id_reused", "unknown_parent", "parent_mismatch", "retry_target_invalid",
   "retry_of_succeeded", "unknown_attempt", "ref_mismatch", "stale_run",
   "stale_stage_attempt", "settled", "undeclared_attempt", "evidence_version_not_newer"}
Decisions ==
  [record_type : RecordTypes, decision : {"accepted", "rejected", "duplicate"},
   reasons : SUBSET Reasons]

ASSUME NoneAssumption ==
  /\ None \notin Tasks \cup Ids \cup Stages \cup Roles \cup Outcomes
  /\ None \notin CodeIdentities \cup DerivedIds \cup Reasons
  /\ None \notin EntityState \cup DerivedResults \cup Decisions
ASSUME IdentityAssumption == Tasks \cap Ids = {}   \* "A task is ... never minted"
ASSUME BoundAssumption == MaxVersion \in Nat

VARIABLES
  entities,             \* id -> EntityState, None while undeclared
  latestInGroup,        \* group key -> the latest launch among its siblings
  seenWrites,           \* write ids seen, of control and evidence writes alike
  evidence,             \* <<attempt id, evidence kind>> -> EvidenceState
  derived,              \* derived id -> the accepted result
  derivedSupersededBy,  \* derived id -> the last result that supersedes it
  decision              \* the decision on the last entry applied

attemptVars == <<entities, latestInGroup>>
derivedVars == <<derived, derivedSupersededBy>>
vars == <<attemptVars, seenWrites, evidence, derivedVars, decision>>

Init ==
  /\ entities = [i \in Ids |-> None]
  /\ latestInGroup = [g \in GroupKeys |-> None]
  /\ seenWrites = {}
  /\ evidence = [k \in Ids \X EvidenceKinds |-> [latest_version |-> 0, write_ids |-> <<>>]]
  /\ derived = [d \in DerivedIds |-> None]
  /\ derivedSupersededBy = [d \in DerivedIds |-> None]
  /\ decision = None

Decide(type, verdict, reasons) ==
  decision' = [record_type |-> type, decision |-> verdict, reasons |-> reasons]

(***************************************************************************)
(* Siblings and currency.                                                  *)
(***************************************************************************)
Declared == {i \in Ids : entities[i] # None}

\* The runs and pairs of a task form one group; an arm's runs, a pair's arms
\* of one role, and a run's attempts at one stage form the others.
GroupKeyOf(r) ==
  CASE \/ r.kind = "pair"
       \/ r.kind = "run" /\ r.parent_id = r.task_id ->
         <<r.task_id, "execution", None>>
    [] r.kind = "run" /\ r.parent_id # r.task_id ->
         <<r.parent_id, "run", None>>
    [] r.kind = "arm" -> <<r.parent_id, "arm", r.slot>>
    [] r.kind = "stage_attempt" -> <<r.parent_id, "stage", r.slot>>

IsLatest(i) == latestInGroup[GroupKeyOf(entities[i])] = i

Parents(S) == {entities[i].parent_id : i \in S} \cap Ids

\* i and its minted ancestors: a stage attempt's run, the run's arm, the arm's
\* pair.  A task is not minted, so the walk ends below it.
Lineage(i) ==
  LET up1 == Parents({i})
      up2 == Parents(up1)
  IN {i} \cup up1 \cup up2 \cup Parents(up2)

\* isCurrent walks parent_id up to the task and wants the latest launch at
\* every level.
IsCurrent(i) == \A a \in Lineage(i) : IsLatest(a)

(***************************************************************************)
(* Attempt records: launches.                                              *)
(***************************************************************************)
ExpectedParentKind(kind) ==
  CASE kind = "arm" -> "pair" [] kind = "run" -> "arm"
    [] kind = "stage_attempt" -> "run" [] OTHER -> None

LaunchedByTask(r) == r.parent_id = r.task_id /\ r.kind \in {"pair", "run"}

ParentMismatch(r) ==
  \/ entities[r.parent_id].kind # ExpectedParentKind(r.kind)
  \/ entities[r.parent_id].task_id # r.task_id

\* Seeded bug: a settled attempt may be relaunched under its own id.
ReusedWhileUnsettled(r) == r.id \in Declared /\ entities[r.id].outcome = None

IdReused(r) == r.id \in Declared

RetryTargetInvalid(r) ==
  \/ r.retry_of \notin Declared
  \/ entities[r.retry_of].kind # r.kind
  \/ GroupKeyOf(entities[r.retry_of]) # GroupKeyOf(r)

\* The first rule a launch breaks, None when it breaks none.
AttemptReason(r) ==
  IF IdReused(r) THEN "id_reused"
  ELSE IF ~LaunchedByTask(r) /\ r.parent_id \notin Declared THEN "unknown_parent"
  ELSE IF ~LaunchedByTask(r) /\ ParentMismatch(r) THEN "parent_mismatch"
  ELSE IF r.retry_of # None /\ RetryTargetInvalid(r) THEN "retry_target_invalid"
  ELSE IF r.retry_of # None /\ entities[r.retry_of].outcome = "succeeded"
       THEN "retry_of_succeeded"
  ELSE None

NewEntity(r) ==
  [kind |-> r.kind, task_id |-> r.task_id, parent_id |-> r.parent_id, slot |-> r.slot,
   retry_of |-> r.retry_of, superseded_by |-> None, outcome |-> None,
   code_identity |-> r.code_identity, session_refs |-> r.session_refs]

\* Seeded bug: a retry always takes over its target, superseded already or not.
SupersededAgain(r) ==
  {i \in Declared : i \in {latestInGroup[GroupKeyOf(r)], r.retry_of}}

\* The entities an accepted launch supersedes: the latest sibling, and the
\* retry target if nothing superseded it before.
SupersededBy(r) ==
  {i \in Declared :
     \/ i = latestInGroup[GroupKeyOf(r)]
     \/ i = r.retry_of /\ entities[i].superseded_by = None}

AcceptAttempt(r) ==
  /\ AttemptReason(r) = None
  /\ entities' = [i \in Ids |->
       IF i = r.id THEN NewEntity(r)
       ELSE IF i \in SupersededBy(r) THEN [entities[i] EXCEPT !.superseded_by = r.id]
       ELSE entities[i]]
  /\ latestInGroup' = [latestInGroup EXCEPT ![GroupKeyOf(r)] = r.id]
  /\ Decide("attempt", "accepted", {})
  /\ UNCHANGED <<seenWrites, evidence, derivedVars>>

RejectAttempt(r) ==
  /\ AttemptReason(r) # None
  /\ Decide("attempt", "rejected", {AttemptReason(r)})
  /\ UNCHANGED <<attemptVars, seenWrites, evidence, derivedVars>>

(***************************************************************************)
(* Control and evidence writes.                                            *)
(***************************************************************************)
AttemptIdOf(ref) ==
  IF ref.stage_attempt_id # None THEN ref.stage_attempt_id ELSE ref.run_id

RefMismatch(ref) ==
  \/ /\ ref.run_id \in Declared
     /\ \/ entities[ref.run_id].kind # "run"
        \/ entities[ref.run_id].task_id # ref.task_id
  \/ /\ ref.stage_attempt_id \in Declared
     /\ \/ entities[ref.stage_attempt_id].kind # "stage_attempt"
        \/ entities[ref.stage_attempt_id].parent_id # ref.run_id

Unknown(ref) == ~({ref.run_id, AttemptIdOf(ref)} \subseteq Declared)

\* Seeded bug: only the latest launch of the run itself counts, not its pair or arm.
StaleRunInGroup(ref) == ~IsLatest(ref.run_id)

\* Seeded bug: only its pair or arm counts, not a later sibling of the run.
StaleRunAbove(ref) == \E i \in Lineage(ref.run_id) \ {ref.run_id} : ~IsLatest(i)

StaleRun(ref) == ~IsCurrent(ref.run_id)

StaleStageAttempt(ref) == ref.stage_attempt_id # None /\ ~IsCurrent(ref.stage_attempt_id)

Settled(ref) == \E i \in {ref.run_id, AttemptIdOf(ref)} : entities[i].outcome # None

\* The first rule a control write breaks, None when it breaks none.
ControlReason(ref) ==
  IF RefMismatch(ref) THEN "ref_mismatch"
  ELSE IF Unknown(ref) THEN "unknown_attempt"
  ELSE IF StaleRun(ref) THEN "stale_run"
  ELSE IF StaleStageAttempt(ref) THEN "stale_stage_attempt"
  ELSE IF Settled(ref) THEN "settled"
  ELSE None

EvidenceKey(x) == <<AttemptIdOf(x.attempt), x.evidence_kind>>

\* Seeded bug: a write id is remembered per evidence kind.
SeenForKind(w) ==
  /\ "evidence_kind" \in DOMAIN w
  /\ \E n \in DOMAIN evidence[EvidenceKey(w)].write_ids :
       evidence[EvidenceKey(w)].write_ids[n] = w.write_id

Seen(w) == w.write_id \in seenWrites

\* A repeated write id is a duplicate, whatever kind of write bore it first.
DuplicateWrite(type, w) ==
  /\ Seen(w)
  /\ Decide(type, "duplicate", {})
  /\ UNCHANGED <<attemptVars, seenWrites, evidence, derivedVars>>

AcceptControl(w) ==
  /\ ~Seen(w)
  /\ seenWrites' = seenWrites \cup {w.write_id}
  /\ ControlReason(w.attempt) = None
  /\ entities' = IF w.outcome = None THEN entities
                 ELSE [entities EXCEPT ![AttemptIdOf(w.attempt)].outcome = w.outcome]
  /\ Decide("control", "accepted", {})
  /\ UNCHANGED <<latestInGroup, evidence, derivedVars>>

RejectControl(w) ==
  /\ ~Seen(w)
  /\ seenWrites' = seenWrites \cup {w.write_id}
  /\ ControlReason(w.attempt) # None
  /\ Decide("control", "rejected", {ControlReason(w.attempt)})
  /\ UNCHANGED <<attemptVars, evidence, derivedVars>>

IsNewer(w) == w.evidence_version > evidence[EvidenceKey(w)].latest_version

\* Seeded bug: the last version to arrive is the latest.
LastVersion(w) == w.evidence_version

LatestVersion(w) ==
  IF IsNewer(w) THEN w.evidence_version ELSE evidence[EvidenceKey(w)].latest_version

AcceptEvidence(w) ==
  LET target == AttemptIdOf(w.attempt)
      key    == EvidenceKey(w)
  IN
  /\ ~Seen(w)
  /\ seenWrites' = seenWrites \cup {w.write_id}
  /\ ~RefMismatch(w.attempt)
  /\ evidence' = [evidence EXCEPT ![key] =
       [latest_version |-> LatestVersion(w),
        write_ids |-> Append(@.write_ids, w.write_id)]]
  /\ entities' = IF target \notin Declared THEN entities
       ELSE [entities EXCEPT
               ![target].session_refs = @ \cup w.session_refs,
               ![target].code_identity =
                 IF w.code_identity # None /\ IsNewer(w) THEN w.code_identity ELSE @]
  /\ Decide("evidence", "accepted",
       (IF target \in Declared THEN {} ELSE {"undeclared_attempt"})
         \cup (IF IsNewer(w) THEN {} ELSE {"evidence_version_not_newer"}))
  /\ UNCHANGED <<latestInGroup, derivedVars>>

RejectEvidence(w) ==
  /\ ~Seen(w)
  /\ seenWrites' = seenWrites \cup {w.write_id}
  /\ RefMismatch(w.attempt)
  /\ Decide("evidence", "rejected", {"ref_mismatch"})
  /\ UNCHANGED <<attemptVars, evidence, derivedVars>>

(***************************************************************************)
(* Derived results.                                                        *)
(***************************************************************************)
AcceptDerived(d) ==
  /\ derived[d.derived_id] = None
  /\ derived' = [derived EXCEPT ![d.derived_id] = d]
  /\ derivedSupersededBy' =
       IF d.supersedes = None THEN derivedSupersededBy
       ELSE [derivedSupersededBy EXCEPT ![d.supersedes] = d.derived_id]
  /\ Decide("derived", "accepted", {})
  /\ UNCHANGED <<attemptVars, seenWrites, evidence>>

DuplicateDerived(d) ==
  /\ derived[d.derived_id] # None
  /\ Decide("derived", "duplicate", {})
  /\ UNCHANGED <<attemptVars, seenWrites, evidence, derivedVars>>

\* The status the reducer reports for a derived result.
DerivedStatus(id) ==
  IF derivedSupersededBy[id] # None THEN "superseded"
  ELSE IF evidence[EvidenceKey(derived[id])].latest_version > derived[id].evidence_version
       THEN "stale"
  ELSE "current"

(***************************************************************************)
(* The reducer: the next entry is any the validator lets through.          *)
(***************************************************************************)
ApplyAttempt == \E r \in AttemptRecords : AcceptAttempt(r) \/ RejectAttempt(r)
ApplyControl == \E w \in ControlWrites :
  DuplicateWrite("control", w) \/ AcceptControl(w) \/ RejectControl(w)
ApplyEvidence == \E w \in EvidenceWrites :
  DuplicateWrite("evidence", w) \/ AcceptEvidence(w) \/ RejectEvidence(w)
ApplyDerived == \E d \in DerivedResults : AcceptDerived(d) \/ DuplicateDerived(d)

Next == ApplyAttempt \/ ApplyControl \/ ApplyEvidence \/ ApplyDerived

Spec == Init /\ [][Next]_vars

(***************************************************************************)
(* Properties.                                                             *)
(***************************************************************************)
\* The state has the shape the reducer keeps: every map holds values of its type.
TypeOK ==
  /\ entities \in [Ids -> EntityState \cup {None}]
  /\ latestInGroup \in [GroupKeys -> Ids \cup {None}]
  /\ seenWrites \subseteq WriteIds
  /\ evidence \in [Ids \X EvidenceKinds -> EvidenceState]
  /\ derived \in [DerivedIds -> DerivedResults \cup {None}]
  /\ derivedSupersededBy \in [DerivedIds -> DerivedIds \cup {None}]
  /\ decision \in Decisions \cup {None}

\* superseded_by is exact: a launch carries one if and only if a later sibling
\* took its place, and no launch takes the place of two (siblings form one
\* chain, which is what a consumer that counts relaunches walks).
SupersessionChain ==
  \A i \in Declared :
    /\ entities[i].superseded_by = None <=> IsLatest(i)
    /\ \A j \in Declared :
         entities[i].superseded_by = j =>
           /\ GroupKeyOf(entities[i]) = GroupKeyOf(entities[j])
           /\ \A k \in Declared \ {i} : entities[k].superseded_by # j

CurrentRuns(t) ==
  {i \in Declared : entities[i].kind = "run" /\ entities[i].task_id = t /\ IsCurrent(i)}

\* A task executes one thing: two current runs of a task are the two arms of
\* one pair, whatever was relaunched, plain or challenged, and in which order.
OneExecutionPerTask ==
  \A t \in Tasks : \A i, j \in CurrentRuns(t) :
    i # j => LET left  == entities[i].parent_id
                 right == entities[j].parent_id
             IN /\ {left, right} \subseteq Declared
                /\ entities[left].parent_id = entities[right].parent_id
                /\ entities[left].slot # entities[right].slot

\* A retry never replaces a success, also when the outcome of the attempt it
\* replaced arrives after the retry was launched.
RetryReplacesNoSuccess ==
  \A i \in Declared :
    entities[i].retry_of # None => entities[entities[i].retry_of].outcome # "succeeded"

Occurrences(k, w) ==
  Cardinality({n \in DOMAIN evidence[k].write_ids : evidence[k].write_ids[n] = w})

\* Evidence counts once: no write id is attributed twice, to one attempt or to
\* two, and only ids that were seen are attributed.
WriteCountedOnce ==
  \A w \in WriteIds : \A k, l \in DOMAIN evidence :
    Occurrences(k, w) > 0 =>
      w \in seenWrites /\ Occurrences(k, w) = 1 /\ (k # l => Occurrences(l, w) = 0)

\* Once superseded, at any level of its lineage, an attempt never becomes
\* current again: ids are not reused and a launch takes only its own group.
StaleStaysStale ==
  [][\A i \in Declared : ~IsCurrent(i) => ~IsCurrent(i)']_vars

\* "An old attempt can never move the current attempt's state": an outcome is
\* set once, on a current attempt, and on a stage attempt only while its run
\* is unsettled.
SettlesOnceWhileCurrent ==
  [][\A i \in Declared : entities'[i].outcome # entities[i].outcome =>
       /\ entities[i].outcome = None
       /\ IsCurrent(i)
       /\ entities[i].kind = "stage_attempt" =>
            entities[entities[i].parent_id].outcome = None]_vars

\* Late evidence never moves code identity back: it changes only in a step
\* that also raises an evidence version of that attempt.
CodeIdentityFollowsNewEvidence ==
  [][\A i \in Declared : entities'[i].code_identity # entities[i].code_identity =>
       \E e \in EvidenceKinds :
         evidence'[<<i, e>>].latest_version > evidence[<<i, e>>].latest_version]_vars

\* A result that went stale or was superseded never becomes current again, in
\* whatever order evidence versions and recomputations arrive.
DerivedNeverRevives ==
  [][\A d \in DerivedIds : derived[d] # None =>
       /\ DerivedStatus(d) = "stale" => DerivedStatus(d)' # "current"
       /\ DerivedStatus(d) = "superseded" => DerivedStatus(d)' = "superseded"]_vars

\* What newer evidence settled, older evidence and later recomputations leave so:
\* the code identity of an attempt, and that a result is out of date.
EvidenceMovesForward == CodeIdentityFollowsNewEvidence /\ DerivedNeverRevives

=============================================================================

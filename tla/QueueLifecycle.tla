--------------------------- MODULE QueueLifecycle ---------------------------
(***************************************************************************)
(* The reference reducer of queue_lifecycle_event/v1,                      *)
(* packages/core/src/task-cost/queue-lifecycle-reducer.ts.  It reads one   *)
(* arrival-ordered stream of queue events and task_attempt/v1 entries and  *)
(* judges every queue event against the attempts declared before it.  One  *)
(* step applies the next stream entry.                                     *)
(*                                                                         *)
(* The reducer runs reduceTaskAttemptLog over the attempt entries seen so  *)
(* far; here that is the state of TaskAttempt, advanced by its own steps.  *)
(*                                                                         *)
(* Abstracted: what a payload says beyond the fields a rule reads is one   *)
(* value, "body"; SHAs, actors and pull request numbers are part of it.    *)
(***************************************************************************)
EXTENDS Naturals, Sequences, FiniteSets

CONSTANTS
  Tasks, Ids, Stages, Outcomes, WriteIds, EvidenceKinds, MaxVersion,
  CodeIdentities, Sessions, DerivedIds, None,   \* of TaskAttempt
  EventIds,      \* minted event ids
  CandidateIds,  \* minted candidate ids
  Times,         \* observed_at and as_of
  Bodies,        \* the rest of an event's payload
  Events         \* the events producers may write

VARIABLES
  entities, latestInGroup, seenWrites, evidence, derived, derivedSupersededBy,
  decision,         \* of TaskAttempt
  firstSeen,        \* event id -> the first event that bore it
  accepted,         \* ids of the accepted events, in arrival order
  candidates,       \* candidate id -> its composition and what landed or left
  verdict           \* the decision on the last queue event

Attempt == INSTANCE TaskAttempt

(***************************************************************************)
(* Events.                                                                 *)
(***************************************************************************)
ControlTypes == {"enqueued", "candidate_prepared", "ejected", "rerun_requested",
                 "recovery_decision", "merged", "dequeued", "abandoned",
                 "review_round_started"}
EvidenceTypes == {"check_run_completed", "rebase_performed", "repair_commit_pushed",
                  "review_round_completed"}
EventTypes == ControlTypes \cup EvidenceTypes

Scopes(type) ==
  CASE type = "candidate_prepared" -> {"candidate"}
    [] type \in {"check_run_completed", "rerun_requested", "recovery_decision"} ->
         {"pr", "candidate"}
    [] OTHER -> {"pr"}

CandidateLinked == {"ejected", "merged"}

\* An event names one attempt (pr scope) or each run of a candidate once.  The
\* context of a recovery decision was cut off before the decision.
ValidEvent(e) ==
  /\ e \in [event_id : EventIds, event_type : EventTypes, scope : {"pr", "candidate"},
            attempt_refs : Seq(Attempt!Refs), candidate_id : CandidateIds \cup {None},
            observed_at : Times, as_of : Times, context_ids : SUBSET EventIds,
            body : Bodies]
  /\ e.scope \in Scopes(e.event_type)
  /\ e.scope = "pr" => /\ Len(e.attempt_refs) = 1
                       /\ e.candidate_id # None => e.event_type \in CandidateLinked
  /\ e.scope = "candidate" =>
       /\ e.attempt_refs # <<>>
       /\ e.candidate_id # None
       /\ \A m, n \in DOMAIN e.attempt_refs :
            e.attempt_refs[m].run_id = e.attempt_refs[n].run_id => m = n
  /\ IF e.event_type = "recovery_decision" THEN e.as_of <= e.observed_at
     ELSE e.as_of = e.observed_at /\ e.context_ids = {}

CandidateState ==
  [attempt_refs : {e.attempt_refs : e \in Events},
   ejected_run_ids : SUBSET Ids, merged_run_ids : SUBSET Ids]

ASSUME EventsAssumption == \A e \in Events : ValidEvent(e)
ASSUME AbsenceAssumption == None \notin Events \cup CandidateIds \cup CandidateState
ASSUME TimesAssumption == Times \subseteq Nat
ASSUME AttemptAssumption ==
  Attempt!NoneAssumption /\ Attempt!IdentityAssumption /\ Attempt!BoundAssumption

RefsOf(e) == {e.attempt_refs[n] : n \in DOMAIN e.attempt_refs}

RejectReasons ==
  {"event_id_conflict", "unknown_attempt", "ref_mismatch", "stale_run",
   "stale_stage_attempt", "settled", "candidate_id_reused", "unknown_candidate",
   "candidate_mismatch", "ejected_from_candidate", "context_leak"}
AcceptedNotes == {"undeclared_attempt", "undeclared_candidate"}
Verdicts == [event_id : EventIds, decision : {"accepted", "rejected", "duplicate"},
             reasons : SUBSET (RejectReasons \cup AcceptedNotes)]

attemptLogVars == <<entities, latestInGroup, seenWrites, evidence, derived,
                    derivedSupersededBy, decision>>
queueVars == <<firstSeen, accepted, candidates, verdict>>
vars == <<attemptLogVars, queueVars>>

Init ==
  /\ Attempt!Init
  /\ firstSeen = [id \in EventIds |-> None]
  /\ accepted = <<>>
  /\ candidates = [c \in CandidateIds |-> None]
  /\ verdict = None

Accepted == {accepted[n] : n \in DOMAIN accepted}

(***************************************************************************)
(* The rules an event is judged by.                                        *)
(***************************************************************************)
\* Seeded bug: any declared stage attempt will do, of whichever run.
StageOfAnyRun(ref) == entities[ref.stage_attempt_id].kind = "stage_attempt"

StageOfRun(ref) ==
  /\ entities[ref.stage_attempt_id].kind = "stage_attempt"
  /\ entities[ref.stage_attempt_id].parent_id = ref.run_id

RunOfTask(ref) ==
  /\ entities[ref.run_id].kind = "run"
  /\ entities[ref.run_id].task_id = ref.task_id

When(condition, reason) == IF condition THEN {reason} ELSE {}

\* checkControlRef: an unresolved ref has one reason, a resolved one each that applies.
ControlRefReasons(ref) ==
  LET run   == ref.run_id
      stage == ref.stage_attempt_id
  IN
  IF run \notin Attempt!Declared THEN {"unknown_attempt"}
  ELSE IF ~RunOfTask(ref) THEN {"ref_mismatch"}
  ELSE IF stage # None /\ stage \notin Attempt!Declared THEN {"unknown_attempt"}
  ELSE IF stage # None /\ ~StageOfRun(ref) THEN {"ref_mismatch"}
  ELSE When(~Attempt!IsCurrent(run), "stale_run")
         \cup When(stage # None /\ ~Attempt!IsCurrent(stage), "stale_stage_attempt")
         \cup When(\E i \in {run, stage} \ {None} : entities[i].outcome # None, "settled")

\* checkEvidenceRef: only a contradictory ref is rejected.
EvidenceRefReasons(ref) ==
  LET run   == ref.run_id
      stage == ref.stage_attempt_id
      known == Attempt!Declared
  IN
  IF \/ run \in known /\ ~RunOfTask(ref)
     \/ stage \in known /\ ~StageOfRun(ref)
  THEN {"ref_mismatch"}
  ELSE When(~({run, stage} \ {None} \subseteq known), "undeclared_attempt")

\* Seeded bug: only the first attempt a candidate names is judged.
FirstAttemptReasons(e) ==
  IF e.event_type \in ControlTypes THEN ControlRefReasons(e.attempt_refs[1])
  ELSE EvidenceRefReasons(e.attempt_refs[1])

AttemptReasons(e) ==
  UNION {IF e.event_type \in ControlTypes THEN ControlRefReasons(ref)
         ELSE EvidenceRefReasons(ref) : ref \in RefsOf(e)}

MergedAfterEjected(e) ==
  /\ e.event_type = "merged"
  /\ e.attempt_refs[1].run_id \in candidates[e.candidate_id].ejected_run_ids

Prepared(c) == candidates[c] # None

LinkReasons(e) ==
  IF ~Prepared(e.candidate_id) THEN {"unknown_candidate"}
  ELSE IF e.attempt_refs[1] \notin
            {candidates[e.candidate_id].attempt_refs[n] :
               n \in DOMAIN candidates[e.candidate_id].attempt_refs}
       THEN {"candidate_mismatch"}
  ELSE When(MergedAfterEjected(e), "ejected_from_candidate")

ScopeReasons(e) ==
  IF ~Prepared(e.candidate_id)
  THEN {IF e.event_type \in ControlTypes THEN "unknown_candidate" ELSE "undeclared_candidate"}
  ELSE When(candidates[e.candidate_id].attempt_refs # e.attempt_refs, "candidate_mismatch")

CandidateIdReused(e) == Prepared(e.candidate_id)

CandidateReasons(e) ==
  CASE e.event_type = "candidate_prepared" ->
         When(CandidateIdReused(e), "candidate_id_reused")
    [] e.event_type # "candidate_prepared" /\ e.scope = "candidate" -> ScopeReasons(e)
    [] e.scope = "pr" /\ e.candidate_id # None -> LinkReasons(e)
    [] OTHER -> {}

Leaks(e) ==
  \E id \in e.context_ids : id \notin Accepted \/ firstSeen[id].observed_at > e.as_of

EventReasons(e) ==
  AttemptReasons(e) \cup CandidateReasons(e)
    \cup When(e.event_type = "recovery_decision" /\ Leaks(e), "context_leak")

(***************************************************************************)
(* Applying an event.                                                      *)
(***************************************************************************)
Judge(e, kind, reasons) ==
  verdict' = [event_id |-> e.event_id, decision |-> kind, reasons |-> reasons]

\* Seeded bug: an event that was rejected may be written again.
NotAccepted(e) == e.event_id \notin Accepted

IsNew(e) == firstSeen[e.event_id] = None

Replay(e) ==
  /\ firstSeen[e.event_id] = e
  /\ Judge(e, "duplicate", {})
  /\ UNCHANGED <<firstSeen, accepted, candidates>>

Conflict(e) ==
  /\ ~IsNew(e)
  /\ firstSeen[e.event_id] # e
  /\ Judge(e, "rejected", {"event_id_conflict"})
  /\ UNCHANGED <<firstSeen, accepted, candidates>>

Remember(e) == [firstSeen EXCEPT ![e.event_id] = e]

CandidatesAfter(e) ==
  LET run == e.attempt_refs[1].run_id IN
  CASE e.event_type = "candidate_prepared" ->
         [candidates EXCEPT ![e.candidate_id] =
            [attempt_refs |-> e.attempt_refs, ejected_run_ids |-> {}, merged_run_ids |-> {}]]
    [] e.event_type = "ejected" /\ e.candidate_id # None ->
         [candidates EXCEPT ![e.candidate_id].ejected_run_ids = @ \cup {run}]
    [] e.event_type = "merged" /\ e.candidate_id # None ->
         [candidates EXCEPT ![e.candidate_id].merged_run_ids = @ \cup {run}]
    [] OTHER -> candidates

Accept(e) ==
  /\ IsNew(e)
  /\ EventReasons(e) \subseteq AcceptedNotes
  /\ firstSeen' = Remember(e)
  /\ accepted' = Append(accepted, e.event_id)
  /\ candidates' = CandidatesAfter(e)
  /\ Judge(e, "accepted", EventReasons(e))

Reject(e) ==
  /\ IsNew(e)
  /\ ~(EventReasons(e) \subseteq AcceptedNotes)
  /\ firstSeen' = Remember(e)
  /\ Judge(e, "rejected", EventReasons(e))
  /\ UNCHANGED <<accepted, candidates>>

ApplyEvent ==
  /\ \E e \in Events : Replay(e) \/ Conflict(e) \/ Accept(e) \/ Reject(e)
  /\ UNCHANGED attemptLogVars

ApplyAttemptEntry == Attempt!Next /\ UNCHANGED queueVars

Next == ApplyEvent \/ ApplyAttemptEntry

Spec == Init /\ [][Next]_vars

(***************************************************************************)
(* Properties.                                                             *)
(***************************************************************************)
\* The reducer's maps hold values of their types.
TypeOK ==
  /\ firstSeen \in [EventIds -> Events \cup {None}]
  /\ accepted \in Seq(EventIds)
  /\ candidates \in [CandidateIds -> CandidateState \cup {None}]
  /\ verdict \in Verdicts \cup {None}

\* "Control events: the HOK-3372 rules, not a copy of them": the checks the queue
\* reducer writes out again accept a ref exactly when the attempt reducer would
\* accept a control write for it, and an evidence ref exactly when it would keep
\* the evidence.
SameVerdict ==
  \A ref \in Attempt!Refs :
    /\ ControlRefReasons(ref) = {} <=> Attempt!ControlReason(ref) = None
    /\ "ref_mismatch" \in EvidenceRefReasons(ref) <=> Attempt!RefMismatch(ref)

\* Every ref of a prepared candidate keeps naming a launched run of its task
\* (and that run's stage attempt), whatever is launched or settled later.
CandidateRefsResolve ==
  \A c \in CandidateIds : Prepared(c) =>
    \A n \in DOMAIN candidates[c].attempt_refs :
      LET ref == candidates[c].attempt_refs[n]
      IN ~Attempt!RefMismatch(ref) /\ ~Attempt!Unknown(ref)

\* A candidate keeps the composition it was prepared with, nothing but its own
\* runs leaves or lands in it, and what left or landed is not forgotten.
CompositionFixed ==
  [][\A c \in CandidateIds : Prepared(c) =>
       LET old == candidates[c]
           new == candidates'[c]
       IN /\ new.attempt_refs = old.attempt_refs
          /\ old.ejected_run_ids \subseteq new.ejected_run_ids
          /\ old.merged_run_ids \subseteq new.merged_run_ids
          /\ new.ejected_run_ids \cup new.merged_run_ids \subseteq
               {old.attempt_refs[n].run_id : n \in DOMAIN old.attempt_refs}]_vars

\* A run that was ejected from a candidate never lands in that candidate.
EjectedNeverLands ==
  [][\A c \in CandidateIds : Prepared(c) =>
       (candidates'[c].merged_run_ids \ candidates[c].merged_run_ids)
         \cap candidates[c].ejected_run_ids = {}]_vars

\* "A snapshot can't contain post-decision information": an accepted recovery
\* decision read only events accepted before it and observed no later than it.
ContextPrecedes ==
  \A n \in DOMAIN accepted :
    LET e == firstSeen[accepted[n]] IN
    e.event_type = "recovery_decision" =>
      \A id \in e.context_ids :
        \E m \in 1..(n - 1) :
          accepted[m] = id /\ firstSeen[id].observed_at <= e.observed_at

\* What an accepted event refers to stays true of the two logs: runs of its task
\* that were launched, and decisions made from what had been accepted by then.
RefsHold == TypeOK /\ CandidateRefsResolve /\ ContextPrecedes

\* First write wins: the event an id stands for and its verdict are fixed by its
\* first arrival, so replaying any part of the stream changes nothing.
FirstWriteWins ==
  [][\A id \in EventIds : firstSeen[id] # None =>
       /\ firstSeen'[id] = firstSeen[id]
       /\ id \in Accepted <=> id \in Accepted']_vars

\* What the log has said it does not take back: the event and the verdict of an
\* id, and that a run left a candidate without landing.
QueueLogIsFinal == FirstWriteWins /\ EjectedNeverLands

=============================================================================

------------------------ MODULE QueueLifecycleProofs ------------------------
(***************************************************************************)
(* What the queue reducer guarantees for every set of events, attempts and *)
(* candidates, proved from the specification QueueLifecycle.               *)
(***************************************************************************)
EXTENDS QueueLifecycle, TLAPS

\* The part of TaskAttempt's assumption on None that the rules rely on.
LEMMA Absent ==
  None \notin Ids /\ None \notin Attempt!Reasons
BY AttemptAssumption DEF Attempt!NoneAssumption

LEMMA WhenEmpty ==
  ASSUME NEW p, NEW reason, When(p, reason) = {}
  PROVE  ~p
BY DEF When

(***************************************************************************)
(* Two reducers, one verdict.                                              *)
(***************************************************************************)
LEMMA SameControlVerdict ==
  ASSUME NEW ref \in Attempt!Refs
  PROVE  ControlRefReasons(ref) = {} <=> Attempt!ControlReason(ref) = None
<1> DEFINE run   == ref.run_id
           stage == ref.stage_attempt_id
           known == Attempt!Declared
<1>1. None \notin known
  BY Absent DEF Attempt!Declared
<1>2. Attempt!ControlReason(ref) = None <=>
        /\ ~Attempt!RefMismatch(ref) /\ ~Attempt!Unknown(ref)
        /\ ~Attempt!StaleRun(ref) /\ ~Attempt!StaleStageAttempt(ref)
        /\ ~Attempt!Settled(ref)
  BY Absent DEF Attempt!ControlReason, Attempt!Reasons
<1>3. ~Attempt!RefMismatch(ref) /\ ~Attempt!Unknown(ref) <=>
        /\ run \in known /\ RunOfTask(ref)
        /\ stage # None => stage \in known /\ StageOfRun(ref)
  BY <1>1 DEF Attempt!RefMismatch, Attempt!Unknown, Attempt!AttemptIdOf, RunOfTask, StageOfRun
<1>4. Attempt!Settled(ref) <=> \E i \in {run, stage} \ {None} : entities[i].outcome # None
  <2>1. run # None
    BY Absent DEF Attempt!Refs
  <2>2. CASE stage = None
    BY <2>1, <2>2 DEF Attempt!Settled, Attempt!AttemptIdOf
  <2>3. CASE stage # None
    BY <2>1, <2>3 DEF Attempt!Settled, Attempt!AttemptIdOf
  <2>. QED BY <2>2, <2>3
<1>5. ControlRefReasons(ref) = {} <=>
        /\ run \in known /\ RunOfTask(ref)
        /\ stage # None => stage \in known /\ StageOfRun(ref)
        /\ Attempt!IsCurrent(run)
        /\ stage # None => Attempt!IsCurrent(stage)
        /\ ~\E i \in {run, stage} \ {None} : entities[i].outcome # None
  BY DEF ControlRefReasons, When
<1>. QED BY <1>2, <1>3, <1>4, <1>5 DEF Attempt!StaleRun, Attempt!StaleStageAttempt

LEMMA SameEvidenceVerdict ==
  ASSUME NEW ref \in Attempt!Refs
  PROVE  "ref_mismatch" \in EvidenceRefReasons(ref) <=> Attempt!RefMismatch(ref)
BY DEF EvidenceRefReasons, Attempt!RefMismatch, RunOfTask, StageOfRun, When

\* The rules the queue reducer writes out again agree with the attempt reducer's
\* in every state, not only in those the two logs reach.
THEOREM RulesAgree == Spec => []SameVerdict
<1>1. SameVerdict
  BY SameControlVerdict, SameEvidenceVerdict DEF SameVerdict
<1>. QED BY <1>1, PTL

(***************************************************************************)
(* Candidates.                                                             *)
(***************************************************************************)
Runs(c) == {candidates[c].attempt_refs[n].run_id : n \in DOMAIN candidates[c].attempt_refs}

Left(c, run) == [candidates[c] EXCEPT !.ejected_run_ids = @ \cup {run}]
Landed(c, run) == [candidates[c] EXCEPT !.merged_run_ids = @ \cup {run}]

\* What one step can do to a prepared candidate.
CandidateMoves(c) ==
  \/ candidates'[c] = candidates[c]
  \/ \E run \in Runs(c) : candidates'[c] = Left(c, run)
  \/ \E run \in Runs(c) \ candidates[c].ejected_run_ids : candidates'[c] = Landed(c, run)

LEMMA EventType ==
  ASSUME NEW e \in Events
  PROVE  /\ e.event_id \in EventIds /\ e.event_type \in EventTypes
         /\ e.attempt_refs \in Seq(Attempt!Refs)
         /\ e.candidate_id \in CandidateIds \cup {None}
         /\ e.event_type = "candidate_prepared" =>
              e.scope = "candidate" /\ e.candidate_id \in CandidateIds
         /\ e.event_type \in CandidateLinked =>
              e.scope = "pr" /\ e.attempt_refs[1] \in Attempt!Refs
<1>1. ValidEvent(e)
  BY EventsAssumption
<1>2. e.event_type = "candidate_prepared" => e.scope = "candidate"
  BY <1>1 DEF ValidEvent, Scopes
<1>3. e.event_type \in CandidateLinked => e.scope = "pr"
  BY <1>1 DEF ValidEvent, Scopes, CandidateLinked
<1>4. e.scope = "pr" => e.attempt_refs[1] \in Attempt!Refs
  BY <1>1 DEF ValidEvent
<1>. QED BY <1>1, <1>2, <1>3, <1>4 DEF ValidEvent

\* An accepted event that names a candidate names one of its runs, and a merged
\* run is not one that was ejected.
LEMMA LinkAccepted ==
  ASSUME NEW e \in Events, e.event_type \in CandidateLinked, e.candidate_id # None,
         EventReasons(e) \subseteq AcceptedNotes
  PROVE  /\ Prepared(e.candidate_id)
         /\ e.attempt_refs[1].run_id \in Runs(e.candidate_id)
         /\ e.event_type = "merged" =>
              e.attempt_refs[1].run_id \notin candidates[e.candidate_id].ejected_run_ids
<1>1. LinkReasons(e) \subseteq AcceptedNotes
  BY EventType DEF EventReasons, CandidateReasons, CandidateLinked
<1>2. Prepared(e.candidate_id)
  BY <1>1 DEF LinkReasons, AcceptedNotes
<1>3. e.attempt_refs[1] \in {candidates[e.candidate_id].attempt_refs[n] :
                               n \in DOMAIN candidates[e.candidate_id].attempt_refs}
  BY <1>1, <1>2 DEF LinkReasons, AcceptedNotes
<1>4. ~MergedAfterEjected(e)
  BY <1>1, <1>2, <1>3 DEF LinkReasons, AcceptedNotes, When
<1>. QED BY <1>2, <1>3, <1>4 DEF Runs, MergedAfterEjected

LEMMA AcceptMoves ==
  ASSUME TypeOK, NEW e \in Events, Accept(e), NEW c \in CandidateIds, Prepared(c)
  PROVE  CandidateMoves(c)
<1> DEFINE run == e.attempt_refs[1].run_id
<1>1. EventReasons(e) \subseteq AcceptedNotes /\ candidates' = CandidatesAfter(e)
  BY DEF Accept
<1>2. CASE e.event_type = "candidate_prepared"
  <2>1. ~Prepared(e.candidate_id)
    BY <1>1, <1>2, EventType
       DEF EventReasons, CandidateReasons, CandidateIdReused, When, AcceptedNotes
  <2>2. candidates'[c] = candidates[c]
    BY <1>1, <1>2, <2>1 DEF CandidatesAfter, TypeOK, Prepared
  <2>. QED BY <2>2 DEF CandidateMoves
<1>3. CASE e.event_type = "ejected" /\ e.candidate_id # None
  <2>1. run \in Runs(e.candidate_id)
    BY <1>1, <1>3, LinkAccepted DEF CandidateLinked
  <2>2. candidates' = [candidates EXCEPT ![e.candidate_id] = Left(e.candidate_id, run)]
    BY <1>1, <1>3 DEF CandidatesAfter, Left
  <2>. QED BY <2>1, <2>2 DEF CandidateMoves, TypeOK
<1>4. CASE e.event_type = "merged" /\ e.candidate_id # None
  <2>1. run \in Runs(e.candidate_id) \ candidates[e.candidate_id].ejected_run_ids
    BY <1>1, <1>4, LinkAccepted DEF CandidateLinked
  <2>2. candidates' = [candidates EXCEPT ![e.candidate_id] = Landed(e.candidate_id, run)]
    BY <1>1, <1>4 DEF CandidatesAfter, Landed
  <2>. QED BY <2>1, <2>2 DEF CandidateMoves, TypeOK
<1>5. CASE /\ e.event_type # "candidate_prepared"
           /\ ~(e.event_type \in CandidateLinked /\ e.candidate_id # None)
  BY <1>1, <1>5 DEF CandidatesAfter, CandidateMoves, CandidateLinked
<1>. QED BY <1>2, <1>3, <1>4, <1>5 DEF CandidateLinked

LEMMA StepMoves ==
  ASSUME TypeOK, [Next]_vars, NEW c \in CandidateIds, Prepared(c)
  PROVE  CandidateMoves(c)
<1>1. ASSUME NEW e \in Events, Accept(e) PROVE CandidateMoves(c)
  BY <1>1, AcceptMoves
<1>2. ASSUME UNCHANGED candidates PROVE CandidateMoves(c)
  BY <1>2 DEF CandidateMoves
<1>. QED
  BY <1>1, <1>2
     DEF Next, ApplyEvent, ApplyAttemptEntry, Replay, Conflict, Reject, vars, queueVars

(***************************************************************************)
(* The invariant: types, and nothing but a candidate's runs left or landed.*)
(***************************************************************************)
QInv ==
  /\ TypeOK
  /\ \A c \in CandidateIds : Prepared(c) =>
       candidates[c].ejected_run_ids \cup candidates[c].merged_run_ids \subseteq Runs(c)

\* What a move of a prepared candidate does to its fields.
FieldsMove(c) ==
  /\ candidates'[c] \in CandidateState
  /\ candidates'[c].attempt_refs = candidates[c].attempt_refs
  /\ candidates[c].ejected_run_ids \subseteq candidates'[c].ejected_run_ids
  /\ candidates[c].merged_run_ids \subseteq candidates'[c].merged_run_ids
  /\ candidates'[c].ejected_run_ids \cup candidates'[c].merged_run_ids \subseteq
       Runs(c) \cup candidates[c].ejected_run_ids \cup candidates[c].merged_run_ids
  /\ (candidates'[c].merged_run_ids \ candidates[c].merged_run_ids)
       \cap candidates[c].ejected_run_ids = {}

LEMMA MoveFields ==
  ASSUME TypeOK, NEW c \in CandidateIds, Prepared(c), CandidateMoves(c)
  PROVE  FieldsMove(c)
<1>1. candidates[c] \in CandidateState
  BY DEF TypeOK, Prepared
<1>2. Runs(c) \subseteq Ids
  <2>1. candidates[c].attempt_refs \in Seq(Attempt!Refs)
    BY <1>1, EventType DEF CandidateState
  <2>2. \A n \in DOMAIN candidates[c].attempt_refs : candidates[c].attempt_refs[n] \in Attempt!Refs
    BY <2>1
  <2>3. \A ref \in Attempt!Refs : ref.run_id \in Ids
    BY DEF Attempt!Refs
  <2>. QED BY <2>2, <2>3 DEF Runs
<1>3. CASE candidates'[c] = candidates[c]
  BY <1>1, <1>3 DEF FieldsMove
<1>4. ASSUME NEW run \in Runs(c), candidates'[c] = Left(c, run) PROVE FieldsMove(c)
  BY <1>1, <1>2, <1>4 DEF FieldsMove, Left, CandidateState
<1>5. ASSUME NEW run \in Runs(c) \ candidates[c].ejected_run_ids, candidates'[c] = Landed(c, run)
      PROVE  FieldsMove(c)
  BY <1>1, <1>2, <1>5 DEF FieldsMove, Landed, CandidateState
<1>. QED BY <1>3, <1>4, <1>5 DEF CandidateMoves

LEMMA PreparedType ==
  ASSUME NEW e \in Events
  PROVE  [attempt_refs |-> e.attempt_refs, ejected_run_ids |-> {}, merged_run_ids |-> {}]
           \in CandidateState
BY DEF CandidateState

\* A candidate that is not prepared yet stays so, or starts empty.
LEMMA UnpreparedMoves ==
  ASSUME TypeOK, NEW e \in Events, Accept(e), NEW c \in CandidateIds, ~Prepared(c)
  PROVE  \/ candidates'[c] = None
         \/ candidates'[c] =
              [attempt_refs |-> e.attempt_refs, ejected_run_ids |-> {}, merged_run_ids |-> {}]
<1>1. candidates' = CandidatesAfter(e) /\ EventReasons(e) \subseteq AcceptedNotes
  BY DEF Accept
<1>2. CASE e.event_type = "candidate_prepared"
  BY <1>1, <1>2 DEF CandidatesAfter, TypeOK, Prepared
<1>3. CASE e.event_type \in CandidateLinked /\ e.candidate_id # None
  <2>1. e.candidate_id # c
    BY <1>1, <1>3, LinkAccepted
  <2>. QED BY <1>1, <1>3, <2>1 DEF CandidatesAfter, CandidateLinked, TypeOK, Prepared
<1>4. CASE /\ e.event_type # "candidate_prepared"
           /\ ~(e.event_type \in CandidateLinked /\ e.candidate_id # None)
  BY <1>1, <1>4 DEF CandidatesAfter, CandidateLinked, Prepared
<1>. QED BY <1>2, <1>3, <1>4

LEMMA AcceptCandidates ==
  ASSUME QInv, NEW e \in Events, Accept(e)
  PROVE  /\ candidates' \in [CandidateIds -> CandidateState \cup {None}]
         /\ (\A c \in CandidateIds : Prepared(c) =>
               candidates[c].ejected_run_ids \cup candidates[c].merged_run_ids \subseteq Runs(c))'
<1>1. DOMAIN candidates' = CandidateIds
  BY DEF Accept, CandidatesAfter, QInv, TypeOK
<1>2. ASSUME NEW c \in CandidateIds, Prepared(c)
      PROVE  /\ candidates'[c] \in CandidateState
             /\ candidates'[c].ejected_run_ids \cup candidates'[c].merged_run_ids \subseteq Runs(c)'
  <2>1. CandidateMoves(c)
    BY <1>2, AcceptMoves DEF QInv
  <2>2. Runs(c)' = Runs(c)
    BY <1>2, <2>1, MoveFields DEF FieldsMove, QInv, Runs
  <2>. QED BY <1>2, <2>1, <2>2, MoveFields DEF FieldsMove, QInv
<1>3. ASSUME NEW c \in CandidateIds, ~Prepared(c), candidates'[c] # None
      PROVE  /\ candidates'[c] \in CandidateState
             /\ candidates'[c].ejected_run_ids \cup candidates'[c].merged_run_ids \subseteq Runs(c)'
  <2>1. candidates'[c] =
          [attempt_refs |-> e.attempt_refs, ejected_run_ids |-> {}, merged_run_ids |-> {}]
    BY <1>3, UnpreparedMoves DEF QInv
  <2>2. candidates'[c].ejected_run_ids = {} /\ candidates'[c].merged_run_ids = {}
    BY <2>1
  <2>. QED BY <2>1, <2>2, PreparedType
<1>4. candidates' = [c \in CandidateIds |-> candidates'[c]]
  BY <1>1 DEF Accept, CandidatesAfter, QInv, TypeOK
<1>. QED BY <1>2, <1>3, <1>4 DEF Prepared

\* Every reason is one the contract lists.
LEMMA ReasonsType ==
  ASSUME NEW e \in Events
  PROVE  EventReasons(e) \subseteq RejectReasons \cup AcceptedNotes
<1>1. AttemptReasons(e) \subseteq RejectReasons \cup AcceptedNotes
  BY DEF AttemptReasons, ControlRefReasons, EvidenceRefReasons, When, RejectReasons, AcceptedNotes
<1>2. CandidateReasons(e) \subseteq RejectReasons \cup AcceptedNotes
  <2>1. ScopeReasons(e) \subseteq RejectReasons \cup AcceptedNotes
    BY DEF ScopeReasons, When, RejectReasons, AcceptedNotes
  <2>2. LinkReasons(e) \subseteq RejectReasons \cup AcceptedNotes
    BY DEF LinkReasons, When, RejectReasons, AcceptedNotes
  <2>. QED BY <2>1, <2>2 DEF CandidateReasons, When, RejectReasons, AcceptedNotes
<1>. QED BY <1>1, <1>2 DEF EventReasons, When, RejectReasons, AcceptedNotes

LEMMA AcceptKeeps ==
  ASSUME QInv, NEW e \in Events, Accept(e)
  PROVE  QInv'
<1>1. e.event_id \in EventIds /\ EventReasons(e) \subseteq RejectReasons \cup AcceptedNotes
  BY EventType, ReasonsType
<1>2. firstSeen' \in [EventIds -> Events \cup {None}]
  BY <1>1 DEF Accept, Remember, QInv, TypeOK
<1>3. accepted' \in Seq(EventIds)
  BY <1>1 DEF Accept, QInv, TypeOK
<1>4. verdict' \in Verdicts
  BY <1>1 DEF Accept, Judge, Verdicts
<1>. QED BY <1>2, <1>3, <1>4, AcceptCandidates DEF QInv, TypeOK

LEMMA QInvStep ==
  ASSUME QInv, [Next]_vars
  PROVE  QInv'
<1>1. ASSUME NEW e \in Events, Accept(e) PROVE QInv'
  BY <1>1, AcceptKeeps
<1>2. ASSUME NEW e \in Events, Reject(e) \/ Replay(e) \/ Conflict(e) PROVE QInv'
  <2>1. e.event_id \in EventIds /\ EventReasons(e) \subseteq RejectReasons \cup AcceptedNotes
    BY EventType, ReasonsType
  <2>2. accepted' = accepted /\ candidates' = candidates
    BY <1>2 DEF Reject, Replay, Conflict
  <2>3. firstSeen' \in [EventIds -> Events \cup {None}]
    BY <1>2, <2>1 DEF Reject, Replay, Conflict, Remember, QInv, TypeOK
  <2>4. verdict' \in Verdicts
    BY <1>2, <2>1 DEF Reject, Replay, Conflict, Judge, Verdicts, RejectReasons
  <2>. QED BY <2>2, <2>3, <2>4 DEF QInv, TypeOK, Prepared, Runs
<1>3. ASSUME UNCHANGED queueVars PROVE QInv'
  BY <1>3 DEF queueVars, QInv, TypeOK, Prepared, Runs
<1>. QED BY <1>1, <1>2, <1>3 DEF Next, ApplyEvent, ApplyAttemptEntry, vars

THEOREM QueueInvariant == Spec => []QInv
<1>1. Init => QInv
  BY DEF Init, QInv, TypeOK, Prepared
<1>. QED BY <1>1, QInvStep, PTL DEF Spec

\* The reducer's maps hold values of their types.
THEOREM TypeCorrect == Spec => []TypeOK
<1>1. QInv => TypeOK
  BY DEF QInv
<1>. QED BY <1>1, QueueInvariant, PTL

\* A candidate keeps its composition, and only its own runs leave it or land.
THEOREM CompositionIsFixed == Spec => CompositionFixed
<1> DEFINE Fixed(c) ==
      LET old == candidates[c]
          new == candidates'[c]
      IN /\ new.attempt_refs = old.attempt_refs
         /\ old.ejected_run_ids \subseteq new.ejected_run_ids
         /\ old.merged_run_ids \subseteq new.merged_run_ids
         /\ new.ejected_run_ids \cup new.merged_run_ids \subseteq
              {old.attempt_refs[n].run_id : n \in DOMAIN old.attempt_refs}
<1>1. ASSUME QInv, [Next]_vars, NEW c \in CandidateIds, Prepared(c) PROVE Fixed(c)
  BY <1>1, StepMoves, MoveFields DEF FieldsMove, QInv, Runs
<1>2. QInv /\ [Next]_vars => \A c \in CandidateIds : Prepared(c) => Fixed(c)
  BY <1>1
<1>. QED BY <1>2, QueueInvariant, PTL DEF Spec, CompositionFixed

\* A run that was ejected from a candidate never lands in it.
THEOREM EjectedStaysOut == Spec => EjectedNeverLands
<1>1. ASSUME QInv, [Next]_vars, NEW c \in CandidateIds, Prepared(c)
      PROVE  (candidates'[c].merged_run_ids \ candidates[c].merged_run_ids)
               \cap candidates[c].ejected_run_ids = {}
  BY <1>1, StepMoves, MoveFields DEF FieldsMove, QInv
<1>2. QInv /\ [Next]_vars =>
        \A c \in CandidateIds : Prepared(c) =>
          (candidates'[c].merged_run_ids \ candidates[c].merged_run_ids)
            \cap candidates[c].ejected_run_ids = {}
  BY <1>1
<1>. QED BY <1>2, QueueInvariant, PTL DEF Spec, EjectedNeverLands

\* An event id stands for the first event that bore it, and its verdict is final.
THEOREM FirstWriteIsFinal == Spec => FirstWriteWins
<1> DEFINE Final(id) == /\ firstSeen'[id] = firstSeen[id]
                        /\ id \in Accepted <=> id \in Accepted'
<1>1. ASSUME QInv, [Next]_vars, NEW id \in EventIds, firstSeen[id] # None
      PROVE  Final(id)
  <2>1. ASSUME NEW e \in Events, Accept(e) PROVE Final(id)
    <3>1. e.event_id # id /\ firstSeen'[id] = firstSeen[id]
      BY <1>1, <2>1 DEF Accept, IsNew, Remember, QInv, TypeOK
    <3>2. Accepted' = Accepted \cup {e.event_id}
      <4>1. accepted \in Seq(EventIds) /\ accepted' = Append(accepted, e.event_id)
        BY <1>1, <2>1 DEF Accept, QInv, TypeOK
      <4>. QED BY <4>1, EventType DEF Accepted
    <3>. QED BY <3>1, <3>2
  <2>2. ASSUME NEW e \in Events, Reject(e) PROVE Final(id)
    BY <1>1, <2>2 DEF Reject, IsNew, Remember, QInv, TypeOK, Accepted
  <2>3. ASSUME UNCHANGED <<firstSeen, accepted>> PROVE Final(id)
    BY <2>3 DEF Accepted
  <2>. QED BY <1>1, <2>1, <2>2, <2>3
              DEF Next, ApplyEvent, ApplyAttemptEntry, Replay, Conflict, vars, queueVars
<1>2. QInv /\ [Next]_vars => \A id \in EventIds : firstSeen[id] # None => Final(id)
  BY <1>1
<1>. QED BY <1>2, QueueInvariant, PTL DEF Spec, FirstWriteWins

\* Neither the meaning of an id nor the end of an ejected run is taken back.
THEOREM SaidOnce == Spec => QueueLogIsFinal
  BY FirstWriteIsFinal, EjectedStaysOut DEF QueueLogIsFinal

(***************************************************************************)
(* What the attempt log does to a launched attempt.                        *)
(***************************************************************************)
EntitiesOK == entities \in [Ids -> Attempt!EntityState \cup {None}]

\* The step keeps the attempt, and the fields a ref is checked against.
AttemptKept(i) ==
  /\ i \in Attempt!Declared'
  /\ entities'[i].kind = entities[i].kind
  /\ entities'[i].task_id = entities[i].task_id
  /\ entities'[i].parent_id = entities[i].parent_id

AttemptsKept == EntitiesOK' /\ \A i \in Attempt!Declared : AttemptKept(i)

LEMMA NoneIsNoEntity ==
  /\ None \notin Attempt!EntityState
  /\ None \notin Attempt!Reasons
BY AttemptAssumption DEF Attempt!NoneAssumption

\* A new state of one launched attempt that differs in other fields will do.
LEMMA OneChanged ==
  ASSUME EntitiesOK, NEW t \in Attempt!Declared, NEW new \in Attempt!EntityState,
         entities' = [entities EXCEPT ![t] = new], new.kind = entities[t].kind,
         new.task_id = entities[t].task_id, new.parent_id = entities[t].parent_id
  PROVE  AttemptsKept
<1>1. t \in Ids
  BY DEF Attempt!Declared
<1>2. entities'[t] = new /\ \A i \in Ids \ {t} : entities'[i] = entities[i]
  BY <1>1 DEF EntitiesOK
<1>3. EntitiesOK'
  BY <1>1 DEF EntitiesOK
<1>4. \A i \in Attempt!Declared : AttemptKept(i)
  BY <1>1, <1>2, NoneIsNoEntity DEF AttemptKept, Attempt!Declared
<1>. QED BY <1>3, <1>4 DEF AttemptsKept

LEMMA LaunchKeeps ==
  ASSUME EntitiesOK, NEW r \in Attempt!AttemptRecords, Attempt!AcceptAttempt(r)
  PROVE  AttemptsKept
<1> DEFINE over(i) == [entities[i] EXCEPT !.superseded_by = r.id]
<1>1. r.id \in Ids /\ r.id \notin Attempt!Declared
  BY NoneIsNoEntity
     DEF Attempt!AcceptAttempt, Attempt!AttemptReason, Attempt!IdReused, Attempt!Reasons,
         Attempt!AttemptRecords
<1>2. Attempt!NewEntity(r) \in Attempt!EntityState
  BY DEF Attempt!AttemptRecords, Attempt!NewEntity, Attempt!EntityState, Attempt!Slots
<1>3. \A i \in Attempt!Declared : entities[i] \in Attempt!EntityState /\ i \in Ids
  BY DEF EntitiesOK, Attempt!Declared
<1>4. \A i \in Attempt!Declared :
        /\ over(i) \in Attempt!EntityState /\ over(i).kind = entities[i].kind
        /\ over(i).task_id = entities[i].task_id /\ over(i).parent_id = entities[i].parent_id
  BY <1>1, <1>3 DEF Attempt!EntityState
<1>5. entities' = [i \in Ids |->
        IF i = r.id THEN Attempt!NewEntity(r)
        ELSE IF i \in Attempt!SupersededBy(r) THEN over(i) ELSE entities[i]]
  BY DEF Attempt!AcceptAttempt
<1>6. Attempt!SupersededBy(r) \subseteq Attempt!Declared
  BY DEF Attempt!SupersededBy
<1> HIDE DEF over
<1>7. EntitiesOK'
  BY <1>2, <1>4, <1>5, <1>6 DEF EntitiesOK
<1>8. \A i \in Attempt!Declared : AttemptKept(i)
  BY <1>1, <1>3, <1>4, <1>5, NoneIsNoEntity DEF AttemptKept, Attempt!Declared
<1>. QED BY <1>7, <1>8 DEF AttemptsKept

LEMMA ControlKeeps ==
  ASSUME EntitiesOK, NEW w \in Attempt!ControlWrites, Attempt!AcceptControl(w)
  PROVE  AttemptsKept
<1> DEFINE t   == Attempt!AttemptIdOf(w.attempt)
           new == [entities[t] EXCEPT !.outcome = w.outcome]
<1>1. CASE w.outcome = None
  BY <1>1 DEF Attempt!AcceptControl, AttemptsKept, AttemptKept, EntitiesOK, Attempt!Declared
<1>2. CASE w.outcome # None
  <2>1. t \in Attempt!Declared
    BY NoneIsNoEntity
       DEF Attempt!AcceptControl, Attempt!ControlReason, Attempt!Unknown, Attempt!Reasons
  <2>2. entities[t] \in Attempt!EntityState /\ w.outcome \in Outcomes
    BY <1>2, <2>1 DEF EntitiesOK, Attempt!Declared, Attempt!ControlWrites
  <2>3. /\ new \in Attempt!EntityState /\ new.kind = entities[t].kind
        /\ new.task_id = entities[t].task_id /\ new.parent_id = entities[t].parent_id
    BY <2>2 DEF Attempt!EntityState
  <2>4. entities' = [entities EXCEPT ![t] = new]
    BY <1>2 DEF Attempt!AcceptControl
  <2> HIDE DEF new
  <2>. QED BY <2>1, <2>3, <2>4, OneChanged
<1>. QED BY <1>1, <1>2

LEMMA EvidenceKeeps ==
  ASSUME EntitiesOK, NEW w \in Attempt!EvidenceWrites, Attempt!AcceptEvidence(w)
  PROVE  AttemptsKept
<1> DEFINE t    == Attempt!AttemptIdOf(w.attempt)
           code == IF w.code_identity # None /\ Attempt!IsNewer(w)
                   THEN w.code_identity ELSE entities[t].code_identity
           sess == entities[t].session_refs \cup w.session_refs
           new  == [entities[t] EXCEPT !.session_refs = sess, !.code_identity = code]
<1>1. CASE t \notin Attempt!Declared
  BY <1>1 DEF Attempt!AcceptEvidence, AttemptsKept, AttemptKept, EntitiesOK, Attempt!Declared
<1>2. CASE t \in Attempt!Declared
  <2>1. entities[t] \in Attempt!EntityState /\ t \in Ids
    BY <1>2 DEF EntitiesOK, Attempt!Declared
  <2>2. code \in CodeIdentities \cup {None} /\ sess \in SUBSET Sessions
    BY <2>1 DEF Attempt!EntityState, Attempt!EvidenceWrites
  <2>3. entities' = [entities EXCEPT ![t] = new]
    BY <1>2, <2>1 DEF Attempt!AcceptEvidence, EntitiesOK
  <2> HIDE DEF code, sess
  <2>4. /\ new \in Attempt!EntityState /\ new.kind = entities[t].kind
        /\ new.task_id = entities[t].task_id /\ new.parent_id = entities[t].parent_id
    BY <2>1, <2>2 DEF Attempt!EntityState
  <2> HIDE DEF new
  <2>. QED BY <1>2, <2>3, <2>4, OneChanged
<1>. QED BY <1>1, <1>2

\* Whatever the next entry is, what was launched stays as it was launched.
LEMMA AttemptStep ==
  ASSUME EntitiesOK, [Next]_vars
  PROVE  AttemptsKept
<1>1. ASSUME entities' = entities PROVE AttemptsKept
  BY <1>1 DEF AttemptsKept, AttemptKept, EntitiesOK, Attempt!Declared
<1>2. CASE Attempt!Next
  BY <1>1, <1>2, LaunchKeeps, ControlKeeps, EvidenceKeeps
     DEF Attempt!Next, Attempt!ApplyAttempt, Attempt!ApplyControl, Attempt!ApplyEvidence,
         Attempt!ApplyDerived, Attempt!RejectAttempt, Attempt!RejectControl,
         Attempt!RejectEvidence, Attempt!DuplicateWrite, Attempt!AcceptDerived,
         Attempt!DuplicateDerived, Attempt!attemptVars
<1>. QED BY <1>1, <1>2 DEF Next, ApplyEvent, ApplyAttemptEntry, vars, attemptLogVars

(***************************************************************************)
(* What accepted events refer to.                                          *)
(***************************************************************************)
RefHolds(ref) == ~Attempt!RefMismatch(ref) /\ ~Attempt!Unknown(ref)

AcceptedSeen == \A n \in DOMAIN accepted : firstSeen[accepted[n]] # None

RInv == QInv /\ EntitiesOK /\ CandidateRefsResolve /\ AcceptedSeen /\ ContextPrecedes

LEMMA RefKept ==
  ASSUME AttemptsKept, NEW ref \in Attempt!Refs, RefHolds(ref)
  PROVE  RefHolds(ref)'
<1>1. {ref.run_id, Attempt!AttemptIdOf(ref)} \subseteq Attempt!Declared
  BY DEF RefHolds, Attempt!Unknown
<1>2. ref.stage_attempt_id # None => ref.stage_attempt_id \in Attempt!Declared
  BY <1>1 DEF Attempt!AttemptIdOf
<1>3. None \notin Attempt!Declared /\ None \notin Attempt!Declared'
  BY Absent DEF Attempt!Declared
<1>4. ~Attempt!RefMismatch(ref)'
  BY <1>1, <1>2, <1>3 DEF RefHolds, Attempt!RefMismatch, AttemptsKept, AttemptKept
<1>5. ~Attempt!Unknown(ref)'
  BY <1>1 DEF Attempt!Unknown, AttemptsKept, AttemptKept, Attempt!AttemptIdOf
<1>. QED BY <1>4, <1>5 DEF RefHolds

\* A control event is accepted only if each of its refs holds.
LEMMA AcceptedRefsHold ==
  ASSUME NEW e \in Events, e.event_type \in ControlTypes,
         EventReasons(e) \subseteq AcceptedNotes, NEW n \in DOMAIN e.attempt_refs
  PROVE  e.attempt_refs[n] \in Attempt!Refs /\ RefHolds(e.attempt_refs[n])
<1> DEFINE ref == e.attempt_refs[n]
<1>1. ref \in Attempt!Refs /\ ref \in RefsOf(e)
  BY EventType DEF RefsOf
<1>2. ControlRefReasons(ref) \subseteq AcceptedNotes
  BY <1>1 DEF EventReasons, AttemptReasons
<1> HIDE DEF ref
<1>3. /\ ref.run_id \in Attempt!Declared /\ RunOfTask(ref)
      /\ ref.stage_attempt_id # None =>
           ref.stage_attempt_id \in Attempt!Declared /\ StageOfRun(ref)
  BY <1>2 DEF ControlRefReasons, AcceptedNotes
<1>4. None \notin Attempt!Declared
  BY Absent DEF Attempt!Declared
<1>5. RefHolds(ref)
  BY <1>3, <1>4
     DEF RefHolds, Attempt!RefMismatch, Attempt!Unknown, Attempt!AttemptIdOf, RunOfTask, StageOfRun
<1>. QED BY <1>1, <1>5 DEF ref

LEMMA RefsKept ==
  ASSUME RInv, [Next]_vars
  PROVE  CandidateRefsResolve'
<1>1. AttemptsKept
  BY AttemptStep DEF RInv
<1> SUFFICES ASSUME NEW c \in CandidateIds, Prepared(c)',
                    NEW n \in DOMAIN candidates'[c].attempt_refs,
                    NEW ref, ref = candidates'[c].attempt_refs[n]
             PROVE  RefHolds(ref)'
  BY DEF CandidateRefsResolve, RefHolds, Attempt!RefMismatch, Attempt!Unknown,
         Attempt!AttemptIdOf, Attempt!Declared
<1>2. CASE Prepared(c)
  <2>1. candidates'[c].attempt_refs = candidates[c].attempt_refs
    BY <1>2, StepMoves, MoveFields DEF RInv, QInv, FieldsMove
  <2>2. candidates[c] \in CandidateState
    BY <1>2 DEF RInv, QInv, TypeOK, Prepared
  <2>3. candidates[c].attempt_refs \in Seq(Attempt!Refs)
    BY <2>2, EventType DEF CandidateState
  <2>4. candidates[c].attempt_refs[n] \in Attempt!Refs
    BY <2>1, <2>3
  <2>5. RefHolds(candidates[c].attempt_refs[n])
    BY <1>2, <2>1 DEF RInv, CandidateRefsResolve, RefHolds
  <2>. QED BY <1>1, <2>1, <2>4, <2>5, RefKept
<1>3. CASE ~Prepared(c)
  <2>1. PICK e \in Events : Accept(e)
    BY <1>3 DEF Next, ApplyEvent, ApplyAttemptEntry, Replay, Conflict, Reject, vars, queueVars,
                Prepared
  <2>2. candidates'[c] =
          [attempt_refs |-> e.attempt_refs, ejected_run_ids |-> {}, merged_run_ids |-> {}]
    BY <1>3, <2>1, UnpreparedMoves DEF RInv, QInv, Prepared
  <2>3. candidates'[c].attempt_refs = e.attempt_refs
    BY <2>2
  <2>4. e.event_type \in ControlTypes /\ EventReasons(e) \subseteq AcceptedNotes
    BY <1>3, <2>1 DEF Accept, CandidatesAfter, ControlTypes, RInv, QInv, TypeOK, Prepared
  <2>. QED BY <1>1, <2>3, <2>4, AcceptedRefsHold, RefKept
<1>. QED BY <1>2, <1>3

LEMMA ContextKept ==
  ASSUME RInv, [Next]_vars
  PROVE  AcceptedSeen' /\ ContextPrecedes'
<1>1. ASSUME NEW e \in Events, Accept(e) PROVE AcceptedSeen' /\ ContextPrecedes'
  <2> DEFINE last == Len(accepted) + 1
  <2>1. /\ firstSeen[e.event_id] = None /\ e.event_id \in EventIds
        /\ firstSeen' = [firstSeen EXCEPT ![e.event_id] = e]
        /\ accepted' = Append(accepted, e.event_id)
    BY <1>1, EventType DEF Accept, IsNew, Remember
  <2>2. accepted \in Seq(EventIds) /\ firstSeen \in [EventIds -> Events \cup {None}]
    BY DEF RInv, QInv, TypeOK
  <2>3. /\ DOMAIN accepted = 1..Len(accepted) /\ Len(accepted) \in Nat
        /\ DOMAIN accepted' = 1..last
        /\ accepted'[last] = e.event_id
        /\ \A n \in DOMAIN accepted : accepted'[n] = accepted[n] /\ accepted[n] \in EventIds
    BY <2>1, <2>2
  <2>4. \A n \in DOMAIN accepted :
          accepted[n] # e.event_id /\ firstSeen'[accepted[n]] = firstSeen[accepted[n]]
    BY <2>1, <2>2, <2>3 DEF RInv, AcceptedSeen
  <2>5. firstSeen'[e.event_id] = e /\ e # None
    BY <2>1, <2>2, AbsenceAssumption
  <2>6. AcceptedSeen'
    BY <2>3, <2>4, <2>5 DEF RInv, AcceptedSeen
  <2>7. ASSUME NEW n \in DOMAIN accepted, firstSeen[accepted[n]].event_type = "recovery_decision",
               NEW id \in firstSeen[accepted[n]].context_ids
        PROVE  \E m \in 1..(n - 1) :
                 accepted'[m] = id /\ firstSeen'[id].observed_at <= firstSeen[accepted[n]].observed_at
    <3>1. PICK m \in 1..(n - 1) :
            accepted[m] = id /\ firstSeen[id].observed_at <= firstSeen[accepted[n]].observed_at
      BY <2>7 DEF RInv, ContextPrecedes
    <3>2. m \in DOMAIN accepted
      BY <2>3
    <3>. QED BY <2>3, <2>4, <3>1, <3>2
  <2>8. ASSUME e.event_type = "recovery_decision", NEW id \in e.context_ids
        PROVE  \E m \in 1..(last - 1) :
                 accepted'[m] = id /\ firstSeen'[id].observed_at <= e.observed_at
    <3>1. ~Leaks(e)
      BY <1>1, <2>8 DEF Accept, EventReasons, When, AcceptedNotes
    <3>2. id \in Accepted /\ ~(firstSeen[id].observed_at > e.as_of)
      BY <2>8, <3>1 DEF Leaks
    <3>3. PICK m \in DOMAIN accepted : accepted[m] = id
      BY <3>2 DEF Accepted
    <3>4. firstSeen[id] \in Events
      BY <2>2, <2>3, <3>3 DEF RInv, AcceptedSeen
    <3>5. e.as_of <= e.observed_at /\ e.as_of \in Nat /\ e.observed_at \in Nat
          /\ firstSeen[id].observed_at \in Nat
      BY <2>8, <3>4, EventsAssumption, TimesAssumption DEF ValidEvent
    <3>6. m \in 1..(last - 1)
      BY <2>3, <3>3
    <3>. QED BY <2>3, <2>4, <3>2, <3>3, <3>5, <3>6
  <2>9. ContextPrecedes'
    <3> SUFFICES ASSUME NEW n \in DOMAIN accepted',
                        firstSeen'[accepted'[n]].event_type = "recovery_decision",
                        NEW id \in firstSeen'[accepted'[n]].context_ids
                 PROVE  \E m \in 1..(n - 1) :
                          /\ accepted'[m] = id
                          /\ firstSeen'[id].observed_at <= firstSeen'[accepted'[n]].observed_at
      BY DEF ContextPrecedes
    <3>1. CASE n = last
      BY <2>3, <2>5, <2>8, <3>1
    <3>2. CASE n # last
      <4>1. n \in DOMAIN accepted
        BY <2>3, <3>2
      <4>. QED BY <2>3, <2>4, <2>7, <4>1
    <3>. QED BY <3>1, <3>2
  <2>. QED BY <2>6, <2>9
<1>2. ASSUME NEW e \in Events, Reject(e) PROVE AcceptedSeen' /\ ContextPrecedes'
  <2>1. /\ firstSeen[e.event_id] = None /\ e.event_id \in EventIds
        /\ firstSeen' = [firstSeen EXCEPT ![e.event_id] = e] /\ accepted' = accepted
    BY <1>2, EventType DEF Reject, IsNew, Remember
  <2>2. \A n \in DOMAIN accepted : firstSeen'[accepted[n]] = firstSeen[accepted[n]]
    BY <2>1 DEF RInv, QInv, TypeOK, AcceptedSeen
  <2>3. accepted \in Seq(EventIds)
    BY DEF RInv, QInv, TypeOK
  <2>4. AcceptedSeen'
    BY <2>1, <2>2 DEF RInv, AcceptedSeen
  <2>5. ContextPrecedes'
    <3> SUFFICES ASSUME NEW n \in DOMAIN accepted,
                        firstSeen[accepted[n]].event_type = "recovery_decision",
                        NEW id \in firstSeen[accepted[n]].context_ids
                 PROVE  \E m \in 1..(n - 1) :
                          /\ accepted[m] = id
                          /\ firstSeen'[id].observed_at <= firstSeen[accepted[n]].observed_at
      BY <2>1, <2>2 DEF ContextPrecedes
    <3>1. PICK m \in 1..(n - 1) :
            accepted[m] = id /\ firstSeen[id].observed_at <= firstSeen[accepted[n]].observed_at
      BY DEF RInv, ContextPrecedes
    <3>2. m \in DOMAIN accepted
      BY <2>3
    <3>. QED BY <2>2, <3>1, <3>2
  <2>. QED BY <2>4, <2>5
<1>3. ASSUME UNCHANGED <<firstSeen, accepted>> PROVE AcceptedSeen' /\ ContextPrecedes'
  BY <1>3 DEF RInv, AcceptedSeen, ContextPrecedes
<1>. QED
  BY <1>1, <1>2, <1>3
     DEF Next, ApplyEvent, ApplyAttemptEntry, Replay, Conflict, vars, queueVars

\* Refs of a prepared candidate keep naming launched runs of their task, and a
\* recovery decision read only what had been accepted before it.
THEOREM ReferencesHold == Spec => []RefsHold
<1>1. Init => RInv
  BY DEF Init, RInv, QInv, TypeOK, Prepared, EntitiesOK, CandidateRefsResolve, AcceptedSeen,
         ContextPrecedes, Attempt!Init
<1>2. RInv /\ [Next]_vars => RInv'
  BY QInvStep, AttemptStep, RefsKept, ContextKept DEF RInv, AttemptsKept
<1>3. RInv => RefsHold
  BY DEF RInv, QInv, RefsHold
<1>. QED BY <1>1, <1>2, <1>3, PTL DEF Spec
=============================================================================

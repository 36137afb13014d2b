------------------------- MODULE TaskAttemptProofs -------------------------
(***************************************************************************)
(* What the attempt reducer guarantees for every set of ids, tasks, stages *)
(* and writes, proved from the specification TaskAttempt.                  *)
(***************************************************************************)
EXTENDS TaskAttempt, FiniteSetTheorems, TLAPS

\* The fields that place an attempt among its siblings fit its kind.
WellFormed(r) ==
  /\ r.kind \in Kinds /\ r.task_id \in Tasks /\ r.parent_id \in Tasks \cup Ids
  /\ r.kind = "run" => r.parent_id \in {r.task_id} \cup Ids
  /\ r.kind = "arm" => r.parent_id \in Ids /\ r.slot \in Roles
  /\ r.kind = "stage_attempt" => r.parent_id \in Ids /\ r.slot \in Stages

\* An attempt belongs to its task, or to a declared attempt of the kind the
\* contract expects, of the same task.
WellParented(i) ==
  LET e == entities[i] IN
  \/ e.parent_id = e.task_id
  \/ /\ e.parent_id \in Declared
     /\ entities[e.parent_id].kind = ExpectedParentKind(e.kind)
     /\ entities[e.parent_id].task_id = e.task_id

\* latestInGroup holds, for exactly the groups that have a member, a member.
GroupsHaveLatest ==
  /\ \A g \in GroupKeys : latestInGroup[g] # None =>
       latestInGroup[g] \in Declared /\ GroupKeyOf(entities[latestInGroup[g]]) = g
  /\ \A i \in Declared : latestInGroup[GroupKeyOf(entities[i])] # None

\* A retry names an earlier member of its own group that did not succeed.
RetriesReplace ==
  \A i \in Declared : entities[i].retry_of # None =>
    /\ entities[i].retry_of \in Declared
    /\ ~IsLatest(entities[i].retry_of)
    /\ entities[entities[i].retry_of].outcome # "succeeded"

\* Only a declared attempt supersedes.
SupersedersDeclared ==
  \A i \in Declared :
    entities[i].superseded_by # None => entities[i].superseded_by \in Declared

IInv ==
  /\ TypeOK
  /\ \A i \in Declared : WellFormed(entities[i]) /\ WellParented(i)
  /\ GroupsHaveLatest
  /\ SupersessionChain
  /\ SupersedersDeclared
  /\ RetriesReplace

-----------------------------------------------------------------------------
(***************************************************************************)
(* Group keys.                                                             *)
(***************************************************************************)
\* A launch's group key is one of the keys latestInGroup is indexed by.
LEMMA GroupKeyType ==
  ASSUME NEW r, WellFormed(r)
  PROVE  GroupKeyOf(r) \in GroupKeys
BY DEF WellFormed, GroupKeyOf, GroupKeys, Kinds

\* The group key reads nothing but kind, task, parent and slot.
LEMMA GroupKeyFrame ==
  ASSUME NEW r, NEW s, r.kind = s.kind, r.task_id = s.task_id,
         r.parent_id = s.parent_id, r.slot = s.slot
  PROVE  GroupKeyOf(r) = GroupKeyOf(s)
BY DEF GroupKeyOf

LEMMA RecordWellFormed ==
  ASSUME NEW r \in AttemptRecords
  PROVE  WellFormed(r)
BY DEF AttemptRecords, WellFormed, Kinds

LEMMA DeclaredType ==
  ASSUME TypeOK, NEW i \in Declared
  PROVE  i \in Ids /\ entities[i] \in EntityState
BY DEF TypeOK, Declared

(***************************************************************************)
(* Type correctness.                                                       *)
(***************************************************************************)
LEMMA NewEntityType ==
  ASSUME NEW r \in AttemptRecords
  PROVE  NewEntity(r) \in EntityState
BY DEF AttemptRecords, NewEntity, EntityState, Slots

LEMMA DecideType ==
  ASSUME NEW type \in RecordTypes, NEW verdict \in {"accepted", "rejected", "duplicate"},
         NEW reasons \in SUBSET Reasons, Decide(type, verdict, reasons)
  PROVE  decision' \in Decisions
BY DEF Decide, Decisions

LEMMA AttemptReasonType ==
  ASSUME NEW r, AttemptReason(r) # None
  PROVE  {AttemptReason(r)} \in SUBSET Reasons
BY DEF AttemptReason, Reasons

LEMMA ControlReasonType ==
  ASSUME NEW ref, ControlReason(ref) # None
  PROVE  {ControlReason(ref)} \in SUBSET Reasons
BY DEF ControlReason, Reasons

LEMMA RefType ==
  ASSUME NEW ref \in Refs
  PROVE  AttemptIdOf(ref) \in Ids
BY DEF Refs, AttemptIdOf

LEMMA AcceptAttemptType ==
  ASSUME TypeOK, NEW r \in AttemptRecords, AcceptAttempt(r)
  PROVE  TypeOK'
<1>1. r.id \in Ids
  BY DEF AttemptRecords
<1>2. entities' \in [Ids -> EntityState \cup {None}]
  <2>1. ASSUME NEW i \in SupersededBy(r)
        PROVE  [entities[i] EXCEPT !.superseded_by = r.id] \in EntityState
    <3>1. entities[i] \in EntityState
      BY <2>1, DeclaredType DEF SupersededBy
    <3>. QED BY <3>1, <1>1 DEF EntityState
  <2>2. NewEntity(r) \in EntityState
    BY NewEntityType
  <2>. QED BY <2>1, <2>2 DEF AcceptAttempt, TypeOK
<1>3. latestInGroup' \in [GroupKeys -> Ids \cup {None}]
  BY <1>1 DEF AcceptAttempt, TypeOK
<1>4. decision' \in Decisions
  BY DecideType DEF AcceptAttempt, RecordTypes
<1>. QED BY <1>2, <1>3, <1>4 DEF AcceptAttempt, TypeOK, derivedVars

LEMMA AcceptControlType ==
  ASSUME TypeOK, NEW w \in ControlWrites, AcceptControl(w)
  PROVE  TypeOK'
<1> DEFINE t == AttemptIdOf(w.attempt)
<1>1. w.write_id \in WriteIds /\ w.attempt \in Refs /\ w.outcome \in Outcomes \cup {None}
  BY DEF ControlWrites
<1>2. t \in Declared
  BY NoneAssumption DEF AcceptControl, ControlReason, Unknown, Reasons
<1>3. entities' \in [Ids -> EntityState \cup {None}]
  <2>1. entities[t] \in EntityState
    BY <1>2, DeclaredType
  <2>2. [entities[t] EXCEPT !.outcome = w.outcome] \in EntityState
    BY <2>1, <1>1 DEF EntityState
  <2>. QED BY <2>2, <1>2 DEF AcceptControl, TypeOK
<1>4. decision' \in Decisions
  BY DecideType DEF AcceptControl, RecordTypes
<1>. QED BY <1>1, <1>3, <1>4 DEF AcceptControl, TypeOK, derivedVars

LEMMA AcceptEvidenceType ==
  ASSUME TypeOK, NEW w \in EvidenceWrites, AcceptEvidence(w)
  PROVE  TypeOK'
<1> DEFINE t == AttemptIdOf(w.attempt)
           k == EvidenceKey(w)
<1>1. /\ w.write_id \in WriteIds /\ w.attempt \in Refs /\ w.evidence_kind \in EvidenceKinds
      /\ w.evidence_version \in 1..MaxVersion
      /\ w.code_identity \in CodeIdentities \cup {None} /\ w.session_refs \in SUBSET Sessions
  BY DEF EvidenceWrites
<1>2. t \in Ids
  BY <1>1, RefType
<1>3. k \in Ids \X EvidenceKinds
  BY <1>1, <1>2 DEF EvidenceKey
<1>4. evidence' \in [Ids \X EvidenceKinds -> EvidenceState]
  <2>1. evidence[k] \in EvidenceState
    BY <1>3 DEF TypeOK
  <2>2. evidence[k].latest_version \in 0..MaxVersion /\ evidence[k].write_ids \in Seq(WriteIds)
    BY <2>1 DEF EvidenceState
  <2>3. LatestVersion(w) \in 0..MaxVersion
    BY <1>1, <2>2, BoundAssumption DEF LatestVersion
  <2>4. Append(evidence[k].write_ids, w.write_id) \in Seq(WriteIds)
    BY <1>1, <2>2
  <2>5. [latest_version |-> LatestVersion(w),
         write_ids |-> Append(evidence[k].write_ids, w.write_id)] \in EvidenceState
    BY <2>3, <2>4 DEF EvidenceState
  <2>. QED BY <2>5 DEF AcceptEvidence, TypeOK
<1>5. entities' \in [Ids -> EntityState \cup {None}]
  <2>1. CASE t \notin Declared
    BY <2>1 DEF AcceptEvidence, TypeOK
  <2>2. CASE t \in Declared
    <3>1. entities[t] \in EntityState
      BY <2>2, DeclaredType
    <3> DEFINE code == IF w.code_identity # None /\ IsNewer(w)
                       THEN w.code_identity ELSE entities[t].code_identity
    <3>2. code \in CodeIdentities \cup {None}
      BY <1>1, <3>1 DEF EntityState
    <3>3. entities[t].session_refs \cup w.session_refs \in SUBSET Sessions
      BY <1>1, <3>1 DEF EntityState
    <3>4. [entities[t] EXCEPT !.session_refs = entities[t].session_refs \cup w.session_refs,
                              !.code_identity = code] \in EntityState
      BY <3>1, <3>2, <3>3 DEF EntityState
    <3>5. entities' = [entities EXCEPT ![t] =
            [entities[t] EXCEPT !.session_refs = entities[t].session_refs \cup w.session_refs,
                                !.code_identity = code]]
      BY <2>2, <3>1 DEF AcceptEvidence, TypeOK
    <3>. QED BY <3>4, <3>5 DEF TypeOK
  <2>. QED BY <2>1, <2>2
<1>6. decision' \in Decisions
  <2>1. (IF t \in Declared THEN {} ELSE {"undeclared_attempt"})
          \cup (IF IsNewer(w) THEN {} ELSE {"evidence_version_not_newer"}) \in SUBSET Reasons
    BY DEF Reasons
  <2>. QED BY <2>1, DecideType DEF AcceptEvidence, RecordTypes
<1>. QED BY <1>1, <1>4, <1>5, <1>6 DEF AcceptEvidence, TypeOK, derivedVars

LEMMA AcceptDerivedType ==
  ASSUME TypeOK, NEW d \in DerivedResults, AcceptDerived(d)
  PROVE  TypeOK'
<1>1. d.derived_id \in DerivedIds /\ d.supersedes \in DerivedIds \cup {None}
  BY DEF DerivedResults
<1>2. decision' \in Decisions
  BY DecideType DEF AcceptDerived, RecordTypes
<1>. QED BY <1>1, <1>2 DEF AcceptDerived, TypeOK, attemptVars

\* A rejected or duplicate entry changes nothing but the write ids seen.
LEMMA RefusedType ==
  ASSUME TypeOK, UNCHANGED <<attemptVars, evidence, derivedVars>>,
         seenWrites' \subseteq WriteIds, decision' \in Decisions
  PROVE  TypeOK'
BY DEF TypeOK, attemptVars, derivedVars

LEMMA TypeStep ==
  ASSUME TypeOK, [Next]_vars
  PROVE  TypeOK'
<1>1. ASSUME NEW r \in AttemptRecords, RejectAttempt(r) PROVE TypeOK'
  BY <1>1, RefusedType, AttemptReasonType, DecideType DEF RejectAttempt, RecordTypes, TypeOK
<1>2. ASSUME NEW w \in ControlWrites, RejectControl(w) PROVE TypeOK'
  BY <1>2, RefusedType, ControlReasonType, DecideType
     DEF RejectControl, RecordTypes, ControlWrites, TypeOK
<1>3. ASSUME NEW w \in EvidenceWrites, RejectEvidence(w) PROVE TypeOK'
  <2>1. {"ref_mismatch"} \in SUBSET Reasons
    BY DEF Reasons
  <2>. QED BY <1>3, <2>1, RefusedType, DecideType
           DEF RejectEvidence, RecordTypes, EvidenceWrites, TypeOK
<1>4. ASSUME NEW type \in {"control", "evidence"}, NEW w, DuplicateWrite(type, w) PROVE TypeOK'
  BY <1>4, RefusedType, DecideType DEF DuplicateWrite, RecordTypes, TypeOK
<1>5. ASSUME NEW d \in DerivedResults, DuplicateDerived(d) PROVE TypeOK'
  BY <1>5, RefusedType, DecideType DEF DuplicateDerived, RecordTypes, TypeOK
<1>6. CASE UNCHANGED vars
  BY <1>6 DEF TypeOK, vars, attemptVars, derivedVars
<1>. QED
  BY <1>1, <1>2, <1>3, <1>4, <1>5, <1>6, AcceptAttemptType, AcceptControlType,
     AcceptEvidenceType, AcceptDerivedType
     DEF Next, ApplyAttempt, ApplyControl, ApplyEvidence, ApplyDerived

\* The reducer's maps keep their types for every value of the constants.
THEOREM TypeCorrect == Spec => []TypeOK
<1>1. Init => TypeOK
  <2>1. [latest_version |-> 0, write_ids |-> <<>>] \in EvidenceState
    BY BoundAssumption DEF EvidenceState
  <2>. QED BY <2>1 DEF Init, TypeOK
<1>. QED BY <1>1, TypeStep, PTL DEF Spec
-----------------------------------------------------------------------------
(***************************************************************************)
(* What a step may do to launches: one launch is added, or none.           *)
(***************************************************************************)
SameLaunch(e, f) ==
  /\ f.kind = e.kind /\ f.task_id = e.task_id /\ f.parent_id = e.parent_id
  /\ f.slot = e.slot /\ f.retry_of = e.retry_of

KeepsLaunches ==
  /\ latestInGroup' = latestInGroup
  /\ Declared' = Declared
  /\ \A i \in Declared : /\ SameLaunch(entities[i], entities'[i])
                         /\ entities'[i].superseded_by = entities[i].superseded_by

\* Every write but a launch leaves the shape of the forest alone.
LEMMA StepCases ==
  ASSUME TypeOK, [Next]_vars
  PROVE  (\E r \in AttemptRecords : AcceptAttempt(r)) \/ KeepsLaunches
<1>1. ASSUME UNCHANGED attemptVars PROVE KeepsLaunches
  BY <1>1 DEF attemptVars, KeepsLaunches, SameLaunch, Declared
<1>2. ASSUME NEW w \in ControlWrites, AcceptControl(w) PROVE KeepsLaunches
  <2> DEFINE t == AttemptIdOf(w.attempt)
  <2>1. t \in Declared
    BY <1>2, NoneAssumption DEF AcceptControl, ControlReason, Unknown, Reasons
  <2>2. entities[t] \in EntityState /\ t \in Ids
    BY <2>1, DeclaredType
  <2>3. [entities[t] EXCEPT !.outcome = w.outcome] \in EntityState
    BY <2>2 DEF EntityState, ControlWrites
  <2>4. [entities[t] EXCEPT !.outcome = w.outcome] # None
    BY <2>3, NoneAssumption
  <2>5. \A i \in Ids : entities'[i] \in {entities[i], [entities[i] EXCEPT !.outcome = w.outcome]}
    BY <1>2, <2>2 DEF AcceptControl, TypeOK
  <2>6. Declared' = Declared
    BY <1>2, <2>1, <2>4 DEF AcceptControl, TypeOK, Declared
  <2>7. \A i \in Declared : entities[i] \in EntityState
    BY DeclaredType
  <2>. QED BY <1>2, <2>5, <2>6, <2>7 DEF AcceptControl, KeepsLaunches, SameLaunch, EntityState, Declared
<1>3. ASSUME NEW w \in EvidenceWrites, AcceptEvidence(w) PROVE KeepsLaunches
  <2> DEFINE t == AttemptIdOf(w.attempt)
  <2>1. CASE t \notin Declared
    BY <2>1, <1>3 DEF AcceptEvidence, KeepsLaunches, SameLaunch, Declared
  <2>2. CASE t \in Declared
    <3>1. entities[t] \in EntityState /\ t \in Ids
      BY <2>2, DeclaredType
    <3> DEFINE code == IF w.code_identity # None /\ IsNewer(w)
                       THEN w.code_identity ELSE entities[t].code_identity
               sess == entities[t].session_refs \cup w.session_refs
               upd  == [entities[t] EXCEPT !.session_refs = sess, !.code_identity = code]
    <3>2. entities' = [entities EXCEPT ![t] = upd]
      BY <1>3, <2>2, <3>1 DEF AcceptEvidence, TypeOK
    <3>3. entities' \in [Ids -> EntityState \cup {None}]
      BY <1>3, AcceptEvidenceType DEF TypeOK
    <3>4. entities'[t] = upd
      BY <3>1, <3>2 DEF TypeOK
    <3>5. entities'[t] # None
      <4>1. entities'[t] \in EntityState
        <5>1. code \in CodeIdentities \cup {None} /\ sess \in SUBSET Sessions
          BY <3>1, <1>3 DEF EntityState, EvidenceWrites
        <5> HIDE DEF code, sess
        <5>. QED BY <3>1, <3>4, <5>1 DEF EntityState
      <4>. QED BY <4>1, NoneAssumption
    <3>6. Declared' = Declared
      BY <2>2, <3>2, <3>5 DEF TypeOK, Declared
    <3>7. SameLaunch(entities[t], upd) /\ upd.superseded_by = entities[t].superseded_by
      BY <3>1 DEF SameLaunch, EntityState
    <3>8. \A i \in Declared : i # t => entities'[i] = entities[i]
      BY <3>2 DEF TypeOK, Declared
    <3> HIDE DEF upd
    <3>9. \A i \in Declared : /\ SameLaunch(entities[i], entities'[i])
                             /\ entities'[i].superseded_by = entities[i].superseded_by
      BY <3>4, <3>7, <3>8 DEF SameLaunch
    <3>. QED BY <1>3, <3>6, <3>9 DEF AcceptEvidence, KeepsLaunches
  <2>. QED BY <2>1, <2>2
<1>. QED
  BY <1>1, <1>2, <1>3
     DEF Next, ApplyAttempt, ApplyControl, ApplyEvidence, ApplyDerived, RejectAttempt,
         RejectControl, RejectEvidence, DuplicateWrite, AcceptDerived, DuplicateDerived,
         vars, attemptVars

\* An accepted launch adds its own id, supersedes the latest of its group and
\* nothing else, and becomes the latest of its group.
LEMMA LaunchStep ==
  ASSUME IInv, NEW r \in AttemptRecords, AcceptAttempt(r)
  PROVE  /\ r.id \in Ids \ Declared /\ Declared' = Declared \cup {r.id}
         /\ entities'[r.id] = NewEntity(r)
         /\ GroupKeyOf(r) \in GroupKeys
         /\ latestInGroup' = [latestInGroup EXCEPT ![GroupKeyOf(r)] = r.id]
         /\ \A i \in Declared :
              /\ SameLaunch(entities[i], entities'[i])
              /\ entities'[i].outcome = entities[i].outcome
              /\ entities'[i].superseded_by =
                   IF i = latestInGroup[GroupKeyOf(r)] THEN r.id ELSE entities[i].superseded_by
<1> DEFINE g == GroupKeyOf(r)
<1>1. g \in GroupKeys
  BY RecordWellFormed, GroupKeyType
<1>2. r.id \in Ids \ Declared
  BY NoneAssumption DEF AcceptAttempt, AttemptReason, IdReused, Reasons, AttemptRecords
<1>3. entities'[r.id] = NewEntity(r) /\ NewEntity(r) # None
  BY <1>2, NewEntityType, NoneAssumption DEF AcceptAttempt
<1>4. SupersededBy(r) = {i \in Declared : i = latestInGroup[g]}
  <2>1. ASSUME r.retry_of \in Declared, entities[r.retry_of].superseded_by = None
        PROVE  r.retry_of = latestInGroup[g]
    <3>1. r.retry_of # None
      BY <2>1, NoneAssumption DEF Declared
    <3>2. GroupKeyOf(entities[r.retry_of]) = g
      BY <3>1, NoneAssumption DEF AcceptAttempt, AttemptReason, RetryTargetInvalid, Reasons
    <3>. QED BY <2>1, <3>2 DEF IInv, SupersessionChain, IsLatest
  <2>. QED BY <2>1 DEF SupersededBy
<1>5. \A i \in Declared : entities[i] \in EntityState /\ i # r.id
  BY <1>2, DeclaredType DEF IInv
<1>6. \A i \in Declared : entities'[i] =
        IF i = latestInGroup[g] THEN [entities[i] EXCEPT !.superseded_by = r.id]
        ELSE entities[i]
  BY <1>4, <1>5 DEF AcceptAttempt, Declared
<1>7. \A i \in Declared : [entities[i] EXCEPT !.superseded_by = r.id] \in EntityState
  BY <1>2, <1>5 DEF EntityState
<1>8. Declared' = Declared \cup {r.id}
  <2>1. \A i \in Ids \ Declared : i # r.id => entities'[i] = None
    BY <1>4 DEF AcceptAttempt, Declared
  <2>2. \A i \in Declared : entities'[i] \in EntityState
    BY <1>5, <1>6, <1>7
  <2>3. \A i \in Declared : entities'[i] # None
    BY <2>2, NoneAssumption
  <2>. QED BY <1>2, <1>3, <2>1, <2>3 DEF Declared
<1>9. \A i \in Declared :
        /\ SameLaunch(entities[i], entities'[i])
        /\ entities'[i].outcome = entities[i].outcome
        /\ entities'[i].superseded_by =
             IF i = latestInGroup[g] THEN r.id ELSE entities[i].superseded_by
  <2> SUFFICES ASSUME NEW i \in Declared
               PROVE  /\ SameLaunch(entities[i], entities'[i])
                      /\ entities'[i].outcome = entities[i].outcome
                      /\ entities'[i].superseded_by =
                           IF i = latestInGroup[g] THEN r.id ELSE entities[i].superseded_by
    OBVIOUS
  <2>1. CASE i = latestInGroup[g]
    <3>1. entities'[i] = [entities[i] EXCEPT !.superseded_by = r.id]
      BY <1>6, <2>1
    <3>. QED BY <1>5, <2>1, <3>1 DEF EntityState, SameLaunch
  <2>2. CASE i # latestInGroup[g]
    <3>1. entities'[i] = entities[i]
      BY <1>6, <2>2
    <3>. QED BY <2>2, <3>1 DEF SameLaunch
  <2>. QED BY <2>1, <2>2
<1>. QED BY <1>1, <1>2, <1>3, <1>8, <1>9 DEF AcceptAttempt

(***************************************************************************)
(* Outcomes.                                                               *)
(***************************************************************************)
\* What SettlesOnceWhileCurrent says of one step.
SettlesCurrent ==
  \A i \in Declared : entities'[i].outcome # entities[i].outcome =>
    /\ entities[i].outcome = None
    /\ IsCurrent(i)
    /\ entities[i].kind = "stage_attempt" =>
         entities[entities[i].parent_id].outcome = None

LEMMA ControlSettles ==
  ASSUME TypeOK, NEW w \in ControlWrites, AcceptControl(w)
  PROVE  SettlesCurrent
<1> DEFINE ref == w.attempt
           t   == AttemptIdOf(ref)
<1>1. ~RefMismatch(ref) /\ ~Unknown(ref) /\ ~StaleRun(ref) /\ ~StaleStageAttempt(ref) /\ ~Settled(ref)
  BY NoneAssumption DEF AcceptControl, ControlReason, Reasons
<1>2. t \in Declared /\ ref.run_id \in Declared
  BY <1>1 DEF Unknown
<1>3. entities[t].outcome = None /\ entities[ref.run_id].outcome = None
  BY <1>1 DEF Settled
<1>4. IsCurrent(t)
  BY <1>1 DEF AttemptIdOf, StaleRun, StaleStageAttempt
<1>5. entities[t].kind = "stage_attempt" => entities[t].parent_id = ref.run_id
  BY <1>1, <1>2 DEF RefMismatch, AttemptIdOf
<1>6. \A i \in Declared : i # t => entities'[i] = entities[i]
  BY <1>2 DEF AcceptControl, TypeOK, Declared
<1>. QED BY <1>3, <1>4, <1>5, <1>6 DEF SettlesCurrent

LEMMA EvidenceKeepsOutcomes ==
  ASSUME TypeOK, NEW w \in EvidenceWrites, AcceptEvidence(w)
  PROVE  \A i \in Declared : entities'[i].outcome = entities[i].outcome
<1> DEFINE t    == AttemptIdOf(w.attempt)
           code == IF w.code_identity # None /\ IsNewer(w)
                   THEN w.code_identity ELSE entities[t].code_identity
           sess == entities[t].session_refs \cup w.session_refs
           upd  == [entities[t] EXCEPT !.session_refs = sess, !.code_identity = code]
<1>1. CASE t \notin Declared
  BY <1>1 DEF AcceptEvidence
<1>2. CASE t \in Declared
  <2>1. entities[t] \in EntityState /\ t \in Ids
    BY <1>2, DeclaredType
  <2>2. entities' = [entities EXCEPT ![t] = upd]
    BY <1>2, <2>1 DEF AcceptEvidence, TypeOK
  <2>3. upd.outcome = entities[t].outcome
    BY <2>1 DEF EntityState
  <2> HIDE DEF upd
  <2>. QED BY <2>1, <2>2, <2>3 DEF TypeOK, Declared
<1>. QED BY <1>1, <1>2

LEMMA SettleStep ==
  ASSUME IInv, [Next]_vars
  PROVE  SettlesCurrent
<1>1. ASSUME NEW r \in AttemptRecords, AcceptAttempt(r) PROVE SettlesCurrent
  BY <1>1, LaunchStep DEF SettlesCurrent
<1>2. ASSUME NEW w \in ControlWrites, AcceptControl(w) PROVE SettlesCurrent
  BY <1>2, ControlSettles DEF IInv
<1>3. ASSUME NEW w \in EvidenceWrites, AcceptEvidence(w) PROVE SettlesCurrent
  BY <1>3, EvidenceKeepsOutcomes DEF IInv, SettlesCurrent
<1>4. ASSUME UNCHANGED attemptVars PROVE SettlesCurrent
  BY <1>4 DEF attemptVars, SettlesCurrent
<1>. QED
  BY <1>1, <1>2, <1>3, <1>4
     DEF Next, ApplyAttempt, ApplyControl, ApplyEvidence, ApplyDerived, RejectAttempt,
         RejectControl, RejectEvidence, DuplicateWrite, AcceptDerived, DuplicateDerived,
         vars, attemptVars

(***************************************************************************)
(* The inductive invariant.                                                *)
(***************************************************************************)
\* Writes that launch nothing preserve it: the one field they may change that
\* it reads is an outcome, and a superseded attempt no longer settles.
LEMMA KeepStep ==
  ASSUME IInv, TypeOK', KeepsLaunches, SettlesCurrent
  PROVE  IInv'
<1>1. \A i \in Declared : GroupKeyOf(entities'[i]) = GroupKeyOf(entities[i])
  BY GroupKeyFrame DEF KeepsLaunches, SameLaunch
<1>2. \A i \in Declared : IsLatest(i)' <=> IsLatest(i)
  BY <1>1 DEF KeepsLaunches, IsLatest
<1>3. (\A i \in Declared : WellFormed(entities[i]) /\ WellParented(i))'
  <2> SUFFICES ASSUME NEW i \in Declared PROVE WellFormed(entities'[i]) /\ WellParented(i)'
    BY DEF KeepsLaunches
  <2>1. WellFormed(entities'[i])
    BY DEF IInv, KeepsLaunches, SameLaunch, WellFormed
  <2>2. WellParented(i)'
    BY DEF IInv, KeepsLaunches, SameLaunch, WellParented
  <2>. QED BY <2>1, <2>2
<1>4. GroupsHaveLatest'
  BY <1>1 DEF IInv, KeepsLaunches, GroupsHaveLatest
<1>5. SupersessionChain'
  BY <1>1, <1>2 DEF IInv, KeepsLaunches, SupersessionChain
<1>6. SupersedersDeclared'
  BY DEF IInv, KeepsLaunches, SupersedersDeclared
<1>7. RetriesReplace'
  <2> SUFFICES ASSUME NEW i \in Declared, NEW t, t = entities'[i].retry_of, t # None
               PROVE  t \in Declared /\ ~IsLatest(t)' /\ entities'[t].outcome # "succeeded"
    BY DEF KeepsLaunches, RetriesReplace, IsLatest
  <2>1. t \in Declared /\ ~IsLatest(t) /\ entities[t].outcome # "succeeded"
    BY DEF IInv, RetriesReplace, KeepsLaunches, SameLaunch
  <2>2. ~IsCurrent(t)
    BY <2>1 DEF IsCurrent, Lineage
  <2>. QED BY <1>2, <2>1, <2>2 DEF SettlesCurrent
<1>. QED BY <1>3, <1>4, <1>5, <1>6, <1>7 DEF IInv

\* A launch preserves it: it joins one group, as its latest.
LEMMA LaunchKeeps ==
  ASSUME IInv, TypeOK', NEW r \in AttemptRecords, AcceptAttempt(r)
  PROVE  IInv'
<1> DEFINE g == GroupKeyOf(r)
           n == r.id
<1>1. /\ n \in Ids \ Declared /\ Declared' = Declared \cup {n} /\ g \in GroupKeys
      /\ entities'[n] = NewEntity(r)
      /\ latestInGroup' = [latestInGroup EXCEPT ![g] = n]
      /\ \A i \in Declared :
           /\ SameLaunch(entities[i], entities'[i])
           /\ entities'[i].outcome = entities[i].outcome
           /\ entities'[i].superseded_by =
                IF i = latestInGroup[g] THEN n ELSE entities[i].superseded_by
  BY LaunchStep
<1>2. /\ entities'[n].kind = r.kind /\ entities'[n].task_id = r.task_id
      /\ entities'[n].parent_id = r.parent_id /\ entities'[n].slot = r.slot
      /\ entities'[n].retry_of = r.retry_of /\ entities'[n].superseded_by = None
      /\ entities'[n].outcome = None
  BY <1>1 DEF NewEntity
<1>3. GroupKeyOf(entities'[n]) = g
  BY <1>2, GroupKeyFrame
<1>4. \A i \in Declared : GroupKeyOf(entities'[i]) = GroupKeyOf(entities[i])
  BY <1>1, GroupKeyFrame DEF SameLaunch
<1>5. \A i \in Declared : GroupKeyOf(entities[i]) \in GroupKeys
  BY GroupKeyType DEF IInv
<1>6. latestInGroup'[g] = n /\ \A h \in GroupKeys \ {g} : latestInGroup'[h] = latestInGroup[h]
  BY <1>1 DEF IInv, TypeOK
<1>7. IsLatest(n)' /\ \A i \in Declared : IsLatest(i)' <=> IsLatest(i) /\ i # latestInGroup[g]
  <2>1. \A i \in Declared : GroupKeyOf(entities[i]) = g => ~IsLatest(i)'
    BY <1>1, <1>4, <1>6 DEF IsLatest
  <2>2. \A i \in Declared : GroupKeyOf(entities[i]) = g /\ IsLatest(i) => i = latestInGroup[g]
    BY DEF IsLatest
  <2>3. \A i \in Declared : i = latestInGroup[g] => GroupKeyOf(entities[i]) = g
    BY <1>1, NoneAssumption DEF IInv, GroupsHaveLatest, Declared
  <2>4. \A i \in Declared : GroupKeyOf(entities[i]) # g => (IsLatest(i)' <=> IsLatest(i))
    BY <1>4, <1>5, <1>6 DEF IsLatest
  <2>. QED BY <1>3, <1>6, <2>1, <2>2, <2>3, <2>4 DEF IsLatest
<1>8. (\A i \in Declared : WellFormed(entities[i]) /\ WellParented(i))'
  <2>1. WellFormed(entities'[n])
    BY <1>2, RecordWellFormed DEF WellFormed
  <2>2. WellParented(n)'
    <3>1. LaunchedByTask(r) \/ (r.parent_id \in Declared /\ ~ParentMismatch(r))
      BY NoneAssumption DEF AcceptAttempt, AttemptReason, Reasons
    <3>. QED BY <1>1, <1>2, <3>1 DEF WellParented, LaunchedByTask, ParentMismatch, SameLaunch
  <2>3. ASSUME NEW i \in Declared PROVE WellFormed(entities'[i]) /\ WellParented(i)'
    <3>1. WellFormed(entities'[i])
      BY <1>1 DEF IInv, SameLaunch, WellFormed
    <3>2. WellParented(i)'
      BY <1>1 DEF IInv, SameLaunch, WellParented
    <3>. QED BY <3>1, <3>2
  <2>. QED BY <1>1, <2>1, <2>2, <2>3
<1>9. GroupsHaveLatest'
  <2>1. (\A h \in GroupKeys : latestInGroup[h] # None =>
           latestInGroup[h] \in Declared /\ GroupKeyOf(entities[latestInGroup[h]]) = h)'
    BY <1>1, <1>3, <1>4, <1>6 DEF IInv, GroupsHaveLatest
  <2>2. (\A i \in Declared : latestInGroup[GroupKeyOf(entities[i])] # None)'
    BY <1>1, <1>3, <1>4, <1>5, <1>6, NoneAssumption DEF IInv, GroupsHaveLatest
  <2>. QED BY <2>1, <2>2 DEF GroupsHaveLatest
<1>10. SupersedersDeclared'
  BY <1>1, <1>2 DEF IInv, SupersedersDeclared
<1>11. SupersessionChain'
  <2>1. \A i \in Declared' : entities'[i].superseded_by = None <=> IsLatest(i)'
    BY <1>1, <1>2, <1>7, NoneAssumption DEF IInv, SupersessionChain
  <2>2. \A i \in Declared : entities[i].superseded_by # n
    BY <1>1, NoneAssumption DEF IInv, SupersedersDeclared
  <2>3. ASSUME NEW i \in Declared', NEW j \in Declared', entities'[i].superseded_by = j
        PROVE  /\ GroupKeyOf(entities'[i]) = GroupKeyOf(entities'[j])
               /\ \A k \in Declared' \ {i} : entities'[k].superseded_by # j
    <3>1. i \in Declared /\ j # None
      BY <1>1, <1>2, <2>3, NoneAssumption DEF Declared
    <3>2. CASE i = latestInGroup[g]
      <4>1. j = n
        BY <1>1, <2>3, <3>1, <3>2
      <4>2. GroupKeyOf(entities[i]) = g
        BY <1>1, <3>1, <3>2, NoneAssumption DEF IInv, GroupsHaveLatest, Declared
      <4>. QED BY <1>1, <1>2, <1>3, <1>4, <2>2, <3>1, <3>2, <4>1, <4>2, NoneAssumption
    <3>3. CASE i # latestInGroup[g]
      <4>1. entities[i].superseded_by = j /\ j \in Declared
        BY <1>1, <2>2, <2>3, <3>1, <3>3
      <4>2. /\ GroupKeyOf(entities[i]) = GroupKeyOf(entities[j])
            /\ \A k \in Declared \ {i} : entities[k].superseded_by # j
        BY <3>1, <4>1 DEF IInv, SupersessionChain
      <4>. QED BY <1>1, <1>2, <1>4, <3>1, <4>1, <4>2
    <3>. QED BY <3>2, <3>3
  <2>. QED BY <2>1, <2>3 DEF SupersessionChain
<1>12. RetriesReplace'
  <2>1. ASSUME NEW i \in Declared', NEW t, t = entities'[i].retry_of, t # None
        PROVE  t \in Declared /\ ~IsLatest(t)' /\ entities'[t].outcome # "succeeded"
    <3>1. CASE i = n
      <4>1. t = r.retry_of
        BY <1>2, <2>1, <3>1
      <4>2. t \in Declared /\ GroupKeyOf(entities[t]) = g /\ entities[t].outcome # "succeeded"
        BY <2>1, <4>1, NoneAssumption
           DEF AcceptAttempt, AttemptReason, RetryTargetInvalid, Reasons
      <4>. QED BY <1>1, <1>7, <4>2 DEF IsLatest
    <3>2. CASE i \in Declared
      <4>1. t = entities[i].retry_of
        BY <1>1, <2>1, <3>2 DEF SameLaunch
      <4>2. t \in Declared /\ ~IsLatest(t) /\ entities[t].outcome # "succeeded"
        BY <2>1, <3>2, <4>1 DEF IInv, RetriesReplace
      <4>. QED BY <1>1, <1>7, <4>2
    <3>. QED BY <1>1, <3>1, <3>2
  <2>. QED BY <1>1, <2>1 DEF RetriesReplace, IsLatest
<1>. QED BY <1>8, <1>9, <1>10, <1>11, <1>12 DEF IInv

LEMMA InvStep ==
  ASSUME IInv, [Next]_vars
  PROVE  IInv'
<1>1. TypeOK'
  BY TypeStep DEF IInv
<1>2. SettlesCurrent
  BY SettleStep
<1>3. (\E r \in AttemptRecords : AcceptAttempt(r)) \/ KeepsLaunches
  BY StepCases DEF IInv
<1>. QED BY <1>1, <1>2, <1>3, LaunchKeeps, KeepStep

THEOREM Inductive == Spec => []IInv
<1>1. Init => IInv
  <2>1. Init => TypeOK
    <3>1. [latest_version |-> 0, write_ids |-> <<>>] \in EvidenceState
      BY BoundAssumption DEF EvidenceState
    <3>. QED BY <3>1 DEF Init, TypeOK
  <2>2. Init => Declared = {}
    BY DEF Init, Declared
  <2>. QED BY <2>1, <2>2 DEF Init, IInv, GroupsHaveLatest, SupersessionChain,
               SupersedersDeclared, RetriesReplace
<1>. QED BY <1>1, InvStep, PTL DEF Spec

-----------------------------------------------------------------------------
(***************************************************************************)
(* The properties.                                                         *)
(***************************************************************************)
\* superseded_by is exact and siblings form one chain: a conjunct of IInv.
THEOREM Chain == Spec => []SupersessionChain
<1>1. IInv => SupersessionChain
  BY DEF IInv
<1>. QED BY <1>1, Inductive, PTL

\* A retry never replaces a success: the target is superseded when the retry is
\* launched, and a superseded attempt settles no more.
THEOREM NoSuccessReplaced == Spec => []RetryReplacesNoSuccess
<1>1. IInv => RetryReplacesNoSuccess
  BY DEF IInv, RetriesReplace, RetryReplacesNoSuccess
<1>. QED BY <1>1, Inductive, PTL

\* An attempt's outcome is set once, while it is current and its run unsettled.
THEOREM OutcomesFenced == Spec => SettlesOnceWhileCurrent
<1>1. IInv /\ [Next]_vars => SettlesCurrent
  BY SettleStep
<1>2. SettlesCurrent =>
        \A i \in Declared : entities'[i].outcome # entities[i].outcome =>
          /\ entities[i].outcome = None
          /\ IsCurrent(i)
          /\ entities[i].kind = "stage_attempt" =>
               entities[entities[i].parent_id].outcome = None
  BY DEF SettlesCurrent
<1>. QED BY <1>1, <1>2, Inductive, PTL DEF Spec, SettlesOnceWhileCurrent

(***************************************************************************)
(* Staleness is final.                                                     *)
(***************************************************************************)
\* No step moves a group back to an attempt it had left behind.
LEMMA LatestOnlyLost ==
  ASSUME IInv, [Next]_vars, NEW i \in Declared, ~IsLatest(i)
  PROVE  ~IsLatest(i)'
<1>1. CASE KeepsLaunches
  <2>1. GroupKeyOf(entities'[i]) = GroupKeyOf(entities[i])
    BY <1>1, GroupKeyFrame DEF KeepsLaunches, SameLaunch
  <2>. QED BY <1>1, <2>1 DEF KeepsLaunches, IsLatest
<1>2. ASSUME NEW r \in AttemptRecords, AcceptAttempt(r) PROVE ~IsLatest(i)'
  <2>1. /\ r.id \notin Declared /\ GroupKeyOf(r) \in GroupKeys
        /\ SameLaunch(entities[i], entities'[i])
        /\ latestInGroup' = [latestInGroup EXCEPT ![GroupKeyOf(r)] = r.id]
    BY <1>2, LaunchStep
  <2>2. GroupKeyOf(entities'[i]) = GroupKeyOf(entities[i])
    BY <2>1, GroupKeyFrame DEF SameLaunch
  <2>3. GroupKeyOf(entities[i]) \in GroupKeys
    BY GroupKeyType DEF IInv
  <2>. QED BY <2>1, <2>2, <2>3 DEF IsLatest, IInv, TypeOK
<1>. QED BY <1>1, <1>2, StepCases DEF IInv

\* A declared attempt's minted parent is declared.
LEMMA ParentsDeclared ==
  ASSUME IInv, NEW S \in SUBSET Declared
  PROVE  Parents(S) \in SUBSET Declared
<1> SUFFICES ASSUME NEW i \in S, entities[i].parent_id \in Ids
             PROVE  entities[i].parent_id \in Declared
  BY DEF Parents
<1>1. WellFormed(entities[i]) /\ WellParented(i)
  BY DEF IInv
<1>. QED BY <1>1, IdentityAssumption DEF WellFormed, WellParented

\* A step keeps the parents of declared attempts.
LEMMA ParentsKept ==
  ASSUME IInv, [Next]_vars, NEW S \in SUBSET Declared
  PROVE  Parents(S)' = Parents(S)
<1>1. \A i \in Declared : entities'[i].parent_id = entities[i].parent_id
  BY StepCases, LaunchStep DEF IInv, KeepsLaunches, SameLaunch
<1>. QED BY <1>1 DEF Parents

\* So a step keeps the lineage of a declared attempt, all of it declared.
LEMMA LineageKept ==
  ASSUME IInv, [Next]_vars, NEW i \in Declared
  PROVE  Lineage(i)' = Lineage(i) /\ Lineage(i) \in SUBSET Declared
<1> DEFINE up1 == Parents({i})
           up2 == Parents(up1)
           up3 == Parents(up2)
<1>1. up1 \in SUBSET Declared /\ Parents({i})' = up1
  BY ParentsDeclared, ParentsKept
<1>2. up2 \in SUBSET Declared /\ up3 \in SUBSET Declared
  BY <1>1, ParentsDeclared
<1>3. up2' = up2
  BY <1>1, ParentsKept DEF Parents
<1>4. up3' = up3
  BY <1>2, <1>3, ParentsKept DEF Parents
<1>. QED BY <1>1, <1>2, <1>3, <1>4 DEF Lineage

\* Once stale, always stale.
THEOREM StaleIsFinal == Spec => StaleStaysStale
<1>1. ASSUME IInv, [Next]_vars, NEW i \in Declared, ~IsCurrent(i)
      PROVE  ~IsCurrent(i)'
  <2>1. PICK a \in Lineage(i) : ~IsLatest(a)
    BY <1>1 DEF IsCurrent
  <2>2. a \in Declared /\ a \in Lineage(i)'
    BY <1>1, <2>1, LineageKept
  <2>3. ~IsLatest(a)'
    BY <1>1, <2>1, <2>2, LatestOnlyLost
  <2>. QED BY <2>2, <2>3 DEF IsCurrent
<1>2. IInv /\ [Next]_vars => \A i \in Declared : ~IsCurrent(i) => ~IsCurrent(i)'
  BY <1>1
<1>. QED BY <1>2, Inductive, PTL DEF Spec, StaleStaysStale

(***************************************************************************)
(* One execution of a task.                                                *)
(***************************************************************************)
\* Two latest attempts of one group are one attempt.
LEMMA LatestIsOne ==
  ASSUME NEW i \in Declared, NEW j \in Declared, IsLatest(i), IsLatest(j),
         GroupKeyOf(entities[i]) = GroupKeyOf(entities[j])
  PROVE  i = j
BY DEF IsLatest

\* A run that is not the task's own belongs to an arm of a pair of that task,
\* and is current only if they are.
LEMMA ArmedRun ==
  ASSUME IInv, NEW t \in Tasks, NEW i \in CurrentRuns(t), entities[i].parent_id # t
  PROVE  LET a == entities[i].parent_id
             p == entities[a].parent_id
         IN /\ a \in Declared /\ entities[a].kind = "arm" /\ IsLatest(a)
            /\ p \in Declared /\ entities[p].kind = "pair" /\ entities[p].task_id = t
            /\ IsLatest(p)
<1> DEFINE a == entities[i].parent_id
           p == entities[a].parent_id
<1>1. i \in Declared /\ entities[i].kind = "run" /\ entities[i].task_id = t /\ IsCurrent(i)
  BY DEF CurrentRuns
<1>2. a \in Declared /\ entities[a].kind = "arm" /\ entities[a].task_id = t
  <2>1. WellParented(i)
    BY <1>1 DEF IInv
  <2>. QED BY <1>1, <2>1 DEF WellParented, ExpectedParentKind
<1>3. p \in Declared /\ entities[p].kind = "pair" /\ entities[p].task_id = t
  <2>1. WellParented(a) /\ WellFormed(entities[a])
    BY <1>2 DEF IInv
  <2>2. p # t
    BY <1>2, <2>1, IdentityAssumption DEF WellFormed
  <2>. QED BY <1>2, <2>1, <2>2 DEF WellParented, ExpectedParentKind
<1>4. a \in Lineage(i) /\ p \in Lineage(i)
  <2>1. a \in Parents({i}) /\ p \in Parents(Parents({i}))
    BY <1>2, <1>3 DEF Parents, Declared
  <2>. QED BY <2>1 DEF Lineage
<1>. QED BY <1>1, <1>2, <1>3, <1>4 DEF IsCurrent

\* Whatever stands for the execution of a task is the latest of its group: a run,
\* or a pair, of which only the latest run of the latest arm of a role is current.
LEMMA OneExecutionNow ==
  ASSUME IInv
  PROVE  OneExecutionPerTask
<1> SUFFICES ASSUME NEW t \in Tasks, NEW i \in CurrentRuns(t), NEW j \in CurrentRuns(t), i # j
             PROVE  LET left  == entities[i].parent_id
                        right == entities[j].parent_id
                    IN /\ {left, right} \subseteq Declared
                       /\ entities[left].parent_id = entities[right].parent_id
                       /\ entities[left].slot # entities[right].slot
  BY DEF OneExecutionPerTask
<1> DEFINE left  == entities[i].parent_id
           right == entities[j].parent_id
           execution == <<t, "execution", None>>
<1>1. ASSUME NEW k \in CurrentRuns(t)
      PROVE  /\ k \in Declared /\ entities[k].kind = "run" /\ entities[k].task_id = t
             /\ IsLatest(k)
  BY <1>1 DEF CurrentRuns, IsCurrent, Lineage
<1>2. ASSUME NEW k \in CurrentRuns(t), entities[k].parent_id = t
      PROVE  GroupKeyOf(entities[k]) = execution
  BY <1>1, <1>2 DEF GroupKeyOf
<1>3. ASSUME NEW k \in Declared, entities[k].kind = "pair", entities[k].task_id = t
      PROVE  GroupKeyOf(entities[k]) = execution
  BY <1>3 DEF GroupKeyOf
<1>4. left # t \/ right # t
  BY <1>1, <1>2, LatestIsOne
<1>5. ASSUME NEW k \in CurrentRuns(t), NEW l \in CurrentRuns(t), entities[k].parent_id = t
      PROVE  entities[l].parent_id = t
  <2> SUFFICES ASSUME entities[l].parent_id # t PROVE FALSE
    OBVIOUS
  <2> DEFINE p == entities[entities[l].parent_id].parent_id
  <2>1. p \in Declared /\ entities[p].kind = "pair" /\ entities[p].task_id = t /\ IsLatest(p)
    BY ArmedRun
  <2>2. p = k
    BY <1>1, <1>2, <1>3, <1>5, <2>1, LatestIsOne
  <2>. QED BY <1>1, <2>1, <2>2
<1>6. left # t /\ right # t
  BY <1>4, <1>5
<1>7. /\ left \in Declared /\ entities[left].kind = "arm" /\ IsLatest(left)
      /\ right \in Declared /\ entities[right].kind = "arm" /\ IsLatest(right)
  BY <1>6, ArmedRun
<1>8. entities[left].parent_id = entities[right].parent_id
  BY <1>3, <1>6, ArmedRun, LatestIsOne
<1>9. left # right
  <2>1. GroupKeyOf(entities[i]) = <<left, "run", None>>
    BY <1>1, <1>6 DEF GroupKeyOf
  <2>2. GroupKeyOf(entities[j]) = <<right, "run", None>>
    BY <1>1, <1>6 DEF GroupKeyOf
  <2>. QED BY <1>1, <2>1, <2>2, LatestIsOne
<1>10. entities[left].slot # entities[right].slot
  BY <1>7, <1>8, <1>9, LatestIsOne DEF GroupKeyOf
<1>. QED BY <1>7, <1>8, <1>10

\* Of the runs of a task at most one is current, or the runs of the two arms of
\* one pair.
THEOREM OneExecution == Spec => []OneExecutionPerTask
BY OneExecutionNow, Inductive, PTL

(***************************************************************************)
(* Evidence.                                                               *)
(***************************************************************************)
\* WriteCountedOnce by position: an attributed write id was seen, and stands in
\* one place of one history.
AttributedOnce ==
  \A k, l \in Ids \X EvidenceKinds :
    \A m \in DOMAIN evidence[k].write_ids, n \in DOMAIN evidence[l].write_ids :
      /\ evidence[k].write_ids[m] \in seenWrites
      /\ evidence[k].write_ids[m] = evidence[l].write_ids[n] => k = l /\ m = n

EInv == TypeOK /\ AttributedOnce

\* What an accepted write does to the evidence: it is a new write, appended to
\* one history, whose version it may raise.
LEMMA EvidenceStep ==
  ASSUME TypeOK, NEW w \in EvidenceWrites, AcceptEvidence(w)
  PROVE  LET key == EvidenceKey(w) IN
         /\ key \in Ids \X EvidenceKinds
         /\ w.write_id \notin seenWrites /\ seenWrites' = seenWrites \cup {w.write_id}
         /\ evidence'[key].write_ids = Append(evidence[key].write_ids, w.write_id)
         /\ evidence'[key].latest_version = LatestVersion(w)
         /\ \A k \in (Ids \X EvidenceKinds) \ {key} : evidence'[k] = evidence[k]
<1>1. EvidenceKey(w) \in Ids \X EvidenceKinds
  BY RefType DEF EvidenceWrites, EvidenceKey
<1>. QED BY <1>1 DEF AcceptEvidence, Seen, TypeOK

LEMMA AcceptAttributes ==
  ASSUME EInv, NEW w \in EvidenceWrites, AcceptEvidence(w)
  PROVE  AttributedOnce'
<1> DEFINE key  == EvidenceKey(w)
           hist == evidence[key].write_ids
<1>1. /\ key \in Ids \X EvidenceKinds
      /\ w.write_id \notin seenWrites /\ seenWrites' = seenWrites \cup {w.write_id}
      /\ evidence'[key].write_ids = Append(hist, w.write_id)
      /\ \A k \in (Ids \X EvidenceKinds) \ {key} : evidence'[k] = evidence[k]
  BY EvidenceStep DEF EInv
<1>2. hist \in Seq(WriteIds)
  BY <1>1 DEF EInv, TypeOK, EvidenceState
<1>3. /\ DOMAIN Append(hist, w.write_id) = DOMAIN hist \cup {Len(hist) + 1}
      /\ Len(hist) + 1 \notin DOMAIN hist
      /\ Append(hist, w.write_id)[Len(hist) + 1] = w.write_id
      /\ \A n \in DOMAIN hist : Append(hist, w.write_id)[n] = hist[n]
  BY <1>2
\* A place of the new histories is an old one, or the one appended.
<1>4. ASSUME NEW k \in Ids \X EvidenceKinds, NEW n \in DOMAIN evidence'[k].write_ids
      PROVE  \/ /\ n \in DOMAIN evidence[k].write_ids
                /\ evidence'[k].write_ids[n] = evidence[k].write_ids[n]
                /\ evidence[k].write_ids[n] \in seenWrites
             \/ k = key /\ n = Len(hist) + 1 /\ evidence'[k].write_ids[n] = w.write_id
  <2>1. CASE k = key
    BY <1>1, <1>3, <1>4, <2>1 DEF EInv, AttributedOnce
  <2>2. CASE k # key
    BY <1>1, <1>4, <2>2 DEF EInv, AttributedOnce
  <2>. QED BY <2>1, <2>2
<1>. QED BY <1>1, <1>4 DEF EInv, AttributedOnce

LEMMA EInvStep ==
  ASSUME EInv, [Next]_vars
  PROVE  EInv'
<1>1. TypeOK'
  BY TypeStep DEF EInv
<1>2. ASSUME NEW w \in EvidenceWrites, AcceptEvidence(w) PROVE AttributedOnce'
  BY <1>2, AcceptAttributes
<1>3. ASSUME evidence' = evidence, seenWrites \subseteq seenWrites' PROVE AttributedOnce'
  BY <1>3 DEF EInv, AttributedOnce
<1>4. AttributedOnce'
  BY <1>2, <1>3
     DEF Next, ApplyAttempt, ApplyControl, ApplyEvidence, ApplyDerived, AcceptAttempt,
         RejectAttempt, AcceptControl, RejectControl, RejectEvidence, DuplicateWrite,
         AcceptDerived, DuplicateDerived, vars
<1>. QED BY <1>1, <1>4 DEF EInv

LEMMA CountedOnceNow ==
  ASSUME EInv
  PROVE  WriteCountedOnce
<1> DEFINE Places(k, w) == {n \in DOMAIN evidence[k].write_ids : evidence[k].write_ids[n] = w}
<1> SUFFICES ASSUME NEW w \in WriteIds, NEW k \in Ids \X EvidenceKinds,
                    NEW l \in Ids \X EvidenceKinds, Occurrences(k, w) > 0
             PROVE  w \in seenWrites /\ Occurrences(k, w) = 1 /\ (k # l => Occurrences(l, w) = 0)
  BY DEF WriteCountedOnce, EInv, TypeOK
<1>1. Occurrences(k, w) = Cardinality(Places(k, w)) /\ Occurrences(l, w) = Cardinality(Places(l, w))
  BY DEF Occurrences
<1>2. Places(k, w) # {}
  <2>1. Cardinality({}) = 0
    BY FS_EmptySet
  <2>2. Places(k, w) = {} => Occurrences(k, w) = 0
    BY <1>1, <2>1
  <2>. QED BY <2>2
<1>3. PICK n \in DOMAIN evidence[k].write_ids : evidence[k].write_ids[n] = w
  BY <1>2
<1>4. w \in seenWrites
  BY <1>3 DEF EInv, AttributedOnce
<1>5. Places(k, w) = {n}
  BY <1>3 DEF EInv, AttributedOnce
<1>6. k # l => Places(l, w) = {}
  BY <1>3 DEF EInv, AttributedOnce
<1>. QED BY <1>1, <1>4, <1>5, <1>6, FS_EmptySet, FS_Singleton

\* No write id is attributed twice, and only ids that were seen are.
THEOREM CountedOnce == Spec => []WriteCountedOnce
<1>1. Init => EInv
  <2>1. Init => TypeOK
    <3>1. [latest_version |-> 0, write_ids |-> <<>>] \in EvidenceState
      BY BoundAssumption DEF EvidenceState
    <3>. QED BY <3>1 DEF Init, TypeOK
  <2>. QED BY <2>1 DEF Init, EInv, AttributedOnce
<1>. QED BY <1>1, EInvStep, CountedOnceNow, PTL DEF Spec

\* No step lowers a version, and only one that raises it moves a code identity.
LEMMA VersionsRise ==
  ASSUME TypeOK, [Next]_vars, NEW k \in Ids \X EvidenceKinds
  PROVE  /\ evidence[k].latest_version \in Nat /\ evidence'[k].latest_version \in Nat
         /\ evidence'[k].latest_version >= evidence[k].latest_version
<1>1. evidence[k].latest_version \in Nat /\ evidence'[k].latest_version \in Nat
  BY TypeStep, BoundAssumption DEF TypeOK, EvidenceState
<1>2. ASSUME NEW w \in EvidenceWrites, AcceptEvidence(w)
      PROVE  evidence'[k].latest_version >= evidence[k].latest_version
  <2>1. w.evidence_version \in Nat
    BY BoundAssumption DEF EvidenceWrites
  <2>2. CASE k = EvidenceKey(w)
    BY <1>1, <1>2, <2>1, <2>2, EvidenceStep DEF LatestVersion, IsNewer
  <2>3. CASE k # EvidenceKey(w)
    BY <1>1, <1>2, <2>3, EvidenceStep
  <2>. QED BY <2>2, <2>3
<1>3. ASSUME evidence' = evidence PROVE evidence'[k].latest_version >= evidence[k].latest_version
  BY <1>1, <1>3
<1>. QED
  BY <1>1, <1>2, <1>3
     DEF Next, ApplyAttempt, ApplyControl, ApplyEvidence, ApplyDerived, AcceptAttempt,
         RejectAttempt, AcceptControl, RejectControl, RejectEvidence, DuplicateWrite,
         AcceptDerived, DuplicateDerived, vars

\* Late evidence never moves a code identity: the step that moves it raises a
\* version of that attempt's evidence.
THEOREM IdentityFollows == Spec => CodeIdentityFollowsNewEvidence
<1> DEFINE Moved(i) == entities'[i].code_identity # entities[i].code_identity
           Raised(i) == \E e \in EvidenceKinds :
             evidence'[<<i, e>>].latest_version > evidence[<<i, e>>].latest_version
<1>1. ASSUME IInv, [Next]_vars, NEW i \in Declared, Moved(i)
      PROVE  Raised(i)
  <2>1. entities[i] \in EntityState /\ i \in Ids
    BY <1>1, DeclaredType DEF IInv
  <2>2. ASSUME NEW w \in EvidenceWrites, AcceptEvidence(w) PROVE Raised(i)
    <3> DEFINE t    == AttemptIdOf(w.attempt)
               code == IF w.code_identity # None /\ IsNewer(w)
                       THEN w.code_identity ELSE entities[t].code_identity
               sess == entities[t].session_refs \cup w.session_refs
               upd  == [entities[t] EXCEPT !.session_refs = sess, !.code_identity = code]
    <3>1. t = i
      BY <1>1, <2>1, <2>2 DEF AcceptEvidence, IInv, TypeOK
    <3>2. entities' = [entities EXCEPT ![i] = upd]
      BY <1>1, <2>1, <2>2, <3>1 DEF AcceptEvidence, IInv, TypeOK
    <3>3. upd.code_identity = code
      BY <2>1, <3>1 DEF EntityState
    <3>4. IsNewer(w)
      <4> HIDE DEF upd
      <4>. QED BY <1>1, <2>1, <3>1, <3>2, <3>3 DEF IInv, TypeOK
    <3>5. EvidenceKey(w) = <<i, w.evidence_kind>> /\ w.evidence_kind \in EvidenceKinds
      BY <3>1 DEF EvidenceKey, EvidenceWrites
    <3>. QED BY <1>1, <2>2, <3>4, <3>5, EvidenceStep DEF IInv, LatestVersion, IsNewer
  <2>3. ASSUME NEW r \in AttemptRecords, AcceptAttempt(r) PROVE FALSE
    <3>1. r.id # i
      BY <1>1, <2>3, LaunchStep
    <3>2. entities'[i] \in {entities[i], [entities[i] EXCEPT !.superseded_by = r.id]}
      BY <2>1, <2>3, <3>1 DEF AcceptAttempt
    <3>. QED BY <1>1, <2>1, <3>2 DEF EntityState
  <2>4. ASSUME NEW w \in ControlWrites, AcceptControl(w) PROVE FALSE
    <3>1. entities'[i] \in {entities[i], [entities[i] EXCEPT !.outcome = w.outcome]}
      BY <1>1, <2>1, <2>4 DEF AcceptControl, IInv, TypeOK
    <3>. QED BY <1>1, <2>1, <3>1 DEF EntityState
  <2>5. entities' # entities
    BY <1>1
  <2>. QED
    BY <1>1, <2>2, <2>3, <2>4, <2>5
       DEF Next, ApplyAttempt, ApplyControl, ApplyEvidence, ApplyDerived, RejectAttempt,
           RejectControl, RejectEvidence, DuplicateWrite, AcceptDerived, DuplicateDerived,
           vars, attemptVars
<1>2. IInv /\ [Next]_vars => \A i \in Declared : Moved(i) => Raised(i)
  BY <1>1
<1>. QED BY <1>2, Inductive, PTL DEF Spec, CodeIdentityFollowsNewEvidence

(***************************************************************************)
(* Derived results.                                                        *)
(***************************************************************************)
\* A step keeps every derived result and that it was superseded.
LEMMA DerivedKept ==
  ASSUME TypeOK, [Next]_vars, NEW d \in DerivedIds, derived[d] # None
  PROVE  /\ derived'[d] = derived[d]
         /\ derivedSupersededBy[d] # None => derivedSupersededBy'[d] # None
<1>1. ASSUME NEW x \in DerivedResults, AcceptDerived(x)
      PROVE  /\ derived'[d] = derived[d]
             /\ derivedSupersededBy[d] # None => derivedSupersededBy'[d] # None
  <2>1. x.derived_id \in DerivedIds /\ x.derived_id # None
    BY NoneAssumption DEF DerivedResults
  <2>. QED BY <1>1, <2>1 DEF AcceptDerived, TypeOK
<1>2. ASSUME UNCHANGED derivedVars
      PROVE  /\ derived'[d] = derived[d]
             /\ derivedSupersededBy[d] # None => derivedSupersededBy'[d] # None
  BY <1>2 DEF derivedVars
<1>. QED
  BY <1>1, <1>2
     DEF Next, ApplyAttempt, ApplyControl, ApplyEvidence, ApplyDerived, AcceptAttempt,
         RejectAttempt, AcceptControl, RejectControl, AcceptEvidence, RejectEvidence,
         DuplicateWrite, DuplicateDerived, vars

\* A result that went stale or was superseded never becomes current again.
THEOREM StaleResultsStay == Spec => DerivedNeverRevives
<1> DEFINE Kept(d) ==
      /\ DerivedStatus(d) = "stale" => DerivedStatus(d)' # "current"
      /\ DerivedStatus(d) = "superseded" => DerivedStatus(d)' = "superseded"
<1>1. ASSUME TypeOK, [Next]_vars, NEW d \in DerivedIds, derived[d] # None
      PROVE  Kept(d)
  <2> DEFINE k == EvidenceKey(derived[d])
  <2>1. derived[d] \in DerivedResults
    BY <1>1 DEF TypeOK
  <2>2. k \in Ids \X EvidenceKinds /\ derived[d].evidence_version \in Nat
    BY <2>1, RefType, BoundAssumption DEF DerivedResults, EvidenceKey
  <2>3. /\ derived'[d] = derived[d]
        /\ derivedSupersededBy[d] # None => derivedSupersededBy'[d] # None
    BY <1>1, DerivedKept
  <2>4. EvidenceKey(derived'[d]) = k
    BY <2>3
  <2>5. evidence[k].latest_version \in Nat /\ evidence'[k].latest_version \in Nat
        /\ evidence'[k].latest_version >= evidence[k].latest_version
    BY <1>1, <2>2, VersionsRise
  <2>6. DerivedStatus(d)' = IF derivedSupersededBy'[d] # None THEN "superseded"
                            ELSE IF evidence'[k].latest_version > derived[d].evidence_version
                                 THEN "stale" ELSE "current"
    BY <2>3, <2>4 DEF DerivedStatus, EvidenceKey, AttemptIdOf
  <2>7. DerivedStatus(d) = IF derivedSupersededBy[d] # None THEN "superseded"
                           ELSE IF evidence[k].latest_version > derived[d].evidence_version
                                THEN "stale" ELSE "current"
    BY DEF DerivedStatus
  <2> HIDE DEF k
  <2>. QED BY <2>2, <2>3, <2>5, <2>6, <2>7
<1>2. TypeOK /\ [Next]_vars => \A d \in DerivedIds : derived[d] # None => Kept(d)
  BY <1>1
<1>. QED BY <1>2, TypeCorrect, PTL DEF Spec, DerivedNeverRevives

\* Older evidence undoes nothing that newer evidence settled.
THEOREM NothingOlderWins == Spec => EvidenceMovesForward
  BY IdentityFollows, StaleResultsStay DEF EvidenceMovesForward
=============================================================================

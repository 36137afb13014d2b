--------------------------- MODULE AttemptContract ---------------------------
(***************************************************************************)
(* The contract of one task_attempt/v1 log entry, in the same three        *)
(* places: attempt.ts, attempt-validators.ts and attempt-schema.ts.        *)
(***************************************************************************)
EXTENDS QueueContract

AttemptPath == <<"attempt">>

-----------------------------------------------------------------------------
\* The types.
RecordTypes == {"attempt", "control", "evidence", "derived"}
AttemptKinds == {"pair", "arm", "run", "stage_attempt"}
ArmRoles == {"primary", "challenger"}
ControlActions == {"outcome", "phase", "next_action", "linear_transition", "merge_decision"}
AttemptOutcomes == {"succeeded", "failed", "aborted", "abandoned"}
EvidenceKindNames == {"executed_model", "session_resolution", "cost", "review_findings",
                      "check_run", "code_identity"}

WrittenCode ==
  Written(<<"code_identity">>,
          [head_sha |-> "sha1", base_sha |-> "sha2", change_id |-> "change:1"])

WrittenSessions ==
  Listed(<<"session_refs">>, <<"{}">>)
    @@ Written(<<"session_refs", "1">>,
               [harness |-> "word", session_id |-> "word", resolves |-> "pending:a"])

WrittenAttempt(kind) ==
  Written(Root, [kind |-> kind, id |-> "uuid1", task_id |-> "word",
                 parent_id |-> IF kind = "pair" THEN "word" ELSE "uuid2"])
    @@ (CASE kind = "stage_attempt" -> Written(Root, [stage |-> "word", retry_of |-> "ulid"])
         [] kind = "run" -> Written(Root, [retry_of |-> "ulid"])
         [] kind = "arm" -> Written(Root, [role |-> "primary"])
         [] kind = "pair" -> Written(Root, NoFields))
    @@ WrittenCode @@ WrittenSessions @@ Listed(<<"legacy_ids">>, <<"kind@head7">>)

WrittenControl(action) ==
  Written(Root, [write_id |-> "uuid1", action |-> action]) @@ Ref(AttemptPath)
    @@ IF action = "outcome" THEN Written(Root, [outcome |-> "failed"])
       ELSE Written(Root, [value |-> "a_word"])

WrittenEvidence ==
  Written(Root, [write_id |-> "uuid1", evidence_kind |-> "cost", evidence_version |-> "#1",
                 executed_model |-> "org/model"])
    @@ Ref(AttemptPath) @@ WrittenCode @@ WrittenSessions
    @@ Listed(<<"cost_event_ids">>, <<"ci.build">>)

WrittenDerived ==
  Written(Root, [derived_id |-> "uuid1", derived_kind |-> "word", supersedes |-> "uuid2"])
    @@ Listed(<<"inputs">>, <<"{}">>)
    @@ Written(<<"inputs", "1">>, [evidence_kind |-> "cost", evidence_version |-> "#1"])
    @@ Ref(<<"inputs", "1", "attempt">>)

WrittenEntry(type) ==
  Written(Root, [schema_version |-> "v1", record_type |-> type, observed_at |-> "t1"])

WrittenEntries ==
  {WrittenEntry("attempt") @@ WrittenAttempt(kind) : kind \in AttemptKinds}
  \cup {WrittenEntry("control") @@ WrittenControl(action) : action \in {"outcome", "phase"}}
  \cup {WrittenEntry("evidence") @@ WrittenEvidence, WrittenEntry("derived") @@ WrittenDerived}

-----------------------------------------------------------------------------
\* The validator.
ChangeId == {"change:1"}
LegacyId == {"kind@head7"} \cup Identifier

ValidCode(p) ==
  Is(p, Object) /\ Allows(p, [head_sha |-> GitSha, base_sha |-> GitSha, change_id |-> ChangeId])

ValidSession(p) ==
  /\ Requires(p, [harness |-> HarnessSlug, session_id |-> Identifier])
  /\ Optional(At(p, "resolves"), LAMBDA q :
       record[q] \in PendingSession /\ Value(p, "session_id") \notin PendingSession)

ValidSessions(p) == Is(p, Array) /\ \A q \in Children(p) : ValidSession(q)

ValidAttempt ==
  LET kind == Value(Root, "kind")
      parent == Value(Root, "parent_id")
      task == Value(Root, "task_id")
  IN /\ Requires(Root, [kind |-> AttemptKinds, id |-> MintedId, task_id |-> Identifier,
                        parent_id |-> Identifier])
     /\ parent # Value(Root, "id")
     /\ CASE kind = "pair" -> parent = task
          [] kind = "run" -> parent # task => parent \in MintedId
          [] kind \in {"arm", "stage_attempt"} -> parent \in MintedId
     /\ IF kind = "stage_attempt" THEN Requires(Root, [stage |-> Slug])
        ELSE Forbids(Root, {"stage"})
     /\ IF kind = "arm" THEN Requires(Root, [role |-> ArmRoles]) ELSE Forbids(Root, {"role"})
     /\ Optional(<<"retry_of">>, LAMBDA p :
          /\ kind \in {"run", "stage_attempt"}
          /\ record[p] \in MintedId \ {Value(Root, "id"), parent})
     /\ Optional(<<"code_identity">>, ValidCode)
     /\ Optional(<<"session_refs">>, ValidSessions)
     /\ Optional(<<"legacy_ids">>, LAMBDA p : ArrayOf(p, LegacyId))

ValidControl ==
  /\ Requires(Root, [write_id |-> MintedId, action |-> ControlActions])
  /\ ValidRef(AttemptPath)
  /\ IF Value(Root, "action") = "outcome"
     THEN Requires(Root, [outcome |-> AttemptOutcomes]) /\ Forbids(Root, {"value"})
     ELSE Requires(Root, [value |-> Slug]) /\ Forbids(Root, {"outcome"})

ValidEvidence ==
  /\ Requires(Root, [write_id |-> MintedId, evidence_kind |-> EvidenceKindNames,
                     evidence_version |-> PositiveInt])
  /\ ValidRef(AttemptPath)
  /\ Allows(Root, [executed_model |-> Model])
  /\ Optional(<<"session_refs">>, ValidSessions)
  /\ Optional(<<"code_identity">>, ValidCode)
  /\ Optional(<<"cost_event_ids">>, LAMBDA p : ArrayOf(p, Identifier))

ValidInput(p) ==
  /\ Requires(p, [evidence_kind |-> EvidenceKindNames, evidence_version |-> PositiveInt])
  /\ ValidRef(At(p, "attempt"))

ValidDerived ==
  /\ Requires(Root, [derived_id |-> MintedId, derived_kind |-> Slug])
  /\ NonEmpty(<<"inputs">>) /\ \A p \in Children(<<"inputs">>) : ValidInput(p)
  /\ Optional(<<"supersedes">>, LAMBDA p :
       record[p] \in MintedId \ {Value(Root, "derived_id")})

ValidLogEntry ==
  /\ NoForbiddenKeys
  /\ Requires(Root, [schema_version |-> {"v1"}, record_type |-> RecordTypes,
                     observed_at |-> Timestamp])
  /\ CASE Value(Root, "record_type") = "attempt" -> ValidAttempt
       [] Value(Root, "record_type") = "control" -> ValidControl
       [] Value(Root, "record_type") = "evidence" -> ValidEvidence
       [] Value(Root, "record_type") = "derived" -> ValidDerived

-----------------------------------------------------------------------------
\* The JSON schema.
CodeSchema(p) ==
  Schema(p, {}, [head_sha |-> GitSha, base_sha |-> GitSha, change_id |-> ChangeId])

SessionSchema(p) ==
  /\ Schema(p, {"harness", "session_id"},
       [harness |-> HarnessSlug, session_id |-> Identifier, resolves |-> PendingSession])
  /\ Has(At(p, "resolves")) => Value(p, "session_id") \notin {"pending:a", "pending:a:b"}

SessionsSchema(p) == Items(p, SessionSchema)

EntryKeys == {"schema_version", "record_type", "observed_at"}
EvidenceKindSchema == {"executed_model", "session_resolution", "cost", "review_findings",
                       "check_run", "code_identity"}

AttemptSchema ==
  LET kind == Value(Root, "kind") IN
  /\ Schema(Root, EntryKeys \cup {"kind", "id", "task_id", "parent_id"},
       [kind |-> {"pair", "arm", "run", "stage_attempt"}, id |-> MintedId,
        task_id |-> Identifier, parent_id |-> Identifier, stage |-> Slug,
        role |-> {"primary", "challenger"}, retry_of |-> MintedId])
  /\ Optional(<<"code_identity">>, CodeSchema)
  /\ Optional(<<"session_refs">>, SessionsSchema)
  /\ Optional(<<"legacy_ids">>, LAMBDA p : Items(p, LAMBDA q : record[q] \in LegacyId))
  /\ IF kind = "stage_attempt"
     THEN Has(<<"stage">>) /\ Value(Root, "parent_id") \in MintedId ELSE ~Has(<<"stage">>)
  /\ IF kind = "arm"
     THEN Has(<<"role">>) /\ Value(Root, "parent_id") \in MintedId ELSE ~Has(<<"role">>)
  /\ kind \in {"pair", "arm"} => ~Has(<<"retry_of">>)

ControlSchema ==
  /\ Schema(Root, EntryKeys \cup {"write_id", "attempt", "action"},
       [write_id |-> MintedId, outcome |-> {"succeeded", "failed", "aborted", "abandoned"},
        action |-> {"outcome", "phase", "next_action", "linear_transition", "merge_decision"},
        value |-> Slug])
  /\ RefSchema(AttemptPath)
  /\ IF Value(Root, "action") = "outcome" THEN Has(<<"outcome">>) /\ ~Has(<<"value">>)
     ELSE Has(<<"value">>) /\ ~Has(<<"outcome">>)

EvidenceSchema ==
  /\ Schema(Root, EntryKeys \cup {"write_id", "attempt", "evidence_kind", "evidence_version"},
       [write_id |-> MintedId, evidence_kind |-> EvidenceKindSchema,
        evidence_version |-> PositiveInt, executed_model |-> SchemaModel])
  /\ RefSchema(AttemptPath)
  /\ Optional(<<"session_refs">>, SessionsSchema)
  /\ Optional(<<"code_identity">>, CodeSchema)
  /\ Optional(<<"cost_event_ids">>, LAMBDA p : Items(p, LAMBDA q : record[q] \in Identifier))

InputSchema(p) ==
  /\ Schema(p, {"attempt", "evidence_kind", "evidence_version"},
            [evidence_kind |-> EvidenceKindSchema, evidence_version |-> PositiveInt])
  /\ RefSchema(At(p, "attempt"))

DerivedSchema ==
  /\ Schema(Root, EntryKeys \cup {"derived_id", "derived_kind", "inputs"},
            [derived_id |-> MintedId, derived_kind |-> Slug, supersedes |-> MintedId])
  /\ Items(<<"inputs">>, InputSchema) /\ Children(<<"inputs">>) # {}

EntrySchema ==
  /\ Is(<<"observed_at">>, UtcTimestamp) /\ Is(<<"schema_version">>, {"v1"})
  /\ CASE Is(<<"record_type">>, {"attempt"}) -> AttemptSchema
       [] Is(<<"record_type">>, {"control"}) -> ControlSchema
       [] Is(<<"record_type">>, {"evidence"}) -> EvidenceSchema
       [] Is(<<"record_type">>, {"derived"}) -> DerivedSchema
       [] OTHER -> FALSE
=============================================================================

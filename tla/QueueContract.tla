---------------------------- MODULE QueueContract ----------------------------
(***************************************************************************)
(* The contract of one queue_lifecycle_event/v1, written down three times: *)
(* the types (task-cost/queue-lifecycle.ts), the validator, which is       *)
(* normative (queue-lifecycle-validators.ts), and the JSON schema that     *)
(* mirrors it for other languages (queue-lifecycle-schema.ts).  An event   *)
(* is written as its type says, with every optional value, and then edited. *)
(***************************************************************************)
EXTENDS JsonRecord

ActorPath == <<"actor">>
Context == <<"context">>
Reviewers == <<"reviewers">>
Findings == <<"findings">>
ModelKeys == {"harness", "intended_model", "executed_model", "executed_model_evidence"}

-----------------------------------------------------------------------------
\* The types.
EventTypes ==
  {"enqueued", "candidate_prepared", "check_run_completed", "ejected", "rerun_requested",
   "rebase_performed", "repair_commit_pushed", "recovery_decision", "merged", "dequeued",
   "abandoned", "review_round_started", "review_round_completed"}

EventScopes == [type \in EventTypes |->
  CASE type = "candidate_prepared" -> {"candidate"}
    [] type \in {"check_run_completed", "rerun_requested", "recovery_decision"} ->
         {"pr", "candidate"}
    [] OTHER -> {"pr"}]

CandidateLinked == {"ejected", "merged"}

ActorKinds == {"agent", "operator", "tend", "monitor", "github"}
ExecutedModelEvidence == {"provider_response", "harness_session", "not_observed"}
CheckTriggers == {"pull_request", "merge_group", "push", "other"}
CheckConclusions == {"success", "failure", "neutral", "cancelled", "skipped", "timed_out",
                     "action_required", "stale", "startup_failure"}
EjectionTriggers == {"check_failed", "merge_conflict", "predecessor_ejected", "base_moved",
                     "operator", "timeout", "policy", "unknown"}
RebaseMethods == {"rebase", "merge"}
RecoveryActions == {"retry", "rebase", "fix", "split", "wait_for_predecessor", "escalate"}
PropensitySources == {"exact", "deterministic", "none"}
MergeMethods == {"merge", "squash", "rebase"}
DequeueTriggers == {"pr_closed", "head_changed", "operator", "policy", "unknown"}
AbandonTriggers == {"retry_budget_exhausted", "superseded", "operator", "policy", "unknown"}
FindingLocations ==
  {"first_round", "changed_since_first_round", "unchanged_since_first_round", "unknown"}

Ref(p) == Written(p, [task_id |-> "word", run_id |-> "uuid1", stage_attempt_id |-> "uuid2"])
Policy(p) == Written(p, [name |-> "word", version |-> "ci.build"])

WrittenActor(kind) ==
  CASE kind = "agent" ->
         Written(ActorPath, [kind |-> kind, harness |-> "word", intended_model |-> "org/model",
                             executed_model_evidence |-> "provider_response",
                             executed_model |-> "org/model"])
    [] kind = "operator" -> Written(ActorPath, [kind |-> kind])
    [] kind \in {"tend", "monitor"} ->
         Written(ActorPath, [kind |-> kind, component |-> "a_word"])
    [] kind = "github" -> Written(ActorPath, [kind |-> kind, app |-> "a_word"])

WrittenScope(scope) ==
  IF scope = "pr"
  THEN Written(Root, [pr_number |-> "#1", head_sha |-> "sha1"]) @@ Ref(<<"attempt">>)
  ELSE Written(Root, [candidate_id |-> "uuid2"])
         @@ Listed(<<"attempt_refs">>, <<"{}">>) @@ Ref(<<"attempt_refs", "1">>)

WrittenChecks == [check_run_id |-> "99", check_key |-> "ci.build", run_attempt |-> "#1"]

WrittenDecision ==
  Written(Root, [chosen_action |-> "retry", propensity_source |-> "exact"])
    @@ Policy(<<"policy">>)
    @@ Written(Context, [as_of |-> "t1", attempt_number |-> "#1",
                         base_moved_since_candidate |-> "#true", queue_depth |-> "#0"])
    @@ Listed(At(Context, "event_ids"), <<"uuid1">>)
    @@ Listed(At(Context, "failing_check_keys"), <<"ci.build">>)
    @@ Written(At(Context, "failure_class"), [label |-> "word", labeler_version |-> "ci.build"])
    @@ Written(At(Context, "provenance"),
               [harness |-> "word", executed_model |-> "org/model", task_type |-> "a_word"])
    @@ Listed(At(Context, "flake_history"), <<"{}">>)
    @@ Written(<<"context", "flake_history", "1">>,
               [check_key |-> "ci.build", window_runs |-> "#1", window_failures |-> "#0"])
    @@ Listed(<<"available_actions">>, <<"retry", "escalate">>)
    @@ Listed(<<"propensities">>, <<"{}", "{}">>)
    @@ Written(<<"propensities", "1">>, [action |-> "retry", probability |-> "#1/2"])
    @@ Written(<<"propensities", "2">>, [action |-> "escalate", probability |-> "#1/2"])

WrittenStart ==
  Written(Root, [round |-> "#1"]) @@ Listed(Reviewers, <<"{}">>)
    @@ Written(At(Reviewers, "1"),
               [reviewer_key |-> "word", stage |-> "word", stage_attempt_id |-> "uuid1",
                harness |-> "word", intended_model |-> "org/model", challenge |-> "#true"])
    @@ Written(<<"selection">>, [propensity_source |-> "exact", propensity |-> "#1/2"])
    @@ Policy(<<"selection", "policy">>)

WrittenCompletion ==
  Written(Root, [round |-> "#2", first_round_head_sha |-> "sha1"]) @@ Listed(Reviewers, <<"{}">>)
    @@ Written(At(Reviewers, "1"),
               [reviewer_key |-> "word", stage |-> "word", stage_attempt_id |-> "uuid1",
                harness |-> "word", executed_model_evidence |-> "not_observed"])
    @@ Listed(Findings, <<"{}">>)
    @@ Written(At(Findings, "1"),
               [finding_id |-> "uuid1", reviewer_key |-> "word", blocking |-> "#false",
                location |-> "unknown", reflag_of |-> "uuid2"])

WrittenPayload(type) ==
  CASE type = "enqueued" -> Written(Root, [base_sha |-> "sha1", queue_depth |-> "#0"])
    [] type = "candidate_prepared" ->
         Written(Root, [base_sha |-> "sha1", candidate_sha |-> "sha2"])
           @@ Listed(<<"entries">>, <<"{}">>)
           @@ Written(<<"entries", "1">>, [pr_number |-> "#1", head_sha |-> "sha1"])
    [] type = "check_run_completed" ->
         Written(Root, WrittenChecks @@ [head_sha |-> "sha1", trigger |-> "push",
                  conclusion |-> "success", started_at |-> "t1", completed_at |-> "t2"])
    [] type = "ejected" ->
         Written(Root, [trigger |-> "unknown", candidate_id |-> "uuid1"])
           @@ Listed(<<"cause_event_ids">>, <<"uuid1">>)
    [] type = "rerun_requested" -> Written(Root, WrittenChecks)
    [] type = "rebase_performed" ->
         Written(Root, [previous_head_sha |-> "sha2", previous_base_sha |-> "sha1",
                        base_sha |-> "sha2", method |-> "merge", had_conflicts |-> "#false"])
    [] type = "repair_commit_pushed" ->
         Written(Root, [parent_sha |-> "sha2", commits_pushed |-> "#1"])
           @@ Listed(<<"cause_event_ids">>, <<"uuid1">>)
           @@ Listed(<<"cost_event_ids">>, <<"ci.build">>)
    [] type = "recovery_decision" -> WrittenDecision
    [] type = "merged" ->
         Written(Root, [merge_commit_sha |-> "sha2", base_sha |-> "sha1",
                        candidate_id |-> "uuid1", method |-> "squash"])
    [] type \in {"dequeued", "abandoned"} -> Written(Root, [trigger |-> "policy"])
    [] type = "review_round_started" -> WrittenStart
    [] type = "review_round_completed" -> WrittenCompletion

WrittenEvent(type, scope, kind) ==
  Written(Root, [schema_version |-> "v1", event_id |-> "uuid1", event_type |-> type,
                 observed_at |-> "t2"])
    @@ WrittenActor(kind) @@ WrittenScope(scope) @@ WrittenPayload(type)

-----------------------------------------------------------------------------
\* The validator.
ValidRef(p) ==
  /\ Requires(p, [task_id |-> Identifier, run_id |-> MintedId])
  /\ Allows(p, [stage_attempt_id |-> MintedId])

ValidPolicy(p) == Requires(p, [name |-> Slug, version |-> PolicyVersion])

MintedIdList(p) == ArrayOf(p, MintedId) /\ Distinct(p)

\* Seeded bug: a model that nobody observed passes.
AttributionUnchecked(p) ==
  /\ Requires(p, [harness |-> HarnessSlug, executed_model_evidence |-> ExecutedModelEvidence])
  /\ Allows(p, [intended_model |-> Model, executed_model |-> Model])

\* An observed model needs evidence, and evidence a model.
ValidAttribution(p) ==
  /\ Requires(p, [harness |-> HarnessSlug, executed_model_evidence |-> ExecutedModelEvidence])
  /\ Allows(p, [intended_model |-> Model])
  /\ IF Value(p, "executed_model_evidence") = "not_observed"
     THEN Forbids(p, {"executed_model"})
     ELSE Requires(p, [executed_model |-> Model])

ValidActor ==
  LET p == ActorPath IN
  /\ Requires(p, [kind |-> ActorKinds])
  /\ RejectsNulls(p)
  /\ LET kind == Value(p, "kind") IN
     /\ IF kind = "agent" THEN ValidAttribution(p) ELSE Forbids(p, ModelKeys)
     /\ IF kind \in {"tend", "monitor"} THEN Allows(p, [component |-> Slug])
        ELSE Forbids(p, {"component"})
     /\ IF kind = "github" THEN Allows(p, [app |-> Slug]) ELSE Forbids(p, {"app"})

ValidScope(type) ==
  /\ Has(<<"attempt">>) # Has(<<"attempt_refs">>)
  /\ (IF Has(<<"attempt">>) THEN "pr" ELSE "candidate") \in EventScopes[type]
  /\ IF Has(<<"attempt">>)
     THEN /\ ValidRef(<<"attempt">>)
          /\ Requires(Root, [pr_number |-> PositiveInt, head_sha |-> GitSha])
          /\ IF type \in CandidateLinked THEN Allows(Root, [candidate_id |-> MintedId])
             ELSE Forbids(Root, {"candidate_id"})
     ELSE /\ Requires(Root, [candidate_id |-> MintedId])
          /\ Forbids(Root, {"pr_number"})
          /\ NonEmpty(<<"attempt_refs">>)
          /\ \A p \in Children(<<"attempt_refs">>) : ValidRef(p)
          /\ DistinctBy(<<"attempt_refs">>, "run_id")

ValidCheckRun ==
  Requires(Root, [check_run_id |-> ProviderId, check_key |-> CheckKey,
                  run_attempt |-> PositiveInt])

Chances == Children(<<"propensities">>)

\* The probabilities of the available actions, and of no other, add up to one.
ValidPropensities ==
  LET source == Value(Root, "propensity_source")
      Chance(p) == Halves(Value(p, "probability"))
      chosen == {p \in Chances : Value(p, "action") = Value(Root, "chosen_action")}
  IN IF source = "none" THEN Forbids(Root, {"propensities"})
     ELSE /\ NonEmpty(<<"propensities">>)
          /\ \A p \in Chances :
               Requires(p, [action |-> RecoveryActions, probability |-> Probability])
          /\ DistinctBy(<<"propensities">>, "action")
          /\ {Value(p, "action") : p \in Chances}
               = {record[q] : q \in Children(<<"available_actions">>)}
          /\ FoldSet(LAMBDA p, sum : sum + Chance(p), 0, Chances) = 2
          /\ \A p \in chosen : Chance(p) > 0 /\ (source = "deterministic" => Chance(p) = 2)

ValidFlake(p) ==
  /\ Requires(p, [check_key |-> CheckKey, window_runs |-> NonNegativeInt, window_failures |-> NonNegativeInt])
  /\ Halves(Value(p, "window_failures")) <= Halves(Value(p, "window_runs"))

\* What a decision read, no later than it was made.
ValidContext ==
  /\ Requires(Context, [as_of |-> Timestamp])
  /\ RejectsNulls(Context)
  /\ ~Later(At(Context, "as_of"), <<"observed_at">>)
  /\ MintedIdList(At(Context, "event_ids"))
  /\ Optional(At(Context, "failing_check_keys"), LAMBDA p : ArrayOf(p, CheckKey))
  /\ Optional(At(Context, "failure_class"),
              LAMBDA p : Requires(p, [label |-> Slug, labeler_version |-> PolicyVersion]))
  /\ Allows(Context, [attempt_number |-> PositiveInt, queue_depth |-> NonNegativeInt,
                      base_moved_since_candidate |-> Boolean])
  /\ Optional(At(Context, "provenance"), LAMBDA p :
       Is(p, Object)
         /\ Allows(p, [harness |-> HarnessSlug, executed_model |-> Model, task_type |-> Slug]))
  /\ Optional(At(Context, "flake_history"), LAMBDA p :
       Is(p, Array) /\ \A q \in Children(p) : ValidFlake(q))

ValidDecision ==
  LET actions == <<"available_actions">> IN
  /\ ValidPolicy(<<"policy">>)
  /\ ValidContext
  /\ NonEmpty(actions) /\ ArrayOf(actions, RecoveryActions) /\ Distinct(actions)
  /\ Requires(Root, [chosen_action |-> RecoveryActions, propensity_source |-> PropensitySources])
  /\ \E p \in Children(actions) : record[p] = Value(Root, "chosen_action")
  /\ ValidPropensities

\* A configuration is intent: it cannot claim what executed.
ValidReviewerConfig(p) ==
  /\ Requires(p, [reviewer_key |-> Slug, stage |-> Slug])
  /\ RejectsNulls(p)
  /\ Allows(p, [stage_attempt_id |-> MintedId, harness |-> HarnessSlug, intended_model |-> Model,
                challenge |-> Boolean])
  /\ Forbids(p, {"executed_model", "executed_model_evidence"})

ValidSelection(p) ==
  /\ Requires(p, [propensity_source |-> PropensitySources])
  /\ ValidPolicy(At(p, "policy"))
  /\ LET source == Value(p, "propensity_source") IN
     CASE source = "none" -> Forbids(p, {"propensity"})
       [] source = "exact" -> Requires(p, [propensity |-> Probability \ {"#0"}])
       [] source = "deterministic" -> Requires(p, [propensity |-> {"#1"}])

ValidStart ==
  /\ Requires(Root, [round |-> PositiveInt])
  /\ NonEmpty(Reviewers)
  /\ \A p \in Children(Reviewers) : ValidReviewerConfig(p)
  /\ DistinctBy(Reviewers, "reviewer_key")
  /\ Optional(<<"selection">>, ValidSelection)

ValidReviewerRun(p) ==
  /\ Requires(p, [reviewer_key |-> Slug, stage |-> Slug])
  /\ RejectsNulls(p)
  /\ Allows(p, [stage_attempt_id |-> MintedId])
  /\ ValidAttribution(p)

\* In the first round there is nothing to compare with, and nothing to flag again.
ValidFinding(p) ==
  LET first == Value(Root, "round") = "#1" IN
  /\ Requires(p, [finding_id |-> MintedId, reviewer_key |-> Slug, blocking |-> Boolean,
                  location |-> FindingLocations])
  /\ RejectsNulls(p)
  /\ \E q \in Children(Reviewers) : Value(q, "reviewer_key") = Value(p, "reviewer_key")
  /\ IF first THEN Value(p, "location") \in {"first_round", "unknown"}
     ELSE Value(p, "location") # "first_round"
  /\ Optional(At(p, "reflag_of"), LAMBDA q :
       ~first /\ record[q] \in MintedId /\ record[q] # Value(p, "finding_id"))

ValidCompletion ==
  /\ Requires(Root, [round |-> PositiveInt, first_round_head_sha |-> GitSha])
  /\ Value(Root, "round") = "#1"
       => Value(Root, "first_round_head_sha") = Value(Root, "head_sha")
  /\ NonEmpty(Reviewers)
  /\ \A p \in Children(Reviewers) : ValidReviewerRun(p)
  /\ DistinctBy(Reviewers, "reviewer_key")
  /\ Is(Findings, Array)
  /\ \A p \in Children(Findings) : ValidFinding(p)
  /\ DistinctBy(Findings, "finding_id")

ValidEntries ==
  /\ NonEmpty(<<"entries">>)
  /\ Cardinality(Children(<<"entries">>)) = Cardinality(Children(<<"attempt_refs">>))
  /\ \A p \in Children(<<"entries">>) : Requires(p, [pr_number |-> PositiveInt, head_sha |-> GitSha])
  /\ DistinctBy(<<"entries">>, "pr_number")

ValidCheckTimes ==
  /\ Requires(Root, [completed_at |-> Timestamp]) /\ Allows(Root, [started_at |-> Timestamp])
  /\ Has(<<"started_at">>) => ~Later(<<"started_at">>, <<"completed_at">>)
  /\ ~Later(<<"completed_at">>, <<"observed_at">>)

ValidPayload(type) ==
  CASE type = "enqueued" -> Allows(Root, [base_sha |-> GitSha, queue_depth |-> NonNegativeInt])
    [] type = "candidate_prepared" ->
         /\ Requires(Root, [base_sha |-> GitSha]) /\ ValidEntries
         /\ Allows(Root, [candidate_sha |-> GitSha])
    [] type = "check_run_completed" ->
         /\ ValidCheckRun /\ ValidCheckTimes
         /\ Requires(Root, [head_sha |-> GitSha, trigger |-> CheckTriggers,
                            conclusion |-> CheckConclusions])
    [] type = "ejected" ->
         /\ Requires(Root, [trigger |-> EjectionTriggers])
         /\ Optional(<<"cause_event_ids">>, MintedIdList)
    [] type = "rerun_requested" -> ValidCheckRun
    [] type = "rebase_performed" ->
         /\ Requires(Root, [previous_head_sha |-> GitSha, base_sha |-> GitSha,
                            method |-> RebaseMethods])
         /\ Value(Root, "previous_head_sha") # Value(Root, "head_sha")
         /\ Allows(Root, [previous_base_sha |-> GitSha, had_conflicts |-> Boolean])
    [] type = "repair_commit_pushed" ->
         /\ Requires(Root, [parent_sha |-> GitSha])
         /\ Value(Root, "parent_sha") # Value(Root, "head_sha")
         /\ Allows(Root, [commits_pushed |-> PositiveInt])
         /\ Optional(<<"cause_event_ids">>, MintedIdList)
         /\ Optional(<<"cost_event_ids">>, LAMBDA p : ArrayOf(p, Identifier))
    [] type = "recovery_decision" -> ValidDecision
    [] type = "merged" ->
         /\ Requires(Root, [merge_commit_sha |-> GitSha])
         /\ Allows(Root, [base_sha |-> GitSha, method |-> MergeMethods])
    [] type = "dequeued" -> Requires(Root, [trigger |-> DequeueTriggers])
    [] type = "abandoned" -> Requires(Root, [trigger |-> AbandonTriggers])
    [] type = "review_round_started" -> ValidStart
    [] type = "review_round_completed" -> ValidCompletion

ValidEvent ==
  /\ NoForbiddenKeys
  /\ Requires(Root, [schema_version |-> {"v1"}, event_id |-> MintedId,
                     event_type |-> EventTypes, observed_at |-> Timestamp])
  /\ RejectsNulls(Root)
  /\ ValidActor
  /\ ValidScope(Value(Root, "event_type"))
  /\ ValidPayload(Value(Root, "event_type"))

-----------------------------------------------------------------------------
\* The JSON schema, $def by $def.
RecoveryActionSchema == {"retry", "rebase", "fix", "split", "wait_for_predecessor", "escalate"}
PropensitySourceSchema == {"exact", "deterministic", "none"}
EjectionSchema == {"check_failed", "merge_conflict", "predecessor_ejected", "base_moved",
                   "operator", "timeout", "policy", "unknown"}

RefSchema(p) ==
  Schema(p, {"task_id", "run_id"},
         [task_id |-> Identifier, run_id |-> MintedId, stage_attempt_id |-> MintedId])

PolicySchema(p) == Schema(p, {"name", "version"}, [name |-> Slug, version |-> PolicyVersion])

AttributionSchema(p) ==
  /\ Schema(p, {"harness", "executed_model_evidence"},
       [harness |-> HarnessSlug, intended_model |-> SchemaModel, executed_model |-> SchemaModel,
        executed_model_evidence |-> {"provider_response", "harness_session", "not_observed"}])
  /\ IF Value(p, "executed_model_evidence") = "not_observed"
     THEN ~Has(At(p, "executed_model")) ELSE Has(At(p, "executed_model"))

AnyModelField(p) == \E key \in ModelKeys : Has(At(p, key))

ActorSchema ==
  LET p == ActorPath
      One(kinds, properties) == Schema(p, {"kind"}, [kind |-> kinds] @@ properties)
  IN \/ One({"agent"}, NoFields) /\ AttributionSchema(p)
     \/ /\ \/ One({"operator"}, NoFields)
           \/ One({"tend", "monitor"}, [component |-> Slug])
           \/ One({"github"}, [app |-> Slug])
        /\ ~AnyModelField(p)

PrScope ==
  /\ Schema(Root, {"attempt", "pr_number", "head_sha"},
            [pr_number |-> PositiveInt, head_sha |-> GitSha])
  /\ RefSchema(<<"attempt">>)
  /\ ~Has(<<"attempt_refs">>)

CandidateScope ==
  /\ Schema(Root, {"candidate_id", "attempt_refs"}, [candidate_id |-> MintedId])
  /\ Items(<<"attempt_refs">>, RefSchema) /\ Children(<<"attempt_refs">>) # {}
  /\ ~Has(<<"attempt">>) /\ ~Has(<<"pr_number">>)

NoCandidateLink == ~Has(<<"candidate_id">>)

BaseSchema ==
  /\ Schema(Root, {"schema_version", "event_id", "event_type", "observed_at", "actor"},
       [schema_version |-> {"v1"}, event_id |-> MintedId, observed_at |-> UtcTimestamp,
        event_type |-> {"enqueued", "candidate_prepared", "check_run_completed", "ejected",
                        "rerun_requested", "rebase_performed", "repair_commit_pushed",
                        "recovery_decision", "merged", "dequeued", "abandoned",
                        "review_round_started", "review_round_completed"}])
  /\ ActorSchema

ScopeSchema(type) ==
  CASE type = "candidate_prepared" -> CandidateScope
    [] type \in {"check_run_completed", "rerun_requested", "recovery_decision"} ->
         (PrScope /\ NoCandidateLink) # CandidateScope
    [] type \in {"ejected", "merged"} -> PrScope
    [] OTHER -> PrScope /\ NoCandidateLink

UniqueIds(p) == Items(p, LAMBDA q : record[q] \in MintedId) /\ Distinct(p)

CheckRunSchema ==
  Schema(Root, {"check_run_id", "check_key", "run_attempt"},
         [check_run_id |-> ProviderId, check_key |-> CheckKey, run_attempt |-> PositiveInt])

CheckCompletedSchema ==
  /\ CheckRunSchema
  /\ Schema(Root, {"head_sha", "trigger", "conclusion", "completed_at"},
       [head_sha |-> GitSha, trigger |-> {"pull_request", "merge_group", "push", "other"},
        conclusion |-> {"success", "failure", "neutral", "cancelled", "skipped", "timed_out",
                        "action_required", "stale", "startup_failure"},
        started_at |-> UtcTimestamp, completed_at |-> UtcTimestamp])

EntriesSchema ==
  /\ Items(<<"entries">>, LAMBDA p :
       Schema(p, {"pr_number", "head_sha"}, [pr_number |-> PositiveInt, head_sha |-> GitSha]))
  /\ Children(<<"entries">>) # {}

FlakeSchema(p) ==
  Schema(p, {"check_key", "window_runs", "window_failures"},
         [check_key |-> CheckKey, window_runs |-> NonNegativeInt, window_failures |-> NonNegativeInt])

ContextSchema(p) ==
  /\ Schema(p, {"as_of", "event_ids"},
       [as_of |-> UtcTimestamp, attempt_number |-> PositiveInt, queue_depth |-> NonNegativeInt,
        base_moved_since_candidate |-> Boolean])
  /\ UniqueIds(At(p, "event_ids"))
  /\ Optional(At(p, "failing_check_keys"),
              LAMBDA q : Items(q, LAMBDA key : record[key] \in CheckKey))
  /\ Optional(At(p, "failure_class"), LAMBDA q :
       Schema(q, {"label", "labeler_version"}, [label |-> Slug, labeler_version |-> PolicyVersion]))
  /\ Optional(At(p, "provenance"), LAMBDA q :
       Schema(q, {}, [harness |-> HarnessSlug, executed_model |-> SchemaModel, task_type |-> Slug]))
  /\ Optional(At(p, "flake_history"), LAMBDA q : Items(q, FlakeSchema))

ActionsSchema(p) ==
  Items(p, LAMBDA q : record[q] \in RecoveryActionSchema) /\ Children(p) # {} /\ Distinct(p)

DecisionSchema ==
  /\ Schema(Root, {"policy", "context", "available_actions", "chosen_action", "propensity_source"},
       [chosen_action |-> RecoveryActionSchema, propensity_source |-> PropensitySourceSchema])
  /\ PolicySchema(<<"policy">>) /\ ContextSchema(Context) /\ ActionsSchema(<<"available_actions">>)
  /\ Optional(<<"propensities">>, LAMBDA p :
       /\ Items(p, LAMBDA q : Schema(q, {"action", "probability"},
                                [action |-> RecoveryActionSchema, probability |-> Probability]))
       /\ Children(p) # {})
  /\ Has(<<"propensities">>) <=> Value(Root, "propensity_source") # "none"

ReviewerConfigSchema(p) ==
  /\ Schema(p, {"reviewer_key", "stage"},
       [reviewer_key |-> Slug, stage |-> Slug, stage_attempt_id |-> MintedId,
        harness |-> HarnessSlug, intended_model |-> SchemaModel, challenge |-> Boolean])
  /\ ~(Has(At(p, "executed_model")) \/ Has(At(p, "executed_model_evidence")))

SelectionSchema(p) ==
  /\ Schema(p, {"policy", "propensity_source"},
       [propensity_source |-> PropensitySourceSchema, propensity |-> Probability \ {"#0"}])
  /\ PolicySchema(At(p, "policy"))
  /\ Has(At(p, "propensity")) <=> Value(p, "propensity_source") # "none"

StartSchema ==
  /\ Schema(Root, {"round", "reviewers"}, [round |-> PositiveInt])
  /\ Items(Reviewers, ReviewerConfigSchema) /\ Children(Reviewers) # {}
  /\ Optional(<<"selection">>, SelectionSchema)

ReviewerRunSchema(p) ==
  /\ AttributionSchema(p)
  /\ Schema(p, {"reviewer_key", "stage"},
            [reviewer_key |-> Slug, stage |-> Slug, stage_attempt_id |-> MintedId])

FindingSchema(p) ==
  /\ Schema(p, {"finding_id", "reviewer_key", "blocking", "location"},
       [finding_id |-> MintedId, reviewer_key |-> Slug, blocking |-> Boolean,
        reflag_of |-> MintedId,
        location |-> {"first_round", "changed_since_first_round",
                      "unchanged_since_first_round", "unknown"}])
  /\ IF Value(Root, "round") = "#1"
     THEN Value(p, "location") \in {"first_round", "unknown"} /\ ~Has(At(p, "reflag_of"))
     ELSE Value(p, "location") # "first_round"

CompletionSchema ==
  /\ Schema(Root, {"round", "first_round_head_sha", "reviewers", "findings"},
            [round |-> PositiveInt, first_round_head_sha |-> GitSha])
  /\ Items(Reviewers, ReviewerRunSchema) /\ Children(Reviewers) # {}
  /\ Items(Findings, FindingSchema)

RebaseSchema ==
  Schema(Root, {"previous_head_sha", "base_sha", "method"},
    [previous_head_sha |-> GitSha, previous_base_sha |-> GitSha, base_sha |-> GitSha,
     method |-> {"rebase", "merge"}, had_conflicts |-> Boolean])

RepairSchema ==
  /\ Schema(Root, {"parent_sha"}, [parent_sha |-> GitSha, commits_pushed |-> PositiveInt])
  /\ Optional(<<"cause_event_ids">>, UniqueIds)
  /\ Optional(<<"cost_event_ids">>, LAMBDA p : Items(p, LAMBDA q : record[q] \in Identifier))

PayloadSchema(type) ==
  CASE type = "enqueued" -> Schema(Root, {}, [base_sha |-> GitSha, queue_depth |-> NonNegativeInt])
    [] type = "candidate_prepared" ->
         /\ Schema(Root, {"base_sha", "entries"}, [base_sha |-> GitSha, candidate_sha |-> GitSha])
         /\ EntriesSchema
    [] type = "check_run_completed" -> CheckCompletedSchema
    [] type = "ejected" ->
         /\ Schema(Root, {"trigger"}, [candidate_id |-> MintedId, trigger |-> EjectionSchema])
         /\ Optional(<<"cause_event_ids">>, UniqueIds)
    [] type = "rerun_requested" -> CheckRunSchema
    [] type = "rebase_performed" -> RebaseSchema
    [] type = "repair_commit_pushed" -> RepairSchema
    [] type = "recovery_decision" -> DecisionSchema
    [] type = "merged" ->
         Schema(Root, {"merge_commit_sha"},
                [merge_commit_sha |-> GitSha, base_sha |-> GitSha, candidate_id |-> MintedId,
                 method |-> {"merge", "squash", "rebase"}])
    [] type = "dequeued" -> Schema(Root, {"trigger"}, [trigger |->
         {"pr_closed", "head_changed", "operator", "policy", "unknown"}])
    [] type = "abandoned" -> Schema(Root, {"trigger"}, [trigger |->
         {"retry_budget_exhausted", "superseded", "operator", "policy", "unknown"}])
    [] type = "review_round_started" -> StartSchema
    [] type = "review_round_completed" -> CompletionSchema

EventSchema ==
  /\ BaseSchema
  /\ PayloadSchema(Value(Root, "event_type"))
  /\ ScopeSchema(Value(Root, "event_type"))
=============================================================================

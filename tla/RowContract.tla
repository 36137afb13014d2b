------------------------------ MODULE RowContract ------------------------------
(***************************************************************************)
(* The contract of a contribution row: the seven forms that are submitted, *)
(* what one asks of its routing outcome and of its stages, and the cost    *)
(* summary of a stage (core/src/contribution/schema.ts and                 *)
(* core/src/task-cost/validators.ts).                                      *)
(***************************************************************************)
EXTENDS JsonRecord

RouteRoles == {"planner", "coder", "reviewer"}
RouteSlug == {"word", "a_word", "ci.build", "pending:a", "pending:a:b"}
StageHarness == {"word", "a_word", "ci.build"}
SdkVersion == {"word", "ci.build", "1.0.0", "99"}
IsoDate == {"t1", "t2", "feb30"}
Amount == AtLeast(0)
Results == {"success", "failure"}

\* One or two values stand for those of an enumeration, and one stage for repairs.
OverrideSources == {"operator", "observed"}
ModelEvidence == {"session_telemetry", "requested_only"}
RoleOfStage == [planning |-> "planner", coding |-> "coder", review |-> "reviewer"]
Stages == DOMAIN RoleOfStage \cup {"ci-fix"}
CostHarnesses == {"codex", "unknown"}
SummarySources == {"provider_reported", "local_estimate", "mixed", "none"}
Availabilities == {"available", "partial", "unavailable", "known_zero"}
TokenFields == {"input_tokens", "output_tokens", "cache_read_tokens", "cache_write_tokens",
                "reasoning_tokens"}

\* A forbidden key, another spelling of one, and one that copies a recommendation.
RowForbiddenKeys == {"prompt", "Prompt"}
CopyKeys == {"recommendedModel"}
SummaryForbiddenKeys == {"prompt", "Prompt", "path"}
NoneBelow(p, keys) == \A q \in Below(p) \ {Root} : q[Len(q)] \notin keys

-----------------------------------------------------------------------------
\* The types.
WrittenUsage(p) == Written(p, [f \in TokenFields |-> IF f = "input_tokens" THEN "#2" ELSE "null"])

WrittenSummary(p) ==
  LET segment == p \o <<"model_segments", "1">>
      costs == [actual_cost_usd |-> "null", estimated_cost_usd |-> "#1",
                cost_source |-> "local_estimate"]
  IN Written(p, [schema_version |-> "summary/v1", task_id |-> "word", harness |-> "codex",
                 provider_contract_version |-> "codex/1", turn_count |-> "#1",
                 turns_truncated |-> "#false", total_cost_usd |-> "#1",
                 cost_basis |-> "per_token_api", coverage |-> "complete",
                 pricing_revision |-> "word", pricing_timestamp |-> "t1",
                 pricing_source |-> "local_estimate", join_confidence |-> "branch_worktree",
                 collected_at |-> "t1", event_count |-> "#1"] @@ costs)
       @@ Listed(At(p, "session_ids"), <<"word">>) @@ Listed(At(p, "models"), <<"org/model">>)
       @@ Listed(At(p, "model_segments"), <<"{}">>)
       @@ Written(segment, [model |-> "org/model", turn_count |-> "#1"] @@ costs)
       @@ WrittenUsage(At(segment, "usage")) @@ WrittenUsage(At(p, "usage"))
       @@ Written(At(p, "field_availability"),
            [usage |-> "partial", actual_cost |-> "unavailable", estimated_cost |-> "available",
             pricing |-> "available"])
       @@ Listed(At(p, "event_ids"), <<"uuid1">>)
       @@ Listed(At(p, "diagnostics"), <<"missing_token_usage">>)

WrittenRouterRow ==
  Written(Root, [success_under_budget |-> "#true", completion_result |-> "success",
                 observed_at |-> "t1", task_id |-> "word", budget_usd |-> "#2",
                 actual_cost_usd |-> "#1"])
    @@ Written(<<"task_descriptor">>, [language |-> "word"])
    @@ Listed(<<"allowed_models">>, <<"org/model", "word">>)
    @@ Written(<<"selected_models">>, [coder |-> "org/model", reviewer |-> "word"])

WrittenRichRow ==
  WrittenRouterRow
    @@ Written(<<"available_models">>, NoFields)
    @@ Listed(<<"available_models", "planner_models">>, <<>>)
    @@ Listed(<<"available_models", "coder_models">>, <<"org/model">>)
    @@ Listed(<<"available_models", "reviewer_models">>, <<"word">>)
    @@ Written(<<"outcome_labels">>, [budget_label |-> "under_budget", cost_label |-> "low",
         time_label |-> "unknown", success_label |-> "success"])
    @@ Written(<<"candidate_pool">>,
         [scenario_id |-> "word", scenario_kind |-> "word", pool_size |-> "#2"])
    @@ Written(<<"sparse_cell">>, [cell_id |-> "word", descriptor_signature |-> "word",
         observed_count |-> "#1", is_sparse |-> "#true"])

\* The coder was changed twice, or the recommendation was followed.
WrittenRouting(followed) ==
  With(Root, "inference_log_id", "word") @@
  IF followed THEN Listed(<<"overrides">>, <<>>)
  ELSE Listed(<<"overrides">>, <<"{}", "{}">>)
         @@ Written(<<"overrides", "1">>, [role |-> "coder", source |-> "operator",
              from |-> "a_word", to |-> "99", reason |-> "word"])
         @@ Written(<<"overrides", "2">>, [role |-> "coder", source |-> "observed",
              from |-> "99", to |-> "org/model", reason |-> "word"])

WrittenExecutions ==
  LET stage == <<"stage_executions", "1">>
  IN Listed(<<"stage_executions">>, <<"{}">>)
       @@ Written(stage, [stage |-> "coding", executed_model |-> "org/model",
                          model_evidence |-> "session_telemetry", harness |-> "word"])
       @@ WrittenSummary(At(stage, "task_cost"))
       @@ Written(<<"comparison_group">>, [id |-> "uuid1", role_varied |-> "coder"])
       @@ Written(<<"integration">>, NoFields) @@ With(Root, "sdk_version", "1.0.0")

WrittenHarnessRow ==
  WrittenRouterRow @@ Written(<<"harness_metadata">>, [sdk_version |-> "1.0.0"])

Versioned(version, fields) == With(Root, "schema_version", version) @@ fields

WrittenRows ==
  {Versioned("row/v1", WrittenRouterRow), Versioned("row/v2", WrittenRichRow),
   Versioned("row/v3", WrittenRouting(TRUE) @@ WrittenRichRow),
   Versioned("row/v3", WrittenRouting(FALSE) @@ WrittenRichRow),
   Versioned("row/v4", WrittenExecutions @@ WrittenRouting(FALSE) @@ WrittenRichRow),
   Versioned("harness/v1", WrittenHarnessRow),
   Versioned("harness/v2", WrittenRouting(FALSE) @@ WrittenHarnessRow),
   Written(Root, [success_under_budget |-> "#false", inputs |-> "{}", task_id |-> "word",
                  outcome_diagnostic |-> "eligible", outcome_source |-> "unknown",
                  outcome_artifact_used |-> "#true"])
     @@ Listed(<<"outcome_missing_fields">>, <<"word">>)}

-----------------------------------------------------------------------------
\* The fields of a row.
RowOptions ==
  [budget_usd |-> Amount, actual_cost_usd |-> OrNull(Amount), wall_clock_seconds |-> Amount,
   scorer_ref |-> Text, task_id |-> Text, harness |-> Text]

RouterFields ==
  [task_descriptor |-> Object, allowed_models |-> Array, selected_models |-> Object,
   success_under_budget |-> Boolean, completion_result |-> Results, observed_at |-> IsoDate]

RichFields ==
  RouterFields @@ [available_models |-> Object, outcome_labels |-> Object,
                   candidate_pool |-> Object, sparse_cell |-> Object]

\* One key stands for those that are still tolerated.
LegacyFields == {"scenario"}
RoutingFields == {"inference_log_id", "overrides"}
StageFields ==
  RoutingFields \cup {"stage_executions", "comparison_group", "integration", "sdk_version"}

ValidRowFields(version, fields, options, extra) ==
  /\ Requires(Root, fields) /\ Allows(Root, options)
  /\ Is(<<"schema_version">>, {version})
  /\ Closed(Root, {"schema_version"} \cup DOMAIN fields \cup DOMAIN options \cup extra)

ValidModels ==
  LET selected == <<"selected_models">>
  IN /\ ArrayOf(<<"allowed_models">>, Text)
     /\ Requires(selected, [coder |-> Text, reviewer |-> Text])
     /\ Allows(selected, [planner |-> Text]) /\ Closed(selected, RouteRoles)

ValidRouterRow == ValidRowFields("row/v1", RouterFields, RowOptions, LegacyFields) /\ ValidModels

ValidCandidatePool(p) ==
  /\ Requires(p, [scenario_id |-> Text, scenario_kind |-> Text, pool_size |-> Amount])
  /\ Allows(p, [baseline_model |-> Text])
  /\ Closed(p, {"scenario_id", "scenario_kind", "pool_size", "baseline_model"})

ValidRichRow(version, extra) ==
  LET available == <<"available_models">>
      keys == {"planner_models", "coder_models", "reviewer_models"}
  IN /\ ValidRowFields(version, RichFields, RowOptions, LegacyFields \cup extra) /\ ValidModels
     /\ Obj(available, [key \in keys |-> Array])
     /\ \A key \in keys : ArrayOf(At(available, key), Text)
     /\ Obj(<<"outcome_labels">>,
          [budget_label |-> {"under_budget", "over_budget", "unknown"},
           cost_label |-> {"free", "low", "medium", "high", "unknown"},
           time_label |-> {"fast", "medium", "slow", "unknown"}, success_label |-> Results])
     /\ ValidCandidatePool(<<"candidate_pool">>)
     /\ Obj(<<"sparse_cell">>, [cell_id |-> Text, descriptor_signature |-> Text,
                                observed_count |-> Amount, is_sparse |-> Boolean])

ValidHarnessRow(version, extra) ==
  LET fields == [key \in {"task_descriptor", "allowed_models", "selected_models",
                          "completion_result"} |-> RouterFields[key]]
      options == [budget_usd |-> Amount, actual_cost_usd |-> Amount, wall_clock_seconds |-> Amount,
                  success_under_budget |-> Boolean, inference_log_id |-> Text, harness |-> Text,
                  task_id |-> Text, observed_at |-> IsoDate, harness_metadata |-> Object]
      metadata == [harness |-> Text, sdk_version |-> Text]
  IN /\ ValidRowFields(version, fields, options, extra) /\ ValidModels
     /\ Children(<<"task_descriptor">>) # {} /\ NonEmpty(<<"allowed_models">>)
     /\ Allows(<<"harness_metadata">>, metadata) /\ Closed(<<"harness_metadata">>, DOMAIN metadata)

ValidSubmitRow ==
  LET options ==
        [inputs |-> Object, actual_cost_usd |-> OrNull(Amount), wall_clock_seconds |-> Amount,
         task_id |-> Text, harness |-> Text, outcome_diagnostic |-> {"eligible", "unknown"},
         outcome_source |-> {"reconstructed", "unknown"}, outcome_artifact_present |-> Boolean,
         outcome_artifact_valid |-> Boolean, outcome_artifact_used |-> Boolean,
         outcome_missing_fields |-> Array, outcome_invalid_fields |-> Array,
         outcome_failure_reason |-> Text]
  IN /\ Requires(Root, [success_under_budget |-> Boolean]) /\ Allows(Root, options)
     /\ Closed(Root, {"success_under_budget"} \cup DOMAIN options)
     /\ \A list \in {<<"outcome_missing_fields">>, <<"outcome_invalid_fields">>} :
          Optional(list, LAMBDA p : ArrayOf(p, Text))

-----------------------------------------------------------------------------
\* A routed row lists its overrides: for each role they chain, and the last one
\* ends at the model that ran.
Before(q, r) == q[Len(q)] = "1" /\ r[Len(r)] = "2"
FinalOf(p, key) ==
  {q \in Children(p) : \A r \in Children(p) : Before(q, r) => Value(q, key) # Value(r, key)}
Ran(role, model) == Is(<<"selected_models", role>>, {model})

RoutingHoldsOf(p) ==
  /\ Items(p, LAMBDA q :
       Obj(q, [role |-> RouteRoles, source |-> OverrideSources, from |-> SomeText, to |-> SomeText,
               reason |-> RouteSlug])
         /\ Value(q, "from") # Value(q, "to"))
  /\ \A q, r \in Children(p) :
       Before(q, r) /\ Value(q, "role") = Value(r, "role") => Value(q, "to") = Value(r, "from")
  /\ \A q \in FinalOf(p, "role") : Ran(Value(q, "role"), Value(q, "to"))

ValidRouting ==
  /\ Has(<<"inference_log_id">>) <=> Has(<<"overrides">>)
  /\ Allows(Root, [inference_log_id |-> SomeText])
  /\ Optional(<<"overrides">>, RoutingHoldsOf)

-----------------------------------------------------------------------------
\* The cost summary of a stage.  Fields it does not know are tolerated.
ValidUsage(p) == Requires(p, [f \in TokenFields |-> OrNull(NonNegativeInt)])

ValidSegment(p) ==
  /\ Requires(p, [model |-> Model, turn_count |-> NonNegativeInt, cost_source |-> SummarySources,
                  actual_cost_usd |-> OrNull(Amount), estimated_cost_usd |-> OrNull(Amount)])
  /\ ValidUsage(At(p, "usage"))

ValidSummary(p) ==
  /\ Requires(p,
       [schema_version |-> {"summary/v1"}, task_id |-> Identifier, session_ids |-> Array,
        harness |-> CostHarnesses, provider_contract_version |-> {"codex/1"}, models |-> Array,
        model_segments |-> Array, turn_count |-> NonNegativeInt, turns_truncated |-> Boolean,
        actual_cost_usd |-> OrNull(Amount), estimated_cost_usd |-> OrNull(Amount),
        total_cost_usd |-> OrNull(Amount), cost_source |-> SummarySources,
        cost_basis |-> {"per_token_api", "subscription", "unknown"},
        coverage |-> {"complete", "partial", "unavailable", "known_zero"},
        pricing_source |-> {"local_estimate", "openrouter_api", "mixed", "none"},
        join_confidence |-> {"branch_worktree", "unattributed"}, collected_at |-> Timestamp,
        event_count |-> NonNegativeInt, event_ids |-> Array, diagnostics |-> Array])
  /\ Allows(p, [root_session_id |-> Identifier, harness_version |-> SdkVersion,
                pricing_revision |-> SdkVersion, pricing_timestamp |-> Timestamp])
  /\ ArrayOf(At(p, "session_ids"), Identifier) /\ ArrayOf(At(p, "models"), Model)
  /\ Items(At(p, "model_segments"), ValidSegment) /\ ValidUsage(At(p, "usage"))
  /\ Requires(At(p, "field_availability"),
       [key \in {"usage", "actual_cost", "estimated_cost", "pricing"} |-> Availabilities])
  /\ ArrayOf(At(p, "event_ids"), Identifier)
  /\ Halves(Value(p, "event_count")) = 2 * Cardinality(Children(At(p, "event_ids")))
  /\ ArrayOf(At(p, "diagnostics"), {"missing_token_usage", "unpriced_model"})
  /\ NoneBelow(p, SummaryForbiddenKeys)

-----------------------------------------------------------------------------
\* The stages of a row, in the order they ran: the last of a kind ran the model that
\* is selected for its role, and each cost the task of the row.
ValidExecution(p) ==
  LET task == <<"task_id">>
  IN /\ Obj(p, [stage |-> Stages, executed_model |-> SomeText, model_evidence |-> ModelEvidence,
                harness |-> StageHarness, task_cost |-> Object])
     /\ ValidSummary(At(p, "task_cost"))
     /\ Is(task, Text) => Is(p \o <<"task_cost", "task_id">>, {record[task]})

ValidStages ==
  LET list == <<"stage_executions">>
      group == <<"comparison_group">>
  IN /\ NonEmpty(list) /\ \A q \in Children(list) : ValidExecution(q)
     /\ \A q \in FinalOf(list, "stage") :
          LET stage == Value(q, "stage")
          IN stage # "ci-fix" => Ran(RoleOfStage[stage], Value(q, "executed_model"))
     /\ Optional(group, LAMBDA p : Obj(p, [id |-> MintedId, role_varied |-> RouteRoles]))
     /\ Optional(<<"integration">>, LAMBDA p : Obj(p, NoFields))
     /\ Allows(Root, [sdk_version |-> SdkVersion])

ValidRow ==
  /\ NoneBelow(Root, RowForbiddenKeys \cup CopyKeys)
  /\ \/ ValidRouterRow
     \/ ValidRichRow("row/v2", {})
     \/ ValidRichRow("row/v3", RoutingFields) /\ ValidRouting
     \/ ValidRichRow("row/v4", StageFields) /\ ValidRouting /\ ValidStages
     \/ ValidHarnessRow("harness/v1", {})
     \/ ValidHarnessRow("harness/v2", {"overrides"}) /\ ValidRouting
     \/ ValidSubmitRow

\* A row without what its version added.
Lowered ==
  LET without(version, keys) ==
        [q \in {b \in DOMAIN record : b = Root \/ b[1] \notin keys} |->
           IF q = <<"schema_version">> THEN version ELSE record[q]]
  IN CASE Is(<<"schema_version">>, {"row/v4"}) -> without("row/v3", StageFields \ RoutingFields)
       [] Is(<<"schema_version">>, {"row/v3"}) -> without("row/v2", RoutingFields)
       [] Is(<<"schema_version">>, {"row/v2"}) ->
            without("row/v1", DOMAIN RichFields \ DOMAIN RouterFields)
       [] Is(<<"schema_version">>, {"harness/v2"}) -> without("harness/v1", {"overrides"})
       [] OTHER -> record
=============================================================================

---------------------------- MODULE ReportContract ----------------------------
(***************************************************************************)
(* The contract of an arbiter_report/v1: its types, its JSON schema and the *)
(* checks between its parts (core/src/arbiter-report.ts), and the cached    *)
(* row of a scan, from which reports are made (scan/src/orchestrate).       *)
(* Features and labels are those of LabelContract.                          *)
(***************************************************************************)
EXTENDS LabelContract

PullRequest1 == <<"prs", "1">>
Sections == {"survival_by_horizon", "risk_ratios", "survival_by_model", "survival_by_harness",
             "cost_adjusted_survival_by_model"}
SectionPath(name) == <<"aggregates", name>>
CellKeys == {"cell", "rework_rate", "baseline_rate", "ratio"}

\* One or two values stand for those of an enumeration.
Bases == {"descriptive", "out_of_sample_prediction"}
SuppressionReasons == {"n_below_floor", "no_model_provenance"}
AttributionMethods == {"bot_author", "branch_prefix"}
ReportId == PolicyVersion
ReportModelId == {"word", "a_word", "ci.build", "99", "org/model"}
ReportForbiddenKeys == {"prompt", "line_ranges", "path", "title", "merge_sha"}
Buckets == [tests_changed |-> {"true", "false"}, loc_touched |-> {"q1", "q2"}]

-----------------------------------------------------------------------------
\* The types: what is written where, shown or suppressed.
Flag(b) == IF b THEN "#true" ELSE "#false"
NoReasons(p) == Listed(At(p, "suppression_reasons"), <<>>)
Reasons(p, shown) ==
  Listed(At(p, "suppression_reasons"), IF shown THEN <<>> ELSE <<"n_below_floor">>)

WrittenCell(p, basis, shown) ==
  Written(p, [basis |-> basis, n |-> "#2", value |-> IF shown THEN "#1" ELSE "null",
              ci |-> "null", suppressed |-> Flag(~shown)])
    @@ Reasons(p, shown)

Interval(p) == Written(p, [low |-> "#1/2", high |-> "#2", level |-> "#0.95"])

WrittenSection(name, shown, horizon) ==
  LET p == SectionPath(name)
      row == p \o <<"rows", "1">>
      cells == IF name = "risk_ratios" THEN {"rework_rate", "baseline_rate", "ratio"} ELSE {"cell"}
      fields ==
        CASE name = "survival_by_horizon" -> [outcome |-> "survived"]
          [] name = "risk_ratios" -> [feature |-> "tests_changed", bucket |-> "true"]
          [] name = "survival_by_model" -> [model_id |-> "org/model"]
          [] name = "survival_by_harness" -> [harness_id |-> "word"]
          [] OTHER -> [model_id |-> "org/model", cost_basis |-> "actual"]
      Joined[rest \in SUBSET cells] ==
        IF rest = {} THEN <<>>
        ELSE LET cell == CHOOSE c \in rest : TRUE
             IN WrittenCell(At(row, cell), "descriptive", shown) @@ Joined[rest \ {cell}]
  IN (IF shown /\ name = "survival_by_horizon" THEN Interval(row \o <<"cell", "ci">>) ELSE <<>>)
       @@ Written(p, [basis |-> "descriptive", status |-> IF shown THEN "shown" ELSE "suppressed"])
       @@ Reasons(p, shown) @@ Listed(At(p, "rows"), <<"{}">>)
       @@ Written(row, [horizon_days |-> horizon] @@ fields) @@ Joined[cells]

\* A dimension of what made a pull request.
WrittenDimension(p, fields) ==
  Written(p, [confidence |-> "#1"] @@ fields) @@ Listed(At(p, "methods"), <<"bot_author">>)

WrittenAttribution(p) ==
  Written(p, NoFields)
    @@ WrittenDimension(At(p, "agent"), [status |-> "agent"])
    @@ WrittenDimension(At(p, "harness"), [id |-> "word"])
    @@ WrittenDimension(At(p, "exact_model"), [id |-> "org/model", evidence |-> "heuristic"])

\* projectSurvivalLabel, of the label that is the record.
Projected(p) ==
  Written(p, [horizon_days |-> Value(Root, "horizon_days"), label_hash |-> "sha64",
              label_provenance |-> Value(Root, "label_provenance")])
    @@ Copy(OutcomePath, At(p, "outcome"))

SurvivedLabel(p) ==
  Written(p, [horizon_days |-> "#14", label_hash |-> "sha64", label_provenance |-> "harvested"])
    @@ Written(At(p, "outcome"),
         [report_outcome |-> "survived"] @@ Components("#true", "#1", "#false", "null", "#false"))
    @@ Listed(p \o <<"outcome", "reason_codes">>, <<"no_evidence">>)

WrittenPullRequest(predicted, priced, label) ==
  LET p == PullRequest1 IN
  Written(p, [pr_number |-> "#1", merged_at |-> "t1",
              cost |-> IF priced THEN "{}" ELSE "null",
              prediction |-> IF predicted THEN "{}" ELSE "null"])
    @@ WrittenAttribution(At(p, "attribution"))
    @@ WrittenFeatures(At(p, "features"), MeasuredFeatures)
    @@ Listed(At(p, "labels"), <<"{}">>) @@ label
    @@ (IF priced
        THEN Written(At(p, "cost"), [actual_usd |-> "#1", estimated_usd |-> "null",
               cost_source |-> "provider_reported", coverage |-> "complete",
               pricing_revision |-> "null"])
        ELSE <<>>)
    @@ (IF predicted
        THEN Written(At(p, "prediction"),
               [basis |-> "out_of_sample_prediction", score |-> "#1/2", flagged |-> "#true"])
        ELSE <<>>)

WrittenScan(horizon) ==
  Written(<<"scan">>, [scanned_at |-> "t2", as_of |-> "t1", integration_branch |-> "org/model",
                       lookback_days |-> "#2"])
    @@ Written(<<"scan", "scanner">>, [package |-> "scan", version |-> "1.0.0"])
    @@ Written(<<"scan", "window">>, [merged_from |-> "t1", merged_to |-> "t2"])
    @@ Listed(<<"scan", "horizons_days">>, <<horizon>>)
    @@ Written(<<"scan", "contracts">>, [candidate_features |-> FeaturesVersion,
         survival_label |-> "1.0.0", labeller_version |-> "1.0.0",
         normalization_version |-> "1.0.0"])

WrittenCoverage(horizon) ==
  LET p == <<"coverage">>
      a == At(p, "attribution")
      dimension == [identified |-> "#1", unknown |-> "#0", rate |-> "#1"]
  IN Written(p, [basis |-> "descriptive", prs_enumerated |-> "#1", prs_eligible |-> "#1"])
       @@ Listed(At(p, "labels_by_horizon"), <<"{}">>)
       @@ Written(p \o <<"labels_by_horizon", "1">>, [horizon_days |-> horizon, labelled |-> "#1"])
       @@ Listed(p \o <<"labels_by_horizon", "1", "missing">>, <<"{}">>)
       @@ Written(p \o <<"labels_by_horizon", "1", "missing", "1">>,
                  [reason |-> "missing_horizon", count |-> "#0"])
       @@ Written(a, NoFields)
       @@ Written(At(a, "agent"), [identified_agent |-> "#1", identified_human_signal |-> "#0",
                                   unknown |-> "#0", rate |-> "#1"])
       @@ Written(At(a, "harness"), dimension) @@ Written(At(a, "exact_model"), dimension)
       @@ Listed(At(a, "methods"), <<"{}">>)
       @@ Written(a \o <<"methods", "1">>,
                  [dimension |-> "agent", method |-> "bot_author", count |-> "#1"])

WrittenCost(shown) ==
  LET p == <<"cost">>
      common == [basis |-> "descriptive", coverage |-> "complete", prs_priced |-> "#1",
                 prs_unknown |-> "#0", suppressed |-> Flag(~shown),
                 total_usd |-> IF shown THEN "#1" ELSE "null"]
  IN Written(p, NoFields)
       @@ Written(At(p, "actual"), [cost_source |-> "provider_reported"] @@ common)
       @@ Written(At(p, "estimated"), [cost_source |-> "local_estimate", kind |-> "estimate",
            pricing_revision |-> "word", pricing_timestamp |-> "t1",
            unpriced_models |-> "#0"] @@ common)
       @@ Reasons(At(p, "actual"), shown) @@ Reasons(At(p, "estimated"), shown)

WrittenRetrospective(shown) ==
  LET p == <<"retrospective">>
      cell(key) == WrittenCell(At(p, key), "out_of_sample_prediction", shown)
  IN Written(p, [basis |-> "out_of_sample_prediction", horizon_days |-> "#14",
                 threshold |-> "#1/2", calibration |-> "portable", n_reworked |-> "#1",
                 suppressed |-> Flag(~shown)])
       @@ cell("precision") @@ cell("recall") @@ cell("flagged_share") @@ Reasons(p, shown)

WrittenProvenance ==
  Written(<<"model_provenance">>,
    [head_id |-> "word", head_version |-> "1.0.0", trained_on |-> "word",
     training_repo_count |-> "#1", split |-> "time_split", split_date |-> "day",
     repo_in_training_set |-> "#false", trained_at |-> "t1"])

WrittenPolicy ==
  Written(<<"policy">>, [policy_version |-> "1.0.0", min_cell_n |-> "#1",
    min_agent_coverage |-> "#1/2", min_harness_coverage |-> "#1/2",
    min_exact_model_coverage |-> "#1/2", min_cost_coverage |-> "#1/2",
    min_reworked_for_retrospective |-> "#1", ci_method |-> "wilson", ci_level |-> "#0.95"])

\* A report with or without predictions, a retrospective and costs.
WrittenReport(parts, shown, horizon, label) ==
  LET predicts == parts \cap {"prediction", "retrospective"} # {}
      optional(part, fields) == IF part \in parts THEN fields ELSE <<part>> :> "null"
      section(name, visible) == WrittenSection(name, visible, horizon)
  IN Written(Root, [schema_version |-> "report/v1", data_origin |-> "scan"])
       @@ Written(<<"repo">>, [host |-> "github", owner |-> "word", name |-> "a_word"])
       @@ WrittenScan(horizon) @@ WrittenPolicy @@ WrittenCoverage(horizon)
       @@ Listed(<<"prs">>, <<"{}">>)
       @@ WrittenPullRequest("prediction" \in parts, "cost" \in parts, label)
       @@ Written(<<"aggregates">>, NoFields)
       @@ section("survival_by_horizon", shown) @@ section("risk_ratios", shown)
       @@ section("survival_by_model", shown) @@ section("survival_by_harness", shown)
       @@ section("cost_adjusted_survival_by_model", shown /\ "cost" \in parts)
       @@ optional("retrospective", WrittenRetrospective(shown))
       @@ optional("cost", WrittenCost(shown))
       @@ (IF predicts THEN WrittenProvenance ELSE <<"model_provenance">> :> "null")
       @@ Written(<<"eligibility">>,
            [exact_model_table |-> Flag(shown), harness_table |-> Flag(shown),
             cost_adjusted_by_model |-> Flag(shown /\ "cost" \in parts),
             retrospective |-> Flag(shown), model_routing_cta |-> Flag(shown)])
       @@ Listed(<<"eligibility", "reasons">>, IF shown THEN <<>> ELSE <<"n_below_floor">>)

WrittenReports ==
  LET all == {"prediction", "retrospective", "cost"}
  IN {WrittenReport(kind[1], kind[2], "#14", SurvivedLabel(PullRequest1 \o <<"labels", "1">>)) :
        kind \in {<<all, TRUE>>, <<all, FALSE>>}}

-----------------------------------------------------------------------------
\* The JSON schema, which the validator walks.  Every object is closed.
ReasonsSchema(p) ==
  LET reasons == At(p, "suppression_reasons")
  IN Items(reasons, LAMBDA q : record[q] \in SuppressionReasons)

\* The objects of an array, and an object or null.
Rows(p, kinds) == Items(p, LAMBDA q : Obj(q, kinds))
NullOr(p, Admits(_)) == Is(p, {"null"}) \/ Admits(p)

WholeNumber == NonNegativeInt \cup {"#101"}

CellSchema(p) ==
  /\ Obj(p, [basis |-> Bases, n |-> WholeNumber, value |-> OrNull(Numbers),
             ci |-> OrNull(Object), suppressed |-> Boolean, suppression_reasons |-> Array])
  /\ NullOr(At(p, "ci"),
       LAMBDA q : Obj(q, [low |-> Numbers, high |-> Numbers, level |-> {"#0.95"}]))
  /\ ReasonsSchema(p)

RowKinds(name) ==
  [horizon_days |-> HorizonDays] @@
  CASE name = "survival_by_horizon" -> [outcome |-> ReportOutcomes \ {"null"}, cell |-> Object]
    [] name = "risk_ratios" ->
         [feature |-> DOMAIN Buckets, bucket |-> UNION {Buckets[f] : f \in DOMAIN Buckets},
          rework_rate |-> Object, baseline_rate |-> Object, ratio |-> Object]
    [] name = "survival_by_model" -> [model_id |-> ReportModelId, cell |-> Object]
    [] name = "survival_by_harness" -> [harness_id |-> ReportId, cell |-> Object]
    [] OTHER -> [model_id |-> ReportModelId, cost_basis |-> {"actual"}, cell |-> Object]

SectionRows(name) == Children(SectionPath(name) \o <<"rows">>)
CellsOf(row) == {q \in Children(row) : q[Len(q)] \in CellKeys}

SectionSchema(name) ==
  LET p == SectionPath(name)
  IN /\ Obj(p, [basis |-> Bases, status |-> {"shown", "suppressed"}, suppression_reasons |-> Array,
                rows |-> Array])
     /\ ReasonsSchema(p)
     /\ \A row \in SectionRows(name) :
          Obj(row, RowKinds(name)) /\ \A q \in CellsOf(row) : CellSchema(q)

ReportLabelSchema(p) ==
  LET outcome == At(p, "outcome")
  IN /\ Obj(p, [horizon_days |-> HorizonDays, label_provenance |-> {"harvested", "owner_corrected"},
                outcome |-> Object, label_hash |-> Digest])
     /\ Obj(outcome, [survived |-> OrNull(Boolean), survival_ratio |-> OrNull(Probability),
                      reverted |-> OrNull(Boolean), undone_by |-> {"human", "agent", "null"},
                      followup |-> OrNull(Boolean), report_outcome |-> ReportOutcomes,
                      reason_codes |-> Array])
     /\ Items(At(outcome, "reason_codes"), LAMBDA q : record[q] \in LabelReasons)

DimensionSchema(p, kinds) ==
  /\ Obj(p, [confidence |-> OrNull(Probability), methods |-> Array] @@ kinds)
  /\ Items(At(p, "methods"), LAMBDA q : record[q] \in AttributionMethods)

MakersSchema(p) ==
  /\ Obj(p, [agent |-> Object, harness |-> Object, exact_model |-> Object])
  /\ DimensionSchema(At(p, "agent"), [status |-> {"agent", "not_agent_signal", "unknown"}])
  /\ DimensionSchema(At(p, "harness"), [id |-> OrNull(ReportId)])
  /\ DimensionSchema(At(p, "exact_model"),
       [id |-> OrNull(ReportModelId), evidence |-> OrNull({"first_party_executed", "heuristic"})])

CostSources == {"provider_reported", "local_estimate"}
CostCoverages == {"complete", "partial"}
Price == OrNull(AtLeast(0))

PullRequestSchema(p) ==
  /\ Obj(p, [pr_number |-> WholeNumber \ {"#0"}, merged_at |-> UtcTimestamp,
             attribution |-> Object, features |-> Object, labels |-> Array,
             cost |-> OrNull(Object), prediction |-> OrNull(Object)])
  /\ MakersSchema(At(p, "attribution"))
  /\ FeaturesSchema(At(p, "features"))
  /\ Items(At(p, "labels"), ReportLabelSchema)
  /\ NullOr(At(p, "cost"), LAMBDA q :
       Obj(q, [actual_usd |-> Price, estimated_usd |-> Price, cost_source |-> CostSources,
               coverage |-> CostCoverages, pricing_revision |-> OrNull(ReportId)]))
  /\ NullOr(At(p, "prediction"), LAMBDA q :
       Obj(q, [basis |-> {"out_of_sample_prediction"}, score |-> Probability, flagged |-> Boolean]))

ScanSchema(p) ==
  /\ Obj(p, [scanned_at |-> UtcTimestamp, as_of |-> UtcTimestamp, scanner |-> Object,
             integration_branch |-> SomeText, lookback_days |-> WholeNumber \ {"#0"},
             window |-> Object, horizons_days |-> Array, contracts |-> Object])
  /\ Obj(At(p, "scanner"), [package |-> {"scan"}, version |-> Semver])
  /\ Obj(At(p, "window"), [merged_from |-> UtcTimestamp, merged_to |-> UtcTimestamp])
  /\ ArrayOf(At(p, "horizons_days"), HorizonDays) /\ Children(At(p, "horizons_days")) # {}
  /\ Distinct(At(p, "horizons_days"))
  /\ Obj(At(p, "contracts"),
       [candidate_features |-> {FeaturesVersion}, survival_label |-> {"1.0.0"},
        labeller_version |-> Semver, normalization_version |-> Semver])

ReportPolicySchema(p) ==
  Obj(p, [policy_version |-> Semver, min_cell_n |-> WholeNumber \ {"#0"},
          min_reworked_for_retrospective |-> WholeNumber, ci_method |-> {"wilson", "katz_log"},
          ci_level |-> {"#0.95"}]
         @@ [key \in {"min_agent_coverage", "min_harness_coverage", "min_exact_model_coverage",
                      "min_cost_coverage"} |-> Probability])

CoverageSchema(p) ==
  LET a == At(p, "attribution")
      dimension == [identified |-> WholeNumber, unknown |-> WholeNumber, rate |-> Probability]
  IN /\ Obj(p, [basis |-> {"descriptive"}, prs_enumerated |-> WholeNumber,
                prs_eligible |-> WholeNumber, labels_by_horizon |-> Array, attribution |-> Object])
     /\ Rows(At(p, "labels_by_horizon"),
             [horizon_days |-> HorizonDays, labelled |-> WholeNumber, missing |-> Array])
     /\ \A q \in Children(At(p, "labels_by_horizon")) :
          Rows(At(q, "missing"), [reason |-> MissingReasonCodes, count |-> WholeNumber])
     /\ Obj(a, [agent |-> Object, harness |-> Object, exact_model |-> Object, methods |-> Array])
     /\ Obj(At(a, "agent"), [identified_agent |-> WholeNumber, unknown |-> WholeNumber,
                             identified_human_signal |-> WholeNumber, rate |-> Probability])
     /\ Obj(At(a, "harness"), dimension) /\ Obj(At(a, "exact_model"), dimension)
     /\ Rows(At(a, "methods"), [dimension |-> {"agent", "harness", "exact_model"},
                                method |-> AttributionMethods, count |-> WholeNumber])

CostSchema(p) ==
  LET common == [basis |-> {"descriptive"}, total_usd |-> Price, coverage |-> CostCoverages,
                 prs_priced |-> WholeNumber, prs_unknown |-> WholeNumber, suppressed |-> Boolean,
                 suppression_reasons |-> Array]
  IN /\ Obj(p, [actual |-> Object, estimated |-> Object])
     /\ Obj(At(p, "actual"), common @@ [cost_source |-> {"provider_reported"}])
     /\ Obj(At(p, "estimated"), common @@
          [kind |-> {"estimate"}, cost_source |-> {"local_estimate"},
           pricing_revision |-> OrNull(ReportId), pricing_timestamp |-> OrNull(UtcTimestamp),
           unpriced_models |-> WholeNumber])
     /\ ReasonsSchema(At(p, "actual")) /\ ReasonsSchema(At(p, "estimated"))

RetrospectiveSchema(p) ==
  LET cells == {"precision", "recall", "flagged_share"}
  IN /\ Obj(p, [basis |-> {"out_of_sample_prediction"}, horizon_days |-> HorizonDays,
                threshold |-> Probability, calibration |-> {"portable", "repo_calibrated"},
                n_reworked |-> WholeNumber, suppressed |-> Boolean, suppression_reasons |-> Array]
               @@ [key \in cells |-> Object])
     /\ \A key \in cells : CellSchema(At(p, key))
     /\ ReasonsSchema(p)

ProvenanceSchema(p) ==
  Obj(p, [head_id |-> ReportId, head_version |-> Semver, trained_on |-> ReportId,
          training_repo_count |-> WholeNumber, split |-> {"time_split", "leave_repo_out"},
          split_date |-> {"day"}, repo_in_training_set |-> Boolean, trained_at |-> UtcTimestamp])

ReportSchema ==
  /\ Obj(Root, [schema_version |-> {"report/v1"}, data_origin |-> {"scan", "fixture"}]
               @@ [key \in {"repo", "scan", "policy", "coverage", "aggregates", "eligibility"} |->
                     Object]
               @@ [key \in {"retrospective", "cost", "model_provenance"} |-> OrNull(Object)]
               @@ [prs |-> Array])
  /\ Obj(<<"repo">>, [host |-> {"github"}, owner |-> {"word", "99"},
                      name |-> {"word", "a_word", "ci.build", "99"}])
  /\ ScanSchema(<<"scan">>) /\ ReportPolicySchema(<<"policy">>) /\ CoverageSchema(<<"coverage">>)
  /\ Items(<<"prs">>, PullRequestSchema)
  /\ Obj(<<"aggregates">>, [name \in Sections |-> Object])
  /\ \A name \in Sections : SectionSchema(name)
  /\ NullOr(<<"retrospective">>, RetrospectiveSchema)
  /\ NullOr(<<"cost">>, CostSchema)
  /\ NullOr(<<"model_provenance">>, ProvenanceSchema)
  /\ Obj(<<"eligibility">>, [reasons |-> Array] @@
       [key \in {"exact_model_table", "harness_table", "cost_adjusted_by_model", "retrospective",
                 "model_routing_cta"} |-> Boolean])
  /\ Items(<<"eligibility", "reasons">>, LAMBDA q : record[q] \in SuppressionReasons)

-----------------------------------------------------------------------------
\* The checks between its parts.
HasProvenance == Is(<<"model_provenance">>, Object)
Predicts(p) == Is(At(p, "basis"), {"out_of_sample_prediction"})
True(p) == Is(p, {"#true"})
Declared(p) == \E q \in Children(<<"scan", "horizons_days">>) : record[q] = record[p]

ValidCell(p, basis) ==
  LET value == Value(p, "value")
      reasons == Children(At(p, "suppression_reasons"))
      ci == At(p, "ci")
  IN /\ IF True(At(p, "suppressed")) THEN value = "null" /\ Is(ci, {"null"}) /\ reasons # {}
        ELSE value # "null" /\ reasons = {}
     /\ Is(ci, Object) /\ value # "null" =>
          /\ Halves(Value(ci, "low")) <= Halves(value)
          /\ Halves(value) <= Halves(Value(ci, "high"))
     /\ Is(At(p, "basis"), {basis})
     /\ Predicts(p) => HasProvenance

ValidSection(name) ==
  LET p == SectionPath(name)
      suppressed == Is(At(p, "status"), {"suppressed"})
  IN /\ Predicts(p) => HasProvenance
     /\ suppressed => Children(At(p, "suppression_reasons")) # {}
     /\ \A row \in SectionRows(name) :
          /\ Declared(At(row, "horizon_days"))
          /\ \A q \in CellsOf(row) :
               ValidCell(q, Value(p, "basis")) /\ (suppressed => True(At(q, "suppressed")))

ValidEligibility ==
  LET eligible(flag) == True(<<"eligibility", flag>>)
      shown(name) == Is(At(SectionPath(name), "status"), {"shown"})
  IN /\ eligible("model_routing_cta") => eligible("exact_model_table")
     /\ shown("survival_by_model") => eligible("exact_model_table")
     /\ shown("survival_by_harness") => eligible("harness_table")
     /\ shown("cost_adjusted_survival_by_model") => eligible("cost_adjusted_by_model")
     /\ eligible("cost_adjusted_by_model") =>
          Is(<<"cost">>, Object) /\ ~True(<<"cost", "actual", "suppressed">>)

\* The counts are of one or two pull requests at most.
CountsAddUp ==
  LET a == <<"coverage", "attribution">>
      total == Halves(Value(<<"coverage">>, "prs_enumerated"))
      sum(p, keys) == FoldSet(LAMBDA key, n : n + Halves(Value(p, key)), 0, keys)
  IN /\ total = 2 * Cardinality(Children(<<"prs">>))
     /\ sum(At(a, "agent"), {"identified_agent", "identified_human_signal", "unknown"}) = total
     /\ sum(At(a, "harness"), {"identified", "unknown"}) = total
     /\ sum(At(a, "exact_model"), {"identified", "unknown"}) = total

ValidPullRequest(p) ==
  LET labels == Children(At(p, "labels"))
      horizons == {Value(q, "horizon_days") : q \in labels}
      declared == {record[q] : q \in Children(<<"scan", "horizons_days">>)}
  IN /\ Is(At(p, "prediction"), Object) => HasProvenance
     /\ Cardinality(labels) = Cardinality(declared) /\ horizons = declared
     /\ \A q \in labels : LET outcome == At(q, "outcome") IN
          Value(outcome, "report_outcome") =
            DerivedOutcome([key \in {"survived", "survival_ratio", "reverted", "followup"} |->
                              Value(outcome, key)], Threshold)

ValidRetrospective(p) ==
  /\ HasProvenance
  /\ \A key \in {"precision", "recall", "flagged_share"} :
       ValidCell(At(p, key), Value(p, "basis"))
  /\ ~True(At(p, "suppressed")) => True(<<"eligibility", "retrospective">>)

Days(leaf) == IF leaf = "#14" THEN 14 ELSE 30

ValidReport ==
  /\ ReportSchema
  /\ \A p, q \in Children(<<"scan", "horizons_days">>) :
       p[3] = "1" /\ q[3] = "2" => Days(record[p]) < Days(record[q])
  /\ \A name \in Sections : ValidSection(name)
  /\ \A row \in SectionRows("risk_ratios") : Value(row, "bucket") \in Buckets[Value(row, "feature")]
  /\ ValidEligibility
  /\ CountsAddUp
  /\ \A p \in Children(<<"prs">>) : ValidPullRequest(p)
  /\ Is(<<"retrospective">>, Object) => ValidRetrospective(<<"retrospective">>)

-----------------------------------------------------------------------------
\* The cached row of a scan (scan/src/orchestrate/state.ts): its label's horizon
\* is its key.
Horizon(leaf) == IF leaf = "#14" THEN "14" ELSE "30"

CachedRow ==
  LET labels == <<"labels_by_horizon">>
  IN Written(Root, [merge_sha |-> Value(Envelope, "merge_sha"), merged_at_epoch |-> "#1",
                    pr_number |-> "#1", merged_at |-> "t1"])
       @@ WrittenAttribution(<<"attribution">>) @@ WrittenFeatures(<<"features">>, MeasuredFeatures)
       @@ Written(labels, NoFields) @@ Projected(At(labels, Horizon(Value(Root, "horizon_days"))))

ValidCachedDimension(p, kinds) ==
  /\ RequiresOnly(p, [confidence |-> OrNull(Numbers), methods |-> Array] @@ kinds)
  /\ ArrayOf(At(p, "methods"), AttributionMethods)

ValidCachedLabel(p) ==
  LET outcome == At(p, "outcome")
  IN /\ RequiresOnly(p, [horizon_days |-> HorizonDays, outcome |-> Object, label_hash |-> Digest,
                         label_provenance |-> {"harvested", "owner_corrected"}])
     /\ RequiresOnly(outcome,
          [survived |-> OrNull(Boolean), survival_ratio |-> OrNull(Numbers),
           reverted |-> OrNull(Boolean), undone_by |-> {"human", "agent", "null"},
           followup |-> OrNull(Boolean), report_outcome |-> ReportOutcomes,
           reason_codes |-> Array])
     /\ ArrayOf(At(outcome, "reason_codes"), LabelReasons)
     /\ Horizon(Value(p, "horizon_days")) = p[Len(p)]

ValidCachedRow ==
  LET a == <<"attribution">>
  IN /\ RequiresOnly(Root,
          [merge_sha |-> GitSha, merged_at_epoch |-> WholeNumber, pr_number |-> PositiveInt,
           merged_at |-> Text, attribution |-> Object, features |-> Object,
           labels_by_horizon |-> Object])
     /\ RequiresOnly(a, [agent |-> Object, harness |-> Object, exact_model |-> Object])
     /\ ValidCachedDimension(At(a, "agent"), [status |-> {"agent", "not_agent_signal", "unknown"}])
     /\ ValidCachedDimension(At(a, "harness"), [id |-> OrNull(Text)])
     /\ ValidCachedDimension(At(a, "exact_model"),
          [id |-> OrNull(Text), evidence |-> OrNull({"first_party_executed", "heuristic"})])
     /\ ValidFeatures(<<"features">>)
     /\ \A q \in Children(<<"labels_by_horizon">>) :
          q[2] \in {"14", "30"} /\ ValidCachedLabel(q)
=============================================================================

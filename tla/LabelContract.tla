---------------------------- MODULE LabelContract ----------------------------
(***************************************************************************)
(* What the scanner writes of a merged pull request: its features          *)
(* (candidate_features/v1) and its survival label, each in its own         *)
(* contract, and the records other tools make of them: the rows and the    *)
(* state of the shadow log, and the cached row of a scan.                  *)
(***************************************************************************)
EXTENDS JsonRecord

-----------------------------------------------------------------------------
\* The definitions of the features (candidate-features.ts).
Whole == [kind |-> "integer", minimum |-> 0]
Ranged(low, high) == [kind |-> "number", minimum |-> low, maximum |-> high]
Either == [kind |-> "boolean"]
OneOf(values) == [kind |-> "enum", values |-> values]

ShapeFeatures ==
  [files_touched |-> Whole, lines_added |-> Whole, lines_deleted |-> Whole,
   loc_touched |-> Whole, dependency_depth |-> Whole,
   module_hotspot_score |-> Ranged(0, 100), diff_uncertain |-> Either]

StaticFeatures ==
  [type_errors |-> Whole, lint_errors |-> Whole, build_ok |-> Either,
   complexity_delta |-> [kind |-> "number"]]

TestFeatures ==
  [tests_changed |-> Either, test_pass_rate |-> Ranged(0, 1),
   test_runtime_seconds |-> [kind |-> "number", minimum |-> 0]]

\* Two values stand for those of each enumeration.
IntentFeatures ==
  [task_type |-> OneOf({"feature", "bugfix"}), language |-> OneOf({"typescript", "python"}),
   domain |-> OneOf({"backend", "frontend"}), complexity |-> Ranged(0, 10),
   repo_size_bucket |-> OneOf({"small", "large"}),
   files_touched_bucket |-> OneOf({"small", "large"}),
   description_length_bucket |-> OneOf({"small", "large"}),
   risk_level |-> OneOf({"low", "high"})]
  @@ [key \in {"is_greenfield", "is_migration", "requires_tests", "cross_service", "ui_heavy"} |->
        Either]

ProvenanceFeatures ==
  [key \in {"touched_out_of_scope_files", "human_intervention_count", "review_rounds",
            "change_requests", "self_review_iterations", "agent_iterations"} |-> Whole]

Features ==
  ShapeFeatures @@ StaticFeatures @@ TestFeatures @@ IntentFeatures @@ ProvenanceFeatures

FeaturesVersion == "features/v1"

\* A vector is finalized from what was measured: the rest is null.
WrittenFeatures(p, measured) ==
  Written(p, [schema_version |-> FeaturesVersion] @@ measured
               @@ [name \in DOMAIN Features |-> "null"])

MeasuredFeatures == [files_touched |-> "#1", build_ok |-> "#true", test_pass_rate |-> "#1/2",
             task_type |-> "bugfix"]

\* The validator takes the definitions one way,
ValidFeature(definition, leaf) ==
  \/ leaf = "null"
  \/ definition.kind = "boolean" /\ leaf \in Boolean
  \/ definition.kind = "enum" /\ leaf \in definition.values
  \/ /\ definition.kind \in {"integer", "number"} /\ leaf \in Numbers
     /\ definition.kind = "integer" => leaf # "#1/2"
     /\ "minimum" \in DOMAIN definition => Halves(leaf) >= 2 * definition.minimum
     /\ "maximum" \in DOMAIN definition => Halves(leaf) <= 2 * definition.maximum

ValidFeatures(p) ==
  /\ Is(p, Object) /\ Closed(p, {"schema_version"} \cup DOMAIN Features)
  /\ Is(At(p, "schema_version"), {FeaturesVersion})
  /\ \A name \in DOMAIN Features : Has(At(p, name)) /\ ValidFeature(Features[name], Value(p, name))

\* and the JSON schema another.
FeatureSchema(definition) ==
  LET low == IF "minimum" \in DOMAIN definition THEN AtLeast(definition.minimum) ELSE Numbers
      high == IF "maximum" \in DOMAIN definition THEN From(-1, definition.maximum) ELSE Numbers
  IN {"null"} \cup
     CASE definition.kind = "enum" -> definition.values
       [] definition.kind = "boolean" -> Boolean
       [] definition.kind = "integer" -> (low \cap high) \ {"#1/2"}
       [] definition.kind = "number" -> low \cap high

FeaturesSchema(p) ==
  Obj(p, [schema_version |-> {FeaturesVersion}]
           @@ [name \in DOMAIN Features |-> FeatureSchema(Features[name])])

-----------------------------------------------------------------------------
\* The survival label (arbiter-survival-label.ts): "14" and "30" stand for the
\* horizons, "sha64" for an id of a SHA-256 repository and for a digest.
GitId == GitSha \cup {"sha64"}
Digest == {"sha64"}
LabelVersions == {"1.0.0", "1.1.0"}
Semver == {"1.0.0", "1.1.0"}
HorizonDays == {"#14", "#30"}
MissingReasonCodes == {"missing_horizon", "inaccessible_history"}
LabelReasons == {"exact_revert", "substantial_rewrite", "line_range_followup", "no_evidence"}
                 \cup MissingReasonCodes
ReportOutcomes == {"survived", "followup", "substantially_rewritten", "reverted", "null"}

OutcomePath == <<"outcome">>
Envelope == <<"envelope">>
Correction == <<"owner_correction">>

\* An outcome's components, of which the reported outcome is derived.
DerivedOutcome(components, threshold) ==
  IF \E key \in {"survived", "survival_ratio", "reverted", "followup"} : components[key] = "null"
  THEN "null"
  ELSE CASE components.reverted = "#true" -> "reverted"
         [] Halves(components.survival_ratio) < threshold -> "substantially_rewritten"
         [] components.followup = "#true" -> "followup"
         [] OTHER -> "survived"

\* The threshold is a half, unless a label of older days is replayed.
Threshold == 1

Components(survived, ratio, reverted, undone, followup) ==
  [survived |-> survived, survival_ratio |-> ratio, reverted |-> reverted,
   undone_by |-> undone, followup |-> followup]

\* What the labeller finds, with the codes it gives.
Found == {
  <<Components("null", "null", "null", "null", "null"), <<"inaccessible_history">>>>,
  <<Components("#true", "#1", "#false", "null", "#false"), <<"no_evidence">>>>,
  <<Components("#false", "#1/2", "#false", "human", "#true"), <<"line_range_followup">>>>,
  <<Components("#false", "#0", "#false", "agent", "#true"), <<"substantial_rewrite">>>>,
  <<Components("#false", "#0", "#true", "human", "#true"),
    <<"exact_revert", "line_range_followup">>>>}

WrittenAnchor(p) == Written(p, [start |-> "#1", end |-> "#2", sha |-> "sha1"])

BuiltLabel(found, threshold, sha) ==
  LET range == <<"line_ranges", "1">>
      reported == DerivedOutcome(found[1], threshold)
  IN Written(Root, [schema_version |-> "1.1.0", prUrl |-> "url", horizon_days |-> "#14",
                    label_provenance |-> "harvested"])
       @@ Listed(<<"line_ranges">>, IF reported = "null" THEN <<>> ELSE <<"{}">>)
       @@ (IF reported = "null" THEN <<>>
           ELSE Written(range, [path |-> "word", old |-> "null"]) @@ WrittenAnchor(At(range, "new")))
       @@ Written(OutcomePath, [report_outcome |-> reported] @@ found[1])
       @@ Listed(At(OutcomePath, "reason_codes"), found[2])
       @@ Written(Envelope,
            [schema_version |-> "1.1.0", labeller_version |-> "1.0.0",
             normalization_version |-> "1.0.0", pr_head_sha |-> sha, merge_sha |-> sha,
             horizon_terminal_sha |-> sha, integration_branch |-> "main",
             integration_mode |-> "direct", computed_at |-> "t1"])

\* An owner corrects a label by another that names it.
Corrected(label) ==
  With(Root, "label_provenance", "owner_corrected")
    @@ Written(Correction, NoFields)
    @@ Written(At(Correction, "supersedes"),
         [schema_version |-> "1.1.0", computed_at |-> "t1", label_hash |-> "sha64"])
    @@ Written(At(Correction, "correction"),
         [reason_code |-> "owner_dispute", corrected_by |-> "word", corrected_at |-> "t2",
          previous_report_outcome |-> label[At(OutcomePath, "report_outcome")]])
    @@ label

WrittenLabels ==
  LET survived == CHOOSE found \in Found : found[1].survived = "#true"
      today == BuiltLabel(survived, Threshold, "sha1")
      mode == At(Envelope, "integration_mode")
  IN {BuiltLabel(found, Threshold, "sha1") : found \in Found}
       \cup {Corrected(today), BuiltLabel(survived, Threshold, "sha64"),
             With(Root, "schema_version", "1.0.0")
               @@ With(Envelope, "integration_branch", "word")
               @@ [p \in DOMAIN today \ {mode} |-> today[p]]}

-----------------------------------------------------------------------------
\* Its JSON schema.
AnchorSchema(p) == Obj(p, [start |-> PositiveInt, end |-> PositiveInt, sha |-> GitId])

LineRangeSchema(p) ==
  /\ Obj(p, [path |-> SomeText, old |-> OrNull(Object), new |-> OrNull(Object)])
  /\ \A q \in {At(p, "old"), At(p, "new")} : record[q] # "null" => AnchorSchema(q)
  /\ ~(Value(p, "old") = "null" /\ Value(p, "new") = "null")

OutcomeShape(p) ==
  /\ Obj(p, [survived |-> OrNull(Boolean), survival_ratio |-> OrNull(Probability),
             reverted |-> OrNull(Boolean), undone_by |-> {"human", "agent", "null"},
             followup |-> OrNull(Boolean), report_outcome |-> ReportOutcomes,
             reason_codes |-> Array])
  /\ ArrayOf(At(p, "reason_codes"), LabelReasons)
  /\ NonEmpty(At(p, "reason_codes")) /\ Distinct(At(p, "reason_codes"))

\* A label that is missing says why, and nothing else.
MissingSchema(p) ==
  LET codes == Children(At(p, "reason_codes"))
      missing == Value(p, "report_outcome") = "null"
  IN /\ missing => Cardinality(codes) = 1 /\ \A q \in codes : record[q] \in MissingReasonCodes
     /\ \A key \in {"survived", "survival_ratio", "reverted", "followup"} :
          missing <=> Value(p, key) = "null"
     /\ missing => Value(p, "undone_by") = "null"

OutcomeSchema(p) ==
  LET given == {record[q] : q \in Children(At(p, "reason_codes"))}
      reported == Value(p, "report_outcome")
  IN /\ OutcomeShape(p)
     /\ MissingSchema(p)
     /\ reported = "reverted" => Value(p, "reverted") = "#true" /\ "exact_revert" \in given
     /\ reported \in {"substantially_rewritten", "followup", "survived"} =>
          Value(p, "reverted") = "#false"
     /\ reported = "substantially_rewritten" => "substantial_rewrite" \in given
     /\ reported = "followup" => Value(p, "followup") = "#true"
     /\ reported = "survived" => Value(p, "survived") = "#true" /\ Value(p, "followup") = "#false"

EnvelopeSchema(p) ==
  LET required ==
        [schema_version |-> Semver, labeller_version |-> Semver, normalization_version |-> Semver,
         pr_head_sha |-> GitId, merge_sha |-> GitId, horizon_terminal_sha |-> GitId,
         integration_branch |-> SomeText, computed_at |-> UtcTimestamp]
  IN /\ Schema(p, DOMAIN required,
               required @@ [integration_mode |-> {"promotion", "direct"}])
     /\ Closed(p, DOMAIN required \cup {"integration_mode"})

CorrectionSchema(p) ==
  LET required == [reason_code |-> LabelReasons \cup {"owner_dispute"}, corrected_by |-> SomeText,
                   corrected_at |-> UtcTimestamp, previous_report_outcome |-> ReportOutcomes]
      given == At(p, "correction")
  IN /\ Obj(p, [supersedes |-> Object, correction |-> Object])
     /\ Obj(At(p, "supersedes"),
            [schema_version |-> Semver, computed_at |-> UtcTimestamp, label_hash |-> Digest])
     /\ Schema(given, DOMAIN required, required @@ [note |-> Text])
     /\ Closed(given, DOMAIN required \cup {"note"})

\* 1.0.0 walks no main branch and knows no modes; 1.1.0 asks for the mode.
ModeSchema(p) ==
  LET mode == At(p, "integration_mode")
      onMain == Value(p, "integration_branch") = "main"
  IN CASE Value(Root, "schema_version") = "1.0.0" -> ~Has(mode) /\ ~onMain
       [] Value(Root, "schema_version") = "1.1.0" -> Has(mode) /\ (onMain => record[mode] = "direct")

LabelSchema ==
  LET required == [schema_version |-> LabelVersions, prUrl |-> {"url"},
                   horizon_days |-> HorizonDays, line_ranges |-> Array, outcome |-> Object,
                   label_provenance |-> {"harvested", "owner_corrected"}, envelope |-> Object]
  IN /\ Schema(Root, DOMAIN required, required)
     /\ Closed(Root, DOMAIN required \cup {"owner_correction"})
     /\ Items(<<"line_ranges">>, LineRangeSchema)
     /\ OutcomeSchema(OutcomePath)
     /\ EnvelopeSchema(Envelope)
     /\ ModeSchema(Envelope)
     /\ Optional(Correction, CorrectionSchema)
     /\ Value(Root, "label_provenance") = "owner_corrected" <=> Has(Correction)

-----------------------------------------------------------------------------
\* The rows of the shadow log (arbiter-shadow-record.ts): one key stands for those
\* that carry text, and a digit for the horizons.
ShadowForbiddenKeys == {"prompt", "line_ranges", "path"}
Repository == {"org/model"}

NoShadowForbiddenKeys ==
  \A p \in DOMAIN record : p # Root => p[Len(p)] \notin ShadowForbiddenKeys

\* The head of a score row and of an outcome row.
RowHead(version) ==
  [schema_version |-> {version}, repo |-> Repository, pr_number |-> OrNull(PositiveInt),
   merge_sha |-> GitSha]

RequiresOnly(p, kinds) == Requires(p, kinds) /\ Closed(p, DOMAIN kinds)

ValidScoreRow ==
  /\ RequiresOnly(Root, RowHead("shadow_score/v1") @@
       [merged_at |-> Timestamp, scored_at |-> Timestamp, scorer_id |-> SomeText,
        scorer_version |-> SomeText, score |-> Probability, threshold |-> Probability,
        would_flag |-> Boolean, features |-> Object])
  /\ Is(<<"would_flag">>, {"#true"})
       <=> Halves(Value(Root, "score")) < Halves(Value(Root, "threshold"))
  /\ ValidFeatures(<<"features">>)
  /\ NoShadowForbiddenKeys

ValidOutcomeRow ==
  LET label == <<"label">>
      same(p, q) == IF Has(p) THEN Is(q, {record[p]}) ELSE ~Has(q)
  IN /\ RequiresOnly(Root, RowHead("shadow_outcome/v1") @@
          [horizon_days |-> HorizonDays, labelled_at |-> Timestamp,
           survived |-> OrNull(Boolean), label |-> Object])
     /\ Is(At(label, "schema_version"), LabelVersions)
     /\ same(At(label, "horizon_days"), <<"horizon_days">>)
     /\ Is(label \o Envelope, Object) =>
          same(label \o Envelope \o <<"merge_sha">>, <<"merge_sha">>)
     /\ Is(label \o OutcomePath, Object) =>
          /\ same(label \o OutcomePath \o <<"survived">>, <<"survived">>)
          /\ NonEmpty(label \o OutcomePath \o <<"reason_codes">>)
     /\ NoShadowForbiddenKeys

RunStatuses == {"ok", "partial", "error"}
ErrorCodes == {"STATE_CORRUPT", "CURSOR_RESET", "EXTRACT_FAILED", "DATA_DIR_UNWRITABLE", "INTERNAL"}

ValidShadowState ==
  RequiresOnly(Root,
    [schema_version |-> {"shadow_state/v1"}, repo |-> Repository,
     last_seen_merge_sha |-> OrNull(GitSha), last_run_at |-> OrNull(Timestamp),
     last_run_status |-> RunStatuses, last_error_code |-> OrNull(ErrorCodes),
     scorer_id |-> SomeText, scorer_version |-> SomeText])

-----------------------------------------------------------------------------
\* The rows that are made of features and of a label.
ScoreRow(score, threshold) ==
  LET flagged == IF Halves(score) < Halves(threshold) THEN "#true" ELSE "#false"
  IN Written(Root, [schema_version |-> "shadow_score/v1", repo |-> "org/model",
                    pr_number |-> "null", merge_sha |-> "sha1", merged_at |-> "t1",
                    scored_at |-> "t2", scorer_id |-> "word", scorer_version |-> "word",
                    score |-> score, threshold |-> threshold, would_flag |-> flagged])
       @@ Copy(Root, <<"features">>)

\* Line ranges, which name files, and a correction are left out.
OutcomeRow ==
  LET label == <<"label">>
      kept == {"schema_version", "prUrl", "horizon_days", "label_provenance", "outcome", "envelope"}
  IN Written(Root, [schema_version |-> "shadow_outcome/v1", repo |-> "org/model",
                    pr_number |-> "#1", merge_sha |-> Value(Envelope, "merge_sha"),
                    horizon_days |-> Value(Root, "horizon_days"), labelled_at |-> "t2",
                    survived |-> Value(OutcomePath, "survived")])
       @@ [q \in {q \in DOMAIN Copy(Root, label) : q = label \/ q[2] \in kept} |->
             Copy(Root, label)[q]]

\* The state a run of the scorer leaves, and the one read of a file that is none.
InitialState ==
  [schema_version |-> "shadow_state/v1", repo |-> "org/model", last_seen_merge_sha |-> "null",
   last_run_at |-> "null", last_run_status |-> "ok", last_error_code |-> "null",
   scorer_id |-> "word", scorer_version |-> "word"]

WrittenStates ==
  {Written(Root, InitialState)}
  \cup {Written(Root, [InitialState EXCEPT !.last_run_status = "error",
                                           !.last_error_code = "STATE_CORRUPT"])}
  \cup {Written(Root, [InitialState EXCEPT !.last_run_at = "t1", !.last_run_status = status,
                          !.last_seen_merge_sha = cursor, !.last_error_code = code]) :
          status \in RunStatuses, cursor \in {"null", "sha1"},
          code \in OrNull({"STATE_CORRUPT", "CURSOR_RESET", "INTERNAL"})}
=============================================================================

------------------------------ MODULE Contracts ------------------------------
(***************************************************************************)
(* Records written as their types say, edited a few times, judged by the   *)
(* validators and by the JSON schemas, and made into other records.        *)
(***************************************************************************)
EXTENDS AttemptContract, ReportContract, CorrectiveContract, RowContract, RouteContract

CONSTANT MaxEdits    \* bounds the edits of a record

VARIABLES
  contract,    \* what the record claims to be
  edits

contractVars == <<record, contract, edits>>

ValidRecord == IF Has(<<"event_type">>) THEN ValidEvent ELSE ValidLogEntry
SchemaAdmits == IF Has(<<"event_type">>) THEN EventSchema ELSE EntrySchema

\* Whether the readers of a record of the contract take it: a value, which guards
\* compare with TRUE so that TLC does not take its disjuncts for alternatives.
Taken ==
  CASE contract = "log" -> ValidRecord \/ SchemaAdmits
    [] contract = "features" -> ValidFeatures(Root)
    [] contract = "label" -> LabelSchema
    [] contract \in {"report", "labelled"} -> ValidReport
    [] contract \in {"candidate", "repair_pair", "corrective"} ->
         ReworkSchema /\ Is(<<"record_type">>, {contract})
    [] contract \in {"row", "lowered"} -> ValidRow
    [] contract = "score" -> ValidScoreRow
    [] contract = "outcome" -> ValidOutcomeRow
    [] contract = "cached" -> ValidCachedRow
    [] contract = "state" -> ValidShadowState
    [] contract = "route" -> ValidRouteRequest
    [] contract = "answer" -> Answered \/ ValidRouteResponse
    [] contract = "routed" -> ValidRouteResponse
    [] contract = "receipted" -> ValidReceipt
    [] contract = "submission" -> TRUE
    [] contract = "ranked" -> PoolsAreSaid /\ EveryRoleIsRanked
    [] contract = "sent" -> PoolsAreSaid

\* Every entry and event type in every scope, the largest in one, and one type by
\* every actor.
WrittenLogRecords ==
  WrittenEntries
  \cup {WrittenEvent(type, scope, "operator") : <<type, scope>> \in
          {pair \in EventTypes \X {"pr", "candidate"} :
             pair[2] \in EventScopes[pair[1]] /\ pair # <<"recovery_decision", "pr">>}}
  \cup {WrittenEvent("dequeued", "pr", kind) : kind \in ActorKinds}

WrittenRecords(kind) ==
  CASE kind = "log" -> WrittenLogRecords
    [] kind = "features" -> {WrittenFeatures(Root, MeasuredFeatures)}
    [] kind = "label" -> WrittenLabels
    [] kind = "report" -> WrittenReports
    [] kind = "candidate" -> WrittenCandidates
    [] kind = "row" -> WrittenRows
    [] kind = "state" -> WrittenStates
    [] kind = "route" -> WrittenRequests
    [] kind = "answer" -> WrittenAnswers
    [] kind = "submission" -> WrittenReceipts

-----------------------------------------------------------------------------
\* What an edit may write: of the right kind or of another, and null.
Tried(key) ==
  CASE key \in {"head_sha", "base_sha", "candidate_sha", "previous_head_sha", "previous_base_sha",
                "parent_sha", "merge_commit_sha", "first_round_head_sha"} -> {"sha1", "sha2", "word"}
    [] key \in {"event_id", "run_id", "candidate_id", "finding_id", "reflag_of", "write_id",
                "derived_id", "supersedes", "id", "retry_of", "stage_attempt_id", "1", "2"} ->
         {"uuid1", "uuid2", "word"}
    [] key \in {"task_id", "parent_id"} -> {"uuid1", "word", "a_word", "pending:a", "bad"}
    [] key \in {"observed_at", "as_of", "started_at", "completed_at"} -> {"t1", "t2", "feb30", "word"}
    [] key \in {"pr_number", "run_attempt", "round", "commits_pushed", "attempt_number",
                "evidence_version", "queue_depth", "window_runs", "window_failures"} ->
         {"#0", "#1", "#2", "word"}
    [] key \in {"probability", "propensity"} -> {"#0", "#1/2", "#1", "#2"}
    [] key \in {"stage", "name", "label", "task_type", "component", "app", "reviewer_key",
                "derived_kind", "value", "harness"} -> {"word", "a_word", "99"}
    [] key \in {"version", "labeler_version", "check_key"} -> {"word", "ci.build", "bad"}
    [] key = "check_run_id" -> {"99", "word"}
    [] key \in {"intended_model", "executed_model"} -> {"org/model", "org//model", "bad"}
    [] key = "session_id" -> {"word", "pending:a", "pending:a:b"}
    [] key = "resolves" -> {"word", "pending:a", "pending:a:b"}
    [] key = "change_id" -> {"change:1", "word"}
    [] key \in {"blocking", "challenge", "had_conflicts", "base_moved_since_candidate"} ->
         {"#true", "word"}
    [] key = "kind" -> ActorKinds \cup AttemptKinds
    [] key = "executed_model_evidence" -> ExecutedModelEvidence
    [] key = "trigger" -> CheckTriggers \cup EjectionTriggers \cup DequeueTriggers \cup AbandonTriggers
    [] key = "conclusion" -> CheckConclusions
    [] key = "method" -> RebaseMethods \cup MergeMethods
    [] key \in {"action", "chosen_action"} -> RecoveryActions \cup ControlActions
    [] key = "propensity_source" -> PropensitySources
    [] key = "location" -> FindingLocations
    [] key = "role" -> ArmRoles
    [] key = "outcome" -> AttemptOutcomes
    [] key = "evidence_kind" -> EvidenceKindNames
    [] key \in {"event_type", "record_type", "schema_version"} -> {"v1", "attempt"}
    [] OTHER -> {"[]", "{}", "word"}

\* Keys a record may gain: a scope's, an actor's, an attempt's, and unknown ones.
Gained(p) ==
  {"mystery", "prompt"} \cup
  CASE p = Root -> {"candidate_id", "pr_number", "stage", "role", "retry_of", "outcome", "value"}
    [] p = ActorPath -> ModelKeys \cup {"component", "app"}
    [] Len(p) = 2 /\ p[1] = "reviewers" -> {"executed_model", "executed_model_evidence"}
    [] OTHER -> {}

\* The wider records take each value by its family: a value of the same family, one
\* of none, or null; and may gain a key that a type allows, forbids or does not know.
Families ==
  {Boolean, Numbers, HorizonDays, Lag, LabelVersions, ReportOutcomes, LabelReasons, Bases, Proxies,
   Confidences, SummarySources, Availabilities, TokenFields, Results, Stages, ModelEvidence,
   {"t1", "t2", "feb30"}, {"sha1", "sha64"}, {"harvested", "owner_corrected"},
   {"human", "agent", "null"}, {"shown", "suppressed"}, {"accepted", "rejected"},
   {"direct", "promotion"}, {"main", "word"}, {"planner", "coder"}, {"uuid1", "uuid2"},
   {"org/model", "org//model", "word", "99"}, {"null", "#1", "#true", "word"},
   OrNull(ExclusionCodes), {"[]", "{}"}}

Variants(leaf) ==
  {"bad", "null"} \cup UNION {family \in Families : leaf \in family}
    \cup IF contract \in {"route", "answer", "submission"} THEN {"", "a,b", "99", "#2"} ELSE {}

GainedKeys(p) ==
  {"mystery", "prompt", "path"} \cup
  CASE p # Root -> {"note", "planner", "integration_mode"}
    [] contract = "label" -> {"owner_correction"}
    [] contract = "row" -> {"recommendedModel", "inference_log_id", "overrides", "integration"}
    [] OTHER -> {}

-----------------------------------------------------------------------------
\* A record is edited as long as its readers take it: a value is changed, removed or
\* added, or an entry of an array repeated.  A large record is edited once, and a row
\* of the lowest version, of which nothing is made, is not.
Large ==
  \/ contract \in {"report", "route"} \/ Has(<<"stage_executions">>)
  \/ Is(<<"event_type">>, {"recovery_decision"})
Editable == {"log", "features", "label", "report", "candidate", "row", "route", "answer", "submission"}

ContractInit ==
  /\ contract \in Editable \cup {"state"}
  /\ record \in WrittenRecords(contract) /\ edits = 0

EditRecord ==
  LET Leaves(p, leaf) == IF contract = "log" THEN Tried(p[Len(p)]) \cup {"null"} ELSE Variants(leaf)
      Keys(p) == IF contract = "log" THEN Gained(p) ELSE GainedKeys(p)
      added(key) == IF contract = "log" THEN Tried(key) \cup {"null"} ELSE {"word", "[]", "{}"}
  IN /\ contract \in Editable
     /\ edits < MaxEdits /\ (Large => edits = 0) /\ (contract = "row" => Lowered # record)
     /\ Taken = TRUE
     /\ edits' = edits + 1 /\ UNCHANGED contract
     /\ \/ \E p \in DOMAIN record \ {Root} :
             \/ Drop(p)
             \/ \E leaf \in Leaves(p, record[p]) \ {record[p]} : Put(p, leaf)
        \/ \E p \in {q \in DOMAIN record : record[q] = "{}"} : \E key \in Keys(p) :
             /\ ~Has(At(p, key))
             /\ \E leaf \in added(key) : Put(At(p, key), leaf)
        \/ \E p \in {q \in DOMAIN record : record[q] = "[]"} :
             Children(p) = {At(p, "1")} /\ Repeat(p, "1", "2")

\* What is made of a record its readers take.
Make(kind, made) == contract' = kind /\ record' = made

DeriveRecord ==
  /\ contract \in {"features", "label", "candidate", "repair_pair", "row", "lowered", "route", "answer",
                  "submission"}
  /\ Taken = TRUE /\ UNCHANGED edits
  /\ \/ /\ contract = "features"
        /\ \E score \in {"#0", "#1/2", "#1"} : Make("score", ScoreRow(score, "#1/2"))
     \/ /\ contract = "label"
        /\ \/ Make("outcome", OutcomeRow) \/ Make("cached", CachedRow)
           \/ Make("labelled", WrittenReport({}, TRUE, Value(Root, "horizon_days"),
                                             Projected(PullRequest1 \o <<"labels", "1">>)))
     \/ /\ contract = "candidate" /\ Is(<<"status">>, {"accepted"})
        /\ \E survival \in {"null", "#1/2"}, tests \in {"#0", "#1"} :
             Make("repair_pair", RepairPair(survival, tests))
     \/ /\ contract = "repair_pair"
        /\ \E present \in BOOLEAN, horizon \in HorizonDays :
             Make("corrective", CorrectiveRow(present, horizon))
     \/ /\ contract \in {"row", "lowered"}
        /\ Lowered # record
        /\ Make("lowered", Lowered)
     \/ /\ contract = "route"
        /\ Make(IF SingletonRoles = {} THEN "ranked" ELSE "sent", WireRequest)
     \/ /\ contract = "answer" /\ ~ValidRouteResponse
        /\ Make("routed", MappedResponse)
     \/ /\ contract = "submission"
        /\ Make("receipted", Receipt)

-----------------------------------------------------------------------------
\* What the JSON schemas do not express: an actor with a key of another kind of
\* actor, entries that repeat, and values that do not go with each other.
ForeignKey ==
  \/ Has(At(ActorPath, "component")) /\ ~Is(At(ActorPath, "kind"), {"tend", "monitor"})
  \/ Has(At(ActorPath, "app")) /\ ~Is(At(ActorPath, "kind"), {"github"})

Repeats ==
  \E list \in {<<<<"attempt_refs">>, "run_id">>, <<<<"entries">>, "pr_number">>,
               <<<<"propensities">>, "action">>, <<Reviewers, "reviewer_key">>,
               <<Findings, "finding_id">>} : Has(list[1]) /\ ~DistinctBy(list[1], list[2])

Equal(p, q) == Has(p) /\ Has(q) /\ record[p] = record[q]

Misdated ==
  \/ Later(<<"completed_at">>, <<"observed_at">>)
  \/ Later(<<"started_at">>, <<"completed_at">>)
  \/ Later(At(Context, "as_of"), <<"observed_at">>)

OddHead ==
  \/ \E key \in {"previous_head_sha", "parent_sha"} : Equal(<<key>>, <<"head_sha">>)
  \/ Is(<<"round">>, {"#1"}) /\ Has(<<"first_round_head_sha">>)
       /\ ~Equal(<<"first_round_head_sha">>, <<"head_sha">>)

OddFinding ==
  \E p \in IF Has(Findings) THEN Children(Findings) ELSE {} :
    \/ Equal(At(p, "reflag_of"), At(p, "finding_id"))
    \/ \A q \in Children(Reviewers) : ~Equal(At(q, "reviewer_key"), At(p, "reviewer_key"))

OddDecision ==
  \/ \E p \in Children(At(Context, "flake_history")) :
       Halves(Value(p, "window_failures")) > Halves(Value(p, "window_runs"))
  \/ \A q \in Children(<<"available_actions">>) : ~Equal(q, <<"chosen_action">>)
  \/ Has(<<"propensities">>) /\ ~ValidPropensities

OddAttempt ==
  \/ \E key \in {"parent_id", "retry_of"} : Equal(<<key>>, <<"id">>)
  \/ Equal(<<"retry_of">>, <<"parent_id">>)
  \/ Equal(<<"supersedes">>, <<"derived_id">>)
  \/ /\ Is(<<"kind">>, {"pair", "run"}) /\ ~Equal(<<"parent_id">>, <<"task_id">>)
     /\ Is(<<"kind">>, {"pair"}) \/ ~Is(<<"parent_id">>, MintedId)

ValidatorOnly ==
  \/ UnknownToSchemas \/ Repeats \/ Misdated \/ OddHead \/ OddFinding \/ OddAttempt
  \/ ForeignKey
  \/ Is(<<"event_type">>, {"recovery_decision"}) /\ OddDecision
  \/ Has(<<"entries">>)
       /\ Cardinality(Children(<<"entries">>)) # Cardinality(Children(<<"attempt_refs">>))
  \/ Is(<<"selection", "propensity_source">>, {"deterministic"})

\* A resolved session whose id starts as a pending one's does, and is not one.
LooksPending ==
  \E p \in DOMAIN record : p # Root /\ p[Len(p)] = "session_id" /\ record[p] = "pending:a:b"

\* "Normative for single-record shape; the JSON schema mirrors them": what the
\* validators accept the schemas admit, and what the schemas admit and they do
\* not breaks a rule that no schema here expresses.
SchemaMirrors ==
  LET valid == ValidRecord
      admitted == SchemaAdmits
  IN /\ valid => admitted \/ LooksPending
     /\ admitted => valid \/ ValidatorOnly

\* A report shows nothing that it may not: no prediction without the head that made
\* it, no value in a suppressed section, and no key that names code or a person's words.
ReportIsHonest ==
  /\ HasProvenance \/ \A p \in DOMAIN record : record[p] # "out_of_sample_prediction"
  /\ \A name \in Sections : Is(At(SectionPath(name), "status"), {"suppressed"}) =>
       \A p \in Below(SectionPath(name)) : p[Len(p)] = "value" => record[p] = "null"
  /\ NoneBelow(Root, ReportForbiddenKeys)

\* Who writes a record and who reads it agree: readers take what is written, and what
\* is made of a record they take.  Named are the labels that only the label's own
\* contract takes: of a SHA-256 repository, and of another threshold.
ReadersTake ==
  CASE contract \in {"outcome", "cached"} -> Taken \/ Is(<<"merge_sha">>, {"sha64"})
    [] contract = "labelled" ->
         LET outcome == PullRequest1 \o <<"labels", "1", "outcome">>
         IN ValidReport \/ Value(outcome, "report_outcome") # DerivedOutcome(
              [key \in {"survived", "survival_ratio", "reverted", "followup"} |->
                 Value(outcome, key)], Threshold)
    [] contract = "lowered" -> ValidRow
    [] OTHER -> (contract \in Editable /\ edits > 0) \/ Taken

ContractsHold ==
  /\ contract = "log" => SchemaMirrors
  /\ contract = "features" => (ValidFeatures(Root) <=> FeaturesSchema(Root))
  /\ contract \in {"report", "labelled"} => (ValidReport => ReportIsHonest)
  /\ ReadersTake

ContractNext == EditRecord \/ DeriveRecord
ContractSpec == ContractInit /\ [][ContractNext]_contractVars
=============================================================================

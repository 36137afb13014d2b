-------------------------- MODULE CorrectiveContract --------------------------
(***************************************************************************)
(* The three records of the corrective-rework contract: a candidate, the    *)
(* repair pair an accepted one materializes, and the corrective row derived *)
(* from pairs (core/src/arbiter-corrective-rework.ts and its JSON schema;   *)
(* scan/src/corpus/corrective.ts writes them).                              *)
(***************************************************************************)
EXTENDS LabelContract

AdmittedProxies == {"revert", "repair_reference", "szz", "regression_issue"}
Proxies == AdmittedProxies \cup {"abnormal_churn"}
Confidences == {"high", "medium", "low"}
ProxyConfidence(proxy) ==
  CASE proxy \in {"revert", "repair_reference"} -> "high"
    [] proxy \in {"szz", "regression_issue"} -> "medium"
    [] proxy = "abnormal_churn" -> "low"

\* One code of the human taxonomy, and those that are given automatically.
ExclusionCodes == {"planned_iteration", "backport", "revert_of_revert", "dependency_bot",
                   "fix_too_large", "proxy_disabled"}
EvidenceKindsOf(proxy) ==
  CASE proxy = "revert" -> "revert_message" [] proxy = "szz" -> "blamed_lines"
    [] OTHER -> "cites_original_pr"

\* A moment after the merge, and twenty days after it.
Lag == {"#1", "#20d"}
InHorizon(lag, horizon) == lag # "#20d" \/ horizon = "#30"

FileLists == {"original", "fix", "fix_only", "original_only", "fix_preexisting"}
ReviewCounts == {"review_count", "reviewer_count", "first_review_latency_seconds"}

-----------------------------------------------------------------------------
\* The types, as detection writes them: a fix pushed directly has no PR.
WrittenChange(p, sha, url, at) == Written(p, [pr_url |-> url, merged_at |-> at] @@ sha)

WrittenEnvelope ==
  Written(Envelope, [schema_version |-> "1.1.0", definition_version |-> "cr-1.0.0",
    labeller_version |-> "1.0.0", integration_branch |-> "main", as_of |-> "t2",
    computed_at |-> "t2"])

WrittenCandidate(proxy, exclusion, lag) ==
  Written(Root, [schema_version |-> "1.1.0", record_type |-> "candidate",
                 candidate_id |-> "sha64", lag_seconds |-> lag, proxy |-> proxy,
                 confidence |-> ProxyConfidence(proxy), exclusion_code |-> exclusion,
                 status |-> IF exclusion = "null" THEN "accepted" ELSE "rejected"])
    @@ WrittenChange(<<"original">>, [merge_sha |-> "sha1"], "url", "t1")
    @@ WrittenChange(<<"fix">>, [sha |-> "sha2"], IF proxy = "revert" THEN "null" ELSE "url", "t2")
    @@ Listed(<<"evidence">>, <<"{}">>)
    @@ Written(<<"evidence", "1">>,
         [kind |-> EvidenceKindsOf(proxy), ref |-> "url",
          count |-> IF proxy = "szz" THEN "#2" ELSE "null"])
    @@ WrittenEnvelope

WrittenCandidates ==
  {WrittenCandidate(proxy, "null", lag) : proxy \in {"revert", "szz"}, lag \in Lag}
  \cup {WrittenCandidate("revert", "revert_of_revert", "#1"),
        WrittenCandidate("szz", "fix_too_large", "#1")}

\* buildRepairPair, of the candidate that is the record: what git tells of the files
\* and the lines, and no review.
RepairPair(survival, tests) ==
  LET kept == {"schema_version", "candidate_id", "original", "fix", "lag_seconds", "proxy",
               "confidence", "envelope"}
      files == <<"files">>
  IN (<<"record_type">> :> "repair_pair")
       @@ [q \in {q \in DOMAIN record : q = Root \/ q[1] \in kept} |-> record[q]]
       @@ Written(Root, [line_survival |-> survival, graph_distance |-> "null"])
       @@ Written(files, NoFields)
       @@ Listed(At(files, "original"), <<"word", "a_word">>)
       @@ Listed(At(files, "fix"), <<"word">>)
       @@ Listed(At(files, "fix_only"), <<>>)
       @@ Listed(At(files, "original_only"), <<"a_word">>)
       @@ Listed(At(files, "fix_preexisting"), <<"word">>)
       @@ Written(<<"fix_tests">>, [added |-> tests, modified |-> "#0", deleted |-> "#0"])
       @@ Written(<<"original_review">>, [reviewed |-> "null"] @@ [c \in ReviewCounts |-> "null"])

\* deriveCorrectiveLabel, for a label that is present or missing, of one pair.
CorrectiveRow(present, horizon) ==
  LET fixed == /\ Value(Root, "proxy") \in AdmittedProxies
               /\ InHorizon(Value(Root, "lag_seconds"), horizon)
      row(corrective, confidence, reason, ids) ==
        Written(Root, [schema_version |-> "1.1.0", record_type |-> "corrective",
                       prUrl |-> Value(<<"original">>, "pr_url"), horizon_days |-> horizon,
                       label_provenance |-> "harvested", base_label_hash |-> "sha64",
                       corrective |-> corrective, confidence |-> confidence])
          @@ Listed(<<"reason_codes">>, <<reason>>) @@ Listed(<<"repair_pair_ids">>, ids)
          @@ Copy(Envelope, Envelope)
  IN CASE ~present -> row("null", "null", "base_label_missing", <<>>)
       [] present /\ ~fixed -> row("#false", "null", "no_accepted_fix", <<>>)
       [] present /\ fixed ->
            row("#true", Value(Root, "confidence"), Value(Root, "proxy"),
                <<Value(Root, "candidate_id")>>)

-----------------------------------------------------------------------------
\* The JSON schema: one of the three records, each closed.
ReworkEnvelopeSchema(p) ==
  Obj(p, [schema_version |-> {"1.1.0"}, definition_version |-> {"cr-1.0.0"},
          labeller_version |-> Semver, integration_branch |-> SomeText, as_of |-> UtcTimestamp,
          computed_at |-> UtcTimestamp])

EvidenceItemSchema(p) ==
  Obj(p, [kind |-> {EvidenceKindsOf(proxy) : proxy \in Proxies}, ref |-> OrNull(Text),
          count |-> OrNull(NonNegativeInt)])

\* The keys of a candidate that its pair takes over.
LinkKinds ==
  [schema_version |-> {"1.1.0"}, candidate_id |-> Digest, original |-> Object, fix |-> Object,
   lag_seconds |-> Lag \cup PositiveInt, proxy |-> Proxies, confidence |-> Confidences,
   envelope |-> Object]

LinkSchema ==
  /\ Obj(<<"original">>, [pr_url |-> {"url"}, merge_sha |-> GitId, merged_at |-> UtcTimestamp])
  /\ Obj(<<"fix">>, [pr_url |-> OrNull({"url"}), sha |-> GitId, merged_at |-> UtcTimestamp])
  /\ ReworkEnvelopeSchema(Envelope)

CandidateSchema ==
  /\ Obj(Root, LinkKinds @@
       [record_type |-> {"candidate"}, evidence |-> Array, status |-> {"accepted", "rejected"},
        exclusion_code |-> OrNull(ExclusionCodes)])
  /\ LinkSchema
  /\ Items(<<"evidence">>, EvidenceItemSchema) /\ Children(<<"evidence">>) # {}
  /\ Value(Root, "status") = "accepted" <=> Value(Root, "exclusion_code") = "null"

RepairPairSchema ==
  /\ Obj(Root, LinkKinds @@
       [record_type |-> {"repair_pair"}, files |-> Object, line_survival |-> OrNull(Probability),
        fix_tests |-> Object, original_review |-> Object, graph_distance |-> OrNull(AtLeast(0))])
  /\ LinkSchema
  /\ Obj(<<"files">>, [list \in FileLists |-> Array])
  /\ \A list \in FileLists :
       ArrayOf(<<"files", list>>, SomeText) /\ Distinct(<<"files", list>>)
  /\ Obj(<<"fix_tests">>, [key \in {"added", "modified", "deleted"} |-> NonNegativeInt])
  /\ Obj(<<"original_review">>, [reviewed |-> OrNull(Boolean)]
           @@ [key \in ReviewCounts |-> OrNull(NonNegativeInt)])

CorrectiveSchema ==
  LET reasons == {record[q] : q \in Children(<<"reason_codes">>)}
      ids == Children(<<"repair_pair_ids">>)
      corrective == Value(Root, "corrective")
      confidence == Value(Root, "confidence")
  IN /\ Obj(Root, [schema_version |-> {"1.1.0"}, record_type |-> {"corrective"}, prUrl |-> {"url"},
                   horizon_days |-> HorizonDays, label_provenance |-> {"harvested", "owner_corrected"},
                   base_label_hash |-> Digest, corrective |-> OrNull(Boolean),
                   confidence |-> OrNull(Confidences), reason_codes |-> Array,
                   repair_pair_ids |-> Array, envelope |-> Object])
     /\ ReworkEnvelopeSchema(Envelope)
     /\ reasons # {} /\ Distinct(<<"reason_codes">>)
     /\ ArrayOf(<<"repair_pair_ids">>, Digest) /\ Distinct(<<"repair_pair_ids">>)
     /\ CASE corrective = "#true" ->
               confidence # "null" /\ ids # {} /\ reasons \subseteq AdmittedProxies
          [] corrective = "#false" -> confidence = "null" /\ ids = {} /\ reasons = {"no_accepted_fix"}
          [] corrective = "null" -> confidence = "null" /\ ids = {} /\ reasons = {"base_label_missing"}

ReworkSchema ==
  CASE Is(<<"record_type">>, {"candidate"}) -> CandidateSchema
    [] Is(<<"record_type">>, {"repair_pair"}) -> RepairPairSchema
    [] Is(<<"record_type">>, {"corrective"}) -> CorrectiveSchema
    [] OTHER -> FALSE
=============================================================================

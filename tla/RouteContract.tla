----------------------------- MODULE RouteContract -----------------------------
(***************************************************************************)
(* The contract of a route: the request a harness writes and what is sent  *)
(* of it (core/src/schemas.ts, core/src/routing-inputs.ts), the answer of  *)
(* the service with the response that is made of it, and the receipt that  *)
(* is made of the answer to a submission (core/src/client.ts).             *)
(***************************************************************************)
EXTENDS JsonRecord

\* The pools of a request, by the names they have on the wire and in the metadata of
\* the task: the general one, and one for each role.
GeneralPool == "availableModels"
PoolOfRole ==
  [planner |-> "availablePlannerModels", coder |-> "availableCoderModels",
   reviewer |-> "availableReviewerModels"]
WireName ==
  [availableModels |-> "available_models", availablePlannerModels |-> "available_planner_models",
   availableCoderModels |-> "available_coder_models",
   availableReviewerModels |-> "available_reviewer_models"]
PoolFields == DOMAIN WireName
RoutingPath == <<"routing">>
MetadataPath == <<"task", "metadata">>

-----------------------------------------------------------------------------
\* The types.  A request may say its pools in fields, in texts of the metadata
\* (one text stands for a list of two models), or not at all.
WrittenRequest ==
  Written(Root, [prompt |-> "word", createdAt |-> "t1"])
    @@ Written(<<"task">>, [id |-> "word", prompt |-> "word"])
    @@ Written(<<"consent">>, [subjectId |-> "word"])
    @@ Listed(<<"consent", "grantedScopes">>, <<"word">>)
    @@ Written(<<"model">>, [id |-> "org/model", provider |-> "word"])
    @@ Listed(<<"model", "capabilities">>, <<>>)
    @@ Written(<<"correlation">>, [taskId |-> "word", correlationId |-> "uuid1", createdAt |-> "t1"])
    @@ Listed(<<"redactions">>, <<"{}", "{}">>)
    @@ Written(<<"redactions", "1">>, [label |-> "word"])
    @@ Written(<<"redactions", "2">>, [category |-> "word", placeholder |-> "word", count |-> "#1"])

WrittenRequests ==
  LET metadata(pool, text) == Written(MetadataPath, NoFields) @@ With(MetadataPath, WireName[pool], text)
      field(pool, models) == Listed(At(RoutingPath, pool), models)
  IN {WrittenRequest,
      Written(RoutingPath, NoFields) @@ field(GeneralPool, <<"org/model", "word">>)
        @@ metadata(GeneralPool, "word") @@ WrittenRequest}
     \cup {Written(RoutingPath, NoFields) @@ field(PoolOfRole.coder, <<"word">>)
             @@ metadata(pool, "a,b") @@ WrittenRequest : pool \in {GeneralPool, PoolOfRole.planner}}

\* The service answers in its own form, in that of a plain prediction, or as a response.
WrittenAnswers ==
  {Written(Root, NoFields) @@ Written(<<"predictions">>, NoFields)
     @@ Written(<<"predictions", "recommended_strategy">>,
          [coder_model |-> "org/model", reviewer_model |-> "word", confidence |-> "#1/2",
           rationale |-> "word"])
     @@ Written(<<"metadata">>, [request_id |-> "uuid1"]),
   Written(Root, [completed_successfully |-> "#true"])
     @@ Written(<<"metadata">>, [recommended_model |-> "org/model", score |-> "99",
          reason |-> "word", route_id |-> "uuid1"]),
   Written(Root, [routeId |-> "uuid1", taskId |-> "word", status |-> "accepted"])
     @@ Written(<<"recommendation">>, [model |-> "org/model", confidence |-> "#1", reason |-> "word"])
     @@ Listed(<<"recommendation", "alternatives">>, <<"{}">>)
     @@ Written(<<"recommendation", "alternatives", "1">>, [model |-> "word"])}

-----------------------------------------------------------------------------
\* What is checked of a request: a redaction has a label or says what was found.
ValidRedaction(p) ==
  IF Has(At(p, "label")) THEN Requires(p, [label |-> SomeText])
  ELSE Requires(p, [category |-> SomeText, placeholder |-> SomeText, count |-> Numbers])

ValidMetadata(p) == Is(p, Object \cup Array) /\ \A q \in Children(p) : record[q] \in Text

\* The models of a pool: what is no text is passed over.
ModelsAt(p) == {record[q] : q \in Children(p)} \cap SomeText

ValidPools(p) ==
  \A pool \in PoolFields \cup {"preferredModels"} :
    Optional(At(p, pool), LAMBDA q : Is(q, Array) /\ ModelsAt(q) # {})

ValidRouteRequest ==
  /\ Requires(Root, [prompt |-> SomeText, createdAt |-> SomeText])
  /\ Requires(<<"task">>, [id |-> SomeText, prompt |-> SomeText])
  /\ Optional(MetadataPath, ValidMetadata)
  /\ Requires(<<"consent">>, [subjectId |-> SomeText])
  /\ ArrayOf(<<"consent", "grantedScopes">>, SomeText)
  /\ Requires(<<"model">>, [id |-> SomeText, provider |-> SomeText])
  /\ ArrayOf(<<"model", "capabilities">>, SomeText)
  /\ Requires(<<"correlation">>,
       [taskId |-> SomeText, correlationId |-> SomeText, createdAt |-> SomeText])
  /\ Items(<<"redactions">>, ValidRedaction)
  /\ Optional(RoutingPath, LAMBDA p : Is(p, Object \cup Array) /\ ValidPools(p))

-----------------------------------------------------------------------------
\* The pools that are sent: those of the fields, else those of the metadata; the
\* general one is at least the model that was selected.
ListedIn(text) ==
  CASE text = "a,b" -> {"word", "a_word"} [] text \in SomeText \ {"a,b"} -> {text} [] OTHER -> {}

ToldIn(pool) ==
  LET p == At(MetadataPath, WireName[pool]) IN IF Has(p) THEN ListedIn(record[p]) ELSE {}

ResolvedPools ==
  LET field(pool) == At(RoutingPath, pool)
      said == {pool \in PoolFields : Has(field(pool)) \/ ToldIn(pool) # {}}
  IN [pool \in said \cup {GeneralPool} |->
        IF Has(field(pool)) THEN ModelsAt(field(pool))
        ELSE IF pool \in said THEN ToldIn(pool)
        ELSE {Value(<<"model">>, "id")}]

\* A role whose pool does not fall back to a general one of several models.
SingletonRoles ==
  LET pools == ResolvedPools
      poolOf(role) ==
        pools[IF PoolOfRole[role] \in DOMAIN pools THEN PoolOfRole[role] ELSE GeneralPool]
  IN {role \in DOMAIN PoolOfRole : Cardinality(poolOf(role)) < 2}

\* What is sent: what the prompt and the metadata say of the task is left out.
WireRequest ==
  LET pools == ResolvedPools
      lists == [pool \in DOMAIN pools |->
                  Listed(At(RoutingPath, WireName[pool]), SetToSeq(pools[pool]))]
  IN Written(Root, NoFields) @@ Written(<<"task">>, [description |-> Value(Root, "prompt")])
       @@ Written(RoutingPath, NoFields)
       @@ [q \in UNION {DOMAIN lists[pool] : pool \in DOMAIN lists} |->
             LET pool == CHOOSE pool \in DOMAIN lists : WireName[pool] = q[2] IN lists[pool][q]]
       @@ Written(<<"metadata">>,
            [external_task_id |-> Value(<<"task">>, "id"),
             run_id |-> Value(<<"correlation">>, "correlationId"),
             idempotency_key |-> Value(<<"correlation">>, "correlationId")])

\* What the service demands of what it is sent: no pool is empty or names a model
\* twice, and it has two models to choose from for every role that it is to rank.
PoolsAreSaid == \A p \in Children(RoutingPath) : NonEmpty(p) /\ Distinct(p)

EveryRoleIsRanked ==
  LET wire(pool) == At(RoutingPath, WireName[pool])
  IN \A role \in DOMAIN PoolOfRole :
       \/ Cardinality(Children(wire(PoolOfRole[role]))) > 1
       \/ ~Has(wire(PoolOfRole[role])) /\ Cardinality(Children(wire(GeneralPool))) > 1

-----------------------------------------------------------------------------
\* What is checked of a response.
ValidRecommended(p) ==
  Requires(p, [model |-> SomeText]) /\ Allows(p, [reason |-> SomeText, confidence |-> Probability])

ValidRouteResponse ==
  /\ Requires(Root, [routeId |-> SomeText, taskId |-> SomeText, status |-> {"accepted"}])
  /\ Allows(Root, [requestId |-> SomeText])
  /\ Optional(<<"recommendation">>, LAMBDA p :
       ValidRecommended(p) /\ Optional(At(p, "alternatives"), LAMBDA q : Items(q, ValidRecommended)))

\* The first of some values that is a text, or that is a number or reads as one: as a
\* set of that leaf, or of none.
FirstOf(paths, kind) ==
  LET found == SelectSeq(paths, LAMBDA p : Is(p, kind))
  IN IF found = <<>> THEN {} ELSE {record[found[1]]}

NumberText == Numbers \cup {"99"}
Clamped(leaf) ==
  IF leaf = "99" \/ Halves(leaf) > 2 THEN "#1" ELSE IF Halves(leaf) < 0 THEN "#0" ELSE leaf

Recommended(models, reasons, confidences) ==
  LET p == <<"recommendation">>
      field(key, leaves) ==
        [q \in {At(p, key) : leaf \in leaves} |-> CHOOSE leaf \in leaves : TRUE]
  IN IF models = {} THEN NoFields
     ELSE Written(p, NoFields) @@ field("model", models) @@ field("reason", reasons)
            @@ field("confidence", {Clamped(leaf) : leaf \in confidences})

\* The forms of an answer, and the response that is made of one of them: what gives
\* the route no id of its own gives it the one the request was correlated by.
Strategy == <<"predictions", "recommended_strategy">>
Answered == Is(Strategy, Object) \/ Has(<<"metadata">>) \/ Has(<<"completed_successfully">>)

MappedResponse ==
  LET under(p, keys) == [n \in DOMAIN keys |-> At(p, keys[n])]
      told(keys) == under(<<"metadata">>, keys)
      by(keys) == under(Strategy, keys)
      response(ids, recommendation) ==
        Written(Root, [routeId |-> IF ids = {} THEN "uuid2" ELSE CHOOSE id \in ids : TRUE,
                       taskId |-> "word", status |-> "accepted", requestId |-> "uuid1"])
          @@ recommendation
  IN IF Is(Strategy, Object)
     THEN response(
            FirstOf(<<<<"inference_log_id">>>> \o told(<<"request_id", "requestId">>), SomeText),
            Recommended(FirstOf(by(<<"coder_model", "planner_model", "reviewer_model">>), SomeText),
                        FirstOf(by(<<"rationale">>), SomeText),
                        FirstOf(by(<<"confidence">>), NumberText)))
     ELSE response(
            FirstOf(told(<<"routeId", "route_id", "predictionId", "prediction_id", "requestId",
                           "request_id">>), SomeText),
            Recommended(FirstOf(told(<<"coder_model", "recommended_model", "recommendedModel",
                                       "model", "planner_model", "reviewer_model">>), SomeText),
                        FirstOf(told(<<"reason", "explanation">>), SomeText),
                        FirstOf(told(<<"confidence", "score">>), NumberText)))

-----------------------------------------------------------------------------
\* The answer to a submission, in either spelling; a tier stands for its count.
Tiers == {"training_eligible", "partial", "passthrough", "invalid"}

WrittenReceipts ==
  {Written(Root, [accepted |-> "#true", submission_id |-> "uuid1", rows_accepted |-> "#2",
                  tokenReward |-> "99"])
     @@ Written(<<"fidelity_summary">>, [training_eligible |-> "#1", non_ranking |-> "#1"])
     @@ Listed(<<"rejected_rows">>, <<"{}">>)
     @@ Written(<<"rejected_rows", "1">>, [index |-> "#0", reason |-> "word"]),
   Written(Root, [accepted |-> "#false"]) @@ Listed(<<"rejectedRows">>, <<>>)}

\* What two spellings of a key say: of an object or array, the first that is not null.
Spelled(one, other) ==
  IF Has(<<one>>) /\ record[<<one>>] # "null" THEN <<one>> ELSE <<other>>

Amounts(out, paths) ==
  [q \in {out : leaf \in FirstOf(paths, NumberText)} |->
     LET leaf == record[SelectSeq(paths, LAMBDA p : Is(p, NumberText))[1]]
     IN IF leaf = "99" THEN "#101" ELSE leaf]

\* A tier without a count counts none, and a tier not named here is not passed on.
FidelitySummary ==
  LET told == Spelled("fidelitySummary", "fidelity_summary")
      out(tier) == <<"fidelitySummary", tier>>
  IN IF ~Is(told, Object) THEN NoFields
     ELSE Written(<<"fidelitySummary">>, NoFields)
            @@ [q \in {out(tier) : tier \in Tiers} |->
                  LET counted == Amounts(q, <<At(told, q[2])>>)
                  IN IF counted = NoFields THEN "#0" ELSE counted[q]]

\* A rejected row is passed on when it says which it is, and why.
RejectedRows ==
  LET told == Spelled("rejectedRows", "rejected_rows")
      rows == SelectSeq(<<"1", "2">>, LAMBDA n :
                Is(told \o <<n>>, Object) /\ Is(told \o <<n, "index">>, NumberText)
                  /\ Is(told \o <<n, "reason">>, SomeText))
      row(n) == LET p == <<"rejectedRows", ToString(n)>> IN
        Written(p, [reason |-> record[told \o <<rows[n], "reason">>]])
          @@ Amounts(At(p, "index"), <<told \o <<rows[n], "index">>>>)
  IN IF ~Is(told, Array) THEN NoFields
     ELSE Listed(<<"rejectedRows">>, [n \in DOMAIN rows |-> "{}"])
            @@ FoldFunction(LAMBDA f, g : f @@ g, NoFields, [n \in DOMAIN rows |-> row(n)])

\* The tiers of the single rows, which are passed on as they are, are left out.
Receipt ==
  LET keys(one, other) == <<<<one>>, <<other>>>>
      id == FirstOf(keys("submissionId", "submission_id"), SomeText)
  IN Written(Root, [accepted |-> IF Is(<<"accepted">>, {"#true"}) THEN "#true" ELSE "#false",
                    requestId |-> "uuid2"])
       @@ [q \in {<<"submissionId">> : leaf \in id} |-> CHOOSE leaf \in id : TRUE]
       @@ Amounts(<<"rowsAccepted">>, keys("rowsAccepted", "rows_accepted"))
       @@ Amounts(<<"submittedRows">>, keys("submittedRows", "submitted_rows"))
       @@ Amounts(<<"tokenReward">>, keys("tokenReward", "token_reward"))
       @@ FidelitySummary @@ RejectedRows

\* What the type of a receipt promises.
ValidReceipt ==
  /\ Requires(Root, [accepted |-> Boolean])
  /\ Allows(Root, [submissionId |-> SomeText, rowsAccepted |-> Numbers, submittedRows |-> Numbers,
                   tokenReward |-> Numbers])
  /\ Optional(<<"fidelitySummary">>, LAMBDA p : Requires(p, [tier \in Tiers |-> Numbers]))
  /\ Optional(<<"rejectedRows">>, LAMBDA p :
       Items(p, LAMBDA q : Requires(q, [index |-> Numbers, reason |-> SomeText])))
=============================================================================

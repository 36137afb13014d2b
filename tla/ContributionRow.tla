--------------------------- MODULE ContributionRow ---------------------------
(***************************************************************************)
(* How a run becomes a technical_task_router_row/v4: the loops of a host    *)
(* (packages/core/src/integration-kit/run-loop.ts, packages/adapter-aider), *)
(* the reports of a routed task (plugin-commands/commands.ts,               *)
(* packages/router), and the row's builder and validator                    *)
(* (packages/core/src/contribution), which a host may also call itself.     *)
(*                                                                          *)
(* Abstracted: a model's spelling is a name; a summary of task cost is the  *)
(* total it resolved, whether it is of the row's task, and the models of    *)
(* its session.  Descriptors, redaction, times, labels of time and cost,    *)
(* pool metadata and what a key may be called are left out.                 *)
(***************************************************************************)
EXTENDS Integers, Sequences, SequencesExt, Functions

CONSTANTS
  Names,      \* spellings of models
  ModelOf,    \* the model a name spells
  Pools,      \* what a host may discover: sequences of registry entries
  Measures,   \* what it may have measured: sequences of summaries
  Prices,     \* costs given or priced, Nothing for none
  Budgets,    \* budgets, Nothing for none
  Exports,    \* what a host may hand to the builder itself
  Nothing

VARIABLES
  run,    \* what happened
  row     \* the row that was built and passed, or Nothing

contributionVars == <<run, row>>

Loops == {"kit", "aider"}
Reporters == {"plugin", "codex", "router", "external"}
Roles == {"coder", "reviewer"}
Same(one, other) == {one, other} \subseteq Names /\ ModelOf[one] = ModelOf[other]
Known(first, second) == IF first # Nothing THEN first ELSE second
Affordable(cost, budget) == Nothing \notin {cost, budget} /\ cost <= budget

ModelDefinition == [id: Names, aliases: SUBSET Names, available: BOOLEAN]
RouteOverride == [role: Roles, from: Names, to: Names]
MeasuredCost ==
  [total: Nat \cup {Nothing}, ours: BOOLEAN, models: SUBSET Names, main: Names \cup {Nothing}]

-----------------------------------------------------------------------------
(* The registry of a host's models (model-registry.ts)                       *)

Entries(pool, name) == {n \in DOMAIN pool : name = pool[n].id \/ name \in pool[n].aliases}

\* Every id and alias is one entry's, and once.
Registrable(pool) ==
  \A n \in DOMAIN pool :
    /\ Entries(pool, pool[n].id) = {n} /\ pool[n].id \notin pool[n].aliases
    /\ \A alias \in pool[n].aliases : Entries(pool, alias) = {n}

\* What a host registers, measures and exports; its aliases spell the model's id.
ASSUME RowAssumption ==
  /\ ModelOf \in [Names -> Nat] /\ Nothing \notin Names \cup Nat \cup Seq(RouteOverride)
  /\ Pools \subseteq Seq(ModelDefinition)
  /\ \A pool \in Pools : Registrable(pool) =>
       \A n \in DOMAIN pool : \A alias \in pool[n].aliases : Same(pool[n].id, alias)
  /\ Measures \subseteq Seq(MeasuredCost) /\ Prices \cup Budgets \subseteq Nat \cup {Nothing}
  /\ \A claim \in Exports : claim.overrides \in Seq(RouteOverride) \cup {Nothing}

\* resolve: the id behind an id or an alias.
Resolve(pool, name) ==
  IF Entries(pool, name) = {} THEN Nothing
  ELSE pool[CHOOSE n \in Entries(pool, name) : TRUE].id

\* listCandidateModels, and the dispatched model where none is available.
Candidates(pool, dispatched) ==
  LET available == {pool[n].id : n \in {k \in DOMAIN pool : pool[k].available}}
  IN IF available = {} THEN {dispatched} ELSE available

-----------------------------------------------------------------------------
(* The builder and the validator                                             *)

\* The stages' sum, unless one is unresolved.
SumOf(stages) ==
  LET totals == [n \in DOMAIN stages |-> Known(stages[n].measured[1].total, 0)]
  IN IF \E n \in DOMAIN stages : stages[n].measured[1].total = Nothing THEN Nothing
     ELSE FoldSeq(+, 0, totals)

Unavailable == [total |-> Nothing, ours |-> TRUE, models |-> {}, main |-> Nothing]
Summarised(stage) ==
  IF stage.measured = <<>> THEN [stage EXCEPT !.measured = <<Unavailable>>] ELSE stage

BudgetLabel(cost, budget) ==
  IF Nothing \in {cost, budget} THEN "unknown"
  ELSE IF cost <= budget THEN "under_budget" ELSE "over_budget"

\* A claim is what a writer passes; its cost is filled in where it gives none.
Build(claim) ==
  LET stages == [n \in DOMAIN claim.stages |-> Summarised(claim.stages[n])]
      cost == IF claim.fills THEN Known(claim.cost, SumOf(stages)) ELSE claim.cost
  IN [routed |-> claim.routed, overrides |-> claim.overrides, selected |-> claim.selected,
      stages |-> stages, cost |-> cost, success |-> claim.success,
      under_budget |-> claim.success /\ claim.compliant,
      label |-> BudgetLabel(cost, claim.budget)]

LastOf(seq, role) ==
  {n \in DOMAIN seq : seq[n].role = role /\ \A m \in DOMAIN seq : m > n => seq[m].role # role}

\* An override changes the model, and continues the role's override before it.
Chained(overrides) ==
  \A n \in DOMAIN overrides :
    /\ overrides[n].from # overrides[n].to
    /\ \A m \in LastOf(SubSeq(overrides, 1, n - 1), overrides[n].role) :
         overrides[m].to = overrides[n].from

\* routingOutcomeErrors: a routed row lists its overrides, another one has none.
RoutingHolds(built) ==
  /\ built.routed <=> built.overrides # Nothing
  /\ built.routed =>
       /\ Chained(built.overrides)
       /\ \A role \in Roles : \A n \in LastOf(built.overrides, role) :
            built.overrides[n].to = built.selected[role]

\* stageExecutionErrors: the last stage of a role ran its selected model.
StagesHold(built) ==
  /\ built.stages # <<>>
  /\ \A role \in Roles : \A n \in LastOf(built.stages, role) :
       built.stages[n].model = built.selected[role]
  /\ \A n \in DOMAIN built.stages : built.stages[n].measured[1].ours

Buildable(claim) ==
  /\ \A n \in DOMAIN claim.stages : Len(claim.stages[n].measured) <= 1
  /\ RoutingHolds(Build(claim)) /\ StagesHold(Build(claim))

-----------------------------------------------------------------------------
(* What each writer claims                                                   *)

FirstTotal(measured) == IF measured = <<>> THEN Nothing ELSE measured[1].total

\* One coding stage by one model, as every writer of the SDK has it.
Claim(model, overrides, measured, evidence, told) ==
  [routed |-> run.writer # "external", overrides |-> overrides,
   selected |-> [role \in Roles |-> model], success |-> told.success,
   stages |-> <<[role |-> "coder", model |-> model, measured |-> measured,
                 evidence |-> evidence]>>,
   budget |-> told.budget, cost |-> Nothing, fills |-> TRUE, compliant |-> FALSE]

Costing(claim, cost, reported) ==
  [claim EXCEPT !.cost = cost, !.compliant = Affordable(reported, claim.budget)]

\* The loop of the integration kit; the figure is what its token counts are priced
\* at, the evidence what the host says of it.
KitClaim(told) ==
  LET measured == IF told.withheld THEN <<>> ELSE told.measured
      cost == IF told.withheld THEN Nothing ELSE Known(FirstTotal(measured), told.figure)
  IN Costing(Claim(run.model, <<>>, measured, told.evidence, told), cost, cost)

\* Aider's: a run that failed reports no cost of its own, and a model Aider printed,
\* whichever it is, is evidence.
AiderClaim(told) ==
  LET cost == IF told.success THEN told.figure ELSE Nothing
  IN [Costing(Claim(run.model, <<>>, told.measured, told.evidence, told), cost, cost)
      EXCEPT !.fills = told.success]

\* A report's: Codex trusts the session over the model its agent reports.
Executed(told) ==
  LET observed == IF told.measured = <<>> THEN Nothing ELSE told.measured[1].main
  IN IF run.writer = "codex" /\ observed # Nothing /\ ~Same(observed, run.model)
     THEN observed ELSE run.model

\* From the model recommended to the one that ran, for both roles.
Overriding(executed) ==
  [n \in 1..2 |-> [role |-> <<"coder", "reviewer">>[n], from |-> run.recommended,
                   to |-> executed]]

\* Seeded bug: the override is judged by the model reported.
OverridesOfReport(executed) ==
  IF run.writer = "external" THEN Nothing
  ELSE IF run.model = run.recommended THEN <<>>
  ELSE Overriding(executed)

Overrides(executed) ==
  IF run.writer = "external" THEN Nothing
  ELSE IF executed = run.recommended THEN <<>>
  ELSE Overriding(executed)

Evidence(executed, measured) ==
  IF measured # <<>> /\ \E name \in measured[1].models : Same(name, executed)
  THEN "session_telemetry" ELSE "requested_only"

ReportClaim(told) ==
  LET executed == Executed(told)
      evidence == IF run.writer \in {"router", "external"} THEN told.evidence
                  ELSE Evidence(executed, told.measured)
  IN Costing(Claim(executed, Overrides(executed), told.measured, evidence, told),
             told.figure, Known(told.figure, FirstTotal(told.measured)))

ClaimOf(told) ==
  CASE run.writer = "kit" -> KitClaim(told)
    [] run.writer = "aider" -> AiderClaim(told)
    [] OTHER -> ReportClaim(told)

-----------------------------------------------------------------------------
(* A run                                                                     *)

ContributionInit ==
  /\ run = [writer |-> "none", stage |-> "start", pool |-> <<>>, recommended |-> Nothing,
            model |-> Nothing, told |-> Nothing]
  /\ row = Nothing

Goto(stage) == run' = [run EXCEPT !.stage = stage] /\ UNCHANGED row

\* What the host can run; the registry refuses a name two of its models share.
Discover ==
  /\ run.stage = "start"
  /\ \E loop \in Loops, pool \in Pools :
       run' = [run EXCEPT !.writer = loop, !.pool = pool,
                 !.stage = IF pool # <<>> /\ Registrable(pool) THEN "discovered" ELSE "failed"]
  /\ UNCHANGED row

\* The client refuses to route among fewer than two candidates.
RouteLoop ==
  /\ run.stage = "discovered"
  /\ \E dispatched \in {entry.id : entry \in ToSet(run.pool)} :
       /\ run.writer = "kit" => dispatched = run.pool[1].id
       /\ \/ /\ Cardinality(Candidates(run.pool, dispatched)) >= 2
             /\ \E name \in Names \cup {Nothing} :
                  run' = [run EXCEPT !.recommended = name, !.stage = "routed",
                            !.model = Resolve(run.pool, Known(name, dispatched))]
             /\ UNCHANGED row
          \/ Goto("failed")

\* A report speaks of a decision of before, which may hold no recommendation, or of
\* a run the service did not route.
RouteReported ==
  /\ run.stage = "start"
  /\ \E reporter \in Reporters, name \in Names \cup {Nothing}, model \in Names :
       /\ reporter = "router" => name # Nothing
       /\ reporter = "external" => name = Nothing
       /\ run' = [run EXCEPT !.writer = reporter, !.recommended = name, !.model = model,
                    !.stage = IF reporter # "external" /\ name = Nothing THEN "failed"
                            ELSE "routed"]
  /\ UNCHANGED row

\* The mapping is strict, and what the host runs may throw.
Abandon ==
  /\ run.stage = "routed" /\ run.writer \in Loops
  /\ Goto("failed")

\* What happened, told to the builder; the row is built and passes, or is lost.
FileRow ==
  /\ run.stage = "routed" /\ run.model # Nothing
  /\ \E success, withheld \in BOOLEAN, measured \in Measures, figure \in Prices,
         budget \in Budgets, evidence \in {"session_telemetry", "requested_only"} :
       LET told == [success |-> success, withheld |-> withheld, measured |-> measured,
                    figure |-> figure, budget |-> budget, evidence |-> evidence]
           claim == ClaimOf(told)
       IN /\ withheld => run.writer = "kit"
          /\ run.writer \in {"plugin", "codex"} => evidence = "requested_only"
          /\ run' = [run EXCEPT !.told = told,
                       !.stage = IF Buildable(claim) THEN "filed" ELSE "refused"]
          /\ row' = IF Buildable(claim) THEN Build(claim) ELSE Nothing

\* A host that calls the builder says itself what was overridden.
Export ==
  /\ run.stage = "start"
  /\ \E claim \in Exports :
       /\ run' = [run EXCEPT !.writer = "export",
                    !.stage = IF Buildable(claim) THEN "filed" ELSE "refused"]
       /\ row' = IF Buildable(claim) THEN Build(claim) ELSE Nothing

ContributionNext == Discover \/ RouteLoop \/ RouteReported \/ Abandon \/ FileRow \/ Export

-----------------------------------------------------------------------------
(***************************************************************************)
(* Properties.                                                             *)
(***************************************************************************)
Followed == row.routed /\ row.overrides = <<>>

\* "so a harness can never claim the recommendation was followed by omission":
\* a row that says so names the recommended model, in any spelling.  A loop that
\* got no recommendation also says so.
NoFalseFollow ==
  Followed /\ run.writer # "export" /\ run.recommended # Nothing
    => Same(row.selected.coder, run.recommended)

\* The overrides of a role lead, model by model, from one to the executed one.
OverridesLead ==
  row.routed => \A role \in Roles :
    LET steps == {n \in DOMAIN row.overrides : row.overrides[n].role = role}
    IN \A n \in steps :
         /\ \A m \in steps :
              n < m /\ (\A k \in steps : k <= n \/ m <= k)
                => row.overrides[n].to = row.overrides[m].from
         /\ (\A k \in steps : k <= n) => row.overrides[n].to = row.selected[role]

\* Success under the budget is claimed of a success whose cost is known and
\* within it, and the row's label agrees.
BudgetClaimHolds ==
  row.under_budget /\ run.writer # "export" => row.success /\ row.label = "under_budget"

\* A host that withholds the cost gives none away, and one that gives none has its
\* measured total reported.
CostAgrees ==
  run.told # Nothing =>
    /\ run.told.withheld => row.cost = Nothing /\ row.stages[1].measured[1].total = Nothing
    /\ run.told.figure = Nothing /\ row.cost # Nothing
         => row.cost = row.stages[1].measured[1].total

\* "session_telemetry": the session's record named the model.  The plugin looks;
\* Aider's loop does not, and others say.
EvidenceHolds ==
  run.writer \in {"plugin", "codex"} => \A n \in DOMAIN row.stages :
    row.stages[n].evidence = "session_telemetry" =>
      \E name \in row.stages[n].measured[1].models : Same(name, row.stages[n].model)

\* What ran is not lost to the row's own rules, unless what was measured is of
\* another task or of several harnesses.
NotLost ==
  run.stage = "refused" /\ run.writer # "export" =>
    \/ Len(run.told.measured) > 1
    \/ \E n \in DOMAIN run.told.measured : ~run.told.measured[n].ours

\* A row says what happened.
RowTellsTheRun ==
  /\ NotLost
  /\ row # Nothing =>
       NoFalseFollow /\ OverridesLead /\ BudgetClaimHolds /\ CostAgrees /\ EvidenceHolds
=============================================================================

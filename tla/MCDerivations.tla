---------------------------- MODULE MCDerivations ----------------------------
(* The derivations that read what others wrote: a behaviour derives the cost of *)
(* a task from events, that of a routed task from what a harness wrote, labels  *)
(* from a branch, a report from labelled rows, or a row from a run.             *)
EXTENDS SessionUsage, SurvivalLabel, ArbiterReport, ContributionRow

VARIABLE subject    \* what this behaviour derives

\* Costs.
CONSTANTS m1, m2

\* A snapshot of session 1, and a priced or unpriced turn of session 2.
Snapshot(id, seq, in, out, actual) ==
  [id |-> id, session |-> 1, turn |-> seq, seq |-> seq, at |-> seq, kind |-> "cumulative",
   model |-> m1, basis |-> "per_token_api", replayOf |-> 0, input |-> in, output |-> out,
   actual |-> actual, given |-> {}, prebuilt |-> FALSE]

Turn(id, replayOf, model, in, actual) ==
  [Snapshot(id, id, in, 1, actual) EXCEPT !.session = 2, !.turn = 1, !.at = 2,
     !.kind = "delta", !.model = model, !.replayOf = replayOf]

MCInputs == {
  Snapshot(1, 1, 2, Null, Null), Snapshot(2, 2, 1, 1, 1), Snapshot(3, 3, 4, 2, Null),
  Snapshot(4, 4, Null, 3, 2),
  Turn(5, 0, m1, 1, Null), Turn(6, 5, m2, 1, Null), Turn(7, 6, m1, 0, 0),
  \* The id of 5 again, which closes a circle; a replay of itself; a subscription.
  Turn(5, 7, m1, 1, Null), Turn(8, 8, m1, 1, Null),
  [Turn(6, 5, m2, 1, 1) EXCEPT !.basis = "subscription", !.prebuilt = TRUE],
  [Turn(9, 0, m1, 1, Null) EXCEPT !.basis = "subscription", !.given = {0}, !.session = 1]}

MCRates == m1 :> 1 @@ m2 :> Null

\* Routed tasks: a Claude Code response grows as it is streamed.
MCUsages == [s \in Sessions |-> IF s \in ClaudeSessions THEN {1} ELSE {1, 2}]

\* Labels.
Of(lines) == [here |-> TRUE, lines |-> lines, other |-> FALSE]
Absent == [here |-> FALSE, lines |-> {}, other |-> FALSE]

\* File 1 is created, with lines or empty; file 2 is cut, removed or only
\* reformatted.
MCParents == {[f \in Files |-> IF f = 1 THEN Absent ELSE Of({1, 2, 3})]}
MCMerges ==
  {[f \in Files |-> IF f = 1 THEN Of({1, 2}) ELSE two] : two \in {Of({1}), Absent}}
  \cup {[f \in Files |-> IF f = 1 THEN Of({}) ELSE [Of({1, 2, 3}) EXCEPT !.other = TRUE]]}

MCLandings ==
  {[blob |-> Absent, actor |-> "human", sameTask |-> FALSE],
   [blob |-> [Of({1}) EXCEPT !.other = TRUE], actor |-> "automation", sameTask |-> FALSE],
   [blob |-> Of({1, 2, 3}), actor |-> "agent", sameTask |-> TRUE]}

\* Reports: an executed model, a guessed one, a bare harness, nobody, no label.
PullRequest(one, two, harness, model, executed, bucket) ==
  [outcome |-> 1 :> one @@ 2 :> two, harness |-> harness,
   model |-> model, executed |-> executed, bucket |-> bucket]

MCPullRequests == {
  PullRequest("survived", "followup", "h1", "m1", TRUE, "b1"),
  PullRequest("reverted", "missing", "none", "m2", FALSE, "b2"),
  PullRequest("survived", "missing", "h1", "none", FALSE, "b2"),
  PullRequest("followup", "survived", "none", "none", FALSE, "none"),
  PullRequest("missing", "missing", "h1", "m2", TRUE, "b1")}

\* Rows: a2 is another spelling of a; x is no host's model.
MCModelOf == [name \in Names |-> CASE name = "b" -> 2 [] name = "x" -> 3 [] OTHER -> 1]

Entry(id, aliases, available) == [id |-> id, aliases |-> aliases, available |-> available]

MCPools == {
  <<>>, <<Entry("a", {}, TRUE)>>,
  <<Entry("a", {"a2"}, TRUE), Entry("b", {}, TRUE)>>,
  <<Entry("a", {}, FALSE), Entry("b", {}, TRUE), Entry("x", {}, TRUE)>>,
  <<Entry("a", {"b"}, TRUE), Entry("b", {}, TRUE)>>,
  <<Entry("a", {}, TRUE), Entry("a", {}, TRUE)>>}

CostSummary(total, ours, models, main) ==
  [total |-> total, ours |-> ours, models |-> models, main |-> main]

MCMeasures ==
  {<<>>, <<CostSummary(1, FALSE, {"a"}, "a")>>,
   <<CostSummary(1, TRUE, {"a"}, "a"), CostSummary(3, TRUE, {"b"}, "b")>>}
  \cup {<<CostSummary(total, TRUE, models, CHOOSE main \in models : main # "a")>> :
          total \in {Nothing, 1, 3}, models \in {{"b"}, {"a", "a2"}, {"a", "b"}}}

MCPrices == {Nothing, 0, 1, 3}
MCBudgets == {Nothing, 2}

\* A chain, one that returns, and ones that break a rule.
MCExports ==
  LET step(role, from, to) == [role |-> role, from |-> from, to |-> to]
      chains == {Nothing, <<>>} \cup
        {<<step("coder", from, to), step(role, second, "a")>> :
           from \in {"a", "b"}, to \in {"b", "x"}, role \in Roles, second \in {"b", "x"}}
      stage(role, model) ==
        [role |-> role, model |-> model, measured |-> <<CostSummary(1, TRUE, {}, Nothing)>>,
         evidence |-> "requested_only"]
  IN {[routed |-> routed, overrides |-> overrides,
       selected |-> [role \in Roles |-> IF role = "coder" THEN coder ELSE "a"],
       success |-> TRUE, stages |-> stages, budget |-> 2, cost |-> Nothing, fills |-> TRUE,
       compliant |-> TRUE] :
        routed \in BOOLEAN, overrides \in chains, coder \in {"a", "b"},
        stages \in {<<>>, <<stage("coder", "b"), stage("coder", "a")>>, <<stage("repair", "x")>>,
                   <<stage("coder", "a"), stage("coder", "b"), stage("reviewer", "a")>>}}

-----------------------------------------------------------------------------
\* A pull request just merged, for a behaviour that labels nothing.
NoLabels ==
  /\ parent = CHOOSE tree \in Parents : TRUE
  /\ branch = <<Commit(0, CHOOSE left \in Merges : TRUE, "agent", Unknown, FALSE)>>
  /\ now = 0 /\ linkedAt = {} /\ edited = FALSE

DerivationsInit ==
  /\ EngineInit /\ SessionInit /\ ReportInit /\ ContributionInit
  /\ \/ subject = "labels" /\ LabelInit
     \/ subject \in {"costs", "claude", "codex", "reports", "rows"} /\ NoLabels

DerivationsNext ==
  /\ UNCHANGED subject
  /\ \/ subject = "costs" /\ EngineNext
        /\ UNCHANGED <<sessionVars, labelVars, prs, contributionVars>>
     \/ subject = "claude" /\ (ClaudeNext \/ Tick)
        /\ UNCHANGED <<engineVars, labelVars, prs, contributionVars>>
     \/ subject = "codex" /\ (CodexNext \/ Tick)
        /\ UNCHANGED <<engineVars, labelVars, prs, contributionVars>>
     \/ subject = "labels" /\ LabelNext
        /\ UNCHANGED <<engineVars, sessionVars, prs, contributionVars>>
     \/ subject = "reports" /\ ReportNext
        /\ UNCHANGED <<engineVars, sessionVars, labelVars, contributionVars>>
     \/ subject = "rows" /\ ContributionNext
        /\ UNCHANGED <<engineVars, sessionVars, labelVars, prs>>

derivationVars == <<subject, prs, engineVars, sessionVars, labelVars, contributionVars>>

DerivationsSpec == DerivationsInit /\ [][DerivationsNext]_derivationVars

\* Nothing that comes after a report changes it.  The Claude sessions differ in
\* name only, Codex needs one time before the window and one in it and measures no
\* task whose session it was not told, and a model without a price is used after
\* one that has it.
UntilClaimed ==
  /\ \A t \in Tasks : claims[t] = Null
  /\ used # <<>> => used[1].model = m1
  /\ subject = "claude" /\ used # <<>> => used[1].session = 1
  /\ subject = "codex" =>
       clock <= 1 /\ \A t \in Tasks : routes[t] # Null => routes[t].told

\* Every usage of a task counts once (TaskCostEngine), in the behaviours that offer
\* events.
EventsCountOnce == subject = "costs" => UsageCountsOnce

\* A label is sound (SurvivalLabel), in the behaviours that label.
LabelsAreSound == subject = "labels" => LabelIsSound

\* A row says what happened (ContributionRow), in the behaviours that write rows.
RowsTellTheRun == subject = "rows" => RowTellsTheRun

\* A report is valid (ArbiterReport), in the behaviours that report.
ReportsAreValid == subject = "reports" => ReportIsValid
=============================================================================

---------------------------- MODULE ArbiterReport ----------------------------
(***************************************************************************)
(* The report a scan emits: the draft's aggregates over the labelled pull   *)
(* requests (packages/scan/src/report/aggregate.ts), the suppression that    *)
(* decides what of it may be shown (report/suppression.ts), and the          *)
(* invariants any arbiter_report/v1 has to pass                              *)
(* (packages/core/src/arbiter-report.ts).                                    *)
(*                                                                           *)
(* A cell is what its statistic counts over (n), whether it has a value, and *)
(* its suppression; the value, its interval and their rounding are left out. *)
(* Cost, retrospective and predictions are absent from a draft, as           *)
(* buildReportDraft leaves them.                                             *)
(***************************************************************************)
EXTENDS Integers, FiniteSets, FiniteSetsExt, Functions

CONSTANTS
  PullRequests,   \* kinds of pull request rows a report may hold, \subseteq Row
  Periods,        \* the report's horizons
  MinCell,        \* policy: min_cell_n
  Floor,          \* policy: the coverage floors, in tenths
  MaxRows         \* bound: the rows of a report

Outcomes == {"survived", "followup", "substantially_rewritten", "reverted"}

\* A row: its outcome per horizon, "missing" for none; what made it; one feature.
Row == [outcome: [Periods -> Outcomes \cup {"missing"}],
        harness: {"none", "h1"},
        model: {"none", "m1", "m2"}, executed: BOOLEAN, bucket: {"none", "b1", "b2"}]

ASSUME ReportAssumption ==
  PullRequests \subseteq Row /\ IsFiniteSet(PullRequests) /\ MinCell \in Nat \ {0}

VARIABLE prs    \* how many rows of each kind the report holds

Count(kinds) == FoldFunctionOnSet(+, 0, prs, kinds)
Enumerated == Count(PullRequests)

-----------------------------------------------------------------------------
(* buildAggregates                                                           *)

\* makeCell and ratioCell: a value exists exactly when there is something to
\* count.  A cell says what it speaks of and which statistic of that it is.
Cell(about, statistic, n) ==
  [about |-> about, statistic |-> statistic, n |-> n, valued |-> n > 0,
   suppressed |-> FALSE, reasons |-> {}]

Labelled(h) == {pr \in PullRequests : pr.outcome[h] # "missing"}

\* A section is shown as it is built.
Section(cells) == [status |-> "shown", reasons |-> {}, cells |-> cells]

ByOutcome ==
  {Cell(<<h, outcome>>, "cell", Count(Labelled(h))) : h \in Periods, outcome \in Outcomes}

Risk(h, bucket) ==
  LET group == Count({pr \in Labelled(h) : pr.bucket = bucket})
      outside == Count({pr \in Labelled(h) : pr.bucket \notin {"none", bucket}})
  IN {Cell(<<h, bucket>>, "rework_rate", group),
      Cell(<<h, bucket>>, "baseline_rate", outside),
      Cell(<<h, bucket>>, "ratio", Min({group, outside}))}

Risks == UNION {Risk(h, bucket) : h \in Periods, bucket \in {"b1", "b2"}}

\* Rows exist for the identities some labelled row has.
By(id) ==
  UNION {LET present == {pr \in Labelled(h) : prs[pr] > 0 /\ pr[id] # "none"}
         IN {Cell(<<h, one>>, "cell", Count({pr \in present : pr[id] = one})) :
               one \in {pr[id] : pr \in present}} : h \in Periods}

Draft ==
  [survival_by_horizon |-> Section(ByOutcome), risk_ratios |-> Section(Risks),
   survival_by_model |-> Section(By("model")), survival_by_harness |-> Section(By("harness")),
   cost_adjusted_survival_by_model |-> Section({})]

-----------------------------------------------------------------------------
(* applyReportSuppression                                                    *)

\* A share of the enumerated rows at or above the policy's floor.
Reaches(kinds) == 10 * Count(kinds) >= Floor * Max({1, Enumerated})

\* A guessed model is not evidence of the executed one: both bars are needed.
ExactTable ==
  /\ Enumerated > 0 /\ Reaches({pr \in PullRequests : pr.model # "none"})
  /\ Reaches({pr \in PullRequests : pr.model # "none" /\ pr.executed})

HarnessTable == Enumerated > 0 /\ Reaches({pr \in PullRequests : pr.harness # "none"})

\* Beside ModelReasons, which is used: a good harness coverage stands in for the model's.
EitherReasons ==
  IF ExactTable \/ HarnessTable THEN {} ELSE {"exact_model_coverage_below_floor"}

ModelReasons ==
  IF ExactTable THEN {}
  ELSE {"exact_model_coverage_below_floor"}
       \cup (IF HarnessTable THEN {"harness_only_evidence"} ELSE {})

\* Without a cost section no cost view is comparable.
CostReasons == IF ExactTable THEN {"cost_coverage_below_floor"} ELSE ModelReasons

HarnessReasons == IF HarnessTable THEN {} ELSE {"harness_coverage_below_floor"}

\* hide
Hidden(cell, reasons) ==
  [cell EXCEPT !.valued = FALSE, !.suppressed = TRUE, !.reasons = @ \cup reasons]

SuppressCell(cell, reasons) ==
  LET all == reasons \cup (IF cell.n < MinCell THEN {"n_below_floor"} ELSE {})
  IN IF all = {} THEN cell ELSE Hidden(cell, all)

SuppressSection(section, reasons) ==
  LET cells == {SuppressCell(cell, reasons) : cell \in section.cells}
  IN IF reasons # {} \/ \A cell \in cells : cell.suppressed
     THEN [status |-> "suppressed", cells |-> cells,
           reasons |-> section.reasons \cup reasons \cup (UNION {cell.reasons : cell \in cells})
                       \cup (IF cells = {} THEN {"n_below_floor"} ELSE {})]
     ELSE [status |-> "shown", cells |-> cells, reasons |-> {}]

Suppressed(aggregates) ==
  [survival_by_horizon |-> SuppressSection(aggregates.survival_by_horizon, {}),
   risk_ratios |-> SuppressSection(aggregates.risk_ratios, {}),
   survival_by_model |-> SuppressSection(aggregates.survival_by_model, ModelReasons),
   survival_by_harness |-> SuppressSection(aggregates.survival_by_harness, HarnessReasons),
   cost_adjusted_survival_by_model |->
     SuppressSection(aggregates.cost_adjusted_survival_by_model, CostReasons)]

\* eligibility, over what has been suppressed
Eligibility(aggregates) ==
  [exact_model_table |-> ExactTable, harness_table |-> HarnessTable,
   cost_adjusted_by_model |-> FALSE,
   model_routing_cta |-> ExactTable
     /\ \E cell \in aggregates.survival_by_model.cells : ~cell.suppressed]

-----------------------------------------------------------------------------
(* invariant                                                                 *)

CellIsSound(cell) ==
  IF cell.suppressed THEN ~cell.valued /\ cell.reasons # {}
  ELSE cell.valued /\ cell.reasons = {}

SectionIsSound(section) ==
  /\ \A cell \in section.cells :
       CellIsSound(cell) /\ (section.status = "suppressed" => cell.suppressed)
  /\ section.status = "suppressed" => section.reasons # {}

EligibilityIsSound(eligibility, aggregates) ==
  /\ eligibility.model_routing_cta => eligibility.exact_model_table
  /\ ~eligibility.exact_model_table => aggregates.survival_by_model.status # "shown"
  /\ ~eligibility.harness_table => aggregates.survival_by_harness.status # "shown"
  /\ ~eligibility.cost_adjusted_by_model =>
       aggregates.cost_adjusted_survival_by_model.status # "shown"

IsReport(aggregates) ==
  /\ \A name \in DOMAIN aggregates : SectionIsSound(aggregates[name])
  /\ EligibilityIsSound(Eligibility(aggregates), aggregates)

-----------------------------------------------------------------------------
\* A scan that found nothing, and one more row, whatever was merged, labelled
\* and attributed.
ReportInit == prs = [pr \in PullRequests |-> 0]

AddRow(pr) == Enumerated < MaxRows /\ prs' = [prs EXCEPT ![pr] = @ + 1]

ReportNext == \E pr \in PullRequests : AddRow(pr)

-----------------------------------------------------------------------------
(* Properties.                                                               *)

\* Whatever the rows, the report the scanner builds passes what IsReport models
\* of the validation it runs on it, so that none of its cells, sections or
\* eligibility makes applyReportSuppression or emitReport throw
\* ArbiterReportBuildError, or a consumer refuse it; and suppressing it again
\* changes nothing ("Pure and idempotent").  The structural patterns, the sums of
\* the coverage and the rounding of rates are left out.
ReportIsValid ==
  LET report == Suppressed(Draft)
  IN IsReport(report) /\ Suppressed(report) = report
=============================================================================

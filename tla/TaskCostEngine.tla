--------------------------- MODULE TaskCostEngine ---------------------------
(***************************************************************************)
(* What the usage events of one task add up to.  createTaskCostEngine of   *)
(* packages/costs takes events in whatever order they arrive, priced or to *)
(* be priced, and aggregateTaskCost of packages/core reduces a log of them *)
(* to a summary: repetitions and superseded events are left out, running   *)
(* totals are turned into differences, and what is missing stays missing.  *)
(*                                                                         *)
(* Abstracted: ids, sessions and times are numbers in the order the code   *)
(* compares them; two token counters stand for five; a price is a rate per *)
(* token; one harness and provider contract (any other is mixed_scope).    *)
(***************************************************************************)
EXTENDS Integers, Sequences, SequencesExt, FiniteSets, FiniteSetsExt, TLC

CONSTANTS
  Inputs,     \* what is offered to the engine
  Rates,      \* the price of a model per token, or Null
  MaxOffers,  \* bound on the offers
  Null        \* missing

\* IngestUsageInput, or the TaskCostEventV1 that comes priced: 0 is the id of none.
Amounts == Nat \cup {Null}
IngestUsageInputs ==
  [id: Nat \ {0}, session: Nat, turn: Nat, seq: Nat, at: Nat, kind: {"delta", "cumulative"},
   model: DOMAIN Rates, basis: STRING, replayOf: Nat, input: Amounts, output: Amounts,
   actual: Amounts, given: SUBSET Amounts, prebuilt: BOOLEAN]

ASSUME EngineAssumption ==
  Null \notin Nat /\ Rates \in [DOMAIN Rates -> Amounts] /\ Inputs \subseteq IngestUsageInputs

VARIABLES
  log,       \* every valid event offered, as a ledger read more than once has them
  events,    \* what the engine accepted, in order
  result     \* what the last ingest returned

engineVars == <<log, events, result>>

EngineInit == log = <<>> /\ events = <<>> /\ result = "none"

Ids(seq) == {e.id : e \in ToSet(seq)}

(***************************************************************************)
(* Ingestion.                                                              *)
(***************************************************************************)
\* resolveEstimate: the caller's estimate, or input and output at the model's rate.
Estimate(input) ==
  IF input.given # {} THEN CHOOSE cost \in input.given : TRUE
  ELSE IF Null \in {input.input, input.output, Rates[input.model]} THEN Null
  ELSE (input.input + input.output) * Rates[input.model]

Event(input) ==
  [id |-> input.id, session |-> input.session, turn |-> input.turn, seq |-> input.seq,
   at |-> input.at, kind |-> input.kind, model |-> input.model, basis |-> input.basis,
   replayOf |-> input.replayOf, input |-> input.input, output |-> input.output,
   actual |-> input.actual, estimated |-> Estimate(input)]

\* validateTaskCostEventV1
Valid(input) ==
  /\ input.replayOf # input.id
  /\ ~ (input.basis = "subscription" /\ input.actual # Null)

\* An event that comes priced is validated before it is looked up, others after.
StatusOf(input) ==
  IF input.prebuilt /\ ~ Valid(input) THEN "rejected"
  ELSE IF input.id \in Ids(events) THEN "duplicate"
  ELSE IF ~ Valid(input) THEN "rejected"
  ELSE "accepted"

Ingest(input) ==
  /\ Len(log) < MaxOffers
  /\ result' = StatusOf(input)
  /\ events' = IF result' = "accepted" THEN Append(events, Event(input)) ELSE events
  /\ log' = IF Valid(input) THEN Append(log, Event(input)) ELSE log

EngineNext == \E input \in Inputs : Ingest(input)

EngineSpec == EngineInit /\ [][EngineNext]_engineVars

(***************************************************************************)
(* Parts of sequences, in order.                                           *)
(***************************************************************************)
\* The n-th of some positions.
Nth(positions, n) ==
  CHOOSE i \in positions : Cardinality({j \in positions : j < i}) = n - 1

\* The same sequence, whose elements TLC computes once.
Listed(seq) == <<>> \o seq

\* Array.prototype.filter
Kept(seq, positions) ==
  Listed([n \in 1 .. Cardinality(positions) |-> seq[Nth(positions, n)]])

\* The first of each value of a field.
Leaders(seq, field) ==
  Kept(seq, {i \in DOMAIN seq : \A j \in 1 .. i - 1 : seq[j][field] # seq[i][field]})

\* Array.prototype.sort: what compares equal stays as it came.
Sorted(seq, Before(_, _)) ==
  LET earlier(i) == {j \in DOMAIN seq :
        Before(seq[j], seq[i]) \/ (j < i /\ ~ Before(seq[i], seq[j]))}
  IN Listed([n \in DOMAIN seq |->
       seq[CHOOSE i \in DOMAIN seq : Cardinality(earlier(i)) = n - 1]])

(***************************************************************************)
(* resolveReplays.                                                         *)
(***************************************************************************)
\* The first event of each id.
Firsts(seq) == Leaders(seq, "id")

Superseded(seq) == {e.replayOf : e \in ToSet(Firsts(seq))}

\* Some events replay one another in a circle.
Cyclic(seq) ==
  \E S \in SUBSET Ids(seq) \ {{}} :
    \A e \in ToSet(Firsts(seq)) : e.id \in S => e.replayOf \in S

Contributing(seq) ==
  LET firsts == Firsts(seq)
  IN Kept(firsts, {i \in DOMAIN firsts : firsts[i].id \notin Superseded(seq)})

(***************************************************************************)
(* reconcileCumulative.                                                    *)
(***************************************************************************)
Counters == {"input", "output", "actual", "estimated"}

InSession(a, b) == a.seq < b.seq \/ (a.seq = b.seq /\ a.id < b.id)

\* The last total of this counter before e, if any.
Baseline(kept, e, counter) ==
  LET earlier == {p \in ToSet(kept) :
        /\ p.session = e.session /\ p.kind = "cumulative"
        /\ InSession(p, e) /\ p[counter] # Null}
  IN IF earlier = {} THEN Null
     ELSE (CHOOSE p \in earlier : \A q \in earlier : p = q \/ InSession(q, p))[counter]

Delta(kept, e, counter) ==
  LET base == Baseline(kept, e, counter)
  IN IF e.kind = "delta" \/ Null \in {e[counter], base} THEN e[counter]
     ELSE IF e[counter] >= base THEN e[counter] - base ELSE 0

Drops(kept, e, counter) ==
  LET base == Baseline(kept, e, counter)
  IN e.kind = "cumulative" /\ Null \notin {e[counter], base} /\ e[counter] < base

\* Events of one time as they came.
CompareTimes(a, b) == a.at < b.at \/ (a.at = b.at /\ a.session < b.session)

\* Time, then session, sequence, id.
CompareEvents(a, b) ==
  \/ a.at < b.at
  \/ a.at = b.at /\ a.session < b.session
  \/ a.at = b.at /\ a.session = b.session /\ InSession(a, b)

Observations(seq) ==
  LET kept == Contributing(seq)
      observe(e) == [c \in DOMAIN e |-> IF c \in Counters THEN Delta(kept, e, c) ELSE e[c]]
      ordered == Sorted(kept, CompareEvents)
  IN [i \in DOMAIN ordered |-> observe(ordered[i])]

(***************************************************************************)
(* aggregateTaskCost, aggregateTaskCostByModel.                            *)
(***************************************************************************)
AddNullable(a, b) == IF a = Null THEN b ELSE IF b = Null THEN a ELSE a + b

SumNullable(seq) == FoldLeft(AddNullable, Null, seq)

SumBy(obs, field) == SumNullable([i \in DOMAIN obs |-> obs[i][field]])

Resolved(o) == IF o.actual # Null THEN o.actual ELSE o.estimated

\* Null unless every event resolved a cost: never an undercount.
Total(obs) ==
  IF \A i \in DOMAIN obs : Resolved(obs[i]) # Null THEN SumNullable([i \in DOMAIN obs |-> Resolved(obs[i])]) ELSE Null

SourceOf(o) ==
  IF o.actual # Null THEN "provider_reported"
  ELSE IF o.estimated # Null THEN "local_estimate" ELSE "none"

\* promoteCostSource: a gap is not a third source.
PromoteSource(sources) ==
  LET known == sources \ {"none"}
  IN IF known = {} THEN "none" ELSE IF Cardinality(known) > 1 THEN "mixed"
     ELSE CHOOSE s \in known : TRUE

\* deriveUsageAvailability
Availability(o) ==
  LET values == {o.input, o.output}
  IN IF values = {Null} THEN "unavailable" ELSE IF Null \in values THEN "partial"
     ELSE IF values = {0} THEN "known_zero" ELSE "available"

CoverageOf(o) ==
  IF Resolved(o) = Null THEN IF Availability(o) = "unavailable" THEN "unavailable" ELSE "partial"
  ELSE IF o.actual = 0 \/ (Resolved(o) = 0 /\ Availability(o) = "known_zero") THEN "known_zero"
  ELSE IF Availability(o) = "available" THEN "complete" ELSE "partial"

\* promoteCoverage, and promoteAvailability with "available" for whole.
Promote(values, whole) ==
  IF values \subseteq {"unavailable"} THEN "unavailable"
  ELSE IF values = {"known_zero"} THEN "known_zero"
  ELSE IF values \subseteq {whole, "known_zero"} THEN whole
  ELSE "partial"

Coverages(obs) == {CoverageOf(o) : o \in ToSet(obs)}

Turns(obs) == Cardinality({<<o.session, o.turn>> : o \in ToSet(obs)})

Models(obs) ==
  LET leaders == Leaders(obs, "model")
  IN [n \in DOMAIN leaders |-> leaders[n].model]

Figures(obs) ==
  [turns |-> Turns(obs),
   input |-> SumBy(obs, "input"), output |-> SumBy(obs, "output"),
   actual |-> SumBy(obs, "actual"), estimated |-> SumBy(obs, "estimated"),
   source |-> PromoteSource({SourceOf(o) : o \in ToSet(obs)})]

ByModel(obs) ==
  LET models == Models(obs)
      groups == [n \in DOMAIN models |-> Kept(obs, {i \in DOMAIN obs : obs[i].model = models[n]})]
  IN [n \in DOMAIN models |-> LET group == groups[n] IN
     [figures |-> Figures(group), total |-> Total(group),
      coverage |-> Promote(Coverages(group), "complete")]]

\* Consecutive runs of one model.
Segments(obs) ==
  LET starts == {i \in DOMAIN obs : i = 1 \/ obs[i - 1].model # obs[i].model}
      runs == Cardinality(starts)
      to(k) == IF k = runs THEN Len(obs) ELSE Nth(starts, k + 1) - 1
  IN [k \in 1 .. runs |-> Figures(Kept(obs, Nth(starts, k) .. to(k)))]

Diagnostics(seq, obs) ==
  {d \in {"missing_token_usage", "unpriced_model", "mixed_coverage", "provider_reported_cost",
          "no_priced_sessions", "cumulative_backward_jump", "subscription_basis_no_charge"} :
     CASE d = "missing_token_usage" -> \E o \in ToSet(obs) : Null \in {o.input, o.output}
       [] d = "unpriced_model" ->
            \E o \in ToSet(obs) : Resolved(o) = Null /\ Null \notin {o.input, o.output}
       [] d = "mixed_coverage" -> Promote(Coverages(obs), "complete") = "partial"
       [] d = "provider_reported_cost" -> \E o \in ToSet(obs) : o.actual # Null
       [] d = "no_priced_sessions" -> \A o \in ToSet(obs) : Resolved(o) = Null
       [] d = "cumulative_backward_jump" ->
            LET kept == Contributing(seq)
            IN \E e \in ToSet(kept), c \in Counters : Drops(kept, e, c)
       [] d = "subscription_basis_no_charge" -> \E o \in ToSet(obs) : o.basis = "subscription"}

\* replay_dropped is left out: it tells how the events came.
Summary(seq) ==
  IF seq = <<>> \/ Cyclic(seq) THEN [refused |-> TRUE]
  ELSE LET obs == Observations(seq) IN
    [sessions |-> {o.session : o \in ToSet(obs)}, models |-> Models(obs),
     segments |-> Segments(obs), figures |-> Figures(obs), total |-> Total(obs),
     basis |-> IF Cardinality({o.basis : o \in ToSet(obs)}) = 1 THEN obs[1].basis ELSE "unknown",
     coverage |-> Promote(Coverages(obs), "complete"),
     availability |-> Promote({Availability(o) : o \in ToSet(obs)}, "available"),
     collected |-> Max({e.at : e \in ToSet(seq)}),
     ids |-> [i \in DOMAIN obs |-> obs[i].id], diagnostics |-> Diagnostics(seq, obs)]

(***************************************************************************)
(* Properties.                                                             *)
(***************************************************************************)
\* The latest time may be that of a repetition.
Outline(summary) ==
  [f \in DOMAIN summary \ {"collected"} |-> summary[f]]

\* "Replaying a whole ledger is a no-op", "events may arrive in any order": a log
\* with repetitions has the summary of what the engine accepted of it, and, where
\* an id stands for one event, of the events put in any other order.
ReplayIsNoOp ==
  LET OneBody == \A a, b \in ToSet(log) : a.id = b.id => a = b
  IN /\ Outline(Summary(log)) = Outline(Summary(events))
     /\ OneBody => Summary(log) = Summary(Sorted(Firsts(log), LAMBDA a, b : a.id < b.id))

\* Running totals are counted once: the differences of a session's snapshots make
\* up the last total, and what resets had dropped before it; a missing counter
\* neither adds to them nor moves the baseline.
SnapshotsTelescope ==
  ~ Cyclic(log) => \A s \in {e.session : e \in ToSet(log)}, c \in Counters :
    LET kept == Contributing(log)
        snapshots == Sorted(Kept(kept, {i \in DOMAIN kept :
          kept[i].session = s /\ kept[i].kind = "cumulative" /\ kept[i][c] # Null}), InSession)
        drop(i) == IF snapshots[i][c] > snapshots[i + 1][c]
                   THEN snapshots[i][c] - snapshots[i + 1][c] ELSE 0
    IN snapshots # <<>> =>
         SumNullable([i \in DOMAIN snapshots |-> Delta(kept, snapshots[i], c)])
           = Last(snapshots)[c] + SumNullable(<<0>> \o [i \in 1 .. Len(snapshots) - 1 |-> drop(i)])

\* The figures by model and by segment are those of the summary again, and the
\* total is unknown exactly if that of some model is.
ModelsAddUp ==
  log # <<>> /\ ~ Cyclic(log) =>
    LET obs == Observations(log)
        Sum(parts, f) == SumNullable([i \in DOMAIN parts |-> parts[i][f]])
        whole == Figures(obs)
        models == ByModel(obs)
        ofModels == [i \in DOMAIN models |-> models[i].figures]
        ofSegments == Segments(obs)
    IN /\ \A c \in Counters : Sum(ofModels, c) = whole[c] /\ Sum(ofSegments, c) = whole[c]
       /\ IF \E m \in ToSet(models) : m.total = Null THEN Total(obs) = Null
          ELSE Total(obs) = Sum(models, "total")

\* "Chains resolve to the last link": of a turn that was retried any number of times,
\* in whatever order the events come, exactly one event counts.
ChainCountsOnce ==
  LET firsts == ToSet(Firsts(log))
      starts == {e \in firsts : e.replayOf \notin Ids(log)}
      forked == \E a, b \in firsts : a # b /\ a.replayOf # 0 /\ a.replayOf = b.replayOf
  IN ~ Cyclic(log) /\ ~ forked => Len(Contributing(log)) = Cardinality(starts)

\* Each usage counts once: however often the events of a task are offered, in
\* whatever order, the ledger's repetitions add nothing, and of a chain of replays
\* the last link alone does; and between the counters of the events and the figures
\* of the summary no token and no charge is counted twice or lost.
UsageCountsOnce ==
  ReplayIsNoOp /\ ChainCountsOnce /\ SnapshotsTelescope /\ ModelsAddUp
=============================================================================

---------------------------- MODULE SessionUsage ----------------------------
(***************************************************************************)
(* What a routed task is said to have cost.  A harness writes down what    *)
(* each response of a session used: Claude Code in a transcript named      *)
(* after the session, and in a sidecar that its statusline overwrites with *)
(* the total of whichever session was drawn last; Codex in rollouts with   *)
(* running totals.  The route keeps a baseline; the report, later and      *)
(* perhaps from elsewhere, measures the route's own session in the window  *)
(* between the two, or falls back to the sidecar or to the bare transcript.*)
(*                                                                         *)
(* Abstracted: one token counter, one token costs 1 where the model has a  *)
(* price; a time is a number; a malformed line is no line.  An amount that *)
(* the operator typed in takes precedence and is not followed.             *)
(***************************************************************************)
EXTENDS TaskCostEngine

CONSTANTS
  ClaudeSessions, CodexSessions,
  ReportsDeltas,   \* the Codex sessions whose CLI also says what each response used
  Tasks,
  Usages,          \* what a response of each session may use
  Freshness,       \* a sidecar older than this is no baseline
  MaxUses, LastTime, MaxRollouts   \* bounds

VARIABLES
  clock,
  used,      \* what the responses have used, in order: what really happened
  files,     \* the files of each session, each a sequence of rows
  turns,     \* the Codex turn a session is in
  sidecar,   \* session-cost.json
  routes,    \* the baseline stored with each task's route
  claims     \* what each task was reported to have cost

sessionVars == <<clock, used, files, turns, sidecar, routes, claims>>

Sessions == ClaudeSessions \cup CodexSessions

SessionInit ==
  /\ clock = 0 /\ used = <<>> /\ sidecar = Null
  /\ files = [s \in Sessions |-> <<>>]
  /\ turns = [s \in CodexSessions |-> Null]
  /\ routes = [t \in Tasks |-> Null] /\ claims = [t \in Tasks |-> Null]

Tick == clock < LastTime /\ clock' = clock + 1 /\ UNCHANGED <<used, files, turns, sidecar, routes, claims>>

\* A response of this session, as the next of all.
Use(s, tokens, model) ==
  /\ Len(used) < MaxUses
  /\ used' = Append(used, [session |-> s, at |-> clock, tokens |-> tokens, model |-> model])

\* One more row in the last file of the session.
AppendRow(s, row) ==
  files' = [files EXCEPT ![s] =
    IF @ = <<>> THEN <<<<row>>>> ELSE Append(Front(@), Append(Last(@), row))]

SumTokens(uses) == FoldSet(LAMBDA k, sum : used[k].tokens + sum, 0, uses)

Spent(s) == SumTokens({k \in DOMAIN used : used[k].session = s})

(***************************************************************************)
(* Claude Code writes.                                                     *)
(***************************************************************************)
\* key is the message and request of the response: streamed rows repeat it.
ClaudeRow(k, use) ==
  [key |-> k, session |-> use.session, at |-> use.at, tokens |-> use.tokens, model |-> use.model]

ModelResponds(s, tokens, model) ==
  /\ Use(s, tokens, model)
  /\ AppendRow(s, ClaudeRow(Len(used) + 1, Last(used')))
  /\ UNCHANGED <<clock, turns, sidecar, routes, claims>>

\* The last response goes on: a further row of it, with all it used so far.
Stream(s) ==
  /\ used # <<>> /\ Last(used).session = s
  /\ Last(used).tokens <= Max(Usages[s])
  /\ used' = [used EXCEPT ![Len(used)].tokens = @ + 1, ![Len(used)].at = clock]
  /\ AppendRow(s, ClaudeRow(Len(used), Last(used')))
  /\ UNCHANGED <<clock, turns, sidecar, routes, claims>>

\* Resumed under a new id: the history is copied verbatim.
Resume(s, of) ==
  /\ files[s] = <<>> /\ files[of] # <<>>
  /\ files' = [files EXCEPT ![s] = files[of]]
  /\ UNCHANGED <<clock, used, turns, sidecar, routes, claims>>

\* hokusai-statusline.mjs: one file for all sessions.
DrawStatusline(s) ==
  /\ sidecar' = [session |-> s, cost |-> Spent(s), at |-> clock]
  /\ UNCHANGED <<clock, used, files, turns, routes, claims>>

(***************************************************************************)
(* Codex writes.                                                           *)
(***************************************************************************)
StartTurn(s) ==
  /\ turns' = [turns EXCEPT ![s] = [id |-> Len(used) + 1, at |-> clock]]
  /\ UNCHANGED <<clock, used, files, sidecar, routes, claims>>

\* The running total that a file shows.
Counter(rows) == IF rows = <<>> THEN 0 ELSE Last(rows).total

\* A token_count: the total goes on, or starts again with a fresh context.
CountTokens(s, tokens, model, fresh) ==
  LET counter == IF files[s] = <<>> \/ fresh THEN 0 ELSE Counter(Last(files[s]))
  IN /\ Use(s, tokens, model)
     /\ AppendRow(s,
          [key |-> Len(used) + 1, turn |-> IF turns[s] = Null THEN Null ELSE turns[s].id,
           at |-> clock, total |-> counter + tokens,
           delta |-> IF s \in ReportsDeltas THEN tokens ELSE Null, model |-> model])
     /\ UNCHANGED <<clock, turns, sidecar, routes, claims>>

\* A further rollout of the same session, with the history or with none.
Rollout(s, copied) ==
  /\ files[s] # <<>> /\ Last(files[s]) # <<>> /\ Len(files[s]) < MaxRollouts
  /\ files' = [files EXCEPT ![s] = Append(@, IF copied THEN Last(@) ELSE <<>>)]
  /\ turns' = IF copied THEN turns ELSE [turns EXCEPT ![s] = Null]
  /\ UNCHANGED <<clock, used, sidecar, routes, claims>>

(***************************************************************************)
(* The route.                                                              *)
(***************************************************************************)
StoredBaseline(at, session, cost, since) ==
  [at |-> at, session |-> session, cost |-> cost, since |-> since]

\* captureCostBaseline.  since is what no code keeps: when the sidecar was written.
CaptureCostBaseline(session) ==
  IF /\ sidecar # Null
     /\ session = Null \/ sidecar.session = session
     /\ clock - sidecar.at <= Freshness
  THEN StoredBaseline(clock, sidecar.session, sidecar.cost, sidecar.at)
  ELSE StoredBaseline(clock, session, Null, clock)

\* told: CLAUDE_CODE_SESSION_ID is set.
RouteClaude(t, s, told) ==
  /\ routes[t] = Null
  /\ routes' = [routes EXCEPT ![t] =
       [ran |-> s, told |-> told, baseline |-> CaptureCostBaseline(IF told THEN s ELSE Null)]]
  /\ UNCHANGED <<clock, used, files, turns, sidecar, claims>>

\* codexSessionBaseline: told by the call's _meta, and from the start of its turn.
RouteCodex(t, s, told) ==
  LET from == IF turns[s] = Null THEN clock ELSE turns[s].at
  IN /\ routes[t] = Null
     /\ routes' = [routes EXCEPT ![t] =
          [ran |-> s, told |-> told,
           baseline |-> StoredBaseline(from, IF told THEN s ELSE Null, Null, from)]]
     /\ UNCHANGED <<clock, used, files, turns, sidecar, claims>>

(***************************************************************************)
(* Measuring: the source adapters, and the engine over what they return.   *)
(***************************************************************************)
\* resolveTaskBoundary: exactly the route's session, and both ends included.
Within(row, session, from, to) == row.session = session /\ from <= row.at /\ row.at <= to

\* Seeded bug: rows are counted as they come.
EveryRow(rows) == rows

\* Of rows with one identity the last counts.
LastOfEach(rows) ==
  Kept(rows, {i \in DOMAIN rows : \A j \in DOMAIN rows : j > i => rows[j].id # rows[i].id})

\* parseClaudeCodeTranscript
ParseClaude(file) ==
  [i \in DOMAIN file |->
     [id |-> file[i].key, session |-> file[i].session, turn |-> file[i].key,
      at |-> file[i].at, tokens |-> file[i].tokens, model |-> file[i].model]]

\* extractClaudeCodeUsage: identities first, then the boundary.
ExtractClaude(content, session, from, to) ==
  SelectSeq(LastOfEach(FoldLeft(LAMBDA rows, file : rows \o ParseClaude(file), <<>>, content)),
            LAMBDA row : Within(row, session, from, to))

\* CumulativeUsageTracker: what the total grew by, or all of it if it fell.
Grown(file, i) ==
  LET prior == IF i = 1 THEN 0 ELSE file[i - 1].total
  IN IF file[i].total < prior THEN file[i].total ELSE file[i].total - prior

\* The n-th count of a turn, and the n-th of no turn, in this file.
CountId(file, i) ==
  LET nth == Cardinality({j \in 1 .. i - 1 : file[j].turn = file[i].turn})
  IN IF file[i].turn = Null THEN 0 - (nth + 1) ELSE 10 * file[i].turn + nth

\* parseCodexRollout, and the loop over what it returns.
ParseCodex(session, file) ==
  [i \in DOMAIN file |->
     [id |-> CountId(file, i), session |-> session,
      turn |-> IF file[i].turn = Null THEN CountId(file, i) ELSE file[i].turn,
      at |-> file[i].at, model |-> file[i].model,
      tokens |-> IF file[i].delta # Null THEN file[i].delta ELSE Grown(file, i)]]

\* extractCodexUsage: the boundary first, then identities.
ExtractCodex(rollouts, session, from, to) ==
  LastOfEach(SelectSeq(
    FoldLeft(LAMBDA rows, r : rows \o ParseCodex(r.session, r.file), <<>>, rollouts),
    LAMBDA row : Within(row, session, from, to)))

\* assembleInputs and the engine's estimate: increments in the order of their times.
Assemble(rows) ==
  LET ordered == Sorted(rows, LAMBDA a, b : a.at < b.at)
  IN [n \in DOMAIN ordered |-> Event(
       [id |-> ordered[n].id, session |-> ordered[n].session, turn |-> ordered[n].turn,
        seq |-> n, at |-> ordered[n].at, kind |-> "delta", model |-> ordered[n].model,
        basis |-> "per_token_api", replayOf |-> 0, input |-> ordered[n].tokens, output |-> 0,
        actual |-> Null, given |-> {}])]

\* The total of the report of measureTask, which has no summary without events.
Measured(rows) == IF rows = <<>> THEN Null ELSE Total(Observations(Assemble(rows)))

\* createClaudeCodeStageMeasurer: the route's own transcript, never the newest.
MeasureClaude(baseline) ==
  IF baseline.session = Null \/ files[baseline.session] = <<>> THEN Null
  ELSE Measured(ExtractClaude(files[baseline.session], baseline.session, baseline.at, clock))

\* createCodexStageMeasurer: every rollout whose name has the id in it.
MeasureCodex(baseline) ==
  LET rolloutsOf(s) == [i \in DOMAIN files[s] |-> [session |-> s, file |-> files[s][i]]]
      found == FoldSet(LAMBDA s, all : all \o rolloutsOf(s), <<>>, CodexSessions)
  IN IF baseline.session = Null THEN Null
     ELSE Measured(ExtractCodex(found, baseline.session, baseline.at, clock))

(***************************************************************************)
(* The report.                                                             *)
(***************************************************************************)
\* resolveSidecarCostDiff
SidecarDiff(baseline) ==
  IF sidecar = Null \/ baseline.cost = Null \/ sidecar.session # baseline.session THEN Null
  ELSE Max({0, sidecar.cost - baseline.cost})

\* computeTranscriptCostUsd: every row after the baseline, streamed ones as well.
TranscriptCost(baseline, executed) ==
  LET rows == IF baseline.session = Null \/ files[baseline.session] = <<>> THEN <<>>
              ELSE SelectSeq(files[baseline.session][1], LAMBDA row : row.at > baseline.at)
  IN IF rows = <<>> \/ Rates[executed] = Null THEN Null
     ELSE Rates[executed] * FoldLeft(LAMBDA sum, row : sum + row.tokens, 0, rows)

\* resolveActualCostUsd, after the measurement: the first that is known.
ResolveCost(baseline, executed) ==
  LET tiers == <<[how |-> "measured", amount |-> MeasureClaude(baseline)],
                 [how |-> "sidecar", amount |-> SidecarDiff(baseline)],
                 [how |-> "transcript", amount |-> TranscriptCost(baseline, executed)],
                 [how |-> "omitted", amount |-> 0]>>
  IN SelectSeq(tiers, LAMBDA tier : tier.amount # Null)[1]

File(t, claim) ==
  /\ claims' = [claims EXCEPT ![t] = claim]
  /\ UNCHANGED <<clock, used, files, turns, sidecar, routes>>

Open(t, sessions) == routes[t] # Null /\ claims[t] = Null /\ routes[t].ran \in sessions

ReportClaude(t, executed) ==
  Open(t, ClaudeSessions) /\ File(t, ResolveCost(routes[t].baseline, executed))

\* Codex has no tier below the measurement.
ReportCodex(t) ==
  /\ Open(t, CodexSessions)
  /\ LET amount == MeasureCodex(routes[t].baseline)
     IN File(t, IF amount = Null THEN [how |-> "omitted", amount |-> 0]
                ELSE [how |-> "measured", amount |-> amount])

-----------------------------------------------------------------------------
ModelIds == DOMAIN Rates

ClaudeNext ==
  \/ \E s \in ClaudeSessions, m \in ModelIds : \E n \in Usages[s] : ModelResponds(s, n, m)
  \/ \E s \in ClaudeSessions : Stream(s) \/ DrawStatusline(s)
  \/ \E s, of \in ClaudeSessions : Resume(s, of)
  \/ \E t \in Tasks, s \in ClaudeSessions, told \in BOOLEAN : RouteClaude(t, s, told)
  \/ \E t \in Tasks, m \in ModelIds : ReportClaude(t, m)

CodexNext ==
  \/ \E s \in CodexSessions, m \in ModelIds, fresh \in BOOLEAN :
       \E n \in Usages[s] : CountTokens(s, n, m, fresh)
  \/ \E s \in CodexSessions : StartTurn(s) \/ \E copied \in BOOLEAN : Rollout(s, copied)
  \/ \E t \in Tasks, s \in CodexSessions, told \in BOOLEAN : RouteCodex(t, s, told)
  \/ \E t \in Tasks : ReportCodex(t)

SessionNext == Tick \/ ClaudeNext \/ CodexNext

SessionSpec == SessionInit /\ [][SessionNext]_sessionVars

(***************************************************************************)
(* Properties.                                                             *)
(***************************************************************************)
\* What the session really used from this time on.
Own(session, from) ==
  SumTokens({k \in DOMAIN used : used[k].session = session /\ used[k].at >= from})

\* Some usage of the session cannot be told from the files: a total that began
\* again no lower than it was, or two rollouts with counts of no turn.
Untold(s) ==
  \/ s \notin ReportsDeltas /\ \E f \in DOMAIN files[s] : \E i \in 2 .. Len(files[s][f]) :
       Grown(files[s][f], i) # used[files[s][f][i].key].tokens
  \/ Cardinality({f \in DOMAIN files[s] :
       \E i \in DOMAIN files[s][f] : files[s][f][i].turn = Null}) > 1

\* A task is never charged what another session used, or what its own used before
\* its route, or one usage twice, however its responses were streamed, its
\* history copied and its counters restarted: a measured cost is what the route's
\* session used in the window, and not more than that where the files hide
\* some; a difference of sidecars is at most what the session used since the
\* sidecar of the route was written.  And whoever is told the session of the
\* route, the report is of that session, wherever it is made from.
ClaimIsOwn ==
  [][\A t \in Tasks : claims'[t] # claims[t] =>
       LET route == routes[t]
           session == route.baseline.session
           claim == claims'[t]
       IN /\ route.told => session = route.ran
          /\ claim.how = "measured" =>
               /\ claim.amount <= Own(session, route.baseline.at)
               /\ session \in ClaudeSessions \/ ~ Untold(session) =>
                    claim.amount = Own(session, route.baseline.at)
          /\ claim.how = "sidecar" => claim.amount <= Own(session, route.baseline.since)]_sessionVars
=============================================================================

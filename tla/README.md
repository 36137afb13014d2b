# Verification of the Hokusai SDK

TLA+ models of the parts of this repository in which order, failure and
repetition decide what is correct: two event-log reducers, a cost ledger and
the tracker that feeds it, the API client's retry loop, the model router over
it, the plugin's commands and their file store, the scan tools that come back
to a branch, the derivations that turn what others wrote into costs, labels,
reports and contribution rows, and the validators, schemas and readers of the
records that pass between all of these. Each model is checked with TLC on small
instances; eight of them are also proved about with TLAPS, for every value of
their constants.

Paths are relative to `src/packages/` unless they begin with a module's name.

## 1. The system

The SDK runs inside a coding harness. It asks the Hokusai service which model
to run for a task, measures what the run costs, and reports how it ended. It
has no server of its own: everything is one JavaScript process, so that steps
interleave only where the code awaits, plus files that outlive the process and
an HTTP service that may be slow, unreachable, or reached by a request that the
client has given up on. The plugin's commands are short processes over one
directory, several at a time; the scan tools are jobs that read a repository
somebody else changes.

```
 harness adapters        plugin commands / CLI        scan (git, pull requests)
        |                     |        |                    |
        |                route, report |              checkpoint files,
        |                     v        v              shadow predictions,
        |            Router / builder  local store    corpus caches
        |                     |
        |                     v
        |               HokusaiClient ----- HTTP ----> service (external)
        v
  measureTask -> CostTracker -> CostLedger -> one JSONL file
        |
        v
  task attempt log  <----- queue lifecycle log  (pure reducers over event logs)
```

| Component | State it keeps | Operations | What is hard | What makes it correct |
|---|---|---|---|---|
| Attempt log, `core/src/task-cost/attempt-reducer.ts` | entities by id, latest of each group, seen write ids, newest evidence, derived results | launch, control write, evidence write, derived result | entries replayed, late, out of order; retries and relaunches that make earlier work stale, at any level | one execution is current; stale work stays stale; nothing counts twice; a success is not replaced |
| Queue log, `core/src/task-cost/queue-lifecycle-reducer.ts` | first arrival and verdict of each event, candidates | attempt entry, queue event | a second copy of the attempt rules; replays judged against a changed state; context that leaks the future | both copies agree; first write wins; compositions are fixed; an ejected run never lands |
| Cost ledger, `costs/src/ledger/ledger.ts` | the file, an index of ids, a byte offset, a queue of calls | open, append, appendMany, close | torn writes, failed fsync, failed repair, restart, limits | what was acknowledged is in the file and readable; no call blocks the next |
| Cost tracker and `measureTask`, `costs/src/measure/` | accepted events, `persistedCount`, generated ids | recordUsage, record, flush, reset, end of task | counts moved after an await; a flush that fails half way | a resolved flush, or a clean report, means persisted |
| API client, `core/src/client.ts` | per call: attempt, timer, abort link | route, telemetry, submitContribution, all through `#send` | timeouts racing late answers, retries of what was done, aborts, bodies that fail | one effect per key; what resolves resolves with what the server did; an abort is the end |
| Dispatch builder, `core/src/client.ts`, `core/src/storage.ts` | correlation record per task | prepareDispatch | two lookups of one task in progress together | outcome and decision share a correlation |
| Model router, `router/src/index.ts` | `lastRoute` | route, reportOutcome | routes answered out of order or not at all | an outcome is filed under the route it belongs to |
| Plugin commands, `core/src/plugin-commands/commands.ts`, `report-cli.ts`, `core/src/harness-commands.ts` | none of their own; the local store | route, report, decline, list, preview, audit, clear, the reporting switch | submit, then write audit and funnel in one `try`; a crash between; a route written over a decline | a row speaks of one decision; the audit tells what the service has; an accepted outcome is reported |
| Local store, `core/src/storage.ts`, `core/src/onboarding-funnel.ts` | decisions, audit, funnel, signal files | put, list, prune, rewrite, clear | non-atomic writes; prune lists first and deletes later | what is kept is within the limits, and what was kept is not torn for good unseen |
| Incremental scan, `scan/src/orchestrate/` | cursor, rows, a checkpoint of two files | scan, save, resume | restart between the files; a cursor past pull requests that failed | an incremental scan ends with what a full one would |
| Shadow scoring, `scan/src/shadow/`, `.github/workflows/arbiter-shadow.yml` | a data branch of JSONL files and a cursor | fetch, discover, score, append, backfill, push | a job that stops between append and cursor; a push that fails | every landed commit is scored once, and every score gets its outcome |
| Cost aggregation, `costs/src/engine/`, `core/src/task-cost/aggregate.ts` | accepted events | ingest, snapshot, aggregate | running totals, repetitions, replays, missing prices | each usage counts once, in any order of arrival |
| Session usage, `core/src/session-usage.ts`, `stage-cost.ts`, `costs/src/sources/` | a baseline per route | capture, measure | a sidecar of another session, totals that restart, streamed rows | what is claimed is the route's own use |
| Survival labelling, `scan/src/survival-labeller.ts` | none (pure over git) | label at a horizon | commits that land late or backdated, renames, reverts | a label is sound and, once terminal, stays |
| Arbiter report, `scan/src/report/`, `core/src/arbiter-report.ts` | none (pure) | aggregate, suppress, validate | small cells, sums that give a hidden cell away | what the scan writes the contract accepts |
| Corrective corpus, `scan/src/corpus/` | caches between the commands | enumerate, label, link, correct | a cache of another cut-off or another clone | no fix after the cut-off; links are exact for what was read |
| Contribution rows, `core/src/contribution/`, `core/src/integration-kit/run-loop.ts`, `adapter-aider/`, `router/src/index.ts` | one run | discover, route, map, measure, build, validate, submit | four writers of one row, spellings of one model, costs that are partly unknown | a row tells the run: what ran, whether the recommendation was followed, what it cost |
| Contracts of records, `core/src/task-cost/*-schema.ts`, `*-validators.ts`, `core/src/arbiter-*.ts`, `core/src/schemas.ts`, `core/src/routing-inputs.ts` | none (pure) | write, validate, read, derive features | a hand-written validator beside a JSON schema beside a reader; optional fields that exclude or imply each other | what is written validates, both forms of a contract accept the same records, a reader gets nothing else |

Not modelled: feature extraction and calibration (statistics over one snapshot
of a repository), the adapters' projection of harness records (two readers of
usage and the Aider loop are modelled, where their results are used), the
doctor and the CLI front ends (arguments and output), and everything under
fixtures, examples and scripts. `PROJECT.json` gives each component with its status.

## 2. What is modelled

| Module | Models | Notes |
|---|---|---|
| `TaskAttempt` | the attempt reducer | one action per entry kind and verdict: `AcceptAttempt`, `RejectAttempt`, `AcceptControl`, ... ; `AttemptReason` and `ControlReason` keep the order in which the code finds reasons |
| `QueueLifecycle` | the queue reducer | holds `TaskAttempt` as `Attempt`, as the code calls the attempt reducer, and its own copy of the ref rules, as the code has one |
| `LedgerStore` | what a ledger promises | abstract: `Persist`, `TakeBack`, `Acknowledge`, `Broken` |
| `CostLedger` | the ledger over its file | implements `LedgerStore` while no repair has failed (`KeepsItsPromise`) |
| `CostTracker` | the tracker and the end of `measureTask` | over `LedgerStore` rather than `CostLedger` |
| `RemoteCall` | what a client call promises | abstract: `Ask`, `Apply`, `Resolve`, `Reject` |
| `ApiClient` | `#send`, `#executeRequest` against an external server | implements `RemoteCall` (`KeepsItsPromise`, theorem `Implements`) |
| `Router` | `createRouter` and the builder's correlation store | over `RemoteCall` rather than `ApiClient` |
| `LocalStore` | the directory of JSON files | a write is two steps, a crash leaves the file torn |
| `PluginCommands` | the commands, each a process over `LocalStore` | the plugin's variant and the harness's |
| `MergedHistory` | the integration branch, as git shows it | external; shared by the scan tools |
| `IncrementalScan`, `ShadowScoring` | the two tools that come back to a branch | composed in `ScanTools` over one history |
| `TaskCostEngine` | the engine and the aggregate of one task's events | |
| `SessionUsage` | transcripts, rollouts, sidecar, baselines, and the measurers | extends `TaskCostEngine`, which adds up what they read |
| `SurvivalLabel` | the labeller at each horizon | |
| `ArbiterReport` | aggregates, suppression, the contract's invariants | |
| `ContributionRow` | the writers of a v4 row, its builder and its validator | |
| `CorrectiveCorpus` | enumeration, fix events, links, corrective rows, caches | |
| `JsonRecord` | a record as a value that is edited: paths, types, presence | with the families of values the edits draw from |
| `AttemptContract`, `QueueContract`, `LabelContract`, `ReportContract`, `CorrectiveContract`, `RowContract`, `RouteContract` | for one kind of record each: what its writers write, its validator, its schema, its readers | |
| `Contracts` | one record of any kind that is written, edited, read | composes the seven |
| `*Proofs` | theorems about the module they are named after; `SideBySideProofs` about the tracker, the router and the corpus, `DerivationProofs` about labels, reports, rows and the cost of a task | |
| `MC*` | model values, constraints and views for TLC; `MCDerivations`, `MCSideBySide` and `MCClientContracts` put components side by side | |

### How state and actions correspond to the code

*Attempt log.* `entities`, `latestInGroup`, `seenWrites`, `evidence` and
`derived` are the reducer's maps; `decision` is what `decide` pushes last. An
entry is any record the validators let through; a rejected one changes only
`decision`. The code computes `is_current` and `superseded_by` of derived
results after the log; the model has them as operators of the state
(`IsCurrent`, `DerivedStatus`), so that they can be asked of every prefix.

*Queue log.* One stream carries attempt entries and queue events. `firstSeen`
and `accepted` are the maps of event ids. `Events` is the set of events a run
offers; `ValidEvent`, the validator, must hold of each.

*Ledger.* A line is two halves, so that a write can stop inside it; `sizeBytes`
counts halves. A call is the sequence of ids it still has to append, the queue
is the chain of promises, `begun` says that the first call is past
`ensureOpen`. Between `StartWrite` and its outcome, and between a failed write
and its truncate, any other call may be enqueued, `close` may be called, or the
process may stop.

*Tracker.* An event is its id; id n > 0 is the generated `<task>.e<n>`, which a
caller may also supply. A flight is a `flush` that awaits the ledger: its slice
was taken when it began, `persistedCount` moves when it returns. Nothing keeps
callers from two flushes at once, or a reset during one, and nothing does in the
model. Two variables no code holds: `claimed`, what a resolved `flush` promised,
and `overlapped`, whether a flush or a reset began while a flush was in progress,
since the last reset that did not.

*Client.* `call[c]` is the local state of one `#send`: `waiting` for a status
line under the timer, reading a `body` without one, or in `backoff`. `network`
holds requests the server has not handled, also those the client gave up on;
the server handles each once or never, acts or declines, and may answer with an
error although it acted. For a key it has seen it answers with the earlier
effect. Nothing forces it to handle anything: that is loss. A reply is
delivered only to the attempt that waits, since a later attempt has a
connection of its own.

*Router.* What runs between two awaits is one step: `CallRoute` (up to the
lookup), `Dispatch` (the record is stored, the request leaves), `RouteAnswered`
or `RouteFails`. `mostRecent` is held by no code; it names the route that the
documentation calls the most recent one.

*Plugin commands.* A process is its command, its point in it, what it has read
and what it will write. A write is begun and ended by two steps: between them
the file is torn, and stays so when the process is killed or the write fails. A
listing reads every file and throws on a torn one, as `listRecords` does. A
payload hash is a file named by its content, so that the same outcome reported
again rewrites it with a later date. The service takes a row, or answers that it
refuses it, which the commands treat alike (`Unaccepted`); a harness without a
client goes on as if it had sent the row. The
model keeps of a record what a later command reads of it: a decision's task,
inference, whether its outcome went out or was declined; an audit record's
status; a funnel's emitted events; a signal's name.

*Scan tools.* The history grows, is rewritten by a force push, and time passes
beside the jobs. A scan reads its state and the branch in one step, emits, then
replaces `rows` and `state` one after the other. The shadow job is the workflow:
`fetch`, `score` (append, then cursor), `backfill`, `push`; a step may fail and
the next runs all the same, as the workflow says.

*Derivations.* The engine takes events one at a time and answers as `ingest`
does; the aggregate reads the same events as a log. A harness's responses are
`used`, what really happened; files and sidecar are what was written of them;
a claim is measured from files alone and compared with `used`. The labeller is
evaluated in every state of a growing branch, at every horizon. A report is
built of a set of labelled rows in one step. A contribution row goes through
`Discover`, `Register`, `Recommend`, `Map`, `RunModel`, `Measure`, `Build`,
`Validate`, `Submit` of whichever loop or reporter writes it.

*Corpus.* `Enumerate`, `Label`, `CrossReference`, `Correct` each read the files
the ones before left; a file is never refreshed unless its command runs again.
The clone is synced by enumeration only.

*Contracts.* A record is written by one of its writers, then edited up to
`MaxEdits` times: a field is dropped, given a value of another family, or added.
In each state every form of its contract is asked, and its readers are given
what those let through.

## 3. Checks

`expect: violation` runs show a place where the code does something other than
the repository says of it (section 6).

| Run | Shows |
|---|---|
| `attempt_control` | relaunches, retries and outcomes in any order: `superseded_by` is one chain, at most one execution of a task is current, an outcome settles once and on a current attempt only, stale stays stale, a retry never replaces a success |
| `attempt_evidence` | evidence and derived results before, between and after launches: counted once, code identity follows the newest evidence, a superseded result does not come back |
| `queue_candidates` | both copies of the ref rules give the same verdict; candidates refer to runs that exist; decisions cite only accepted, earlier events; first write wins; an ejected run never lands |
| `ledger_recovery` | all faults, full ledger, close and restart: implements `LedgerStore`, index and offset match the file, a full ledger can be reopened, every call is answered |
| `ledger_lost_ack` (violation) | an acknowledged record no reader finds |
| `client_contracts` | one effect per key, no request after an abort, every call ends unless a body does not, the loop implements `RemoteCall`; and the validators, schemas and readers of each kind of record agree |
| `side_by_side` | flushes and resets that may overlap: a flush that began before any overlapped persisted what it found, so does a clean report with no overlap, no default id is a duplicate, `measureTask` returns; overlapping routes and reports, also of one task: a row joins one decision, an outcome stays with its task; corpus commands in any order: links are exact for what was read, and stay, but for twofold fixes |
| `commands_reports` | commands two at a time over a store that tears and fails: a row with an inference speaks of one decision, an answered submission ends well, the audit tells what was answered and the funnel what was signalled, a prune removes only decisions that are outside its limits |
| `commands_reroute` (violation) | a row with one route's recommendation and another's inference |
| `scan_return` | an incremental scan ends with what a full one would; every landed commit is scored once, none passed over, and every score gets its outcome |
| `derivations` | costs count each usage once, a claim is the route's own use, a label is sound and a terminal one stays, a report is valid, a contribution row tells the run |
| `corpus_cutoff` (violation) | a link to a fix that merged after the cut-off |

Components that share no state are checked in one run where that costs little:
`MCClientContracts`, `MCSideBySide` and `MCDerivations` have a variable `subject`
that a behaviour keeps from its first state, and each invariant speaks of the
behaviours of its subject. Nothing is composed by this; what does interact is
composed for its own sake (`ScanTools`, `QueueLifecycle` over `TaskAttempt`,
`SessionUsage` over `TaskCostEngine`, `CostTracker` over `LedgerStore`, `Router`
over `RemoteCall`, `PluginCommands` over `LocalStore`).

Some properties gather parts that a reader may take one by one, each a
definition with its own comment: `LedgerSound`, `TrackerSound`,
`ReportsAreOfOneRoute` and `RefsHold` include the type invariant of their module;
`QueueLogIsFinal` is `FirstWriteWins` and `EjectedNeverLands`;
`EvidenceMovesForward` is `CodeIdentityFollowsNewEvidence` and
`DerivedNeverRevives`; `UsageCountsOnce` is `ReplayIsNoOp`, `ChainCountsOnce`,
`SnapshotsTelescope` and `ModelsAddUp`; `RowTellsTheRun` is `NotLost`,
`NoFalseFollow`, `OverridesLead`, `BudgetClaimHolds`, `CostAgrees` and
`EvidenceHolds`; `ContractsHold` asks, of every record, whether schema and
validator agree (`SchemaMirrors`), whether reports are honest, and whether
readers take what validates. `TypeOK` of the attempt log, the queue log and the
client, `CompositionFixed` and `AbortStopsSending` are proved for all constants
and not run.

### Bounds, and why they are enough

- *Attempt log*: one task, up to four minted ids (pairs, arms, runs and stage
  attempts, their relaunches and retries, in any mix), one stage, two write ids,
  two evidence kinds, versions to 2, two derived results. Rules relate at most an
  attempt, its parent and its sibling; the theorems remove the bound. Ids are
  minted in one order: the code compares them for equality only.
- *Queue log*: two tasks, three attempts, four event ids over one candidate, with
  the events of `MCEvents`: a second composition, both orders of leaving and
  landing, refs of the wrong task, decisions on past and future context.
- *Ledger*: three ids against a limit of two records and three lines of bytes, so
  that both limits are met; two calls of up to two entries; one fault of each
  kind (write, repair, open, stop), which gives every combination of faults. The
  theorems hold for any number of each.
- *Tracker*: two generated ids and the explicit id 1, the first a generated one
  would be; two flushes at once and the closing one, which is enough for a slice
  to be counted twice; one failing append. The theorems hold for any number of
  ids, flushes, resets and failures.
- *Client*: two calls that can meet only in a key, so the second is the
  submission made again (`SecondIsResubmission`); one retry. The theorems hold
  for any number of calls and retries.
- *Router*: two routes, two reports, one task id that both routes may carry, two
  clock values (two correlations of one task differ or coincide), one call on
  which the server acts twice (`InOrder`).
- *Commands*: one task, two routes of it, two reports, and one each of decline,
  inspection, clear and toggle; three calls, two at a time; one content, so that
  every repetition rewrites its hash file; limits of one record and no age, so that
  a prune has something to remove. Routes, reports and tasks are symmetric:
  nothing in the code orders them. The theorems hold for any commands,
  tasks and limits.
- *Scan tools*: three merges (or two and a rewritten branch), time to 3, one
  scanner, two configurations, two pull requests, one commit per scoring run, one
  trouble. `NotMisled` stops where rows of another checkpoint were used,
  `OneMissed` where a second pull request fails, `FirstConfig` fixes which
  configuration comes first: all three speak of the scanner only, so no
  behaviour of the shadow job, whose liveness is asked, is cut short. The theorems
  about the shadow job and the scanner hold for any merges, rewrites, limits,
  configurations and troubles; the scanner is alone with its state directory,
  scans as of now and with one lookback, in the run and in the theorem.
- *Contracts*: every written form of a record, two edits, one for the largest
  (reports, routes, rows with stage executions, recovery decisions); a rule of
  these validators relates two fields. A value is a representative of its
  family: a well-formed id, a malformed one, a number on either side of each limit.
- *Costs*: four events of `MCInputs`, with running totals that go back, repeated
  ids, replays of replays and a circle of them.
- *Session usage*: one task, two responses, times 0 to 2 (0 to 1 for Codex), two
  sessions of each harness, two rollouts; a behaviour ends when the task is
  reported (`UntilClaimed`), after which nothing is claimed.
- *Labels*: two files, three lines, three commits, horizons 1 and 2, time 3, a
  scanner's clock that lags by 0 or 2.
- *Reports*: up to six rows over two periods, the cell minimum 2 for the
  policy's 20, and the coverage floors as tenths.
- *Rows*: four spellings of three models, six pools, totals that are unknown, zero
  or not, a budget or none, exported chains of two overrides.
- *Corpus*: cut-offs 1 and 2, three landings, two citations, a clone that lacks at
  most one; the third landing may be a pull request that lands again by a commit that
  says it reverts. `Heeded` leaves out what no command reads any more, and
  `MCCorrectiveCorpus` gives the arrivals.

Constraints and liveness: `Heeded` and `InOrder` cut behaviours of the corpus and
of the router, and `AlwaysReports` speaks of the tracker; `SecondIsResubmission`
cuts calls that are never made, and `StopsTrying` speaks of those that are.

Deadlock is checked for the ledger. The other systems may stop: a log ends, a
call is made once, `measureTask` returns, the history has no more merges.

### Fairness

- `CostLedger`: weak fairness of `Serve`, the steps of the call at the head of
  the queue. A pending file operation returns, with success or with an error.
  Nothing makes a caller call or the process start again, and nothing keeps it
  from stopping, which empties the queue too.
- `CostTracker`: weak fairness of the ledger's answers to the flush in progress
  (`LedgerServes`). `AlwaysReports` speaks of a task whose function has returned.
- `ApiClient`: weak fairness of `GiveUp` and `Retry` for each call: timers fire.
  None for the server, for replies, or for the reading of a body, on which the
  code sets no timer; `StopsTrying` lets a call stay with a body for that reason.
- `ScanTools`: weak fairness of the shadow job's steps, since the workflow is
  scheduled every six hours, and strong fairness of its backfill, since every
  night's run comes to that step. Steps may fail and jobs be killed `MaxTroubles`
  times. None for the scanner, which somebody starts by hand.
- `PluginCommands`: weak fairness of each command's own steps; no property run
  needs it.
- The reducers, the router, the corpus and the derivations have none: their
  properties are safety.

## 4. Proofs

A theorem holds for every value of the constants that the assumptions named in
the modules allow (`None` is no id, the number of retries is natural, and so
on); TLC evaluates each assumption in the runs. Each proof has one inductive
invariant or a few, a lemma per action or per kind of step, and a last temporal
step. `PROJECT.json` lists the theorems with the run property each one states.

**`TaskAttemptProofs`.** `SupersessionChain` is not inductive: that an accepted
retry targets the latest of its group follows only if group keys and entities
agree. `IInv` adds that launched entities are well formed and contained
(`WellFormed`, `WellParented`), that each group with members has exactly one
latest, recorded one (`GroupsHaveLatest`), that whoever supersedes was launched
(`SupersedersDeclared`), and that a retry replaced an attempt that is no longer
the latest and did not succeed (`RetriesReplace`): no outcome can reach it now.
From it: `TypeCorrect`, `Chain`, `NoSuccessReplaced`, `OutcomesFenced`,
`OneExecution` (two current executions would be in one group, or under parents
that are, and a group has one latest) and `StaleIsFinal`, which rests on
`LineageKept` and `LatestOnlyLost`: the ancestors of an attempt never change (a
stage attempt has at most a run, an arm and a pair above it), and an attempt
that was overtaken in its group is never the latest again. `CountedOnce`,
`IdentityFollows`, `StaleResultsStay` and the two together, `NothingOlderWins`,
have an invariant of their own, `EInv`: a write id is listed once, under one
entity and kind, and only if it was seen (`AttributedOnce`).

**`QueueLifecycleProofs`.** `RulesAgree` proves the two copies of the attempt
rules equal in every state, reachable or not. `QInv` adds to the types that only
a candidate's own runs have left it or landed in it; `RInv` adds that the
entities of the embedded attempt log have their types (`EntitiesOK`), since what
a ref resolved to when it was accepted it resolves to for ever, and that every
accepted event was seen (`AcceptedSeen`), which orders what a decision cites.
Theorems: `QueueInvariant`, `TypeCorrect`, `CompositionIsFixed`,
`EjectedStaysOut`, `FirstWriteIsFinal`, `SaidOnce`, `ReferencesHold`.

**`CostLedgerProofs`.** `LInv` says, while no repair has failed, what the file
looks like in each phase (`FileSound`): it is whole lines, each once, then
possibly the torn part of the line being written, and nothing behind the known
length otherwise; the index holds the ids of those lines; the batch in service is
within the limits. `LedgerSound` alone knows too little of the phases between
a write and its repair. Three lemmas carry the text of the file: `PartAdds` (what a
stopped write leaves), `PrefixKeeps` and `CutKeeps` (what a reader finds in a
prefix and after a truncate). `Sound` and `Implements` follow: a completed or
duplicate append maps to `Acknowledge`, one that fails to `Persist` or to no step
(its line may be whole), a truncate to `TakeBack` or to no step, and the failure
of one to `Broken`, after which `LedgerStore` promises nothing.

**`SideBySideProofs`, the tracker.** `TInv` has a part for any calls and one for those
that do not overlap. Of any (`Base`): what a flush took so far of its slice is in
the ledger, and what it will have promised is in the ledger or in that slice
(`FlightSound`), which no other flush can undo. Until a flush overlaps another (`Serial`): there is one flight, the
slice it took begins at `persistedCount` (`FlightFits`), and what is counted is in the
ledger. `NextIsFresh` shows that the search for a default id ends, since there
are more candidates than accepted events. Theorems, of a caller that does what it
likes: `TrackerInvariant`, `ResolvedMeansPersisted` and `CountIsSound`. The
properties promise nothing of a flush that overlaps another; section 6 says what
happens there.

**`ApiClientProofs`.** `KeyedOnce` is not inductive without knowing whose effect
is whose. `CInv` says that everything sent and every effect is of a call that
was made, with the key it was made with (`SentIsMade`), that every successful
reply, and every body being read, tells of an effect the server had for that
call or its key (`RepliesTrue`, `BodiesTrue`), and that a backoff has an attempt
left (`BackoffEnds`). Steps of the client share one lemma, `CallStep`: a step of
one call that gives it no answer it was not sent keeps `CInv`. Theorems:
`ClientInvariant`, `TypeCorrect`, `OneEffectPerKey`, `AbortIsQuiet`, and
`Implements`: every step of the loop and of the server is a step of `RemoteCall`
or leaves its variables alone.

**`SideBySideProofs`, the router.** `RInv` follows a row back to its route: correlations belong to
dispatches (`CorrelationsFit`), a row says what was stored (`RowsRemember`), it was
asked for (`AskedForRows`), the server applied only what was asked
(`EffectsAsked`) and answers tell of what it applied (`AnswersFit`). The lemma
`OneRow`, that a minted task is routed by one `route()`, makes the row of such a
task unique. Theorems: `RouterInvariant`, `ReportsJoin`, `OutcomesStay`.

**`PluginCommandsProofs`.** A command is a program with about thirty places. The
first lemmas make the others short: `OneAction` and `MovesAlong` give the
control graph (which action a place allows, where it leads), `Writes` which step
writes which file, `Learns` what a command may read. Then, per property, what
must be known in between. `ReportedWhenAccepted` needs only the graph.
`AuditIsTrue` needs that the row being submitted is of the command's correlation
and that it was taken, refused, or by a harness without a client not sent, before
the place that writes "submitted" is reached (`AuditInv`): the audit entry is
written last. `FunnelIsTrue` needs that what is
about to be recorded was signalled. `NamedRows` needs the same thing said of
every copy that exists: of each whole stored record, of each record a command
has read, of the row it sends and of the rows the service has (`NamedInv`),
because records are read, merged and written back by different commands; it also
needs that an answered route names itself or nobody. `PruneIsRight` needs that
the decisions a prune has listed keep their dates until they are deleted (`PruneInv`:
`DatesFit`, `DoomedAreRight`), although routes and reports rewrite them. Its property
speaks of decisions only: a payload hash, or an audit entry, that another command
rewrites after the listing is deleted although it is young by then.

**`ScanToolsProofs`.** `ScoredOnce` and `NothingPassedOver` speak of two data
directories, but a run changes one of them by way of what it holds in memory, and
the branch may be rewritten between any two of its steps. `ShadowInv` says what
they leave out: no name is on the branch twice or has not landed yet
(`BranchFits`); in each directory the commits up to the cursor are scored, given
up or too old (`Sound`, `Covered`); and what a run is about to append is not in
the log, each commit once, and covers the cursor it is about to write (`RunFits`).
`CoveredStays` carries this over a rewrite: a name that a cursor holds has landed,
and merges that land later have other names, so that while it is on the branch,
what is below it stays. `ScoreCovers`
is the step of the scorer: the limit per run takes the oldest commits after the
cursor, hence none below the newest taken is left out. `AppendedOnce` and
`SetToSeqIs` are about the rows. Theorems: `ShadowInvariant`,
`ScoredAtMostOnce`, `NothingIsPassedOver`.

Of the scanner, `ReportInv` says what its two files are worth. Rows speak for the
branch as long as their cursor is on it (`Speaks`): whatever a window may still
show up to the cursor has a row or was missed (`Covers`), and a label that will
be kept is one that no commit behind the cursor can change (`Right`). The rows
may be ahead of `state.json`, never behind it (`Behind`), since they are replaced
first. `WindowIs` makes the cap of a window a condition on positions, from which
it follows that what a later window shows of the commits before the cursor was
in the window in which the cursor was saved. `LabelStays` is why a matured label
may be kept: a commit that lands later is too late to undo anything within the
horizon, and a rewrite that takes away what undid it takes away the cursor.
`ScanAnswers` is the scan itself, `IncrementalReports` the theorem. It assumes
`ScansAlike`: one scanner, as of now, one lookback, which the code does not
enforce; section 6 says what happens otherwise.

**`SideBySideProofs`, the corpus.** `LinksStay` and `LinksAreExact` speak of what a run
found, which it read out of files that earlier runs wrote. `CorpusInv` says what
each is worth: the branch is well formed and every text belongs to a landing
(`WorldInv`); the cohort holds the records of its span, which is closed because
later commits are of later days, and a cached fix source is a record of the branch
(`CacheInv`); each accepted candidate would be drafted again from these files, and a
row that is true has one (`FoundInv`). Its lemmas carry this over the growth of the
branch: what was drafted of a branch is drafted of one that later commits extend
(`RecordsOfSpan`, `DraftsSame`). One assumption is about the constants: no
file can be mistaken for a missing one (`UnreadIsNoFile`). The properties leave out
one kind of fix, `Twofold`: a pull request that lands again by a commit that says
it reverts something, and that commit. `corrective.ts` takes the message for the
pull request's when its records name the commit, and for a fix of the commit's own when they
do not, so that such a link is rejected, accepted or renamed as files change;
the proof shows that these are the only ones (`TwofoldOf`: an event of any other fix
says one thing, `EventsSay`). `ExactInv` adds the
shapes that landings have (`ShapeInv`) and that the candidates of a run that
enumerates its fix sources afresh are, but for twofold fixes, exactly the drafts
that are not rejected (`FreshInv`); a run that finds them cached promises less
(section 6). Then each direction of `LinksAreExact` compares a reading of the records,
with their members, relands and message kinds, to a reading of the branch
(`SaysNumbers`: a message names what it reverts or fixes by a number). Theorems:
`CorpusInvariant`, `LinksAlwaysStay`, `LinksAreAlwaysExact`.

**`DerivationProofs`.** The report, the label, the row and the cost of a task, as
`MCDerivations` runs them, for every value of the constants that `ReportAssumption`,
`LabelAssumption`, `RowAssumption` and `EngineAssumption` allow: finitely many files,
lines and kinds of rows, natural horizons, a registry whose aliases are other
spellings of the entry they stand for, usages of the type `IngestUsageInput` whose
counters and rates are natural numbers or missing (`requireCount`,
`validators.ts:222`). These assumptions say what the types and validators of the code
say.

- The report counts rows by a fold over the kinds of rows. `SumIs` evaluates the
  fold, for any finite set, as the number of pairs of an element and a number up
  to its value: the recursion of the library's definition has this solution and no
  other, by a least subset where they differ. A sum is then a cardinality, and what
  the contract asks of cells, sections and their hidden complements follows from
  inclusions. Theorem: `ReportsAreAlwaysValid`.
- The label looks the horizon's commit up in a precomputed index by halving.
  `HalvingFinds` says that the search returns the first position past the cut-off
  if the minima do not decrease, `SearchFindsLast` and `TerminalIsLast` that this is
  the commit git would name, for committer times in any order. What survives is
  counted by the lemmas on sums. `LabelStays` is why a label settles: a commit past
  the cut-off is in no range the label reads. Theorems: `LabelsStaySound`,
  `LabelsSettle` for the labeller alone, `LabelsAreAlwaysSound`,
  `LabelsSettleInDerivations` in the composition.
- The row is followed through the stages of a run (`RowInv`): what has been
  discovered is a registrable pool, and what has been routed is a model that, if a
  model was recommended, is the same model under this or another name
  (`ResolveKeepsTheModel`). `ClaimTells` and `ClaimsPass` say that what a writer
  claims its row may say, hence that no run is lost to the row's own rules, and
  `OverridesLeadOn` that the validator's chain of overrides leads from the
  recommendation to the model that ran. Theorem: `RowsAlwaysTellTheRun`.
- The cost of a task filters, sorts and adds up sequences. Filtering and sorting are
  written by positions (`Kept`, `Sorted`), and evaluated by ranks: in a finite set
  that an order sorts, the number of elements below an element is its place, and no
  two share one (`RanksFill`, `PlacesAre`), so that a sequence which lists a set once
  is sorted to the one sequence that lists it by rank, however it came (`SortedIs`).
  `EngineInv` says that what the engine accepted is the first event of each id in the
  log. Two logs with the same firsts have the same observations (`ObservationsSame`),
  hence `ReplaysAddNothing`; what is replayed and what replays it correspond one to
  one, hence `ChainsCountOnce`. A sum of what may be missing is missing or a number
  of pairs (`SumNullableIs`), so that the sums of parts that split the positions
  add up (`PartsAddUp`): the models do (`ModelsSplit`), and the segments from one
  change of model to the next (`StartsSplit`), hence `ModelsDoAddUp`. The baseline of
  a snapshot is the snapshot of the session before it (`BaselineIs`), hence, at the
  least position where it would fail, `SnapshotsDoTelescope`. Theorem:
  `UsageAlwaysCountsOnce`.

Only model-checked: `ClaimIsOwn` and `ContractsAgree`. The first compares what really
happened with what the files of a session add up to after streaming, copying,
counters that restart and rollouts; a proof needs an invariant that relates every row
to the usage it tells of, and has not been made. `ContractsAgree` evaluates
validators and schemas on records as they are written and edited a bounded number
of times, and says nothing of records in general. Nor does the prover reach liveness
(`QueueMoves`, `AlwaysReports`, `StopsTrying`, `EveryCommitScored`,
`ScoresGetOutcomes`) or ENABLED.

## 5. What the models leave out

General:

- Text, timestamps, prices and payloads, beyond what a rule compares.
- The server is taken to deduplicate by `Idempotency-Key`; the client's results
  about keyed calls rest on that. Unkeyed calls (route, telemetry) may have one
  effect per attempt, and do in the model.
- In the client, `dryRun`, response mapping and validation are one choice
  between an accepted and a final answer. A route response that already
  validates is passed through whatever its task id (`client.ts:1516`).
- In the router, the caller's own task id used for two decisions gives both
  reports one key, and the server takes the second for a repetition;
  `AcceptedIsCounted` is therefore stated for ids that `route()` minted.

Ledger and tracker:

- A ledger written by two processes at once: `ledger.ts` takes no lock and relies
  on "the documented single-writer contract" (`ledger.ts:186`).
- Bytes that are not UTF-8 (`ledger.ts:119`), and lines of a later version.
- Ids that repeat across processes: a default task id starts again with the
  process, so new usage can have the ledger id of old usage. The documentation
  calls the resulting deduplication a re-run of the same task.

Store: an audit entry or a payload hash rewritten between a prune's listing and
its deletions is removed though young; see section 4.

Costs: `collected_at` and `pricing_timestamp` may come from a dropped duplicate; an
estimate followed by the provider's running total counts both; a total that goes
back gives the delta 0, "known_zero"; a circle of replays makes `snapshot()`
throw from then on; a fork counts both sides. The parts of `UsageCountsOnce` name the
cases they except (a circle, a fork, ids with two bodies, totals that went back).

Session usage:

- The sidecar used as baseline may be up to 24 hours older than the route, though
  `statusline/README.md` says "exact per-task cost"; a sidecar that is not
  rewritten claims 0; without `CLAUDE_CODE_SESSION_ID` that of another session is
  taken.
- The legacy tier for transcripts counts streamed rows twice, as
  `stage-cost.test.ts:105` expects.
- A Codex task routed in the turn in which another was reported, or while it still
  streams, is charged for both; the window includes both ends. Totals that
  restart no lower, and counts without a turn in two rollouts, hide usage.
- The Claude adapter drops duplicates before it selects the session, so that
  "order-insensitive" holds for verbatim copies only.

`ClaimIsOwn` says for each tier what holds of it: equality for what is read from
transcripts or from rollouts that hide nothing, an upper bound otherwise, and for
a sidecar the use since it was written.

Scan tools, labels, corpus and report:

- Two scans that share a state directory; an inaccessible history, which is cached.
- The very second of a cut-off, and commits with dates in the past.
- `survival_by_model` groups rows whatever their evidence.
- A revert-shaped commit of a rebase-merged pull request is counted beside the
  pull request; a revert that names a reland which landed after the window is
  not linked; cross-references are cached by batch (`xref2:`) for good. The
  report's as-of check compares days only, and takes an empty file. Only the
  enumeration updates the clone.

Contracts: a pattern is one representative on each side; the outcome report's
schema, `rowFidelityTiers`, and the context and workflow sections of the
wire request are not modelled. The report's validator accepts a suppressed cost
that still shows its total and a suppressed retrospective with cells, and its
closed-object test asks `key in props`, which inherited names pass
(`arbiter-report.ts`, `structural`); `ReportIsHonest` claims neither.

## 6. Findings

Shown by a run:

1. After a failed write whose repair fails too, the ledger acknowledges records
   that no reader finds (`ledger_lost_ack`; `ledger.ts:188` against
   `costs/README.md:391`).
2. A task routed again without an inference id keeps the earlier one beside the
   later recommendation (`commands_reroute`; `commands.ts:1066` against
   `core/README.md:121`).
3. Corrected for an earlier cut-off after a later one, a corpus keeps links to
   fixes that merged after it (`corpus_cutoff`; `cli.ts:488` against
   `arbiter-corrective-rework.ts:158` and
   `docs/arbiter/corrective-rework-contract.md:113`).

Met while modelling, and kept in the models as the code has them:

- `retry_of` is accepted for an attempt that has not settled
  (`attempt-reducer.ts:215` against `attempt.ts:132`).
- A survivor can land in the candidate its predecessor was ejected from
  (`queue-lifecycle-reducer.ts:241` against `queue-lifecycle.md:168`).
- Overlapping flushes, or a reset during a flush, count events that are not in
  the ledger, and later events are never persisted (`tracker.ts:390` against
  `costs/README.md:126`): without `overlapped` TLC finds `FlushPersists` and
  `CountedArePersisted` false.
- A row that the service refused in an answer of its own (`accepted: false`, or
  `rejectedRows`, `client.ts:1144`, `:1193`) is audited as "submitted", and the
  stage `first_contribution` is signalled for it (`commands.ts:1533-1549`); so is,
  in the audit, one that a harness without a client never sent
  (`harness-commands.ts:824-834`). `AuditTellsTruth` says no more than that.
- The outcome of a task reported again has the hash of before, and rewrites that
  file with a later date (`commands.ts:1440-1444`, `storage.ts:457-459`); a prune
  that listed it before deletes it.
- A pull request that lands again by a commit that says it reverts something is
  one fix or two, or none, by the records the run has (`corrective.ts:134`). Without
  `Twofold` TLC finds `LinksAreExact` false.
- The configuration that `state.json` is compared by has neither the lookback nor
  `--max-prs` nor `--as-of` (`scan-report.ts:47`): after a scan with a shorter
  lookback, one with a longer lookback over the same state enumerates from the
  cursor only and leaves out what lies before it, although the comment at
  `scan-report.ts:142` has "the same horizon outcomes as a full scan". With
  `Lookbacks = {1, 2}` TLC finds `IncrementalIsFull` false.
- After a `route()` that failed, `reportOutcome` without a correlation id files
  the outcome under the route before it (`router/src/index.ts:459` against
  `:136`).
- One torn file blocks `clear --all` (`commands.ts:1785-1790` against
  `docs/privacy-model.md:99`).
- The attempt validator and its schema differ on a pending session
  (`attempt-validators.ts:40`, `:74` against `attempt-schema.ts:103-116`).
- `normalizeFidelitySummary` (`client.ts:1216-1229`) never copies `non_ranking`,
  which its type has, and fills missing tiers with 0 where its comment says
  "never fabricated"; the request-id fallback of `submitContribution`
  (`client.ts:674-677`) and the failure of its response validation cannot happen.
- The shadow log and the scan state accept SHA-1 names only
  (`arbiter-shadow-record.ts:223`, `orchestrate/state.ts:42`) where the label
  schema admits SHA-256 (`arbiter-survival-label.ts:121`); the report names label
  contract 1.0.0 where the builder writes 1.1.0, and refuses labels of another
  threshold.
- In contribution rows: a run without a recommendation has overrides `[]`, which
  `core/README.md:131-134` reads as "followed"; `recommended_strategy` with
  another reviewer counts as followed; Aider's evidence is `session_telemetry`
  whenever a model was printed (`schema.ts:255-262`); two spellings of one model
  make an override; `listCandidateModels` offers models that `prepareDispatch`
  refuses, and the run loop accepts one candidate where `route()` wants two; a
  stage's task cost of another task, or a second summary, loses the row after the
  run; the same idempotency key runs again but keeps the first row.

## 7. Plan

Modelled and proved: the two reducers, the ledger, the tracker, the client, the
router, the commands over the local store, the scan tools, labels, reports and
rows, the cost engine, the corpus. Modelled and checked: the use of sessions, the
contracts.

Next:

1. `ClaimIsOwn`, with the lemmas on sorted sequences and sums that the cost engine has
   now.
2. The calibration of the corpus and the extraction of features, which have no
   model yet.

## 8. Running it

    tlc -workers 2 -config MCSideBySide_all.cfg MCSideBySide
    tlapm ApiClientProofs.tla

Each run of section 3 is one `.cfg` named after its MC module; `PROJECT.json`
lists them with their properties, and for each property a mutant: a definition
and the operator (commented "Seeded bug" or standing just before it) that
replaces it to show that the property can fail. The longest run takes about
three and a half minutes on two workers, the proofs at most five minutes
a module.

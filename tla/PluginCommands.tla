--------------------------- MODULE PluginCommands ---------------------------
(***************************************************************************)
(* The commands of a harness plugin over one local store:                  *)
(* packages/core/src/plugin-commands/commands.ts and report-cli.ts, and    *)
(* the same two commands as harness-commands.ts has them (harness).  Each  *)
(* command is a process of its own, a hook or a shell may start several,   *)
(* and what runs between two awaits is one step.  A process may be killed, *)
(* and a write may fail.                                                   *)
(*                                                                         *)
(* Abstracted: prompts, models and costs.  What a route recommends, and    *)
(* the context it stores with it, is known by the command that routed; the *)
(* inference id is that of the route() the service answered.               *)
(***************************************************************************)
EXTENDS LocalStore

CONSTANTS
  Tasks,
  Routes, Reports,       \* commands: route a task, report its outcome
  Declines, Inspections, \* decline a recommendation; list, preview or audit
  Clears, Toggles,       \* clear --records, --audit, --all; reporting on, off
  Unnamed,               \* routes that may be offline, or answered without an id
  Contents,              \* what a prompt or an outcome may say
  MaxEvents,             \* bounds on ticks of the clock, failed writes and kills,
  MaxRunning, MaxCalls,  \* on the commands that run together, and on all of them
  None

Commands == Routes \cup Reports \cup Declines \cup Inspections \cup Clears \cup Toggles
Correlations == [task : Tasks, createdAt : 0 .. MaxEvents]

ASSUME CommandAssumption ==
  /\ Unnamed \subseteq Routes
  /\ MaxEvents \in Nat /\ MaxRunning \in Nat /\ MaxCalls \in Nat

VARIABLES
  clock,
  cmd,         \* the local variables of each command
  accepted,    \* contribution rows the service took, one for each key
  unaccepted,  \* correlations of rows it refused, or was never sent, and which
  signalled,   \* funnel stages the service was told of
  harness      \* the store is that of a harness which runs harness-commands.ts

vars == <<files, clock, cmd, accepted, unaccepted, signalled, harness>>

Ended == {"done", "failed"}
InProgress(c) == cmd[c].at \notin Ended \cup {"idle"}

CorrelationFile(k) == <<"correlations", k>>
AuditFile(k, kind) == <<"audit", <<k, kind>> >>
FunnelFile == <<"config", "onboarding-funnel">>
ConfigFile == <<"root", "config">>

Init ==
  /\ files = [path \in {ConfigFile} |-> [whole |-> TRUE, enabled |-> TRUE]]
  /\ clock = 0
  /\ cmd = [c \in Commands |->
       [at |-> "idle", writing |-> FALSE, io |-> FALSE, stamp |-> 0,
        task |-> None, corr |-> None, seen |-> None, by |-> None, row |-> None,
        doomed |-> {}, after |-> {}]]
  /\ accepted = {} /\ unaccepted = {}
  /\ signalled = {}
  /\ harness \in BOOLEAN

\* What an ended command held is forgotten, except the correlation and the
\* inference id of a route.
Settled(c, v) ==
  IF v.at \in Ended
  THEN [v EXCEPT !.stamp = 0, !.task = None, !.seen = None, !.row = None, !.after = {},
                 !.corr = IF c \in Routes THEN @ ELSE None]
  ELSE v

With(v, new) == [f \in DOMAIN v |-> IF f \in DOMAIN new THEN new[f] ELSE v[f]]

Update(c, new) == cmd' = [cmd EXCEPT ![c] = Settled(c, With(@, new))]
Goto(c, at) == Update(c, [at |-> at])

Unshared == <<clock, accepted, unaccepted, signalled, harness>>

(***************************************************************************)
(* Files as the commands use them.                                         *)
(***************************************************************************)
Correlation(k, by, inference) ==
  [whole |-> TRUE, createdAt |-> k.createdAt, by |-> by,
   inference |-> inference]

\* Named by what it says: the payload of a route and an outcome have their
\* correlation in them, and no time.
HashFile(c, content) ==
  <<"hashes", <<IF c \in Routes THEN "route" ELSE "outcome", cmd[c].corr, content>> >>

Dated(time, status) == [whole |-> TRUE, createdAt |-> time, status |-> status]
Stamped(c, status) == Dated(cmd[c].stamp, status)

Eventful == clock + Cardinality({c \in Commands : cmd[c].io}) >= MaxEvents

\* A write of the command c: two steps, or an error, or a kill, after the first.
\* Killed elsewhere, a command leaves what one leaves that has yet to go on.
Write(c, path, value, next, failed) ==
  /\ \/ /\ ~ cmd[c].writing
        /\ Truncate(path)
        /\ Update(c, [writing |-> TRUE])
     \/ /\ cmd[c].writing
        /\ Fill(path, value)
        /\ Update(c, [writing |-> FALSE, at |-> next])
     \/ /\ cmd[c].writing /\ ~ Eventful
        /\ Update(c, [writing |-> FALSE, at |-> failed, io |-> TRUE])
        /\ UNCHANGED files
  /\ UNCHANGED Unshared

\* The small records of one payload or submission, written at once, or torn by an
\* error.
Note(c, path, value, next, failed) ==
  /\ \/ /\ files' = Put(path, value)
        /\ Goto(c, next)
     \/ /\ ~ Eventful
        /\ files' = Put(path, Torn)
        /\ Update(c, [at |-> failed, io |-> TRUE])
  /\ UNCHANGED Unshared

\* findStoredCorrelationRecord: the file of that id, else a listing, which finds
\* nothing more but throws at a torn file.
Found(k) == IF Exists(CorrelationFile(k)) THEN files[CorrelationFile(k)] ELSE None

FindThrows(k) ==
  IF Exists(CorrelationFile(k)) THEN ~ Found(k).whole ELSE ~ Readable("correlations")

RecordsOf(t) == {p \in In("correlations") : p[2].task = t}

\* Of the records of a task the dispatch builder takes the oldest, reports the newest.
Oldest(S) == {p \in S : \A q \in S : files[p].createdAt <= files[q].createdAt}
Newest(S) == {p \in S : \A q \in S : files[p].createdAt >= files[q].createdAt}

(***************************************************************************)
(* routeTask, and executeRouteCommand of a harness.                          *)
(***************************************************************************)
CallRoute(r, t) ==
  /\ cmd[r].at = "idle"
  /\ Update(r, [at |-> "looking", task |-> t])
  /\ UNCHANGED <<files, Unshared>>

\* prepareDispatch: the correlation of the task, or a new one.
LookUp(r) ==
  /\ cmd[r].at = "looking"
  /\ \/ /\ ~ Readable("correlations")
        /\ Goto(r, "failed")
     \/ /\ Readable("correlations") /\ RecordsOf(cmd[r].task) # {}
        /\ \E p \in Oldest(RecordsOf(cmd[r].task)) :
             Update(r, [at |-> "hashing", corr |-> p[2], stamp |-> clock])
     \/ /\ Readable("correlations") /\ RecordsOf(cmd[r].task) = {}
        /\ Update(r, [at |-> "creating", stamp |-> clock,
                      corr |-> [task |-> cmd[r].task, createdAt |-> clock]])
  /\ UNCHANGED <<files, Unshared>>

CreateRecord(r) ==
  /\ cmd[r].at = "creating"
  /\ Write(r, CorrelationFile(cmd[r].corr),
           Correlation(cmd[r].corr, None, None), "hashing", "failed")

HashRoute(r) ==
  /\ cmd[r].at = "hashing"
  /\ \E content \in Contents :
       Note(r, HashFile(r, content), Stamped(r, None), "asking", "failed")

\* The service answers, with or without an inference id, or there is no client:
\* the recommendation is then the default.
Ask(r) ==
  /\ cmd[r].at = "asking"
  /\ \/ Update(r, [at |-> "finding", by |-> r])
     \/ r \in Unnamed /\ Update(r, [at |-> "finding", by |-> None])
     \/ r \in Unnamed /\ ~ harness /\ Goto(r, "auditing_skip")
     \/ Goto(r, "auditing_error")
  /\ UNCHANGED <<files, Unshared>>

AuditRouteError(r) ==
  /\ cmd[r].at = "auditing_error"
  /\ Note(r, AuditFile(cmd[r].corr, "route"), Stamped(r, "failed"), "failed", "failed")

AuditRouteSkipped(r) ==
  /\ cmd[r].at = "auditing_skip"
  /\ Note(r, AuditFile(cmd[r].corr, "route"), Stamped(r, "skipped"),
           "finding_offline", "failed")

\* Then a record is read to be written back with what was recommended; a record
\* that is gone is left alone.
FindRecord(r) ==
  /\ cmd[r].at \in {"finding", "finding_offline"}
  /\ LET k == cmd[r].corr
         audited == cmd[r].at = "finding_offline"
     IN \/ /\ FindThrows(k)
           /\ Goto(r, "failed")
        \/ /\ ~ FindThrows(k) /\ Found(k) = None
           /\ Goto(r, IF audited THEN "done" ELSE "auditing")
        \/ /\ ~ FindThrows(k) /\ Found(k) # None
           /\ Update(r, [at |-> IF audited THEN "storing_offline" ELSE "storing",
                         seen |-> Found(k)])
  /\ UNCHANGED <<files, Unshared>>

\* What is written back keeps the inference id it had if the answer has none.
RecordedInference(r) == IF cmd[r].by # None THEN cmd[r].by ELSE cmd[r].seen.inference

StoreDecision(r) ==
  /\ cmd[r].at \in {"storing", "storing_offline"}
  /\ Write(r, CorrelationFile(cmd[r].corr),
           Correlation(cmd[r].corr, r, RecordedInference(r)),
           IF cmd[r].at = "storing" THEN "auditing" ELSE "done", "failed")

AuditRoute(r) ==
  /\ cmd[r].at = "auditing"
  /\ Note(r, AuditFile(cmd[r].corr, "route"), Stamped(r, "submitted"),
           IF harness THEN "done" ELSE "funnel", "failed")

(***************************************************************************)
(* The onboarding funnel, told of the first route and first contribution.  *)
(* Its errors are swallowed.  A file it finds is read, a file it does not  *)
(* find is made first.                                                     *)
(***************************************************************************)
Stage(c) == IF c \in Routes THEN "first_route" ELSE "first_contribution"
AfterFunnel(c) == IF c \in Routes THEN "done" ELSE "telling"

Emitted(stages) == [whole |-> TRUE, emitted |-> stages]

CreateFunnel(c) ==
  /\ cmd[c].at = "funnel" /\ ~ Exists(FunnelFile)
  /\ Note(c, FunnelFile, Emitted({}), "signalling", AfterFunnel(c))

SkipFunnel(c) ==
  /\ cmd[c].at = "funnel" /\ Exists(FunnelFile)
  /\ \/ ~ files[FunnelFile].whole
     \/ files[FunnelFile].whole /\ {"install", Stage(c)} \subseteq files[FunnelFile].emitted
  /\ Goto(c, AfterFunnel(c))
  /\ UNCHANGED <<files, Unshared>>

\* What c has yet to signal, and the stages it knows to be emitted.
Known(c) ==
  IF cmd[c].at = "signalling" THEN {}
  ELSE IF cmd[c].at = "funnel" /\ Exists(FunnelFile) /\ files[FunnelFile].whole
       THEN files[FunnelFile].emitted
  ELSE {"install", Stage(c)}

Pending(c) == {"install", Stage(c)} \ Known(c)

\* A stage recorded although its signal failed.
SignalOrSkip(c) ==
  /\ Pending(c) # {} /\ cmd[c].at \in {"funnel", "signalling"}
  /\ signalled' \in {signalled, signalled \cup Pending(c)}
  /\ Update(c, [at |-> "funnel_put", after |-> Known(c) \cup {"install", Stage(c)}])
  /\ UNCHANGED <<files, clock, accepted, unaccepted, harness>>

\* One signal after the other, then the stages are recorded.  A signal that fails
\* may have arrived.
SignalStages(c) ==
  /\ Pending(c) # {} /\ cmd[c].at \in {"funnel", "signalling"}
  /\ \/ /\ signalled' = signalled \cup Pending(c)
        /\ Update(c, [at |-> "funnel_put", after |-> Known(c) \cup {"install", Stage(c)}])
     \/ /\ signalled' \in {signalled, signalled \cup (Pending(c) \cap {"install"}),
                           signalled \cup Pending(c)}
        /\ Goto(c, AfterFunnel(c))
  /\ UNCHANGED <<files, clock, accepted, unaccepted, harness>>

PutFunnel(c) ==
  /\ cmd[c].at = "funnel_put"
  /\ Note(c, FunnelFile, Emitted(cmd[c].after), AfterFunnel(c), AfterFunnel(c))

(***************************************************************************)
(* runReportCli and reportTaskOutcome.  The decision is read twice: for    *)
(* the preview, and again before the row is built.                         *)
(***************************************************************************)
Returned == {cmd[r].corr : r \in {s \in Routes : cmd[s].at = "done"}}

\* The configuration says whether outcomes may be reported; a torn one throws.
Enabled == Exists(ConfigFile) /\ files[ConfigFile].whole /\ files[ConfigFile].enabled

CallReport(p, t, k) ==
  /\ cmd[p].at = "idle" /\ (t # None \/ k # None)
  /\ IF harness \/ Enabled
     THEN Update(p, [at |-> "reading", task |-> t, corr |-> k])
     ELSE Goto(p, "failed")
  /\ UNCHANGED <<files, Unshared>>

First(a, b) == IF a # None THEN a ELSE b
Read(record, field) == IF record = None THEN None ELSE record[field]

\* The decision of a correlation id, else the newest of the task.
Decisions(t, k) ==
  IF k # None THEN {p \in {CorrelationFile(k)} : Exists(p)} ELSE Newest(RecordsOf(t))

ReadThrows(k) ==
  IF k # None /\ ~ harness THEN FindThrows(k) ELSE ~ Readable("correlations")

Contradicts(t, k) == t # None /\ t # k.task

\* findRoutingDecision, or previewOutcomeCommand of a harness, which needs a record.
ReadDecision(p) ==
  /\ cmd[p].at = "reading"
  /\ LET t == cmd[p].task
         k == cmd[p].corr
     IN \/ /\ ReadThrows(k)
           /\ Goto(p, "failed")
        \/ /\ ~ ReadThrows(k) /\ Decisions(t, k) = {}
           /\ Goto(p, IF k = None \/ harness THEN "failed" ELSE "measuring")
        \/ /\ ~ ReadThrows(k)
           /\ \E d \in Decisions(t, k) :
                IF Contradicts(t, d[2]) THEN Goto(p, "failed")
                ELSE Update(p, [at |-> "measuring", seen |-> files[d],
                                task |-> First(t, d[2].task), corr |-> d[2]])
  /\ UNCHANGED <<files, Unshared>>

\* measureStage and the preview run in between; the time is taken after them.
HashReport(p) ==
  /\ cmd[p].at = "measuring"
  /\ \E content \in Contents :
       \/ /\ files' = Put(HashFile(p, content), Dated(clock, None))
          /\ Update(p, [at |-> "joining", stamp |-> clock])
       \/ /\ ~ Eventful
          /\ files' = Put(HashFile(p, content), Torn)
          /\ Update(p, [at |-> "failed", io |-> TRUE])
  /\ UNCHANGED Unshared

NeverDiffers(p, stored) == FALSE

\* A second read that contradicts the first is a CORRELATION_MISMATCH.
InferenceDiffers(p, stored) ==
  /\ cmd[p].seen # None /\ stored # None
  /\ cmd[p].seen.inference # None /\ stored.inference # None
  /\ cmd[p].seen.inference # stored.inference

Mismatch(p, stored) ==
  stored # None /\ (Contradicts(cmd[p].task, cmd[p].corr) \/ InferenceDiffers(p, stored))

\* buildReportContributionRow: what was stored is authoritative for the
\* recommendation, what was read before for the inference.  A harness has
\* only what is stored.
Row(p, stored) ==
  LET seen == IF harness THEN None ELSE cmd[p].seen
  IN [corr |-> cmd[p].corr, task |-> cmd[p].task,
      by |-> First(Read(stored, "by"), Read(seen, "by")),
      inference |-> First(Read(seen, "inference"), Read(stored, "inference"))]

Buildable(row) == row.by # None /\ row.inference # None /\ row.task # None

JoinRow(p) ==
  /\ cmd[p].at = "joining"
  /\ LET k == cmd[p].corr
         stored == Found(k)
         row == Row(p, stored)
     IN \/ /\ FindThrows(k)
           /\ Goto(p, "failed")
        \/ /\ ~ FindThrows(k) /\ ~ harness /\ Mismatch(p, stored)
           /\ Goto(p, "failed")
        \/ /\ ~ FindThrows(k) /\ (harness \/ ~ Mismatch(p, stored))
           /\ Update(p, [row |-> row,
                         at |-> IF Buildable(row) THEN "submitting" ELSE "auditing_failure"])
  /\ UNCHANGED <<files, Unshared>>

\* The service takes one row for each key; its answer may be lost.
Take(row) ==
  /\ accepted' = IF \E a \in accepted : a.corr = row.corr THEN accepted
                 ELSE accepted \cup {row}
  /\ UNCHANGED unaccepted

\* A row recorded as submitted before the service has answered.
SubmitInBackground(p) ==
  /\ cmd[p].at = "submitting"
  /\ \/ Take(cmd[p].row)
     \/ UNCHANGED <<accepted, unaccepted>>
  /\ Goto(p, "auditing_submitted")
  /\ UNCHANGED <<files, clock, signalled, harness>>

\* An answer that the row is refused is one like any other; and a harness without
\* a client goes on as if it had sent the row.
Unaccepted(p, why) ==
  /\ unaccepted' = unaccepted \cup {<<cmd[p].corr, why>>}
  /\ UNCHANGED accepted

Submit(p) ==
  /\ cmd[p].at = "submitting"
  /\ \/ /\ Take(cmd[p].row) \/ Unaccepted(p, "refused") \/ (harness /\ Unaccepted(p, "unsent"))
        /\ Goto(p, "auditing_submitted")
     \/ /\ Take(cmd[p].row) \/ UNCHANGED <<accepted, unaccepted>>
        /\ Goto(p, "auditing_failure")
  /\ UNCHANGED <<files, clock, signalled, harness>>

RowAudit(p) == AuditFile(cmd[p].corr, "contribution")

\* What fails here is caught by the handler of the submission.
AuditSubmitted(p) ==
  /\ cmd[p].at = "auditing_submitted"
  /\ Note(p, RowAudit(p), Stamped(p, "submitted"),
           IF harness THEN "done" ELSE "funnel", "auditing_failure")

AuditFailure(p) ==
  /\ cmd[p].at = "auditing_failure"
  /\ Note(p, RowAudit(p), Stamped(p, "failed"), "failed", "failed")

\* The telemetry that follows must not mask the contribution: its failure is
\* recorded, as is that of recording its success.
OutcomeAudit(p) == AuditFile(cmd[p].corr, "outcome")

\* Telemetry that fails the report, as it would without a handler of its own.
TellOrFail(p) ==
  /\ cmd[p].at = "telling"
  /\ \/ Note(p, OutcomeAudit(p), Stamped(p, "submitted"), "done", "untold")
     \/ Note(p, OutcomeAudit(p), Stamped(p, "failed"), "failed", "failed")

Tell(p) ==
  /\ cmd[p].at = "telling"
  /\ \/ Note(p, OutcomeAudit(p), Stamped(p, "submitted"), "done", "untold")
     \/ Note(p, OutcomeAudit(p), Stamped(p, "failed"), "done", "failed")

AuditUntold(p) ==
  /\ cmd[p].at = "untold"
  /\ Note(p, OutcomeAudit(p), Stamped(p, "failed"), "done", "failed")

(***************************************************************************)
(* declineRecommendation: a record is read, and written back as declined.  *)
(***************************************************************************)
CallDecline(d, k) ==
  /\ cmd[d].at = "idle"
  /\ IF FindThrows(k) \/ Found(k) = None THEN Goto(d, "failed")
     ELSE Update(d, [at |-> "declining", corr |-> k, seen |-> Found(k)])
  /\ UNCHANGED <<files, Unshared>>

StoreDecline(d) ==
  /\ cmd[d].at = "declining"
  /\ Write(d, CorrelationFile(cmd[d].corr),
           cmd[d].seen, "done", "failed")

(***************************************************************************)
(* listRoutingDecisions, previewStoredDecision, listSubmissionAudit: each  *)
(* prunes the three directories, one after the other, and lists then.      *)
(***************************************************************************)
CallInspection(x) ==
  /\ cmd[x].at = "idle"
  /\ Update(x, [at |-> "pruning", stamp |-> clock, after |-> RecordDirs])
  /\ UNCHANGED <<files, Unshared>>

NextDir(x) == CHOOSE d \in {"correlations", "hashes", "audit"} :
  /\ d \in cmd[x].after
  /\ d = "hashes" => "correlations" \notin cmd[x].after
  /\ d = "audit" => cmd[x].after = {"audit"}

ListExpired(x) ==
  /\ cmd[x].at = "pruning" /\ cmd[x].after # {}
  /\ LET dir == NextDir(x)
     IN \/ /\ ~ Readable(dir)
           /\ Goto(x, "failed")
        \/ /\ Readable(dir)
           /\ \E kept \in KeptSets(dir, cmd[x].stamp) :
                Update(x, [at |-> IF kept = {} THEN "emptying" ELSE "deleting",
                           doomed |-> In(dir) \ kept])
  /\ UNCHANGED <<files, Unshared>>

\* A rewrite that removes whatever is not in the list of what was kept.
DeleteUnlisted(x) ==
  /\ cmd[x].at = "deleting"
  /\ RemoveAll({p \in In(NextDir(x)) : p \in cmd[x].doomed \/ files[p].whole})
  /\ Update(x, [at |-> "pruning", after |-> cmd[x].after \ {NextDir(x)}, doomed |-> {}])
  /\ UNCHANGED Unshared

\* #rewriteRecords: what the listing found expired; and the directory, with what
\* has been written there since, if the listing found nothing to keep.
DeleteDoomed(x) ==
  /\ cmd[x].at = "deleting"
  /\ RemoveAll(cmd[x].doomed)
  /\ Update(x, [at |-> "pruning", after |-> cmd[x].after \ {NextDir(x)}, doomed |-> {}])
  /\ UNCHANGED Unshared

EmptyDir(x) ==
  /\ cmd[x].at = "emptying"
  /\ RemoveAll(In(NextDir(x)))
  /\ Update(x, [at |-> "pruning", after |-> cmd[x].after \ {NextDir(x)}, doomed |-> {}])
  /\ UNCHANGED Unshared

ListRecords(x) ==
  /\ cmd[x].at = "pruning" /\ cmd[x].after = {}
  /\ Goto(x, IF Readable("correlations") /\ Readable("hashes") THEN "done" ELSE "failed")
  /\ UNCHANGED <<files, Unshared>>

(***************************************************************************)
(* clearPrivacyState: counts what there is, then removes the directories   *)
(* of its scope, and with the scope "all" everything else.                 *)
(***************************************************************************)
Scopes == {{"correlations", "hashes"}, {"audit"},
           {"correlations", "hashes", "audit", "config"}}

CallClear(z, scope) ==
  /\ cmd[z].at = "idle"
  /\ IF \A dir \in scope \cap RecordDirs : Readable(dir)
     THEN Update(z, [at |-> "clearing", doomed |-> scope, after |-> scope])
     ELSE Update(z, [at |-> "failed", doomed |-> scope])
  /\ UNCHANGED <<files, Unshared>>

ClearDir(z) ==
  /\ cmd[z].at = "clearing"
  /\ \E dir \in cmd[z].after :
       /\ RemoveAll(In(dir))
       /\ Update(z, [after |-> cmd[z].after \ {dir}])
  /\ UNCHANGED Unshared

ClearRoot(z) ==
  /\ cmd[z].at = "clearing" /\ cmd[z].after = {}
  /\ IF "config" \in cmd[z].doomed THEN RemoveAll(DOMAIN files) ELSE files' = files
  /\ Goto(z, "done")
  /\ UNCHANGED Unshared

(***************************************************************************)
(* setReportingEnabled: the file is read, and written back changed.        *)
(***************************************************************************)
CallToggle(g, enabled) ==
  /\ cmd[g].at = "idle"
  /\ IF Exists(ConfigFile) /\ ~ files[ConfigFile].whole THEN Goto(g, "failed")
     ELSE Update(g, [at |-> IF enabled THEN "enabling" ELSE "disabling"])
  /\ UNCHANGED <<files, Unshared>>

WriteToggle(g) ==
  /\ cmd[g].at \in {"enabling", "disabling"}
  /\ LET enabled == cmd[g].at = "enabling"
     IN /\ Write(g, ConfigFile, [whole |-> TRUE, enabled |-> enabled], "done", "failed")

(***************************************************************************)
(* The environment, and the whole.                                         *)
(***************************************************************************)
\* A bound: time passes while another command could be called.
Tick ==
  /\ ~ Eventful
  /\ Cardinality({c \in Commands : InProgress(c)}) < MaxRunning
  /\ clock' = clock + 1
  /\ UNCHANGED <<files, cmd, accepted, unaccepted, signalled, harness>>

RouteStep(r) ==
  \/ LookUp(r) \/ CreateRecord(r) \/ HashRoute(r) \/ Ask(r)
  \/ AuditRouteError(r) \/ AuditRouteSkipped(r) \/ FindRecord(r)
  \/ StoreDecision(r) \/ AuditRoute(r)

FunnelStep(c) == CreateFunnel(c) \/ SkipFunnel(c) \/ SignalStages(c) \/ PutFunnel(c)

ReportStep(p) ==
  \/ ReadDecision(p) \/ HashReport(p) \/ JoinRow(p) \/ Submit(p)
  \/ AuditSubmitted(p) \/ AuditFailure(p) \/ Tell(p) \/ AuditUntold(p)

PruneStep(x) == ListExpired(x) \/ DeleteDoomed(x) \/ EmptyDir(x) \/ ListRecords(x)

ClearStep(z) == ClearDir(z) \/ ClearRoot(z)

Step(c) ==
  \/ c \in Routes /\ (RouteStep(c) \/ FunnelStep(c))
  \/ c \in Reports /\ (ReportStep(c) \/ FunnelStep(c))
  \/ c \in Declines /\ StoreDecline(c)
  \/ c \in Inspections /\ PruneStep(c)
  \/ c \in Clears /\ ClearStep(c)
  \/ c \in Toggles /\ WriteToggle(c)

MayCall ==
  /\ Cardinality({c \in Commands : InProgress(c)}) < MaxRunning
  /\ Cardinality({c \in Commands : cmd[c].at # "idle"}) < MaxCalls

Call(c) ==
  \/ c \in Routes /\ \E t \in Tasks : CallRoute(c, t)
  \/ c \in Reports /\ \E t \in Tasks \cup {None}, k \in Returned \cup {None} :
                        CallReport(c, t, k)
  \/ c \in Declines /\ \E k \in Returned : CallDecline(c, k)
  \/ c \in Inspections /\ CallInspection(c)
  \/ c \in Clears /\ \E scope \in Scopes : CallClear(c, scope)
  \/ c \in Toggles /\ \E enabled \in BOOLEAN : CallToggle(c, enabled)

Next ==
  \/ Tick
  \/ \E c \in Commands : (MayCall /\ Call(c)) \/ Step(c)

\* A command that was called is run.
Spec == Init /\ [][Next]_vars /\ \A c \in Commands : WF_vars(Step(c))

(***************************************************************************)
(* Properties.                                                             *)
(***************************************************************************)
AfterSubmission ==
  {"auditing_submitted", "funnel", "signalling", "funnel_put",
   "telling", "untold"}

\* A row's inference is the one that made the row's recommendation.
RowOfOneDecision == \A row \in accepted : row.inference = row.by

\* It is when the route that recommended was answered with an inference id,
\* whatever was routed or declined between the two reads of the report.
NamedRowOfOneDecision ==
  \A row \in accepted : cmd[row.by].by # None => row.inference = row.by

\* What the audit log calls submitted the service was sent and has answered, if
\* only to refuse it, although several reports of one correlation write the same
\* entry, and answers are lost: it took a row of that correlation, or refused one.
\* Only a harness without a client says so of a row it never sent.
AuditTellsTruth ==
  \A k \in Correlations :
    LET entry == AuditFile(k, "contribution")
    IN Exists(entry) /\ files[entry].whole /\ files[entry].status = "submitted"
       => \/ \E row \in accepted : row.corr = k
          \/ <<k, "refused">> \in unaccepted
          \/ harness /\ <<k, "unsent">> \in unaccepted

\* A stage recorded as emitted was signalled, whatever failed in between.
EmittedWereSignalled ==
  Exists(FunnelFile) /\ files[FunnelFile].whole
    => files[FunnelFile].emitted \subseteq signalled

\* A report whose submission was answered ends well: neither the audit log nor the
\* funnel nor the telemetry after it fails it, unless a local write fails.
AcceptedIsReported ==
  [][\A p \in Reports :
       cmd[p].at \in AfterSubmission /\ cmd'[p].at = "failed" => cmd'[p].io]_vars

\* A prune that found something to keep removes, of the routing decisions, what is
\* too old, or what as many records as may be kept are newer than, although it
\* deletes by a listing that is out of date (while nothing else removes records).
\* Of payload hashes and audit entries it may remove a younger one: the same
\* payload, or another answer, may have been written there since the listing.
PruneKeepsWithinLimits ==
  [][\A x \in Inspections :
       /\ cmd[x].at = "deleting" /\ cmd'[x].at = "pruning"
       /\ \A c \in (Inspections \cup Clears) \ {x} : cmd[c].at = "idle"
       => \A path \in DOMAIN files \ DOMAIN files' :
            path[1] = "correlations" =>
              \/ ~ files[path].whole \/ ~ Young(path, cmd[x].stamp)
              \/ Cardinality({q \in In("correlations") \ {path} :
                   files[q].whole => files[q].createdAt >= files[path].createdAt})
                   >= MaxRecords]_vars

=============================================================================

-------------------------- MODULE IncrementalScan --------------------------
(***************************************************************************)
(* hokusai-scan report with a state directory: runReportScan of            *)
(* packages/scan/src/orchestrate, over the cursor and the rows that an     *)
(* earlier scan left.  A scan reads the state and the branch and computes  *)
(* its report in one step, emits it, then replaces the two files of the    *)
(* state one after the other; it may fail or be killed in between.         *)
(*                                                                         *)
(* Abstracted: of a row, all but its pull request, the configuration that  *)
(* attributed it and its labels; git does not fail.                        *)
(***************************************************************************)
EXTENDS MergedHistory

CONSTANTS
  Scanners,          \* processes that scan with the state directory
  Configs,           \* what scanConfigHash tells apart
  Lookbacks, AsOfs,  \* --lookback-days, and how far --as-of lies in the past
  MaxPrs,            \* --max-prs
  Horizons,
  FailurePercent,    \* per-PR failures a report may have (10 in the code)
  Nothing

\* ScanStateRow, and the two files together.
Row == [sha : Nat, config : Configs,
        labels : [Horizons -> {"missing_horizon", "undone", "survived"}]]
Checkpoint == [config : Configs, cursor : Nat, rows : SUBSET Row]

ASSUME ScanAssumption == MaxPrs \in Nat /\ Horizons \subseteq Nat /\ Nothing \notin Checkpoint

VARIABLES
  rowsFile,    \* prs.jsonl: [rows], and of the checkpoint it is of [config, cursor]
  headerFile,  \* state.json: [config, cursor]
  scan,        \* the local variables of each scan
  missed,      \* pull requests that failed or that GitHub did not find in some scan
  misled       \* a scan has used rows that state.json does not speak for

scanVars == <<rowsFile, headerFile, scan, missed, misled>>

Idle == [at |-> "idle"]

ScanInit ==
  /\ rowsFile = Nothing
  /\ headerFile = Nothing
  /\ scan = [s \in Scanners |-> Idle]
  /\ missed = {} /\ misled = FALSE

(***************************************************************************)
(* enumerateWindow, and the window of the report.                          *)
(***************************************************************************)
InWindow(from, now) == {i \in DOMAIN branch : branch[i].at >= from /\ branch[i].at <= now}

CommitsAt(S) == {branch[i] : i \in S}

ReportWindow(from, now) == CommitsAt(NewestOf(InWindow(from, now), MaxPrs))

\* readScanState: another configuration, or a cursor that is not on the branch,
\* clears the cache.
Cached(config) ==
  /\ headerFile # Nothing
  /\ headerFile.config = config
  /\ headerFile.cursor # 0 => IsAncestor(headerFile.cursor)

Cursor(config) == IF Cached(config) THEN headerFile.cursor ELSE 0
CachedRows(config) == IF Cached(config) /\ rowsFile # Nothing THEN rowsFile.rows ELSE {}

EnumerateFrom(config, from, now) ==
  CommitsAt(NewestOf(InWindow(from, now) \cap Since(Cursor(config)), MaxPrs))

(***************************************************************************)
(* Rows.  A label that matured is kept, any other computed again.          *)
(***************************************************************************)
Labelled(m, config, now) ==
  [sha |-> m.sha, config |-> config, labels |-> [h \in Horizons |-> LabelAt(m, h, now)]]

\* A row whose labels are those of the scan that found it.
KeptAsFound(row, m, now) == row

Refreshed(row, m, now) ==
  [row EXCEPT !.labels = [h \in Horizons |->
     IF Matured(m, h, now) /\ @[h] # "missing_horizon" THEN @[h] ELSE LabelAt(m, h, now)]]

CommitOf(sha) == CHOOSE m \in Commits : m.sha = sha

\* Of the merges found, what is cached is refreshed and what is not is fetched,
\* unless it fails (lost); what is cached and in the window is refreshed too.
RowsAfter(config, now, found, window, lost) ==
  LET cache == CachedRows(config)
      fetched == {m \in found : m.pr /\ m.sha \notin lost
                                       /\ ~ \E row \in cache : row.sha = m.sha}
      Fresh(row) == row.sha \in {m.sha : m \in window} /\ row.sha \notin lost
  IN {IF Fresh(row) THEN Refreshed(row, CommitOf(row.sha), now) ELSE row : row \in cache}
       \cup {Labelled(m, config, now) : m \in fetched}

Within(rows, window) == {row \in rows : row.sha \in {m.sha : m \in window}}

\* The cursor saved: the newest commit there is, whatever the window was.
LastSeen(now) ==
  LET all == InWindow(0, now) IN
  IF all = {} THEN 0 ELSE branch[CHOOSE i \in all : \A j \in all : j <= i].sha

\* The rows are of a checkpoint that state.json would let pass as well.
CacheIsWhole ==
  rowsFile # Nothing =>
    /\ rowsFile.config = headerFile.config
    /\ rowsFile.cursor # 0 => IsAncestor(rowsFile.cursor)

(***************************************************************************)
(* The scan.                                                               *)
(***************************************************************************)
TooMany(failed, attempted) ==
  attempted > 0 /\ 100 * Cardinality(failed) > FailurePercent * attempted

\* absent: GitHub does not find them; failed: anything else goes wrong.
RunScan(s, config, lookback, ago, absent, failed) ==
  LET now == IF ago > clock THEN 0 ELSE clock - ago
      from == now - lookback
      found == EnumerateFrom(config, from, now)
      window == ReportWindow(from, now)
      attempted == {m.sha : m \in {n \in found : n.pr}}
      uncached == attempted \ {row.sha : row \in CachedRows(config)}
      rows == RowsAfter(config, now, found, window, absent \cup failed)
  IN /\ scan[s] = Idle
     /\ absent \subseteq uncached /\ failed \subseteq attempted \ absent
     /\ ~ TooMany(failed, Cardinality(attempted))
     /\ scan' = [scan EXCEPT ![s] =
          [at |-> "emitting", config |-> config, from |-> from, now |-> now,
           rows |-> rows, report |-> Within(rows, window), cursor |-> LastSeen(now)]]
     /\ missed' = missed \cup absent \cup failed
     /\ misled' = (misled \/ (Cached(config) /\ ~ CacheIsWhole))
     /\ UNCHANGED <<rowsFile, headerFile>>

\* emitReport, submitReport; what fails or is killed leaves the state as it is.
EmitReport(s) ==
  /\ scan[s].at = "emitting"
  /\ scan' = [scan EXCEPT ![s] = [at |-> "saving", config |-> @.config, rows |-> @.rows, cursor |-> @.cursor]]
  /\ UNCHANGED <<rowsFile, headerFile, missed, misled>>

\* writeScanState: prs.jsonl, then state.json, each replaced atomically.
SaveRows(s) ==
  /\ scan[s].at = "saving"
  /\ rowsFile' = [config |-> scan[s].config, cursor |-> scan[s].cursor, rows |-> scan[s].rows]
  /\ scan' = [scan EXCEPT ![s].at = "rows_saved"]
  /\ UNCHANGED <<headerFile, missed, misled>>

SaveHeader(s) ==
  /\ scan[s].at = "rows_saved"
  /\ headerFile' = [config |-> scan[s].config, cursor |-> scan[s].cursor]
  /\ scan' = [scan EXCEPT ![s] = Idle]
  /\ UNCHANGED <<rowsFile, missed, misled>>

StopScan(s) ==
  /\ scan[s] # Idle
  /\ scan' = [scan EXCEPT ![s] = Idle]
  /\ UNCHANGED <<rowsFile, headerFile, missed, misled>>

ScanNext ==
  \E s \in Scanners :
    \/ \E config \in Configs, lookback \in Lookbacks, ago \in AsOfs,
          absent, failed \in SUBSET Shas :
         RunScan(s, config, lookback, ago, absent, failed)
    \/ EmitReport(s) \/ SaveRows(s) \/ SaveHeader(s) \/ StopScan(s)

(***************************************************************************)
(* Properties.                                                             *)
(***************************************************************************)
\* What a scan without a state directory would report.
FullReport(config, from, now) ==
  {Labelled(m, config, now) : m \in {n \in ReportWindow(from, now) : n.pr}}

Found(rows) == {row \in rows : row.sha \notin missed'}

Scanned(s) == scan[s] = Idle /\ scan'[s].at = "emitting"

\* An incremental scan reports the pull requests, the attribution and the horizon
\* outcomes that a full scan would, save for what was missed: whatever matured,
\* aged out or was rewritten since, and wherever an earlier scan stopped, unless
\* it stopped between the two files.  For scans as of now with one lookback: the
\* state says nothing of the window its rows are of.
IncrementalIsFull ==
  [][\A s \in Scanners : Scanned(s) /\ ~ misled' =>
       Found(scan'[s].report)
         = Found(FullReport(scan'[s].config, scan'[s].from, scan'[s].now))]_scan

=============================================================================

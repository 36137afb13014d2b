----------------------------- MODULE LocalStore -----------------------------
(***************************************************************************)
(* FsLocalStore, packages/core/src/storage.ts: a directory of JSON files   *)
(* for each kind of record, written without a temporary file, listed by    *)
(* reading every file.  A write has two steps, since writeFile truncates   *)
(* before it writes: between them, and for good after a crash or an I/O    *)
(* error, the file is torn and reading it throws StoreCorruptError.        *)
(*                                                                         *)
(* Abstracted: what the records say, except what PluginCommands reads of   *)
(* them; the guards against raw payload fields and unsafe ids, which no    *)
(* command runs into.  A file that is removed and made again under a       *)
(* writer is taken for the file it opened.                                 *)
(***************************************************************************)
EXTENDS Integers, FiniteSets, TLC

CONSTANTS
  MaxAge,      \* RetentionPolicy.maxAgeMs
  MaxRecords   \* RetentionPolicy.maxRecords

ASSUME RetentionAssumption == MaxAge \in Nat /\ MaxRecords \in Nat

VARIABLE files   \* the files there are, by <<directory, name>>

RecordDirs == {"correlations", "hashes", "audit"}

Torn == [whole |-> FALSE]

In(dir) == {p \in DOMAIN files : p[1] = dir}

Exists(path) == path \in DOMAIN files

\* listCorrelations, listPayloadHashes, listAudit: one file that cannot be read
\* fails the listing.
Readable(dir) == \A p \in In(dir) : files[p].whole

\* The files with one of them made, or replaced.
Put(path, value) ==
  [p \in DOMAIN files \cup {path} |-> IF p = path THEN value ELSE files[p]]

\* writeFile: opened and truncated, then written, unless another process has
\* removed the file meanwhile.
Truncate(path) == files' = Put(path, Torn)

Fill(path, value) ==
  files' = IF Exists(path) THEN [files EXCEPT ![path] = value] ELSE files

\* rm with force: what is not there is no error.
RemoveAll(paths) ==
  files' = [p \in DOMAIN files \ paths |-> files[p]]

(***************************************************************************)
(* pruneByRetention: what is young enough, and of that the newest.  Which  *)
(* of several equally old records are kept depends on the directory order. *)
(***************************************************************************)
Young(path, now) == files[path].createdAt >= now - MaxAge

KeptSets(dir, now) ==
  LET young == {p \in In(dir) : Young(p, now)}
      newest(S) == \A p \in S, q \in young \ S :
                     files[p].createdAt >= files[q].createdAt
      size == IF Cardinality(young) > MaxRecords THEN MaxRecords ELSE Cardinality(young)
  IN {S \in SUBSET young : Cardinality(S) = size /\ newest(S)}
=============================================================================

----------------------------- MODULE CostLedger -----------------------------
(***************************************************************************)
(* The append-only cost ledger, packages/costs/src/ledger/ledger.ts, over  *)
(* the file of node-storage.ts.  Appends queue up behind one another; each *)
(* awaits one write and an fsync, and a failed write is cut off again.     *)
(* The process may stop between any two steps and reopen the file later.   *)
(*                                                                         *)
(* Abstracted: a line is two halves, of which the second ends it, so that  *)
(* a write can stop within a line; offsets count halves.  A record is its  *)
(* id.  Lines of a future version and bytes that are not UTF-8 are left    *)
(* out.                                                                    *)
(***************************************************************************)
EXTENDS Naturals, Sequences, FiniteSets, SequencesExt

CONSTANTS
  RecordIds,     \* ids, the hash of task, source and event key
  MaxRecords,    \* the configured limit on records
  MaxBytes,      \* the configured limit on the file, in halves of a line
  MaxQueue,      \* bound on the calls waiting at once
  MaxBatch,      \* bound on the entries of one appendMany
  MaxFaults      \* bound, by kind, on what may go wrong

FaultKinds == {"write", "recover", "open", "stop"}

ASSUME LimitAssumption == {MaxRecords, MaxBytes} \subseteq Nat \ {0}
ASSUME BoundAssumption ==
  {MaxQueue, MaxBatch} \subseteq Nat /\ MaxFaults \in [FaultKinds -> Nat]

VARIABLES
  file,       \* the halves in the file, in order
  phase,      \* "down", "idle", "writing" or "recovering"
  closed,     \* close() was called
  byId,       \* ids the open ledger has indexed
  sizeBytes,  \* what it takes the length of the file to be
  queue,      \* calls, each the sequence of the ids it has left to append
  begun,      \* the first of them is past its ensureOpen
  acked,      \* ids an append reported as "appended" or "duplicate"
  faults      \* how often each kind of fault happened

vars == <<file, phase, closed, byId, sizeBytes, queue, begun, acked, faults>>

(***************************************************************************)
(* The file.                                                               *)
(***************************************************************************)
Line(id) == <<[id |-> id, half |-> 1], [id |-> id, half |-> 2]>>
Halves == [id : RecordIds, half : {1, 2}]

LineEnds(f) == {0} \cup {n \in DOMAIN f : f[n].half = 2}
CompleteLength(f) == CHOOSE n \in LineEnds(f) : \A m \in LineEnds(f) : m <= n

\* parseLine: a line is a record when it is exactly what serializeLine wrote,
\* so the line that ends at n is one only if it begins at a line end.
ParsedAt(f, n) ==
  /\ n - 2 \in LineEnds(f)
  /\ f[n - 1] = [id |-> f[n].id, half |-> 1]

RecordEnds(f) == {n \in LineEnds(f) \ {0} : ParsedAt(f, n)}
Parsed(f) == {f[n].id : n \in RecordEnds(f)}

Init ==
  /\ file = <<>>
  /\ phase = "down"
  /\ closed = FALSE
  /\ byId = {}
  /\ sizeBytes = 0
  /\ queue = <<>>
  /\ begun = FALSE
  /\ acked = {}
  /\ faults = [kind \in FaultKinds |-> 0]

Fault(kind) ==
  /\ faults[kind] < MaxFaults[kind]
  /\ faults' = [faults EXCEPT ![kind] = @ + 1]

(***************************************************************************)
(* openTaskCostLedger: cut a torn tail, then index the lines.  A process   *)
(* that closed its ledger may open it again.                               *)
(***************************************************************************)
MayOpen ==
  \/ phase = "down"
  \/ phase = "idle" /\ closed /\ queue = <<>>

\* Seeded bug: the torn tail is left where it is.
KeepTail(f) == f

CutTail(f) == SubSeq(f, 1, CompleteLength(f))

Readable(f) == Len(f) <= MaxBytes

Open ==
  /\ MayOpen
  /\ Readable(file)
  /\ Cardinality(Parsed(file)) <= MaxRecords
  /\ file' = CutTail(file)
  /\ phase' = "idle"
  /\ closed' = FALSE
  /\ byId' = Parsed(file)
  /\ sizeBytes' = CompleteLength(file)
  /\ UNCHANGED <<queue, begun, acked, faults>>

\* The file is longer than a reader accepts, or holds too many records.
OpenExceedsLimit ==
  /\ MayOpen
  /\ \/ ~Readable(file) /\ UNCHANGED file
     \/ /\ Readable(file)
        /\ Cardinality(Parsed(file)) > MaxRecords
        /\ file' = CutTail(file)
  /\ UNCHANGED <<phase, closed, byId, sizeBytes, queue, begun, acked, faults>>

\* The torn tail cannot be cut: the caller gets no ledger.
OpenFails ==
  /\ MayOpen
  /\ Readable(file)
  /\ CompleteLength(file) < Len(file)
  /\ Fault("open")
  /\ UNCHANGED <<file, phase, closed, byId, sizeBytes, queue, begun, acked>>

(***************************************************************************)
(* Calls.                                                                  *)
(***************************************************************************)
\* append is a batch of one.
Batches == UNION {[1..n -> RecordIds] : n \in 1..MaxBatch}

Enqueue ==
  /\ phase # "down" /\ ~closed
  /\ Len(queue) < MaxQueue
  /\ \E batch \in Batches : queue' = Append(queue, batch)
  /\ UNCHANGED <<file, phase, closed, byId, sizeBytes, begun, acked, faults>>

Close ==
  /\ phase # "down" /\ ~closed
  /\ closed' = TRUE
  /\ UNCHANGED <<file, phase, byId, sizeBytes, queue, begun, acked, faults>>

\* The call in progress resolves after its last entry.
NextEntry ==
  IF Len(Head(queue)) = 1
  THEN queue' = Tail(queue) /\ begun' = FALSE
  ELSE queue' = <<Tail(Head(queue))>> \o Tail(queue) /\ UNCHANGED begun

\* Seeded bug: a call that failed keeps its place and is tried again.
RetryCall == begun' = FALSE /\ UNCHANGED queue

\* The call in progress rejects; the ones behind it are not affected.
RejectCall == begun' = FALSE /\ queue' = Tail(queue)

Waiting == phase = "idle" /\ queue # <<>> /\ ~begun

Begin ==
  /\ Waiting
  /\ ~closed
  /\ begun' = TRUE
  /\ UNCHANGED <<file, phase, closed, byId, sizeBytes, queue, acked, faults>>

\* The ledger was closed while the call waited.
RejectClosed ==
  /\ Waiting
  /\ closed
  /\ RejectCall
  /\ UNCHANGED <<file, phase, closed, byId, sizeBytes, acked, faults>>

Entry == Head(Head(queue))
AtEntry == phase = "idle" /\ begun

Duplicate ==
  /\ AtEntry
  /\ Entry \in byId
  /\ acked' = acked \cup {Entry}
  /\ NextEntry
  /\ UNCHANGED <<file, phase, closed, byId, sizeBytes, faults>>

\* Seeded bug: the limit is compared before the record is counted.
OverLimit ==
  \/ Cardinality(byId) > MaxRecords
  \/ sizeBytes > MaxBytes

ExceedsLimit ==
  \/ Cardinality(byId) >= MaxRecords
  \/ sizeBytes + Len(Line(Entry)) > MaxBytes

LimitExceeded ==
  /\ AtEntry
  /\ Entry \notin byId
  /\ ExceedsLimit
  /\ RejectCall
  /\ UNCHANGED <<file, phase, closed, byId, sizeBytes, acked, faults>>

StartWrite ==
  /\ AtEntry
  /\ Entry \notin byId
  /\ ~ExceedsLimit
  /\ phase' = "writing"
  /\ UNCHANGED <<file, closed, byId, sizeBytes, queue, begun, acked, faults>>

WriteDone ==
  /\ phase = "writing"
  /\ file' = file \o Line(Entry)
  /\ sizeBytes' = sizeBytes + Len(Line(Entry))
  /\ byId' = byId \cup {Entry}
  /\ acked' = acked \cup {Entry}
  /\ phase' = "idle"
  /\ NextEntry
  /\ UNCHANGED <<closed, faults>>

\* What a write that did not complete leaves behind: any part of the line.
PartialWrite ==
  \E n \in 0..Len(Line(Entry)) : file' = file \o SubSeq(Line(Entry), 1, n)

\* The write, the fsync or the close of the file failed.
WriteFails ==
  /\ phase = "writing"
  /\ Fault("write")
  /\ PartialWrite
  /\ phase' = "recovering"
  /\ UNCHANGED <<closed, byId, sizeBytes, queue, begun, acked>>

CutOffset == sizeBytes

CutDone ==
  /\ phase = "recovering"
  /\ file' = SubSeq(file, 1, CutOffset)
  /\ phase' = "idle"
  /\ RejectCall
  /\ UNCHANGED <<closed, byId, sizeBytes, acked, faults>>

\* Write and recovery failed: the call rejects, the ledger stays open.
CutFails ==
  /\ phase = "recovering"
  /\ Fault("recover")
  /\ phase' = "idle"
  /\ RejectCall
  /\ UNCHANGED <<file, closed, byId, sizeBytes, acked>>

(***************************************************************************)
(* The process stops: what was in memory is gone.                          *)
(***************************************************************************)
Stop ==
  /\ phase # "down"
  /\ Fault("stop")
  /\ IF phase = "writing" THEN PartialWrite ELSE UNCHANGED file
  /\ phase' = "down"
  /\ closed' = FALSE
  /\ byId' = {}
  /\ sizeBytes' = 0
  /\ queue' = <<>>
  /\ begun' = FALSE
  /\ UNCHANGED acked

Serve == Begin \/ RejectClosed \/ Duplicate \/ LimitExceeded \/ StartWrite
           \/ WriteDone \/ WriteFails \/ CutDone \/ CutFails

Next == Open \/ OpenExceedsLimit \/ OpenFails \/ Enqueue \/ Close \/ Serve \/ Stop

\* The runtime settles every storage call and runs the promise queue.
Spec == Init /\ [][Next]_vars /\ WF_vars(Serve)

-----------------------------------------------------------------------------
(***************************************************************************)
(* Properties.                                                             *)
(***************************************************************************)
\* The types of the variables; a call is in progress whenever storage is.
TypeOK ==
  /\ file \in Seq(Halves)
  /\ phase \in {"down", "idle", "writing", "recovering"}
  /\ closed \in BOOLEAN /\ begun \in BOOLEAN
  /\ byId \subseteq RecordIds
  /\ sizeBytes \in Nat
  /\ Len(queue) <= MaxQueue
  /\ \A n \in DOMAIN queue : queue[n] \in Batches
  /\ acked \subseteq RecordIds
  /\ \A kind \in FaultKinds : faults[kind] \in 0..MaxFaults[kind]
  /\ phase \in {"writing", "recovering"} => begun
  /\ begun => queue # <<>>

\* No recovery of a failed write has failed.
Intact == faults["recover"] = 0

\* Between writes, an open ledger that never failed to recover has indexed
\* exactly the records of the file, knows its length to the byte, and holds no
\* record twice: a retry of a failed append starts from a clean line end.
IndexMatchesFile ==
  Intact /\ phase = "idle" =>
    /\ byId = Parsed(file)
    /\ sizeBytes = Len(file)
    /\ Cardinality(RecordEnds(file)) = Cardinality(byId)

\* What a ledger wrote within its limits it can open again, wherever the
\* process stopped, unless a recovery failed.
ReopensWithinLimits ==
  Intact =>
    /\ Readable(file)
    /\ Cardinality(Parsed(file)) <= MaxRecords

\* Whatever failed to be written, and wherever the process stopped, what the
\* ledger holds in memory, what the file holds and what a next process can open
\* are the same records.
LedgerSound == TypeOK /\ IndexMatchesFile /\ ReopensWithinLimits

\* The ledger keeps the promise of LedgerStore through failed writes, torn
\* tails and restarts, until a recovery fails.
Store == INSTANCE LedgerStore WITH records <- Parsed(file), intact <- Intact
KeepsItsPromise == Store!Spec

\* A call never waits for ever behind others: a full queue moves on, whether
\* the calls ahead succeed or fail, or the process stops.
QueueMoves == (Len(queue) = MaxQueue) ~> (Len(queue) < MaxQueue)

\* README, "returns `duplicate` without another write, including after a
\* restart": an acknowledged record is in the file.
AckedIsDurable == acked \subseteq Parsed(file)
=============================================================================

---------------------------- MODULE CostTracker ----------------------------
(***************************************************************************)
(* One measured task: the tracker of packages/costs/src/measure/tracker.ts *)
(* records usage events in memory and flushes them to the cost ledger, and *)
(* measureTask (measure-task.ts) runs the task and flushes at its end.     *)
(* The ledger is taken by its promise, LedgerStore.                        *)
(*                                                                         *)
(* Abstracted: an event is its id.  Id n > 0 is the generated              *)
(* "<task>.e<n>", which callers may also use explicitly; 0 is any other.   *)
(***************************************************************************)
EXTENDS Naturals, Sequences, SequencesExt

CONSTANTS
  ExplicitIds,   \* event ids callers supply
  MaxCounter,    \* bound on the ids generated since a reset
  MaxFlights,    \* bound on the flushes in progress at once
  MaxFailures    \* bound on failing appends

ASSUME TrackerAssumption ==
  /\ ExplicitIds \subseteq Nat
  /\ {MaxCounter, MaxFlights, MaxFailures} \subseteq Nat

EventIds == ExplicitIds \cup 1..MaxCounter

VARIABLES
  acceptedEvents,  \* ids of the accepted events, in order
  seenEventIds,    \* ids it reports as duplicates
  eventCounter,    \* the last generated id
  persistedCount,  \* how many accepted events it takes to be in the ledger
  flights,         \* flushes awaiting the ledger, in call order
  stage,           \* of measureTask: "running", "ending" or "done"
  flushFailed,     \* diagnostic ledger_flush_failed of the report
  result,          \* what the last recordUsage or record returned
  records,         \* ids of the task's events in the ledger
  acked,           \* ids the ledger acknowledged
  claimed,         \* events accepted before a flush() that resolved, of those
                   \* that began when none had overlapped
  failures,        \* appends that failed so far
  overlapped       \* since the last reset with no flush in progress, a flush or
                   \* a reset began while another flush was

tracker == <<acceptedEvents, seenEventIds, eventCounter>>
ledger == <<records, acked>>
trackerVars ==
  <<acceptedEvents, seenEventIds, eventCounter, persistedCount, flights,
    stage, flushFailed, result, records, acked, claimed, failures, overlapped>>

Store == INSTANCE LedgerStore WITH RecordIds <- EventIds, intact <- TRUE

\* A flush in progress: its slice, how many of it the ledger has taken, what it is
\* due to have persisted, and whether it is measureTask's own.
Flights ==
  [pending : Seq(EventIds), taken : Nat, due : SUBSET EventIds, final : BOOLEAN]
Results ==
  [status : {"none", "accepted", "duplicate", "rejected"}, generated : BOOLEAN]

TrackerInit ==
  /\ acceptedEvents = <<>>
  /\ seenEventIds = {}
  /\ eventCounter = 0
  /\ persistedCount = 0
  /\ flights = <<>>
  /\ stage = "running"
  /\ flushFailed = FALSE
  /\ result = [status |-> "none", generated |-> FALSE]
  /\ records = {}
  /\ acked = {}
  /\ claimed = {}
  /\ failures = 0
  /\ overlapped = FALSE

(***************************************************************************)
(* Recording.                                                              *)
(***************************************************************************)
Accept(id, generated) ==
  /\ acceptedEvents' = Append(acceptedEvents, id)
  /\ seenEventIds' = seenEventIds \cup {id}
  /\ result' = [status |-> "accepted", generated |-> generated]

Reject(id, generated) ==
  /\ result' = [status |-> "rejected", generated |-> generated]
  /\ UNCHANGED <<acceptedEvents, seenEventIds>>

\* A known id is a duplicate; another is accepted if the engine finds it valid.
IngestInto(id, generated) ==
  IF id \in seenEventIds
  THEN /\ result' = [status |-> "duplicate", generated |-> generated]
       /\ UNCHANGED <<acceptedEvents, seenEventIds>>
  ELSE Accept(id, generated) \/ Reject(id, generated)

\* Skips the ids an earlier explicit event took.
NextCounter ==
  CHOOSE n \in (eventCounter + 1)..(eventCounter + Len(acceptedEvents) + 1) :
    /\ n \notin seenEventIds
    /\ \A m \in (eventCounter + 1)..(n - 1) : m \in seenEventIds

UntouchedByRecording ==
  UNCHANGED <<persistedCount, flights, stage, flushFailed, records, acked,
              claimed, failures, overlapped>>

RecordGenerated ==
  /\ stage = "running"
  /\ NextCounter <= MaxCounter
  /\ eventCounter' = NextCounter
  /\ IngestInto(NextCounter, TRUE)
  /\ UntouchedByRecording

RecordExplicit ==
  /\ stage = "running"
  /\ \E id \in ExplicitIds : IngestInto(id, FALSE)
  /\ UNCHANGED eventCounter
  /\ UntouchedByRecording

(***************************************************************************)
(* flush and reset.                                                        *)
(***************************************************************************)
\* Seeded bug: the slice skips one event.
PendingFromNext ==
  SubSeq(acceptedEvents, persistedCount + 2, Len(acceptedEvents))

Pending == SubSeq(acceptedEvents, persistedCount + 1, Len(acceptedEvents))

\* Nothing keeps a caller from another flush, or a reset, before the last returns:
\* what was counted, or is yet to be, is then wrong, and nothing more is due.
Due == IF overlapped' THEN {} ELSE ToSet(acceptedEvents)

NewFlight(final) == [pending |-> Pending, taken |-> 0, due |-> Due, final |-> final]

Flush ==
  /\ stage = "running"
  /\ overlapped' = (overlapped \/ flights # <<>>)
  /\ IF Pending = <<>>
     THEN claimed' = claimed \cup Due /\ UNCHANGED flights
     ELSE /\ Len(flights) < MaxFlights
          /\ flights' = Append(flights, NewFlight(FALSE))
          /\ UNCHANGED claimed
  /\ UNCHANGED <<tracker, persistedCount, stage, flushFailed, result, ledger, failures>>

CountAfterReset == 0

Reset ==
  /\ stage = "running"
  /\ overlapped' = (flights # <<>>)
  /\ acceptedEvents' = <<>>
  /\ seenEventIds' = {}
  /\ eventCounter' = 0
  /\ persistedCount' = CountAfterReset
  /\ UNCHANGED <<flights, stage, flushFailed, result, ledger, claimed, failures>>

\* The end of measureTask: the task returned, its own flush begins.
End ==
  /\ stage = "running"
  /\ overlapped' = (overlapped \/ flights # <<>>)
  /\ IF Pending = <<>>
     THEN stage' = "done" /\ UNCHANGED flights
     ELSE stage' = "ending" /\ flights' = Append(flights, NewFlight(TRUE))
  /\ UNCHANGED <<tracker, persistedCount, flushFailed, result, ledger, claimed, failures>>

(***************************************************************************)
(* The ledger serves the flushes in order, an entry at a time.             *)
(***************************************************************************)
Unserved == {n \in DOMAIN flights : flights[n].taken < Len(flights[n].pending)}
InTurn(n) == n \in Unserved /\ \A m \in Unserved : n <= m
Entry(n) == flights[n].pending[flights[n].taken + 1]

AppendEntry ==
  /\ \E n \in Unserved :
       /\ InTurn(n)
       /\ Store!Acknowledge(Entry(n))
       /\ flights' = [flights EXCEPT ![n].taken = @ + 1]
  /\ UNCHANGED <<tracker, persistedCount, stage, flushFailed, result, claimed, failures, overlapped>>

\* Where measureTask goes when its own flush settles.
\* Seeded bug: a failure of that flush is not caught.
StageUncaught(flight, failed) ==
  IF flight.final /\ ~failed THEN "done" ELSE stage

StageAfter(flight, failed) == IF flight.final THEN "done" ELSE stage

\* Seeded bug: the count moves in a finally block.
CountFinally(flight) == persistedCount + Len(flight.pending)

CountAfterFailure(flight) == persistedCount

\* The write failed, whether or not the line reached the disk.
AppendFails ==
  /\ failures < MaxFailures
  /\ failures' = failures + 1
  /\ \E n \in Unserved :
       /\ InTurn(n)
       /\ Store!Persist(Entry(n)) \/ UNCHANGED ledger
       /\ flights' = RemoveAt(flights, n)
       /\ persistedCount' = CountAfterFailure(flights[n])
       /\ stage' = StageAfter(flights[n], TRUE)
       /\ flushFailed' = (flushFailed \/ flights[n].final)
  /\ UNCHANGED <<tracker, result, claimed, overlapped>>

\* flush resumes after its await.
FlushReturns ==
  /\ flights # <<>> /\ 1 \notin Unserved
  /\ persistedCount' = persistedCount + Len(Head(flights).pending)
  /\ flights' = Tail(flights)
  /\ claimed' = claimed \cup Head(flights).due
  /\ stage' = StageAfter(Head(flights), FALSE)
  /\ UNCHANGED <<tracker, flushFailed, result, ledger, failures, overlapped>>

TrackerNext ==
  \/ RecordGenerated \/ RecordExplicit \/ Flush \/ Reset \/ End
  \/ AppendEntry \/ AppendFails \/ FlushReturns

TrackerSpec == TrackerInit /\ [][TrackerNext]_trackerVars

\* The ledger settles every call (QueueMoves of CostLedger), and the runtime
\* resumes what awaited it.
LedgerServes == WF_trackerVars(AppendEntry \/ AppendFails \/ FlushReturns)

-----------------------------------------------------------------------------
(***************************************************************************)
(* Properties.                                                             *)
(***************************************************************************)
\* The types of the variables; the seen ids are those of the accepted events.
TrackerTypeOK ==
  /\ acceptedEvents \in Seq(EventIds)
  /\ seenEventIds = ToSet(acceptedEvents)
  /\ eventCounter \in 0..MaxCounter
  /\ persistedCount \in Nat
  /\ flights \in Seq(Flights)
  /\ stage \in {"running", "ending", "done"}
  /\ flushFailed \in BOOLEAN
  /\ result \in Results
  /\ {records, acked, claimed} \subseteq SUBSET EventIds
  /\ failures \in 0..MaxFailures
  /\ overlapped \in BOOLEAN

\* "Persist accepted-but-unpersisted events": what was accepted when a flush
\* began is in the ledger once it resolved, whatever failed before, and whatever
\* overlaps after it; unless flushes had overlapped before.
FlushPersists == claimed \subseteq records

\* When measureTask returns a report without ledger_flush_failed, and no flush
\* overlapped another, every event of the report is in the ledger.
DoneMeansPersisted ==
  stage = "done" /\ ~flushFailed /\ ~overlapped => ToSet(acceptedEvents) \subseteq records

\* Until a flush overlaps another the events below persistedCount, which no later
\* flush sends, are persisted.
CountedArePersisted ==
  ~overlapped =>
    /\ persistedCount <= Len(acceptedEvents)
    /\ ToSet(SubSeq(acceptedEvents, 1, persistedCount)) \subseteq records

\* "a default can never collide into a false duplicate"
DefaultIdsFresh == ~(result.generated /\ result.status = "duplicate")

\* What the tracker counts as persisted, and reports as persisted, is in the
\* ledger while no flush overlaps another; and no usage is ever taken for an
\* earlier one.
TrackerSound == TrackerTypeOK /\ DoneMeansPersisted /\ CountedArePersisted /\ DefaultIdsFresh

\* measureTask returns its report even when the ledger fails.
AlwaysReports == stage = "ending" ~> stage = "done"
=============================================================================

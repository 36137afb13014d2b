------------------------------- MODULE Router -------------------------------
(***************************************************************************)
(* createRouter, packages/router/src/index.ts: route() and reportOutcome() *)
(* over the correlation ids of HokusaiDispatchBuilder and the calls of     *)
(* HokusaiClient (both packages/core/src/client.ts), which are taken at    *)
(* what RemoteCall says they promise.  Calls may be in progress together;  *)
(* what runs between two awaits is one step.                               *)
(*                                                                         *)
(* Abstracted: models, objectives, costs and warnings; a task is its id.   *)
(***************************************************************************)
EXTENDS Naturals, FiniteSets

CONSTANTS
  Routes,       \* the calls of route(), each made once
  Reports,      \* the calls of reportOutcome(), each made once
  CallerTasks,  \* task ids callers give; others are minted by their route()
  Attempts,     \* how often a call may reach the server
  MaxClock,     \* bound on the millisecond clock
  Overlap,      \* calls may be made while a route() is in progress
  Unkeyed, None

ASSUME ClockAssumption == MaxClock \in Nat /\ Overlap \in BOOLEAN

Calls == Routes \cup Reports
Tasks == CallerTasks \cup Routes
Correlations == [task : Tasks, createdAt : 0 .. MaxClock]
Effects == [call : Calls, key : Correlations \cup {Unkeyed}, attempt : Attempts]
RoutedTasks ==
  [call : Routes, task : Tasks, correlation : Correlations, decision : Effects]

ASSUME CallsAssumption == Routes \cap Reports = {}
ASSUME AbsentAssumption ==
  /\ Unkeyed \notin Correlations \cup {None}
  /\ None \notin Tasks \cup Correlations \cup Effects \cup RoutedTasks

VARIABLES
  clock,
  stored,      \* the builder's correlation of each task, or None
  route,       \* each route(): its state, task and correlation
  lastRoute,   \* the route an outcome is reported for, or None
  report,      \* each reportOutcome(): its state, the correlation given, its row
  asked, applied, outcome, answer   \* the client's calls, see RemoteCall

Remote == INSTANCE RemoteCall WITH Keys <- Correlations

routerVars == <<clock, stored, route, lastRoute, report>>
remoteVars == <<asked, applied, outcome, answer>>
allRouterVars == <<routerVars, remoteVars>>

RouteStates == {"idle", "looking", "routing", "done", "failed"}
ReportStates == {"idle", "submitting", "done", "failed", "refused"}

RouterTypeOK ==
  /\ clock \in 0 .. MaxClock
  /\ stored \in [Tasks -> Correlations \cup {None}]
  /\ route \in [Routes -> [state : RouteStates, task : Tasks \cup {None},
                           correlation : Correlations \cup {None}]]
  /\ lastRoute \in RoutedTasks \cup {None}
  /\ report \in [Reports ->
       [state : ReportStates, given : Correlations \cup {None},
        row : RoutedTasks \cup {None}]]
  /\ applied \subseteq Effects
  /\ answer \in [Calls -> Effects \cup {None}]

RouterInit ==
  /\ clock = 0
  /\ stored = [t \in Tasks |-> None]
  /\ route = [r \in Routes |-> [state |-> "idle", task |-> None, correlation |-> None]]
  /\ lastRoute = None
  /\ report = [p \in Reports |->
       [state |-> "idle", given |-> None, row |-> None]]
  /\ Remote!Init

(***************************************************************************)
(* route().                                                                *)
(***************************************************************************)
InProgress(r) == route[r].state \in {"looking", "routing"}

MayCall == Overlap \/ ~ \E r \in Routes : InProgress(r)

\* normalizeTask, and prepareDispatch up to its await of the stored record,
\* which has been read by then.
CallRoute(r, t) ==
  /\ route[r].state = "idle"
  /\ MayCall
  /\ route' = [route EXCEPT ![r] =
       [state |-> "looking", task |-> t, correlation |-> stored[t]]]
  /\ UNCHANGED <<clock, stored, lastRoute, report, remoteVars>>

Correlation(r) ==
  IF route[r].correlation # None THEN route[r].correlation
  ELSE [task |-> route[r].task, createdAt |-> clock]

\* The record found, or a new one, is the correlation of this route; the client
\* sends the request, or finds it invalid and throws.
Dispatch(r) ==
  /\ route[r].state = "looking"
  /\ stored' = IF route[r].correlation # None THEN stored
               ELSE [stored EXCEPT ![route[r].task] = Correlation(r)]
  /\ \E state \in {"routing", "failed"} :
       /\ route' = [route EXCEPT ![r].correlation = Correlation(r), ![r].state = state]
       /\ IF state = "routing" THEN Remote!Ask(r, Unkeyed) ELSE Remote!Reject(r)
  /\ UNCHANGED <<clock, lastRoute, report>>

\* The correlation an answered route is remembered by.
RememberedAsStored(r) == stored[route[r].task]

RememberedAs(r) == route[r].correlation

RouteAnswered(r) ==
  /\ route[r].state = "routing"
  /\ \E e \in Effects :
       /\ Remote!Resolve(r, e)
       /\ lastRoute' = [call |-> r, task |-> route[r].task,
                        correlation |-> RememberedAs(r), decision |-> e]
  /\ route' = [route EXCEPT ![r].state = "done"]
  /\ UNCHANGED <<clock, stored, report>>

\* A response without a recommendation makes route() throw as well.
RouteFails(r) ==
  /\ route[r].state = "routing"
  /\ Remote!Reject(r) \/ \E e \in Effects : Remote!Resolve(r, e)
  /\ route' = [route EXCEPT ![r].state = "failed"]
  /\ UNCHANGED <<clock, stored, lastRoute, report>>

(***************************************************************************)
(* reportOutcome().                                                        *)
(***************************************************************************)
\* The correlation id a caller gives is one route() returned.
Returned == {route[r].correlation : r \in {s \in Routes : route[s].state = "done"}}

AnyReturned(given) == TRUE

IsLast(given) == given = None \/ given = lastRoute.correlation

\* The Idempotency-Key of a row.
KeyOf(row) == row.correlation

CallReport(p, given) ==
  /\ report[p].state = "idle" /\ MayCall
  /\ lastRoute # None /\ IsLast(given)
  /\ report' = [report EXCEPT ![p] =
       [state |-> "submitting", given |-> given, row |-> lastRoute]]
  /\ Remote!Ask(p, KeyOf(lastRoute))
  /\ UNCHANGED <<clock, stored, route, lastRoute>>

\* No route yet, or not the last one: it throws.
RefuseReport(p, given) ==
  /\ report[p].state = "idle" /\ MayCall
  /\ lastRoute = None \/ ~ IsLast(given)
  /\ report' = [report EXCEPT ![p].state = "refused", ![p].given = given]
  /\ Remote!Reject(p)
  /\ UNCHANGED <<clock, stored, route, lastRoute>>

ReportAnswered(p) ==
  /\ report[p].state = "submitting"
  /\ \E e \in Effects : Remote!Resolve(p, e)
  /\ report' = [report EXCEPT ![p].state = "done"]
  /\ UNCHANGED <<clock, stored, route, lastRoute>>

ReportFails(p) ==
  /\ report[p].state = "submitting"
  /\ Remote!Reject(p)
  /\ report' = [report EXCEPT ![p].state = "failed"]
  /\ UNCHANGED <<clock, stored, route, lastRoute>>

Server(c) == (\E e \in Effects : Remote!Apply(c, e)) /\ UNCHANGED routerVars

Tick ==
  /\ clock < MaxClock
  /\ clock' = clock + 1
  /\ UNCHANGED <<stored, route, lastRoute, report, remoteVars>>

RouterNext ==
  \/ \E r \in Routes :
       \/ \E t \in CallerTasks \cup {r} : CallRoute(r, t)
       \/ Dispatch(r) \/ RouteAnswered(r) \/ RouteFails(r)
  \/ \E p \in Reports :
       \/ \E given \in Returned \cup {None} : CallReport(p, given) \/ RefuseReport(p, given)
       \/ ReportAnswered(p) \/ ReportFails(p)
  \/ \E c \in Calls : Server(c)
  \/ Tick

RouterSpec == RouterInit /\ [][RouterNext]_allRouterVars

(***************************************************************************)
(* Properties.                                                             *)
(***************************************************************************)
Submitted == {p \in Reports : report[p].row # None}

\* A row joins the decision and the correlation of one and the same route(),
\* whatever other routes, also of its task, were looked up or answered while
\* it was in progress.
RowIsOfOneRoute ==
  \A p \in Submitted : LET row == report[p].row IN
    /\ row.decision = answer[row.call]
    /\ row.correlation = route[row.call].correlation

\* An outcome given for one task is never filed under a route of another task,
\* however the routes between the two were answered.
OutcomeStaysWithItsTask ==
  \A p \in Submitted : \A r \in Routes :
    /\ route[r].state = "done"
    /\ report[p].given = route[r].correlation
    => report[p].row.task = route[r].task

\* A report that is accepted, of a task id route() minted, was counted for the
\* decision it names: what the server filed under its key is a row for the
\* same decision, also when it is an earlier report, made again or lost.
AcceptedIsCounted ==
  \A p \in Submitted :
    report[p].state = "done" /\ report[p].row.task \notin CallerTasks
    => report[answer[p].call].row = report[p].row

\* A report that is accepted was counted, once, for the decision and under the
\* correlation of the one route() it is of.
ReportsAreOfOneRoute == RouterTypeOK /\ RowIsOfOneRoute /\ AcceptedIsCounted

=============================================================================

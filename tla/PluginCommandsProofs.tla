------------------------ MODULE PluginCommandsProofs ------------------------
(***************************************************************************)
(* What the commands of a plugin tell the service, the audit log and the   *)
(* funnel agrees with what happened, however many of them run at once and  *)
(* whatever fails to be written, for any tasks, commands and limits.       *)
(***************************************************************************)
EXTENDS PluginCommands, FiniteSetTheorems, TLAPS

-----------------------------------------------------------------------------
(***************************************************************************)
(* Steps.  Each is one of a single command, which changes some of its      *)
(* local variables and, when it ends, forgets most of them.                *)
(***************************************************************************)
Fields == {"at", "writing", "io", "stamp", "task", "corr", "seen", "by", "row",
           "doomed", "after"}

\* Each command has its local variables.
Shape ==
  /\ cmd = [c \in Commands |-> cmd[c]]
  /\ \A c \in Commands : cmd[c] = [f \in Fields |-> cmd[c][f]]

\* Only c moved, and kept some of its variables.
Alone(c) == \A d \in Commands \ {c} : cmd'[d] = cmd[d]
Keeps(c, F) == \A f \in F : cmd'[c][f] = cmd[c][f]

\* What no step but its own sets, and what c keeps until it ends.
Lasting(c) == {"by", "doomed"} \cup (IF c \in Routes THEN {"corr"} ELSE {})
Local == {"corr", "seen", "row", "stamp", "after", "task"}

\* No file outside S was made or changed.
Touches(S) ==
  \A path \in DOMAIN files' \ S : path \in DOMAIN files /\ files'[path] = files[path]

\* Only c moved, and it knows what it knew, or has ended.
Carries(c) ==
  /\ Shape' /\ Alone(c)
  /\ Keeps(c, Lasting(c))
  /\ cmd'[c].at \notin Ended => Keeps(c, Local)
  /\ cmd'[c].at \in Ended => cmd'[c].seen = None /\ cmd'[c].row = None /\ cmd'[c].after = {}

\* c goes on, or an I/O error sends it elsewhere.
GoesTo(c, at) == cmd'[c].at = at /\ cmd'[c].io = cmd[c].io
ThrownTo(c, at) == cmd'[c].at = at /\ cmd'[c].io = TRUE

\* The file of that path was made, or replaced.
Puts(path, value) ==
  /\ Touches({path}) /\ DOMAIN files' = DOMAIN files \cup {path}
  /\ files'[path] = value

\* What Update makes of the variables of c.
LEMMA UpdateIs ==
  ASSUME Shape, NEW c \in Commands, NEW new, Update(c, new)
  PROVE  /\ Shape' /\ Alone(c)
         /\ cmd'[c].at = With(cmd[c], new).at /\ cmd'[c].io = With(cmd[c], new).io
         /\ cmd'[c].by = With(cmd[c], new).by /\ cmd'[c].doomed = With(cmd[c], new).doomed
         /\ c \in Routes => cmd'[c].corr = With(cmd[c], new).corr
         /\ cmd'[c].at \notin Ended => cmd'[c] = With(cmd[c], new)
         /\ cmd'[c].at \in Ended =>
              cmd'[c].seen = None /\ cmd'[c].row = None /\ cmd'[c].after = {}
<1> DEFINE v == With(cmd[c], new)
           w == Settled(c, v)
<1>1. /\ DOMAIN cmd = Commands /\ DOMAIN cmd[c] = Fields
      /\ \A d \in Commands : cmd[d] = [f \in Fields |-> cmd[d][f]]
  BY DEF Shape
<1>2. v = [f \in Fields |-> v[f]]
  BY <1>1 DEF With
<1>3. /\ w = [f \in Fields |-> w[f]]
      /\ \A f \in {"at", "writing", "io", "by", "doomed"} : w[f] = v[f]
      /\ c \in Routes => w.corr = v.corr
      /\ v.at \notin Ended => w = v
      /\ v.at \in Ended => w.seen = None /\ w.row = None /\ w.after = {}
  <2> HIDE DEF v
  <2>1. DOMAIN v = Fields
    BY <1>2
  <2>2. CASE v.at \notin Ended
    BY <1>2, <2>2 DEF Settled
  <2>3. CASE v.at \in Ended
    BY <1>2, <2>1, <2>3 DEF Settled, Fields, Ended
  <2>. QED BY <2>2, <2>3
<1>4. cmd' = [cmd EXCEPT ![c] = w]
  BY DEF Update
<1> HIDE DEF v, w
<1>5. cmd'[c] = w /\ DOMAIN cmd' = Commands /\ \A d \in Commands \ {c} : cmd'[d] = cmd[d]
  BY <1>1, <1>4
<1>6. Shape'
  <2>1. cmd' = [d \in Commands |-> cmd'[d]]
    BY <1>1, <1>4, <1>5
  <2>2. \A d \in Commands : cmd'[d] = [f \in Fields |-> cmd'[d][f]]
    BY <1>1, <1>3, <1>5
  <2>. QED BY <2>1, <2>2 DEF Shape
<1>. QED BY <1>3, <1>5, <1>6 DEF Alone, v

\* With gives what is new its value, and keeps what is not.
LEMMA WithIs ==
  ASSUME Shape, NEW c \in Commands, NEW new
  PROVE  \A f \in Fields :
           With(cmd[c], new)[f] = IF f \in DOMAIN new THEN new[f] ELSE cmd[c][f]
BY DEF Shape, With

\* Goto moves c and changes nothing else of what it keeps.
LEMMA GotoIs ==
  ASSUME Shape, NEW c \in Commands, NEW at, Goto(c, at)
  PROVE  Carries(c) /\ GoesTo(c, at)
<1> DEFINE new == [at |-> at]
<1>1. Update(c, new)
  BY DEF Goto
<1>2. \A f \in Fields : With(cmd[c], new)[f] = IF f \in DOMAIN new THEN new[f] ELSE cmd[c][f]
  BY WithIs
<1>3. With(cmd[c], new).at = at /\ \A f \in Fields \ {"at"} : With(cmd[c], new)[f] = cmd[c][f]
  BY <1>2 DEF Fields
<1> HIDE DEF new
<1>. QED BY <1>1, <1>3, UpdateIs
       DEF Keeps, Lasting, Local, Fields, Carries, GoesTo, ThrownTo

LEMMA PutIs ==
  ASSUME NEW path, NEW value, files' = Put(path, value)
  PROVE  Puts(path, value)
BY DEF Put, Puts, Touches

\* A note is written and c goes on, or it is torn and c fails.
LEMMA NoteIs ==
  ASSUME Shape, NEW c \in Commands, NEW path, NEW value, NEW next, NEW failed,
         Note(c, path, value, next, failed)
  PROVE  /\ Carries(c) /\ UNCHANGED Unshared
         /\ \/ Puts(path, value) /\ GoesTo(c, next)
            \/ Puts(path, Torn) /\ ThrownTo(c, failed)
<1>1. CASE files' = Put(path, value) /\ Goto(c, next) /\ UNCHANGED Unshared
  BY <1>1, GotoIs, PutIs
<1>2. CASE /\ files' = Put(path, Torn) /\ UNCHANGED Unshared
           /\ Update(c, [at |-> failed, io |-> TRUE])
  <2> DEFINE new == [at |-> failed, io |-> TRUE]
  <2>1. \A f \in Fields : With(cmd[c], new)[f] = IF f \in DOMAIN new THEN new[f] ELSE cmd[c][f]
    BY WithIs
  <2>2. /\ With(cmd[c], new).at = failed /\ With(cmd[c], new).io = TRUE
        /\ \A f \in Fields \ {"at", "io"} : With(cmd[c], new)[f] = cmd[c][f]
    BY <2>1 DEF Fields
  <2>3. Update(c, new)
    BY <1>2
  <2> HIDE DEF new
  <2>4. Carries(c) /\ ThrownTo(c, failed)
    BY <2>2, <2>3, UpdateIs
       DEF Keeps, Lasting, Local, Fields, Carries, GoesTo, ThrownTo
  <2>. QED BY <1>2, <2>4, PutIs
<1>. QED BY <1>1, <1>2 DEF Note

\* A write leaves the file torn, then whole, unless it was removed meanwhile, or
\* c failed.
LEMMA WriteIs ==
  ASSUME Shape, NEW c \in Commands, NEW path, NEW value, NEW next, NEW failed,
         Write(c, path, value, next, failed)
  PROVE  /\ Carries(c) /\ UNCHANGED Unshared
         /\ \/ GoesTo(c, cmd[c].at) \/ GoesTo(c, next)
            \/ ThrownTo(c, failed)
         /\ \/ Puts(path, Torn)
            \/ path \in DOMAIN files /\ Puts(path, value)
            \/ UNCHANGED files
<1>1. ASSUME NEW new, Update(c, new),
             new \in {[writing |-> TRUE], [writing |-> FALSE, at |-> next],
                      [writing |-> FALSE, at |-> failed, io |-> TRUE]}
      PROVE  /\ Carries(c)
             /\ \/ GoesTo(c, cmd[c].at) \/ GoesTo(c, next)
                \/ ThrownTo(c, failed)
  <2>1. \A f \in Fields : With(cmd[c], new)[f] = IF f \in DOMAIN new THEN new[f] ELSE cmd[c][f]
    BY WithIs
  <2>2. \A f \in Fields \ {"at", "io", "writing"} : With(cmd[c], new)[f] = cmd[c][f]
    BY <1>1, <2>1 DEF Fields
  <2>3. \/ With(cmd[c], new).at \in {cmd[c].at, next} /\ With(cmd[c], new).io = cmd[c].io
        \/ With(cmd[c], new).at = failed /\ With(cmd[c], new).io = TRUE
    BY <1>1, <2>1 DEF Fields
  <2>. QED BY <1>1, <2>2, <2>3, UpdateIs
       DEF Keeps, Lasting, Local, Fields, Carries, GoesTo, ThrownTo
<1>2. CASE files' = Put(path, Torn) /\ UNCHANGED Unshared /\ Update(c, [writing |-> TRUE])
  BY <1>1, <1>2, PutIs
<1>3. CASE /\ Fill(path, value) /\ UNCHANGED Unshared
           /\ Update(c, [writing |-> FALSE, at |-> next])
  <2>1. (path \in DOMAIN files /\ Puts(path, value)) \/ UNCHANGED files
    BY <1>3 DEF Fill, Exists, Puts, Touches
  <2>. QED BY <1>1, <1>3, <2>1
<1>4. CASE /\ UNCHANGED files /\ UNCHANGED Unshared
           /\ Update(c, [writing |-> FALSE, at |-> failed, io |-> TRUE])
  BY <1>1, <1>4
<1>. QED BY <1>2, <1>3, <1>4 DEF Write, Truncate

\* Which of its variables a command sets where.
Fits(c, new) ==
  /\ "by" \in DOMAIN new => cmd[c].at = "asking" /\ new.by \in {None, c}
  /\ "seen" \in DOMAIN new => cmd[c].at \in {"idle", "finding", "finding_offline", "reading"}
  /\ "row" \in DOMAIN new => cmd[c].at = "joining"
  /\ "corr" \in DOMAIN new => cmd[c].at \in {"idle", "looking", "reading"}
  /\ "stamp" \in DOMAIN new => cmd[c].at \in {"idle", "looking", "measuring"}
  /\ "doomed" \in DOMAIN new => cmd[c].at \in {"idle", "pruning", "deleting", "emptying"}

LEMMA SetsWhatFits ==
  ASSUME NEW c \in Commands, Call(c) \/ Step(c)
  PROVE  \E new : Update(c, new) /\ Fits(c, new)
<1> DEFINE Good == \E new : Update(c, new) /\ Fits(c, new)
<1>0. ASSUME NEW new, Update(c, new), DOMAIN new \subseteq {"at", "writing", "io", "after", "task"}
      PROVE  Good
  BY <1>0 DEF Fits
<1>1. ASSUME NEW at, Goto(c, at) PROVE Good
  BY <1>0, <1>1 DEF Goto
<1>2. ASSUME NEW path, NEW value, NEW next, NEW failed, Note(c, path, value, next, failed)
      PROVE  Good
  BY <1>0, <1>1, <1>2 DEF Note
<1>3. ASSUME NEW path, NEW value, NEW next, NEW failed, Write(c, path, value, next, failed)
      PROVE  Good
  BY <1>0, <1>3 DEF Write
<1>4. CASE Call(c)
  <2>1. CASE \E t \in Tasks : CallRoute(c, t)
    BY <1>0, <2>1 DEF CallRoute
  <2>2. CASE \E t \in Tasks \cup {None}, k \in Returned \cup {None} : CallReport(c, t, k)
    <3>1. ASSUME NEW t, NEW k, Update(c, [at |-> "reading", task |-> t, corr |-> k]),
                 cmd[c].at = "idle"
          PROVE  Good
      BY <3>1 DEF Fits
    <3>. QED BY <1>1, <2>2, <3>1 DEF CallReport
  <2>3. CASE \E k \in Returned : CallDecline(c, k)
    <3>1. ASSUME NEW k, NEW seen, Update(c, [at |-> "declining", corr |-> k, seen |-> seen]),
                 cmd[c].at = "idle"
          PROVE  Good
      BY <3>1 DEF Fits
    <3>. QED BY <1>1, <2>3, <3>1 DEF CallDecline
  <2>4. CASE CallInspection(c)
    <3>1. ASSUME NEW stamp, NEW after,
                 Update(c, [at |-> "pruning", stamp |-> stamp, after |-> after]),
                 cmd[c].at = "idle"
          PROVE  Good
      BY <3>1 DEF Fits
    <3>. QED BY <2>4, <3>1 DEF CallInspection
  <2>5. CASE \E scope \in Scopes : CallClear(c, scope)
    <3>1. ASSUME NEW s, Update(c, [at |-> "clearing", doomed |-> s, after |-> s]),
                 cmd[c].at = "idle"
          PROVE  Good
      BY <3>1 DEF Fits
    <3>2. ASSUME NEW s, Update(c, [at |-> "failed", doomed |-> s]), cmd[c].at = "idle"
          PROVE  Good
      BY <3>2 DEF Fits
    <3>. QED BY <2>5, <3>1, <3>2 DEF CallClear
  <2>6. CASE \E enabled \in BOOLEAN : CallToggle(c, enabled)
    BY <1>0, <1>1, <2>6 DEF CallToggle
  <2>. QED BY <1>4, <2>1, <2>2, <2>3, <2>4, <2>5, <2>6 DEF Call
<1>5. CASE RouteStep(c)
  <2>1. CASE LookUp(c)
    <3>1. ASSUME NEW corr, NEW stamp, cmd[c].at = "looking",
                 Update(c, [at |-> "hashing", corr |-> corr, stamp |-> stamp])
          PROVE  Good
      BY <3>1 DEF Fits
    <3>2. ASSUME NEW corr, NEW stamp, cmd[c].at = "looking",
                 Update(c, [at |-> "creating", stamp |-> stamp, corr |-> corr])
          PROVE  Good
      BY <3>2 DEF Fits
    <3>. QED BY <1>1, <2>1, <3>1, <3>2 DEF LookUp
  <2>2. CASE Ask(c)
    <3>1. ASSUME NEW by \in {None, c}, cmd[c].at = "asking",
                 Update(c, [at |-> "finding", by |-> by])
          PROVE  Good
      BY <3>1 DEF Fits
    <3>. QED BY <1>1, <2>2, <3>1 DEF Ask
  <2>3. CASE FindRecord(c)
    <3>1. ASSUME NEW at, NEW seen, cmd[c].at \in {"finding", "finding_offline"},
                 Update(c, [at |-> at, seen |-> seen])
          PROVE  Good
      BY <3>1 DEF Fits
    <3>2. (\E at : Goto(c, at)) \/ \E at, seen : Update(c, [at |-> at, seen |-> seen])
      BY <2>3 DEF FindRecord
    <3>. QED BY <1>1, <2>3, <3>1, <3>2 DEF FindRecord
  <2>. QED BY <1>2, <1>3, <1>5, <2>1, <2>2, <2>3
       DEF RouteStep, CreateRecord, HashRoute, AuditRouteError, AuditRouteSkipped,
           StoreDecision, AuditRoute
<1>6. CASE FunnelStep(c)
  <2>1. ASSUME NEW after, Update(c, [at |-> "funnel_put", after |-> after]) PROVE Good
    BY <1>0, <2>1
  <2>. QED BY <1>1, <1>2, <1>6, <2>1
       DEF FunnelStep, CreateFunnel, SkipFunnel, SignalStages, PutFunnel
<1>7. CASE ReportStep(c)
  <2>1. CASE ReadDecision(c)
    <3>1. ASSUME NEW seen, NEW task, NEW corr, cmd[c].at = "reading",
                 Update(c, [at |-> "measuring", seen |-> seen, task |-> task, corr |-> corr])
          PROVE  Good
      BY <3>1 DEF Fits
    <3>. QED BY <1>1, <2>1, <3>1 DEF ReadDecision
  <2>2. CASE JoinRow(c)
    <3>1. ASSUME NEW row, NEW at, cmd[c].at = "joining", Update(c, [row |-> row, at |-> at])
          PROVE  Good
      BY <3>1 DEF Fits
    <3>. QED BY <1>1, <2>2, <3>1 DEF JoinRow
  <2>3. CASE HashReport(c)
    <3>1. ASSUME NEW stamp, cmd[c].at = "measuring",
                 Update(c, [at |-> "joining", stamp |-> stamp])
          PROVE  Good
      BY <3>1 DEF Fits
    <3>2. ASSUME Update(c, [at |-> "failed", io |-> TRUE]) PROVE Good
      BY <1>0, <3>2
    <3>. QED BY <2>3, <3>1, <3>2 DEF HashReport
  <2>. QED BY <1>1, <1>2, <1>7, <2>1, <2>2, <2>3
       DEF ReportStep, Submit, AuditSubmitted, AuditFailure, Tell, AuditUntold
<1>8. CASE StoreDecline(c) \/ WriteToggle(c)
  BY <1>3, <1>8 DEF StoreDecline, WriteToggle
<1>9. CASE PruneStep(c)
  <2>1. ASSUME NEW at, NEW doomed, cmd[c].at = "pruning",
               Update(c, [at |-> at, doomed |-> doomed])
        PROVE  Good
    BY <2>1 DEF Fits
  <2>2. ASSUME NEW after, cmd[c].at \in {"deleting", "emptying"},
               Update(c, [at |-> "pruning", after |-> after, doomed |-> {}])
        PROVE  Good
    BY <2>2 DEF Fits
  <2>3. CASE ListExpired(c)
    BY <1>1, <2>1, <2>3 DEF ListExpired
  <2>4. CASE DeleteDoomed(c) \/ EmptyDir(c)
    BY <2>2, <2>4 DEF DeleteDoomed, EmptyDir
  <2>5. CASE ListRecords(c)
    BY <1>1, <2>5 DEF ListRecords
  <2>. QED BY <1>9, <2>3, <2>4, <2>5 DEF PruneStep
<1>10. CASE ClearStep(c)
  <2>1. ASSUME NEW after, Update(c, [after |-> after]) PROVE Good
    BY <1>0, <2>1
  <2>. QED BY <1>1, <1>10, <2>1 DEF ClearStep, ClearDir, ClearRoot
<1>. QED BY <1>4, <1>5, <1>6, <1>7, <1>8, <1>9, <1>10 DEF Step

\* What a command knows changes where the last lemma says, or is forgotten when it
\* ends.
LEMMA Learns ==
  ASSUME Shape, NEW c \in Commands, Call(c) \/ Step(c)
  PROVE  /\ cmd[c].at # "asking" => cmd'[c].by = cmd[c].by
         /\ cmd'[c].by \in {cmd[c].by, None, c}
         /\ cmd[c].at \notin {"idle", "finding", "finding_offline", "reading"} =>
              cmd'[c].seen \in {cmd[c].seen, None}
         /\ cmd[c].at # "joining" => cmd'[c].row \in {cmd[c].row, None}
         /\ cmd'[c].at \notin Ended /\ cmd[c].at \notin {"idle", "looking", "reading"} =>
              cmd'[c].corr = cmd[c].corr
         /\ cmd'[c].at \notin Ended /\ cmd[c].at \notin {"idle", "looking", "measuring"} =>
              cmd'[c].stamp = cmd[c].stamp
         /\ cmd[c].at \notin {"idle", "pruning", "deleting", "emptying"} =>
              cmd'[c].doomed = cmd[c].doomed
<1>1. PICK new : Update(c, new) /\ Fits(c, new)
  BY SetsWhatFits
<1>2. \A f \in Fields : With(cmd[c], new)[f] = IF f \in DOMAIN new THEN new[f] ELSE cmd[c][f]
  BY WithIs
<1>3. /\ cmd'[c].by = With(cmd[c], new).by /\ cmd'[c].doomed = With(cmd[c], new).doomed
      /\ cmd'[c].at \notin Ended => cmd'[c] = With(cmd[c], new)
      /\ cmd'[c].at \in Ended => cmd'[c].seen = None /\ cmd'[c].row = None
  BY <1>1, UpdateIs
<1>. QED BY <1>1, <1>2, <1>3 DEF Fits, Fields

LEMMA ShapeNext == Shape /\ [Next]_vars => Shape'
<1> SUFFICES ASSUME Shape, [Next]_vars PROVE Shape'
  OBVIOUS
<1>1. CASE Tick \/ UNCHANGED vars
  BY <1>1 DEF Tick, vars, Shape
<1>2. ASSUME NEW c \in Commands, Call(c) \/ Step(c) PROVE Shape'
  BY <1>2, SetsWhatFits, UpdateIs
<1>. QED BY <1>1, <1>2 DEF Next

LEMMA ShapeInit == Init => Shape
BY DEF Init, Shape, Fields

\* A command that does not end has been given exactly what is new.
Sets(c, new) ==
  /\ Shape' /\ Alone(c)
  /\ \A f \in Fields : cmd'[c][f] = IF f \in DOMAIN new THEN new[f] ELSE cmd[c][f]

LEMMA SetsIs ==
  ASSUME Shape, NEW c \in Commands, NEW new, Update(c, new),
         "at" \in DOMAIN new, new.at \notin Ended
  PROVE  Sets(c, new)
<1>1. \A f \in Fields : With(cmd[c], new)[f] = IF f \in DOMAIN new THEN new[f] ELSE cmd[c][f]
  BY WithIs
<1>2. With(cmd[c], new).at = new.at
  BY <1>1 DEF Fields
<1>3. Shape' /\ Alone(c) /\ cmd'[c] = With(cmd[c], new)
  BY <1>2, UpdateIs
<1>. QED BY <1>1, <1>3 DEF Sets

-----------------------------------------------------------------------------
(***************************************************************************)
(* Control.  A command takes the steps of the place it is at, and comes to *)
(* the places the next lemmas need from one place only.                    *)
(***************************************************************************)
LEMMA OneAction ==
  ASSUME NEW c \in Commands, Call(c) \/ Step(c)
  PROVE  /\ cmd[c].at = "idle" => Call(c)
         /\ cmd[c].at = "looking" => LookUp(c)
         /\ cmd[c].at = "creating" => CreateRecord(c)
         /\ cmd[c].at = "hashing" => HashRoute(c)
         /\ cmd[c].at = "asking" => Ask(c)
         /\ cmd[c].at \in {"finding", "finding_offline"} => FindRecord(c)
         /\ cmd[c].at \in {"storing", "storing_offline"} => StoreDecision(c)
         /\ cmd[c].at \in {"auditing_error", "auditing_skip", "auditing"} =>
              AuditRouteError(c) \/ AuditRouteSkipped(c) \/ AuditRoute(c)
         /\ cmd[c].at \in {"funnel", "signalling", "funnel_put"} => FunnelStep(c)
         /\ cmd[c].at = "reading" => ReadDecision(c)
         /\ cmd[c].at = "measuring" => HashReport(c)
         /\ cmd[c].at = "joining" => JoinRow(c)
         /\ cmd[c].at = "submitting" => Submit(c)
         /\ cmd[c].at = "auditing_submitted" => AuditSubmitted(c)
         /\ cmd[c].at = "auditing_failure" => AuditFailure(c)
         /\ cmd[c].at \in {"telling", "untold"} => Tell(c) \/ AuditUntold(c)
         /\ cmd[c].at = "declining" => StoreDecline(c)
         /\ cmd[c].at \in {"pruning", "deleting", "emptying"} => PruneStep(c)
         /\ cmd[c].at = "clearing" => ClearStep(c)
         /\ cmd[c].at \in {"enabling", "disabling"} => WriteToggle(c)
<1> DEFINE at == cmd[c].at
<1>1. Call(c) => at = "idle"
  BY DEF Call, CallRoute, CallReport, CallDecline, CallInspection, CallClear, CallToggle
<1>2. /\ LookUp(c) => at = "looking"
      /\ CreateRecord(c) => at = "creating"
      /\ HashRoute(c) => at = "hashing"
      /\ Ask(c) => at = "asking"
      /\ FindRecord(c) => at \in {"finding", "finding_offline"}
      /\ StoreDecision(c) => at \in {"storing", "storing_offline"}
  BY DEF LookUp, CreateRecord, HashRoute, Ask, FindRecord, StoreDecision
<1>3. AuditRouteError(c) \/ AuditRouteSkipped(c) \/ AuditRoute(c)
        => at \in {"auditing_error", "auditing_skip", "auditing"}
  BY DEF AuditRouteError, AuditRouteSkipped, AuditRoute
<1>4. FunnelStep(c) => at \in {"funnel", "signalling", "funnel_put"}
  BY DEF FunnelStep, CreateFunnel, SkipFunnel, SignalStages, PutFunnel
<1>5. /\ ReadDecision(c) => at = "reading"
      /\ HashReport(c) => at = "measuring"
      /\ JoinRow(c) => at = "joining"
      /\ Submit(c) => at = "submitting"
      /\ AuditSubmitted(c) => at = "auditing_submitted"
      /\ AuditFailure(c) => at = "auditing_failure"
      /\ Tell(c) \/ AuditUntold(c) => at \in {"telling", "untold"}
  BY DEF ReadDecision, HashReport, JoinRow, Submit, AuditSubmitted, AuditFailure, Tell, AuditUntold
<1>6. /\ StoreDecline(c) => at = "declining"
      /\ ClearStep(c) => at = "clearing"
      /\ WriteToggle(c) => at \in {"enabling", "disabling"}
  BY DEF StoreDecline, ClearStep, ClearDir, ClearRoot, WriteToggle
<1>7. PruneStep(c) => at \in {"pruning", "deleting", "emptying"}
  BY DEF PruneStep, ListExpired, DeleteDoomed, EmptyDir, ListRecords
<1>8. \/ Call(c) \/ RouteStep(c) \/ FunnelStep(c) \/ ReportStep(c) \/ StoreDecline(c)
      \/ PruneStep(c) \/ ClearStep(c) \/ WriteToggle(c)
  BY DEF Step
<1> HIDE DEF at
<1>9. CASE RouteStep(c)
  BY <1>2, <1>3, <1>9 DEF RouteStep, at
<1>10. CASE ReportStep(c)
  BY <1>5, <1>10 DEF ReportStep, at
<1>11. CASE Call(c) \/ FunnelStep(c)
  BY <1>1, <1>4, <1>11 DEF at
<1>12. CASE StoreDecline(c) \/ PruneStep(c) \/ ClearStep(c) \/ WriteToggle(c)
  BY <1>6, <1>7, <1>12 DEF at
<1>. QED BY <1>8, <1>9, <1>10, <1>11, <1>12

\* The places a command may come to from each of its places.
Leads(from, to) ==
  \/ /\ from = "idle"
     /\ to \in {"looking", "reading", "declining", "pruning", "clearing", "enabling",
                "disabling", "failed"}
  \/ from = "looking" /\ to \in {"hashing", "creating", "failed"}
  \/ from = "creating" /\ to \in {"creating", "hashing", "failed"}
  \/ from = "hashing" /\ to \in {"asking", "failed"}
  \/ from = "asking" /\ to \in {"finding", "auditing_skip", "auditing_error"}
  \/ from = "auditing_error" /\ to = "failed"
  \/ from = "auditing_skip" /\ to \in {"finding_offline", "failed"}
  \/ /\ from \in {"finding", "finding_offline"}
     /\ to \in {"storing", "storing_offline", "auditing", "done", "failed"}
  \/ from = "storing" /\ to \in {"storing", "auditing", "failed"}
  \/ from = "storing_offline" /\ to \in {"storing_offline", "done", "failed"}
  \/ from = "auditing" /\ to \in {"funnel", "done", "failed"}
  \/ from \in {"funnel", "signalling"} /\ to \in {"signalling", "funnel_put", "done", "telling"}
  \/ from = "funnel_put" /\ to \in {"done", "telling"}
  \/ from = "reading" /\ to \in {"measuring", "failed"}
  \/ from = "measuring" /\ to \in {"joining", "failed"}
  \/ from = "joining" /\ to \in {"submitting", "auditing_failure", "failed"}
  \/ from = "submitting" /\ to \in {"auditing_submitted", "auditing_failure"}
  \/ from = "auditing_submitted" /\ to \in {"done", "funnel", "auditing_failure"}
  \/ from = "auditing_failure" /\ to = "failed"
  \/ from \in {"telling", "untold"} /\ to \in {"untold", "done", "failed"}
  \/ from = "declining" /\ to \in {"declining", "done", "failed"}
  \/ from = "pruning" /\ to \in {"deleting", "emptying", "done", "failed"}
  \/ from \in {"deleting", "emptying"} /\ to = "pruning"
  \/ from = "clearing" /\ to \in {"clearing", "done"}
  \/ from = "enabling" /\ to \in {"enabling", "done", "failed"}
  \/ from = "disabling" /\ to \in {"disabling", "done", "failed"}

LEMMA MovesAlong ==
  ASSUME Shape, NEW c \in Commands, Call(c) \/ Step(c)
  PROVE  Leads(cmd[c].at, cmd'[c].at)
<1> DEFINE at == cmd[c].at
           next == cmd'[c].at
<1>a. ASSUME NEW to, Goto(c, to) PROVE next = to
  BY <1>a, GotoIs DEF GoesTo
<1>b. ASSUME NEW path, NEW value, NEW to, NEW failed, Note(c, path, value, to, failed)
      PROVE  next \in {to, failed}
  BY <1>b, NoteIs DEF GoesTo, ThrownTo
<1>c. ASSUME NEW path, NEW value, NEW to, NEW failed, Write(c, path, value, to, failed)
      PROVE  next \in {at, to, failed}
  <2>1. GoesTo(c, at) \/ GoesTo(c, to) \/ ThrownTo(c, failed)
    BY <1>c, WriteIs
  <2>. QED BY <2>1 DEF GoesTo, ThrownTo
<1>d. ASSUME NEW new, Update(c, new)
      PROVE  next = IF "at" \in DOMAIN new THEN new.at ELSE at
  <2>1. With(cmd[c], new).at = IF "at" \in DOMAIN new THEN new.at ELSE at
    BY WithIs DEF Fields
  <2>. QED BY <1>d, <2>1, UpdateIs
<1>1. CASE Call(c)
  <2>1. CASE \E t \in Tasks : CallRoute(c, t)
    BY <2>1, <1>d DEF CallRoute, Leads
  <2>2. CASE \E t \in Tasks \cup {None}, k \in Returned \cup {None} : CallReport(c, t, k)
    BY <2>2, <1>a, <1>d DEF CallReport, Leads
  <2>3. CASE \E k \in Returned : CallDecline(c, k)
    BY <2>3, <1>a, <1>d DEF CallDecline, Leads
  <2>4. CASE CallInspection(c)
    BY <2>4, <1>d DEF CallInspection, Leads
  <2>5. CASE \E scope \in Scopes : CallClear(c, scope)
    BY <2>5, <1>d DEF CallClear, Leads
  <2>6. CASE \E enabled \in BOOLEAN : CallToggle(c, enabled)
    BY <2>6, <1>a, <1>d DEF CallToggle, Leads
  <2>. QED BY <1>1, <2>1, <2>2, <2>3, <2>4, <2>5, <2>6 DEF Call
<1>2. CASE RouteStep(c)
  <2>1. CASE LookUp(c)
    <3>1. ASSUME NEW corr, NEW stamp,
                 Update(c, [at |-> "hashing", corr |-> corr, stamp |-> stamp])
          PROVE  next = "hashing"
      BY <3>1, <1>d
    <3>2. ASSUME NEW corr, NEW stamp,
                 Update(c, [at |-> "creating", stamp |-> stamp, corr |-> corr])
          PROVE  next = "creating"
      BY <3>2, <1>d
    <3>3. at = "looking" /\ next \in {"failed", "hashing", "creating"}
      BY <2>1, <3>1, <3>2, <1>a DEF LookUp
    <3>. QED BY <3>3 DEF Leads
  <2>2. CASE CreateRecord(c) \/ HashRoute(c)
    BY <2>2, <1>b, <1>c DEF CreateRecord, HashRoute, Leads
  <2>3. CASE Ask(c)
    BY <2>3, <1>a, <1>d DEF Ask, Leads
  <2>4. CASE AuditRouteError(c) \/ AuditRouteSkipped(c) \/ AuditRoute(c)
    BY <2>4, <1>b DEF AuditRouteError, AuditRouteSkipped, AuditRoute, Leads
  <2>5. CASE FindRecord(c)
    BY <2>5, <1>a, <1>d DEF FindRecord, Leads
  <2>6. CASE StoreDecision(c)
    BY <2>6, <1>c DEF StoreDecision, Leads
  <2>. QED BY <1>2, <2>1, <2>2, <2>3, <2>4, <2>5, <2>6 DEF RouteStep
<1>3. CASE FunnelStep(c)
  <2>1. AfterFunnel(c) \in {"done", "telling"}
    BY DEF AfterFunnel
  <2>2. CASE CreateFunnel(c) \/ PutFunnel(c)
    BY <2>1, <2>2, <1>b DEF CreateFunnel, PutFunnel, Leads
  <2>3. CASE SkipFunnel(c)
    BY <2>1, <2>3, <1>a DEF SkipFunnel, Leads
  <2>4. CASE SignalStages(c)
    BY <2>1, <2>4, <1>a, <1>d DEF SignalStages, Leads
  <2>. QED BY <1>3, <2>2, <2>3, <2>4 DEF FunnelStep
<1>4. CASE ReportStep(c)
  <2>1. CASE ReadDecision(c)
    <3>1. ASSUME NEW seen, NEW task, NEW corr,
                 Update(c, [at |-> "measuring", seen |-> seen, task |-> task, corr |-> corr])
          PROVE  next = "measuring"
      BY <3>1, <1>d
    <3>2. at = "reading" /\ next \in {"failed", "measuring"}
      BY <2>1, <3>1, <1>a DEF ReadDecision
    <3>. QED BY <3>2 DEF Leads
  <2>2. CASE HashReport(c)
    BY <2>2, <1>d DEF HashReport, Leads
  <2>3. CASE JoinRow(c)
    BY <2>3, <1>a, <1>d DEF JoinRow, Leads
  <2>4. CASE Submit(c)
    BY <2>4, <1>a DEF Submit, Leads
  <2>5. CASE AuditSubmitted(c) \/ AuditFailure(c)
    BY <2>5, <1>b DEF AuditSubmitted, AuditFailure, Leads
  <2>6. CASE Tell(c) \/ AuditUntold(c)
    BY <2>6, <1>b DEF Tell, AuditUntold, Leads
  <2>. QED BY <1>4, <2>1, <2>2, <2>3, <2>4, <2>5, <2>6 DEF ReportStep
<1>5. CASE StoreDecline(c) \/ WriteToggle(c)
  BY <1>5, <1>c DEF StoreDecline, WriteToggle, Leads
<1>6. CASE PruneStep(c)
  <2>1. CASE ListExpired(c)
    <3>1. ASSUME NEW kept, NEW doomed,
                 Update(c, [at |-> IF kept = {} THEN "emptying" ELSE "deleting",
                            doomed |-> doomed])
          PROVE  next \in {"emptying", "deleting"}
      BY <3>1, <1>d
    <3>2. at = "pruning" /\ next \in {"failed", "emptying", "deleting"}
      BY <2>1, <3>1, <1>a DEF ListExpired
    <3>. QED BY <3>2 DEF Leads
  <2>2. CASE DeleteDoomed(c)
    BY <2>2, <1>d DEF DeleteDoomed, Leads
  <2>3. CASE EmptyDir(c)
    BY <2>3, <1>d DEF EmptyDir, Leads
  <2>4. CASE ListRecords(c)
    BY <2>4, <1>a DEF ListRecords, Leads
  <2>. QED BY <1>6, <2>1, <2>2, <2>3, <2>4 DEF PruneStep
<1>7. CASE ClearStep(c)
  <2>1. CASE ClearDir(c)
    <3>1. PICK dir : Update(c, [after |-> cmd[c].after \ {dir}])
      BY <2>1 DEF ClearDir
    <3>2. at = "clearing" /\ next = at
      BY <2>1, <3>1, <1>d DEF ClearDir
    <3>. QED BY <3>2 DEF Leads
  <2>2. CASE ClearRoot(c)
    BY <2>2, <1>a DEF ClearRoot, Leads
  <2>. QED BY <1>7, <2>1, <2>2 DEF ClearStep
<1>. QED BY <1>1, <1>2, <1>3, <1>4, <1>5, <1>6, <1>7 DEF Step

\* Not yet answered by the service.
Unanswered == {"idle", "looking", "creating", "hashing", "asking"}

\* Where a command that came to a place came from.
LEMMA Arrives ==
  ASSUME Shape, NEW c \in Commands, Call(c) \/ Step(c)
  PROVE  /\ cmd[c].at \notin Ended /\ cmd'[c].at # "idle"
         /\ cmd'[c].at \in Unanswered => cmd[c].at \in Unanswered
         /\ cmd'[c].at = "submitting" => cmd[c].at = "joining"
         /\ cmd'[c].at = "auditing_submitted" => cmd[c].at = "submitting"
         /\ cmd'[c].at = "funnel_put" => cmd[c].at \in {"funnel", "signalling"}
         /\ cmd'[c].at = "deleting" => cmd[c].at = "pruning"
         /\ cmd'[c].at = "declining" => cmd[c].at \in {"idle", "declining"}
<1> DEFINE at == cmd[c].at
           next == cmd'[c].at
<1>1. Leads(at, next)
  BY MovesAlong
<1> HIDE DEF at, next
<1>2. /\ at \notin Ended /\ next # "idle"
      /\ next \in Unanswered => at \in Unanswered
  BY <1>1 DEF Leads, Ended, Unanswered
<1>3. /\ next = "submitting" => at = "joining"
      /\ next = "auditing_submitted" => at = "submitting"
      /\ next = "funnel_put" => at \in {"funnel", "signalling"}
      /\ next = "deleting" => at = "pruning"
      /\ next = "declining" => at \in {"idle", "declining"}
  BY <1>1 DEF Leads
<1>. QED BY <1>2, <1>3 DEF at, next

-----------------------------------------------------------------------------
(***************************************************************************)
(* Shared state.  What a step of c writes, by the place c is at, and what  *)
(* it tells the service.                                                   *)
(***************************************************************************)
WritesCorrelation(c, path, value) ==
  /\ path = CorrelationFile(cmd[c].corr)
  /\ \/ cmd[c].at = "creating" /\ value = Correlation(cmd[c].corr, None, None)
     \/ /\ cmd[c].at \in {"storing", "storing_offline"} /\ c \in Routes
        /\ value = Correlation(cmd[c].corr, c, RecordedInference(c))
     \/ cmd[c].at = "declining" /\ value = cmd[c].seen

WritesHash(c, path, value) ==
  cmd[c].at \in {"hashing", "measuring"} /\ \E content \in Contents : path = HashFile(c, content)

WritesAudit(c, path, value) ==
  \/ path \in {AuditFile(cmd[c].corr, "route"), OutcomeAudit(c)}
  \/ /\ path = RowAudit(c)
     /\ \/ cmd[c].at = "auditing_failure" /\ value = Stamped(c, "failed")
        \/ cmd[c].at = "auditing_submitted" /\ value = Stamped(c, "submitted")

WritesConfig(c, path, value) ==
  \/ path = ConfigFile
  \/ path = FunnelFile /\ cmd[c].at = "funnel" /\ value = Emitted({})
  \/ path = FunnelFile /\ cmd[c].at = "funnel_put" /\ value = Emitted(cmd[c].after)

Writes(c, path, value) ==
  \/ WritesCorrelation(c, path, value) \/ WritesHash(c, path, value)
  \/ WritesAudit(c, path, value) \/ WritesConfig(c, path, value)

\* A path of which there is a file now had the same one before, or c writes it.
Files(c) ==
  \A path \in DOMAIN files' :
    \/ path \in DOMAIN files /\ files'[path] = files[path]
    \/ \E value : Writes(c, path, value) /\ files'[path] \in {Torn, value}

LEMMA FilesAre ==
  ASSUME Shape, NEW c \in Commands, Call(c) \/ Step(c)
  PROVE  Files(c) /\ (c \notin Inspections \cup Clears => DOMAIN files \subseteq DOMAIN files')
<1> DEFINE Good == Files(c) /\ (c \notin Inspections \cup Clears
                                  => DOMAIN files \subseteq DOMAIN files')
           Noted(path, value) == \E next, failed : Note(c, path, value, next, failed)
           Written(path, value) == \E next, failed : Write(c, path, value, next, failed)
<1>a. ASSUME NEW path, NEW value, Writes(c, path, value), Noted(path, value) \/ Written(path, value)
      PROVE  Good
  <2>1. Puts(path, value) \/ Puts(path, Torn) \/ UNCHANGED files
    BY <1>a, NoteIs, WriteIs
  <2>. QED BY <1>a, <2>1 DEF Files, Puts, Touches
<1>b. ASSUME UNCHANGED files PROVE Good
  BY <1>b DEF Files
<1>c. ASSUME NEW paths, RemoveAll(paths) PROVE Files(c)
  BY <1>c DEF Files, RemoveAll
<1>1. CASE Call(c)
  BY <1>1, <1>b DEF Call, CallRoute, CallReport, CallDecline, CallInspection, CallClear,
                    CallToggle
<1>2. CASE LookUp(c) \/ Ask(c) \/ FindRecord(c) \/ ReadDecision(c) \/ JoinRow(c) \/ Submit(c)
           \/ SkipFunnel(c) \/ SignalStages(c)
  BY <1>2, <1>b DEF LookUp, Ask, FindRecord, ReadDecision, JoinRow, Submit, SkipFunnel,
                    SignalStages
<1>3. CASE CreateRecord(c)
  <2> DEFINE value == Correlation(cmd[c].corr, None, None)
  <2>1. Written(CorrelationFile(cmd[c].corr), value)
    BY <1>3 DEF CreateRecord
  <2>2. Writes(c, CorrelationFile(cmd[c].corr), value)
    BY <1>3 DEF CreateRecord, Writes, WritesCorrelation
  <2>. QED BY <1>a, <2>1, <2>2
<1>4. CASE HashRoute(c)
  <2> DEFINE value == Stamped(c, None)
  <2>1. PICK content \in Contents : Noted(HashFile(c, content), value)
    BY <1>4 DEF HashRoute
  <2>2. Writes(c, HashFile(c, content), value)
    BY <1>4 DEF HashRoute, Writes, WritesHash
  <2>. QED BY <1>a, <2>1, <2>2
<1>5. CASE AuditRouteError(c)
  <2> DEFINE value == Stamped(c, "failed")
  <2>1. Noted(AuditFile(cmd[c].corr, "route"), value)
    BY <1>5 DEF AuditRouteError
  <2>2. Writes(c, AuditFile(cmd[c].corr, "route"), value)
    BY <1>5 DEF AuditRouteError, Writes, WritesAudit
  <2>. QED BY <1>a, <2>1, <2>2
<1>6. CASE AuditRouteSkipped(c)
  <2> DEFINE value == Stamped(c, "skipped")
  <2>1. Noted(AuditFile(cmd[c].corr, "route"), value)
    BY <1>6 DEF AuditRouteSkipped
  <2>2. Writes(c, AuditFile(cmd[c].corr, "route"), value)
    BY <1>6 DEF AuditRouteSkipped, Writes, WritesAudit
  <2>. QED BY <1>a, <2>1, <2>2
<1>7. CASE AuditRoute(c)
  <2> DEFINE value == Stamped(c, "submitted")
  <2>1. Noted(AuditFile(cmd[c].corr, "route"), value)
    BY <1>7 DEF AuditRoute
  <2>2. Writes(c, AuditFile(cmd[c].corr, "route"), value)
    BY <1>7 DEF AuditRoute, Writes, WritesAudit
  <2>. QED BY <1>a, <2>1, <2>2
<1>8. CASE c \in Routes /\ StoreDecision(c)
  <2> DEFINE value == Correlation(cmd[c].corr, c, RecordedInference(c))
  <2>1. Written(CorrelationFile(cmd[c].corr), value)
    BY <1>8 DEF StoreDecision
  <2>2. Writes(c, CorrelationFile(cmd[c].corr), value)
    BY <1>8 DEF StoreDecision, Writes, WritesCorrelation
  <2>. QED BY <1>a, <2>1, <2>2
<1>9. CASE CreateFunnel(c)
  <2> DEFINE value == Emitted({})
  <2>1. Noted(FunnelFile, value)
    BY <1>9 DEF CreateFunnel
  <2>2. Writes(c, FunnelFile, value)
    BY <1>9 DEF CreateFunnel, Writes, WritesConfig
  <2>. QED BY <1>a, <2>1, <2>2
<1>10. CASE PutFunnel(c)
  <2> DEFINE value == Emitted(cmd[c].after)
  <2>1. Noted(FunnelFile, value)
    BY <1>10 DEF PutFunnel
  <2>2. Writes(c, FunnelFile, value)
    BY <1>10 DEF PutFunnel, Writes, WritesConfig
  <2>. QED BY <1>a, <2>1, <2>2
<1>11. CASE AuditSubmitted(c)
  <2> DEFINE value == Stamped(c, "submitted")
  <2>1. Noted(RowAudit(c), value)
    BY <1>11 DEF AuditSubmitted
  <2>2. Writes(c, RowAudit(c), value)
    BY <1>11 DEF AuditSubmitted, Writes, WritesAudit
  <2>. QED BY <1>a, <2>1, <2>2
<1>12. CASE AuditFailure(c)
  <2> DEFINE value == Stamped(c, "failed")
  <2>1. Noted(RowAudit(c), value)
    BY <1>12 DEF AuditFailure
  <2>2. Writes(c, RowAudit(c), value)
    BY <1>12 DEF AuditFailure, Writes, WritesAudit
  <2>. QED BY <1>a, <2>1, <2>2
<1>13. CASE StoreDecline(c)
  <2> DEFINE value == cmd[c].seen
  <2>1. Written(CorrelationFile(cmd[c].corr), value)
    BY <1>13 DEF StoreDecline
  <2>2. Writes(c, CorrelationFile(cmd[c].corr), value)
    BY <1>13 DEF StoreDecline, Writes, WritesCorrelation
  <2>. QED BY <1>a, <2>1, <2>2
<1>14. CASE AuditUntold(c)
  <2> DEFINE value == Stamped(c, "failed")
  <2>1. Noted(OutcomeAudit(c), value)
    BY <1>14 DEF AuditUntold
  <2>2. Writes(c, OutcomeAudit(c), value)
    BY <1>14 DEF AuditUntold, Writes, WritesAudit
  <2>. QED BY <1>a, <2>1, <2>2
<1>15. CASE Tell(c)
  <2>1. PICK value : Noted(OutcomeAudit(c), value)
    BY <1>15 DEF Tell
  <2>2. Writes(c, OutcomeAudit(c), value)
    BY DEF Writes, WritesAudit
  <2>. QED BY <1>a, <2>1, <2>2
<1>16. CASE WriteToggle(c)
  <2>1. PICK value : Written(ConfigFile, value)
    BY <1>16 DEF WriteToggle
  <2>2. Writes(c, ConfigFile, value)
    BY DEF Writes, WritesConfig
  <2>. QED BY <1>a, <2>1, <2>2
<1>17. CASE HashReport(c)
  <2>1. PICK content \in Contents : \E value : files' = Put(HashFile(c, content), value)
    BY <1>17 DEF HashReport
  <2>2. PICK value : files' = Put(HashFile(c, content), value)
    BY <2>1
  <2>3. Puts(HashFile(c, content), value)
    BY <2>2, PutIs
  <2>4. Writes(c, HashFile(c, content), value)
    BY <1>17 DEF HashReport, Writes, WritesHash
  <2>. QED BY <2>3, <2>4 DEF Files, Puts, Touches
<1>18. CASE c \in Inspections /\ PruneStep(c)
  BY <1>18, <1>b, <1>c DEF PruneStep, ListExpired, DeleteDoomed, EmptyDir, ListRecords
<1>19. CASE c \in Clears /\ ClearStep(c)
  BY <1>19, <1>b, <1>c DEF ClearStep, ClearDir, ClearRoot
<1>20. c \in Routes /\ RouteStep(c) => Good
  BY <1>2, <1>3, <1>4, <1>5, <1>6, <1>8, <1>7 DEF RouteStep
<1>21. FunnelStep(c) => Good
  BY <1>2, <1>9, <1>10 DEF FunnelStep
<1>22. ReportStep(c) => Good
  BY <1>2, <1>17, <1>11, <1>12, <1>15, <1>14 DEF ReportStep
<1>. QED BY <1>1, <1>13, <1>16, <1>18, <1>19, <1>20, <1>21, <1>22 DEF Step

\* Only an answer to a submission adds a row, that of the report; that a row was
\* not accepted is not forgotten, and a harness remains one.
LEMMA AcceptedIs ==
  ASSUME NEW c \in Commands, Call(c) \/ Step(c)
  PROVE  /\ \/ UNCHANGED accepted
            \/ cmd[c].at = "submitting" /\ accepted' = accepted \cup {cmd[c].row}
         /\ unaccepted \subseteq unaccepted' /\ harness' = harness
<1>1. CASE Call(c)
  BY <1>1 DEF Call, CallRoute, CallReport, CallDecline, CallInspection, CallClear, CallToggle,
              Unshared
<1>2. CASE RouteStep(c)
  BY <1>2 DEF RouteStep, LookUp, CreateRecord, HashRoute, Ask, AuditRouteError,
              AuditRouteSkipped, FindRecord, StoreDecision, AuditRoute, Note, Write, Unshared
<1>3. CASE FunnelStep(c)
  BY <1>3 DEF FunnelStep, CreateFunnel, SkipFunnel, SignalStages, PutFunnel, Note, Unshared
<1>4. CASE ReportStep(c)
  <2>1. CASE Submit(c)
    BY <2>1 DEF Submit, Take, Unaccepted
  <2>2. CASE ReadDecision(c) \/ JoinRow(c)
    BY <2>2 DEF ReadDecision, JoinRow, Unshared
  <2>. QED BY <1>4, <2>1, <2>2 DEF ReportStep, HashReport, AuditSubmitted, AuditFailure, Tell,
                                   AuditUntold, Note, Unshared
<1>5. CASE StoreDecline(c) \/ WriteToggle(c)
  BY <1>5 DEF StoreDecline, WriteToggle, Write, Unshared
<1>6. CASE PruneStep(c) \/ ClearStep(c)
  BY <1>6 DEF PruneStep, ListExpired, DeleteDoomed, EmptyDir, ListRecords, ClearStep, ClearDir,
              ClearRoot, Unshared
<1>. QED BY <1>1, <1>2, <1>3, <1>4, <1>5, <1>6 DEF Step

\* The stages are signalled and to be recorded.
LEMMA SignalledIs ==
  ASSUME Shape, NEW c \in Commands, NEW after,
         Update(c, [at |-> "funnel_put", after |-> after])
  PROVE  /\ Alone(c) /\ cmd'[c].at = "funnel_put" /\ cmd'[c].after = after
         /\ Keeps(c, Lasting(c) \cup (Local \ {"after"}))
<1> DEFINE new == [at |-> "funnel_put", after |-> after]
<1>1. \A f \in Fields : With(cmd[c], new)[f] = IF f \in DOMAIN new THEN new[f] ELSE cmd[c][f]
  BY WithIs
<1>2. /\ With(cmd[c], new).at = "funnel_put" /\ With(cmd[c], new).after = after
      /\ \A f \in Fields \ {"at", "after"} : With(cmd[c], new)[f] = cmd[c][f]
  BY <1>1 DEF Fields
<1>3. Update(c, new)
  OBVIOUS
<1> HIDE DEF new
<1>4. cmd'[c].at = "funnel_put" /\ Alone(c)
  BY <1>2, <1>3, UpdateIs
<1>5. cmd'[c] = With(cmd[c], new)
  BY <1>3, <1>4, UpdateIs DEF Ended
<1>. QED BY <1>2, <1>4, <1>5 DEF Keeps, Lasting, Local, Fields

\* Of the steps of a command that has come so far, those that are left.
LEMMA AcceptedSteps ==
  ASSUME NEW c \in Commands, cmd[c].at \in AfterSubmission, Call(c) \/ Step(c)
  PROVE  FunnelStep(c) \/ AuditSubmitted(c) \/ Tell(c) \/ AuditUntold(c)
<1>1. ~ Call(c)
  BY DEF Call, CallRoute, CallReport, CallDecline, CallInspection, CallClear, CallToggle,
         AfterSubmission
<1>2. ~ RouteStep(c)
  BY DEF RouteStep, LookUp, CreateRecord, HashRoute, Ask, AuditRouteError, AuditRouteSkipped,
         FindRecord, StoreDecision, AuditRoute, AfterSubmission
<1>3. ReportStep(c) => AuditSubmitted(c) \/ Tell(c) \/ AuditUntold(c)
  BY DEF ReportStep, ReadDecision, HashReport, JoinRow, Submit, AuditFailure, AfterSubmission
<1>4. ~ StoreDecline(c) /\ ~ WriteToggle(c) /\ ~ PruneStep(c) /\ ~ ClearStep(c)
  BY DEF StoreDecline, WriteToggle, PruneStep, ListExpired, DeleteDoomed, EmptyDir, ListRecords,
         ClearStep, ClearDir, ClearRoot, AfterSubmission
<1>. QED BY <1>1, <1>2, <1>3, <1>4 DEF Step

\* A report whose submission was answered ends well, unless a local write fails,
\* whatever the other commands do.
THEOREM ReportedWhenAccepted == Spec => AcceptedIsReported
<1> DEFINE Kept == \A p \in Reports :
             cmd[p].at \in AfterSubmission /\ cmd'[p].at = "failed" => cmd'[p].io
<1>1. Shape /\ [Next]_vars => Kept
  <2> SUFFICES ASSUME Shape, [Next]_vars, NEW p \in Reports,
                      cmd[p].at \in AfterSubmission, cmd'[p].at = "failed"
               PROVE  cmd'[p].io = TRUE
    OBVIOUS
  <2>0. p \in Commands /\ cmd[p].at # "failed"
    BY DEF Commands, AfterSubmission
  <2>1. PICK c \in Commands : Call(c) \/ Step(c)
    BY <2>0 DEF Next, Tick, vars
  <2>2. c = p
    BY <2>0, <2>1, SetsWhatFits, UpdateIs DEF Alone
  <2>3. FunnelStep(p) \/ AuditSubmitted(p) \/ Tell(p) \/ AuditUntold(p)
    BY <2>1, <2>2, AcceptedSteps
  <2>4. AfterFunnel(p) # "failed"
    BY DEF AfterFunnel
  <2>. DEFINE Noted(next, failed) == GoesTo(p, next) \/ ThrownTo(p, failed)
  <2>n. ASSUME NEW path, NEW value, NEW next, NEW failed, Note(p, path, value, next, failed)
        PROVE  Noted(next, failed)
    BY <2>0, <2>n, NoteIs
  <2>5. CASE CreateFunnel(p) \/ PutFunnel(p)
    <3>1. Noted("signalling", AfterFunnel(p)) \/ Noted(AfterFunnel(p), AfterFunnel(p))
      BY <2>5, <2>n DEF CreateFunnel, PutFunnel
    <3>. QED BY <2>4, <3>1 DEF GoesTo, ThrownTo
  <2>6. CASE SkipFunnel(p)
    BY <2>0, <2>4, <2>6, GotoIs DEF SkipFunnel, GoesTo
  <2>7. CASE SignalStages(p)
    <3>1. ASSUME NEW after, Update(p, [at |-> "funnel_put", after |-> after])
          PROVE  cmd'[p].at = "funnel_put"
      BY <2>0, <3>1, SignalledIs
    <3>. QED BY <2>0, <2>4, <2>7, <3>1, GotoIs DEF SignalStages, GoesTo
  <2>8. CASE AuditSubmitted(p)
    <3>1. Noted(IF harness THEN "done" ELSE "funnel", "auditing_failure")
      BY <2>8, <2>n DEF AuditSubmitted
    <3>. QED BY <3>1 DEF GoesTo, ThrownTo
  <2>9. CASE Tell(p)
    <3>1. Noted("done", "untold") \/ Noted("done", "failed")
      BY <2>9, <2>n DEF Tell
    <3>. QED BY <3>1 DEF GoesTo, ThrownTo
  <2>10. CASE AuditUntold(p)
    <3>1. Noted("done", "failed")
      BY <2>10, <2>n DEF AuditUntold
    <3>. QED BY <3>1 DEF GoesTo, ThrownTo
  <2>. QED BY <2>3, <2>5, <2>6, <2>7, <2>8, <2>9, <2>10 DEF FunnelStep
<1>2. Spec => [][Kept]_vars
  BY <1>1, ShapeInit, ShapeNext, PTL DEF Spec
<1>. QED BY <1>2 DEF AcceptedIsReported

-----------------------------------------------------------------------------
(***************************************************************************)
(* The audit log.  What makes AuditTellsTruth inductive: the row that is   *)
(* submitted is that of the correlation the entry is written for, and a    *)
(* submission of that correlation was answered before the entry is written.*)
(***************************************************************************)
Answered(k) ==
  \/ \E row \in accepted : row.corr = k
  \/ <<k, "refused">> \in unaccepted
  \/ harness /\ <<k, "unsent">> \in unaccepted

AuditInv ==
  /\ Shape
  /\ AuditTellsTruth
  /\ \A c \in Commands : cmd[c].at = "submitting" => cmd[c].row.corr = cmd[c].corr
  /\ \A c \in Commands : cmd[c].at = "auditing_submitted" => Answered(cmd[c].corr)

\* The row a report builds is of its correlation.
LEMMA RowOfItsCorrelation ==
  ASSUME Shape, NEW c \in Commands, JoinRow(c), cmd'[c].at = "submitting"
  PROVE  cmd'[c].row.corr = cmd'[c].corr
<1> DEFINE row == Row(c, Found(cmd[c].corr))
           new == [row |-> row,
                   at |-> IF Buildable(row) THEN "submitting" ELSE "auditing_failure"]
<1>1. CASE Goto(c, "failed")
  BY <1>1, GotoIs DEF GoesTo
<1>2. CASE Update(c, new)
  <2>1. "at" \in DOMAIN new /\ new.at \notin Ended
    BY DEF Ended
  <2>2. Sets(c, new)
    BY <1>2, <2>1, SetsIs
  <2>3. cmd'[c].row = row /\ cmd'[c].corr = cmd[c].corr
    BY <2>2 DEF Sets, Fields
  <2>4. row.corr = cmd[c].corr
    BY DEF Row
  <2>. QED BY <2>3, <2>4
<1>. QED BY <1>1, <1>2 DEF JoinRow

\* A report that goes on as submitted has a row of its correlation taken, or
\* refused, or is of a harness that sent none.
LEMMA SubmittedIsAnswered ==
  ASSUME Shape, NEW c \in Commands, Submit(c), cmd'[c].at = "auditing_submitted",
         cmd[c].row.corr = cmd[c].corr
  PROVE  Answered(cmd[c].corr)' /\ cmd'[c].corr = cmd[c].corr
<1>1. /\ Take(cmd[c].row) \/ Unaccepted(c, "refused") \/ (harness /\ Unaccepted(c, "unsent"))
      /\ Goto(c, "auditing_submitted") /\ harness' = harness
  BY GotoIs DEF Submit, GoesTo
<1>3. cmd'[c].corr = cmd[c].corr
  BY <1>1, GotoIs DEF Carries, Keeps, Local, Ended, GoesTo
<1>4. CASE Take(cmd[c].row)
  <2>1. \E row \in accepted' : row.corr = cmd[c].corr
    BY <1>4 DEF Take
  <2>. QED BY <1>3, <2>1 DEF Answered
<1>5. CASE Unaccepted(c, "refused")
  BY <1>3, <1>5 DEF Answered, Unaccepted
<1>6. CASE harness /\ Unaccepted(c, "unsent")
  BY <1>1, <1>3, <1>6 DEF Answered, Unaccepted
<1>. QED BY <1>1, <1>3, <1>4, <1>5, <1>6

LEMMA AuditStep == AuditInv /\ [Next]_vars => AuditInv'
<1> SUFFICES ASSUME AuditInv, [Next]_vars PROVE AuditInv'
  OBVIOUS
<1>1. CASE Tick \/ UNCHANGED vars
  BY <1>1 DEF Tick, vars, AuditInv, Shape, AuditTellsTruth, Answered, Exists, AuditFile
<1>2. ASSUME NEW c \in Commands, Call(c) \/ Step(c) PROVE AuditInv'
  <2>1. Shape /\ Shape' /\ Alone(c)
    BY <1>2, SetsWhatFits, UpdateIs DEF AuditInv
  <2>2. \A k : Answered(k) => Answered(k)'
    BY <1>2, AcceptedIs DEF Answered
  <2>3. \A d \in Commands : cmd'[d].at = "submitting" => cmd'[d].row.corr = cmd'[d].corr
    <3>1. CASE cmd'[c].at = "submitting"
      BY <1>2, <2>1, <3>1, Arrives, OneAction, RowOfItsCorrelation DEF AuditInv, Alone
    <3>2. CASE cmd'[c].at # "submitting"
      BY <2>1, <3>2 DEF AuditInv, Alone
    <3>. QED BY <3>1, <3>2
  <2>4. \A d \in Commands : cmd'[d].at = "auditing_submitted" => Answered(cmd[d].corr)'
    <3>1. ASSUME cmd'[c].at = "auditing_submitted" PROVE Answered(cmd[c].corr)'
      <4>1. Submit(c) /\ cmd[c].at = "submitting"
        BY <1>2, <2>1, <3>1, Arrives, OneAction
      <4>. QED BY <2>1, <3>1, <4>1, SubmittedIsAnswered DEF AuditInv
    <3>2. ASSUME NEW d \in Commands \ {c}, cmd'[d].at = "auditing_submitted"
          PROVE  Answered(cmd[d].corr)'
      <4>1. cmd[d].at = "auditing_submitted" /\ cmd'[d] = cmd[d]
        BY <2>1, <3>2 DEF Alone
      <4>2. Answered(cmd[d].corr)
        BY <4>1 DEF AuditInv
      <4>3. Answered(cmd[d].corr)'
        BY <2>2, <4>2, <4>1 DEF Answered
      <4>. QED BY <4>1, <4>3
    <3>. QED BY <3>1, <3>2
  <2>5. ASSUME NEW k \in Correlations, AuditFile(k, "contribution") \in DOMAIN files',
               files'[AuditFile(k, "contribution")].whole,
               files'[AuditFile(k, "contribution")].status = "submitted"
        PROVE  Answered(k)'
    <3> DEFINE path == AuditFile(k, "contribution")
    <3>1. Answered(k) => Answered(k)'
      BY <2>2
    <3>2. CASE path \in DOMAIN files /\ files'[path] = files[path]
      BY <2>5, <3>1, <3>2 DEF AuditInv, AuditTellsTruth, Answered, Exists
    <3>3. ASSUME NEW value, Writes(c, path, value), files'[path] \in {Torn, value}
          PROVE  Answered(k)
      <4>1. files'[path] = value /\ value.status = "submitted"
        BY <2>5, <3>3 DEF Torn
      <4>2. ~ WritesCorrelation(c, path, value) /\ ~ WritesHash(c, path, value)
        BY DEF WritesCorrelation, WritesHash, CorrelationFile, HashFile, AuditFile
      <4>3. ~ WritesConfig(c, path, value)
        BY DEF WritesConfig, ConfigFile, FunnelFile, AuditFile
      <4>4. WritesAudit(c, path, value)
        BY <3>3, <4>2, <4>3 DEF Writes
      <4>5. path \notin {AuditFile(cmd[c].corr, "route"), OutcomeAudit(c)}
        BY DEF AuditFile, OutcomeAudit
      <4>6. Stamped(c, "failed").status # "submitted"
        BY DEF Stamped, Dated
      <4>7. path = RowAudit(c) /\ cmd[c].at = "auditing_submitted"
        BY <4>1, <4>4, <4>5, <4>6 DEF WritesAudit
      <4>8. k = cmd[c].corr
        BY <4>7 DEF RowAudit, AuditFile
      <4>. QED BY <4>7, <4>8 DEF AuditInv
    <3>. QED BY <1>2, <2>1, <2>5, <3>1, <3>2, <3>3, FilesAre DEF Files
  <2>. QED BY <2>1, <2>3, <2>4, <2>5 DEF AuditInv, AuditTellsTruth, Answered, Exists, AuditFile
<1>. QED BY <1>1, <1>2 DEF Next

\* What the audit log calls submitted the service has taken or refused, or a
\* harness without a client never sent it, of any number of reports that write the
\* same entry, and whatever is not written.
THEOREM AuditIsTrue == Spec => []AuditTellsTruth
<1>1. Init => AuditInv
  BY ShapeInit DEF Init, AuditInv, AuditTellsTruth, Exists, AuditFile, ConfigFile
<1>. QED BY <1>1, AuditStep, PTL DEF Spec, AuditInv


-----------------------------------------------------------------------------
(***************************************************************************)
(* The funnel.  What makes EmittedWereSignalled inductive: what is about   *)
(* to be recorded was signalled.                                           *)
(***************************************************************************)
FunnelInv ==
  /\ Shape
  /\ EmittedWereSignalled
  /\ \A c \in Commands : cmd[c].at = "funnel_put" => cmd[c].after \subseteq signalled

LEMMA SignalledGrows ==
  ASSUME NEW c \in Commands, Call(c) \/ Step(c)
  PROVE  signalled \subseteq signalled'
<1>1. CASE Call(c)
  BY <1>1 DEF Call, CallRoute, CallReport, CallDecline, CallInspection, CallClear, CallToggle,
              Unshared
<1>2. CASE RouteStep(c)
  BY <1>2 DEF RouteStep, LookUp, CreateRecord, HashRoute, Ask, AuditRouteError,
              AuditRouteSkipped, FindRecord, StoreDecision, AuditRoute, Note, Write, Unshared
<1>3. CASE FunnelStep(c)
  BY <1>3 DEF FunnelStep, CreateFunnel, SkipFunnel, SignalStages, PutFunnel, Note, Unshared
<1>4. CASE ReportStep(c)
  BY <1>4 DEF ReportStep, ReadDecision, HashReport, JoinRow, Submit, AuditSubmitted,
              AuditFailure, Tell, AuditUntold, Note, Unshared
<1>5. CASE StoreDecline(c) \/ WriteToggle(c)
  BY <1>5 DEF StoreDecline, WriteToggle, Write, Unshared
<1>6. CASE PruneStep(c) \/ ClearStep(c)
  BY <1>6 DEF PruneStep, ListExpired, DeleteDoomed, EmptyDir, ListRecords, ClearStep, ClearDir,
              ClearRoot, Unshared
<1>. QED BY <1>1, <1>2, <1>3, <1>4, <1>5, <1>6 DEF Step

\* What c will record it has signalled now, or the file said so.
LEMMA RecordsWhatItSignalled ==
  ASSUME FunnelInv, NEW c \in Commands, SignalStages(c), cmd'[c].at = "funnel_put"
  PROVE  cmd'[c].after \subseteq signalled'
<1> DEFINE after == Known(c) \cup {"install", Stage(c)}
<1>1. /\ signalled' = signalled \cup Pending(c)
      /\ Update(c, [at |-> "funnel_put", after |-> after])
  <2>1. Goto(c, AfterFunnel(c)) => FALSE
    BY GotoIs DEF FunnelInv, GoesTo, AfterFunnel
  <2>. QED BY <2>1 DEF SignalStages
<1>2. cmd'[c].after = after
  BY <1>1, SignalledIs DEF FunnelInv
<1>3. Known(c) \subseteq signalled
  <2>1. Known(c) # {"install", Stage(c)}
    BY DEF Pending, SignalStages
  <2>2. \/ Known(c) = {}
        \/ /\ Exists(FunnelFile) /\ files[FunnelFile].whole
           /\ Known(c) = files[FunnelFile].emitted
    BY <2>1 DEF Known
  <2>. QED BY <2>2 DEF FunnelInv, EmittedWereSignalled
<1>. QED BY <1>1, <1>2, <1>3 DEF Pending

LEMMA FunnelInvStep == FunnelInv /\ [Next]_vars => FunnelInv'
<1> SUFFICES ASSUME FunnelInv, [Next]_vars PROVE FunnelInv'
  OBVIOUS
<1>1. CASE Tick \/ UNCHANGED vars
  BY <1>1 DEF Tick, vars, FunnelInv, Shape, EmittedWereSignalled, Exists, FunnelFile
<1>2. ASSUME NEW c \in Commands, Call(c) \/ Step(c) PROVE FunnelInv'
  <2>1. Shape /\ Shape' /\ Alone(c) /\ signalled \subseteq signalled'
    BY <1>2, SetsWhatFits, UpdateIs, SignalledGrows DEF FunnelInv
  <2>2. \A d \in Commands : cmd'[d].at = "funnel_put" => cmd'[d].after \subseteq signalled'
    <3>1. ASSUME cmd'[c].at = "funnel_put" PROVE cmd'[c].after \subseteq signalled'
      <4>1. cmd[c].at \in {"funnel", "signalling"} /\ FunnelStep(c)
        BY <1>2, <2>1, <3>1, Arrives, OneAction
      <4>2. ~ CreateFunnel(c) /\ ~ SkipFunnel(c) /\ ~ PutFunnel(c)
        <5>1. ASSUME NEW path, NEW value, NEW next, NEW failed,
                     Note(c, path, value, next, failed)
              PROVE  cmd'[c].at \in {next, failed}
          BY <2>1, <5>1, NoteIs DEF GoesTo, ThrownTo
        <5>2. AfterFunnel(c) # "funnel_put"
          BY DEF AfterFunnel
        <5>3. ~ CreateFunnel(c) /\ ~ PutFunnel(c)
          BY <3>1, <5>1, <5>2 DEF CreateFunnel, PutFunnel
        <5>. QED BY <2>1, <3>1, <5>2, <5>3, GotoIs DEF SkipFunnel, GoesTo
      <4>. QED BY <3>1, <4>1, <4>2, RecordsWhatItSignalled DEF FunnelStep
    <3>2. \A d \in Commands \ {c} :
            cmd'[d].at = "funnel_put" => cmd'[d].after \subseteq signalled'
      BY <2>1 DEF Alone, FunnelInv
    <3>. QED BY <3>1, <3>2
  <2>3. ASSUME FunnelFile \in DOMAIN files', files'[FunnelFile].whole
        PROVE  files'[FunnelFile].emitted \subseteq signalled'
    <3>1. CASE FunnelFile \in DOMAIN files /\ files'[FunnelFile] = files[FunnelFile]
      BY <2>1, <2>3, <3>1 DEF FunnelInv, EmittedWereSignalled, Exists
    <3>2. ASSUME NEW value, Writes(c, FunnelFile, value), files'[FunnelFile] \in {Torn, value}
          PROVE  files'[FunnelFile].emitted \subseteq signalled
      <4>1. files'[FunnelFile] = value
        BY <2>3, <3>2 DEF Torn
      <4>2. /\ ~ WritesCorrelation(c, FunnelFile, value) /\ ~ WritesHash(c, FunnelFile, value)
            /\ ~ WritesAudit(c, FunnelFile, value)
        BY DEF WritesCorrelation, WritesHash, WritesAudit, CorrelationFile, HashFile, AuditFile,
               FunnelFile, RowAudit, OutcomeAudit
      <4>3. WritesConfig(c, FunnelFile, value) /\ FunnelFile # ConfigFile
        BY <3>2, <4>2 DEF Writes, FunnelFile, ConfigFile
      <4>. QED BY <4>1, <4>3 DEF WritesConfig, Emitted, FunnelInv
    <3>. QED BY <1>2, <2>1, <2>3, <3>1, <3>2, FilesAre DEF Files
  <2>. QED BY <2>1, <2>2, <2>3 DEF FunnelInv, EmittedWereSignalled, Exists, FunnelFile
<1>. QED BY <1>1, <1>2 DEF Next

\* A stage of the funnel recorded as emitted was signalled to the service,
\* whichever commands race to record it and whatever fails in between.
THEOREM FunnelIsTrue == Spec => []EmittedWereSignalled
<1>1. Init => FunnelInv
  BY ShapeInit DEF Init, FunnelInv, EmittedWereSignalled, Exists, FunnelFile, ConfigFile
<1>. QED BY <1>1, FunnelInvStep, PTL DEF Spec, FunnelInv

-----------------------------------------------------------------------------
(***************************************************************************)
(* The row of one decision.  A record, stored or read, names the route     *)
(* that made its recommendation; when that route was answered with an id,  *)
(* the record has this id.  What makes it inductive: it holds of every     *)
(* record of the store, of every record a command has read, and of the row *)
(* a report is about to submit, and the route's own answer has come.       *)
(***************************************************************************)
Named(f) ==
  f.by # None =>
    /\ f.by \in Routes /\ cmd[f.by].at \notin Unanswered
    /\ cmd[f.by].by # None => f.inference = f.by

NamedInv ==
  /\ Shape
  /\ \A c \in Commands : cmd[c].by \in {None, c}
  /\ \A path \in DOMAIN files :
       path[1] = "correlations" /\ files[path].whole => Named(files[path])
  /\ \A c \in Commands : cmd[c].seen # None => Named(cmd[c].seen)
  /\ \A c \in Commands : cmd[c].at = "declining" => cmd[c].seen # None
  /\ \A c \in Commands :
       cmd[c].at = "submitting" => cmd[c].row.by # None /\ Named(cmd[c].row)
  /\ \A row \in accepted : row.by # None /\ Named(row)

\* A route keeps its answer.
LEMMA NamedStays ==
  ASSUME Shape, NEW c \in Commands, Call(c) \/ Step(c), NEW f, Named(f)
  PROVE  Named(f)'
<1>1. SUFFICES ASSUME f.by # None
               PROVE  /\ f.by \in Routes /\ cmd'[f.by].at \notin Unanswered
                      /\ cmd'[f.by].by # None => f.inference = f.by
  BY DEF Named
<1>2. f.by \in Routes /\ f.by \in Commands /\ cmd[f.by].at \notin Unanswered
  BY <1>1 DEF Named, Commands
<1>3. cmd'[f.by].at \notin Unanswered /\ cmd'[f.by].by = cmd[f.by].by
  <2>1. CASE f.by = c
    BY <1>2, <2>1, Arrives, Learns DEF Unanswered
  <2>2. CASE f.by # c
    BY <1>2, <2>2, SetsWhatFits, UpdateIs DEF Alone
  <2>. QED BY <2>1, <2>2
<1>. QED BY <1>1, <1>2, <1>3 DEF Named

\* What is found in the store, and was read without an error, is whole.
LEMMA FoundIsWhole ==
  ASSUME NEW k, ~ FindThrows(k), Found(k) # None
  PROVE  /\ CorrelationFile(k) \in DOMAIN files /\ Found(k) = files[CorrelationFile(k)]
         /\ files[CorrelationFile(k)].whole /\ CorrelationFile(k)[1] = "correlations"
BY DEF FindThrows, Found, Exists, CorrelationFile

LEMMA DecisionIsWhole ==
  ASSUME NEW t, NEW k, ~ ReadThrows(k), NEW d \in Decisions(t, k)
  PROVE  d \in DOMAIN files /\ d[1] = "correlations" /\ files[d].whole
<1>1. CASE k # None
  <2>1. d = CorrelationFile(k) /\ d \in DOMAIN files /\ d[1] = "correlations"
    BY <1>1 DEF Decisions, Exists, CorrelationFile
  <2>2. CASE harness
    BY <1>1, <2>1, <2>2 DEF ReadThrows, Readable, In
  <2>3. CASE ~ harness
    BY <1>1, <2>1, <2>3 DEF ReadThrows, FindThrows, Found, Exists
  <2>. QED BY <2>1, <2>2, <2>3
<1>2. CASE k = None
  BY <1>2 DEF Decisions, Newest, RecordsOf, ReadThrows, Readable, In
<1>. QED BY <1>1, <1>2

\* What a command reads is the whole record of a file.
LEMMA SeenIs ==
  ASSUME Shape, NEW c \in Commands, Call(c) \/ Step(c), cmd'[c].seen # None
  PROVE  \/ cmd'[c].seen = cmd[c].seen
         \/ \E path \in DOMAIN files : /\ path[1] = "correlations" /\ files[path].whole
                                       /\ cmd'[c].seen = files[path]
<1> DEFINE Read1 == \E path \in DOMAIN files : /\ path[1] = "correlations" /\ files[path].whole
                                               /\ cmd'[c].seen = files[path]
<1>1. ASSUME NEW at, Goto(c, at) PROVE cmd'[c].seen = cmd[c].seen
  BY <1>1, GotoIs DEF Carries, Keeps, Local, GoesTo
<1>2. ASSUME NEW new, Update(c, new), "at" \in DOMAIN new, new.at \notin Ended
      PROVE  cmd'[c].seen = IF "seen" \in DOMAIN new THEN new.seen ELSE cmd[c].seen
  BY <1>2, SetsIs DEF Sets, Fields
<1>3. CASE cmd[c].at \in {"finding", "finding_offline"}
  <2>1. FindRecord(c)
    BY <1>3, OneAction
  <2>2. ASSUME NEW at, at \notin Ended, NEW seen, Update(c, [at |-> at, seen |-> seen])
        PROVE  cmd'[c].seen = seen
    BY <1>2, <2>2
  <2>3. CASE \E at : Goto(c, at)
    BY <1>1, <2>3
  <2>4. CASE /\ ~ FindThrows(cmd[c].corr) /\ Found(cmd[c].corr) # None
             /\ \E at \in {"storing", "storing_offline"} :
                  Update(c, [at |-> at, seen |-> Found(cmd[c].corr)])
    BY <2>2, <2>4, FoundIsWhole DEF Ended
  <2>. QED BY <2>1, <2>3, <2>4 DEF FindRecord
<1>4. CASE cmd[c].at = "reading"
  <2>1. ReadDecision(c)
    BY <1>4, OneAction
  <2>2. ASSUME NEW seen, NEW task, NEW corr,
               Update(c, [at |-> "measuring", seen |-> seen, task |-> task, corr |-> corr])
        PROVE  cmd'[c].seen = seen
    BY <1>2, <2>2 DEF Ended
  <2>3. CASE \E at : Goto(c, at)
    BY <1>1, <2>3
  <2>4. ASSUME ~ ReadThrows(cmd[c].corr), NEW d \in Decisions(cmd[c].task, cmd[c].corr),
               cmd'[c].seen = files[d]
        PROVE  Read1
    BY <2>4, DecisionIsWhole
  <2>. QED BY <2>1, <2>2, <2>3, <2>4 DEF ReadDecision
<1>5. CASE cmd[c].at = "idle"
  <2>1. Call(c)
    BY <1>5, OneAction
  <2>2. CASE \E k \in Returned : CallDecline(c, k)
    <3>1. ASSUME NEW seen, NEW k, Update(c, [at |-> "declining", corr |-> k, seen |-> seen])
          PROVE  cmd'[c].seen = seen
      BY <1>2, <3>1 DEF Ended
    <3>. QED BY <1>1, <2>2, <3>1, FoundIsWhole DEF CallDecline
  <2>3. CASE \E t \in Tasks : CallRoute(c, t)
    BY <1>2, <2>3 DEF CallRoute, Ended
  <2>4. CASE \E t \in Tasks \cup {None}, k \in Returned \cup {None} : CallReport(c, t, k)
    <3>1. ASSUME NEW t, NEW k, Update(c, [at |-> "reading", task |-> t, corr |-> k])
          PROVE  cmd'[c].seen = cmd[c].seen
      BY <1>2, <3>1 DEF Ended
    <3>. QED BY <1>1, <2>4, <3>1 DEF CallReport
  <2>5. CASE CallInspection(c)
    BY <1>2, <2>5 DEF CallInspection, Ended
  <2>6. CASE \E scope \in Scopes : CallClear(c, scope)
    <3>1. ASSUME NEW s, Update(c, [at |-> "clearing", doomed |-> s, after |-> s])
          PROVE  cmd'[c].seen = cmd[c].seen
      BY <1>2, <3>1 DEF Ended
    <3>2. ASSUME NEW s, Update(c, [at |-> "failed", doomed |-> s])
          PROVE  cmd'[c].at \in Ended
      <4>1. With(cmd[c], [at |-> "failed", doomed |-> s]).at = "failed"
        BY WithIs DEF Fields
      <4>. QED BY <3>2, <4>1, UpdateIs DEF Ended
    <3>3. cmd'[c].at \notin Ended
      BY SetsWhatFits, UpdateIs
    <3>. QED BY <2>6, <3>1, <3>2, <3>3 DEF CallClear
  <2>7. CASE \E enabled \in BOOLEAN : CallToggle(c, enabled)
    <3>1. ASSUME NEW at, at \notin Ended, Update(c, [at |-> at])
          PROVE  cmd'[c].seen = cmd[c].seen
      BY <1>2, <3>1
    <3>. QED BY <1>1, <2>7, <3>1 DEF CallToggle, Ended
  <2>. QED BY <2>1, <2>2, <2>3, <2>4, <2>5, <2>6, <2>7 DEF Call
<1>6. CASE cmd[c].at \notin {"idle", "finding", "finding_offline", "reading"}
  BY <1>6, Learns
<1>. QED BY <1>3, <1>4, <1>5, <1>6


\* The row a report builds names one decision, although the store was read twice:
\* an id that was there both times is the same one.
LEMMA RowIsNamed ==
  ASSUME NamedInv, NEW c \in Commands, JoinRow(c), cmd'[c].at = "submitting"
  PROVE  cmd'[c].row.by # None /\ Named(cmd'[c].row)
<1> DEFINE stored == Found(cmd[c].corr)
           row == Row(c, stored)
           new == [row |-> row,
                   at |-> IF Buildable(row) THEN "submitting" ELSE "auditing_failure"]
           seen == IF harness THEN None ELSE cmd[c].seen
<1>1. /\ ~ FindThrows(cmd[c].corr) /\ (harness \/ ~ Mismatch(c, stored))
      /\ Update(c, new)
  BY GotoIs DEF JoinRow, NamedInv, GoesTo
<1>2. cmd'[c].row = row /\ Buildable(row)
  <2>1. "at" \in DOMAIN new /\ new.at \notin Ended
    BY DEF Ended
  <2>2. Sets(c, new)
    BY <1>1, <2>1, SetsIs DEF NamedInv
  <2>3. cmd'[c].row = new.row /\ cmd'[c].at = new.at
    BY <2>2 DEF Sets, Fields
  <2>. QED BY <2>3
<1>3. stored # None => Named(stored)
  BY <1>1, FoundIsWhole DEF NamedInv
<1>4. seen # None => Named(seen)
  BY DEF NamedInv
<1>5. /\ row.by = First(Read(stored, "by"), Read(seen, "by"))
      /\ row.inference = First(Read(seen, "inference"), Read(stored, "inference"))
  BY DEF Row
<1>6. seen # None /\ stored # None /\ seen.inference # None /\ stored.inference # None
        => seen.inference = stored.inference
  BY <1>1 DEF Mismatch, InferenceDiffers
<1> HIDE DEF row, stored, seen
<1>7. row.by # None
  BY <1>2 DEF Buildable
<1>8. CASE stored # None /\ stored.by # None
  <2>1. row.by = stored.by
    BY <1>5, <1>8 DEF First, Read
  <2>2. row.inference = IF seen # None /\ seen.inference # None THEN seen.inference
                        ELSE stored.inference
    BY <1>5, <1>8 DEF First, Read
  <2>3. /\ row.by \in Routes /\ cmd[row.by].at \notin Unanswered
        /\ cmd[row.by].by # None => stored.inference = row.by
    BY <1>3, <1>8, <2>1 DEF Named
  <2>4. cmd[row.by].by # None => stored.inference # None
    BY <1>7, <2>3
  <2>5. cmd[row.by].by # None => row.inference = row.by
    BY <1>6, <1>8, <2>2, <2>3, <2>4
  <2>. QED BY <1>2, <1>7, <2>3, <2>5 DEF Named
<1>9. CASE stored = None \/ stored.by = None
  <2>1. seen # None /\ row.by = seen.by
    BY <1>5, <1>7, <1>9 DEF First, Read
  <2>2. /\ row.by \in Routes /\ cmd[row.by].at \notin Unanswered
        /\ cmd[row.by].by # None => seen.inference = row.by
    BY <1>4, <1>7, <2>1 DEF Named
  <2>3. cmd[row.by].by # None => row.inference = row.by
    BY <1>5, <1>7, <2>1, <2>2 DEF First, Read
  <2>. QED BY <1>2, <1>7, <2>2, <2>3 DEF Named
<1>. QED BY <1>8, <1>9

\* What is written to the store is named.
LEMMA WrittenIsNamed ==
  ASSUME NamedInv, NEW c \in Commands, Call(c) \/ Step(c), NEW path, NEW value,
         path[1] = "correlations", Writes(c, path, value)
  PROVE  Named(value)'
<1>1. WritesCorrelation(c, path, value)
  <2>1. ~ WritesHash(c, path, value)
    BY DEF WritesHash, HashFile
  <2>2. ~ WritesAudit(c, path, value)
    BY DEF WritesAudit, AuditFile, OutcomeAudit, RowAudit
  <2>3. ~ WritesConfig(c, path, value)
    BY DEF WritesConfig, ConfigFile, FunnelFile
  <2>. QED BY <2>1, <2>2, <2>3 DEF Writes
<1>2. CASE value = Correlation(cmd[c].corr, None, None)
  BY <1>2 DEF Named, Correlation
<1>3. CASE /\ cmd[c].at \in {"storing", "storing_offline"} /\ c \in Routes
           /\ value = Correlation(cmd[c].corr, c, RecordedInference(c))
  <2>1. value.by = c /\ value.inference = RecordedInference(c)
    BY <1>3 DEF Correlation
  <2>2. cmd[c].by # None => RecordedInference(c) = c
    BY DEF RecordedInference, NamedInv
  <2>3. Named(value)
    BY <1>3, <2>1, <2>2 DEF Named, Unanswered
  <2>. QED BY <2>3, NamedStays DEF NamedInv
<1>4. CASE cmd[c].at = "declining" /\ value = cmd[c].seen
  <2>1. Named(value)
    BY <1>4 DEF NamedInv
  <2>. QED BY <2>1, NamedStays DEF NamedInv
<1>. QED BY <1>1, <1>2, <1>3, <1>4 DEF WritesCorrelation

\* What is to be written back as declined was read.
LEMMA DeclineIs ==
  ASSUME Shape, NEW c \in Commands, Call(c) \/ Step(c), cmd'[c].at = "declining",
         cmd[c].at = "idle"
  PROVE  \E k : /\ ~ FindThrows(k) /\ Found(k) # None
               /\ cmd'[c].corr = k /\ cmd'[c].seen = Found(k)
<1>1. Call(c)
  BY OneAction
<1>2. ASSUME NEW at, Goto(c, at) PROVE cmd'[c].at = at
  BY <1>2, GotoIs DEF GoesTo
<1>3. ASSUME NEW new, Update(c, new)
      PROVE  cmd'[c].at = IF "at" \in DOMAIN new THEN new.at ELSE cmd[c].at
  <2>1. With(cmd[c], new).at = IF "at" \in DOMAIN new THEN new.at ELSE cmd[c].at
    BY WithIs DEF Fields
  <2>. QED BY <1>3, <2>1, UpdateIs
<1>4. PICK k : CallDecline(c, k)
  <2>1. ASSUME NEW t, CallRoute(c, t) PROVE FALSE
    BY <1>3, <2>1 DEF CallRoute
  <2>2. ASSUME NEW t, NEW k, CallReport(c, t, k) PROVE FALSE
    BY <1>2, <1>3, <2>2 DEF CallReport
  <2>3. ASSUME CallInspection(c) PROVE FALSE
    BY <1>3, <2>3 DEF CallInspection
  <2>4. ASSUME NEW scope, CallClear(c, scope) PROVE FALSE
    BY <1>3, <2>4 DEF CallClear
  <2>5. ASSUME NEW enabled, CallToggle(c, enabled) PROVE FALSE
    BY <1>2, <1>3, <2>5 DEF CallToggle
  <2>. QED BY <1>1, <2>1, <2>2, <2>3, <2>4, <2>5 DEF Call
<1>5. /\ ~ FindThrows(k) /\ Found(k) # None
      /\ Update(c, [at |-> "declining", corr |-> k, seen |-> Found(k)])
  BY <1>2, <1>4 DEF CallDecline
<1>6. Sets(c, [at |-> "declining", corr |-> k, seen |-> Found(k)])
  BY <1>5, SetsIs DEF Ended
<1>. QED BY <1>5, <1>6 DEF Sets, Fields

LEMMA DeclineReads ==
  ASSUME Shape, NEW c \in Commands, Call(c) \/ Step(c), cmd'[c].at = "declining",
         cmd[c].at = "declining" => cmd[c].seen # None
  PROVE  cmd'[c].seen # None
<1>1. CASE cmd[c].at = "idle"
  BY <1>1, DeclineIs
<1>2. CASE cmd[c].at = "declining"
  <2>1. StoreDecline(c)
    BY <1>2, OneAction
  <2>2. Carries(c)
    BY <2>1, WriteIs DEF StoreDecline
  <2>. QED BY <1>2, <2>2 DEF Carries, Keeps, Local, Ended
<1>. QED BY <1>1, <1>2, Arrives

LEMMA NamedStep == NamedInv /\ [Next]_vars => NamedInv'
<1> SUFFICES ASSUME NamedInv, [Next]_vars PROVE NamedInv'
  OBVIOUS
<1>1. CASE Tick \/ UNCHANGED vars
  <2>1. cmd' = cmd /\ files' = files /\ accepted' = accepted
    BY <1>1 DEF Tick, vars
  <2>2. Shape'
    BY <2>1 DEF NamedInv, Shape
  <2>3. \A f : Named(f) => Named(f)'
    BY <2>1 DEF Named
  <2>. QED BY <2>1, <2>2, <2>3 DEF NamedInv, Named
<1>2. ASSUME NEW c \in Commands, Call(c) \/ Step(c) PROVE NamedInv'
  <2>1. Shape /\ Shape' /\ Alone(c)
    BY <1>2, SetsWhatFits, UpdateIs DEF NamedInv
  <2>2. ASSUME NEW f, Named(f) PROVE Named(f)'
    BY <1>2, <2>1, <2>2, NamedStays
  <2>3. \A d \in Commands : cmd'[d].by \in {None, d}
    BY <1>2, <2>1, Learns DEF NamedInv, Alone
  <2>4. \A path \in DOMAIN files' :
          path[1] = "correlations" /\ files'[path].whole => Named(files[path])'
    <3> SUFFICES ASSUME NEW path \in DOMAIN files', path[1] = "correlations",
                        files'[path].whole
                 PROVE  Named(files[path])'
      OBVIOUS
    <3>1. CASE path \in DOMAIN files /\ files'[path] = files[path]
      <4>1. Named(files[path])
        BY <3>1 DEF NamedInv
      <4>2. ASSUME NEW f, f = files[path] PROVE Named(f)'
        BY <2>2, <4>1, <4>2
      <4>. QED BY <3>1, <4>2 DEF Named
    <3>2. ASSUME NEW value, Writes(c, path, value), files'[path] \in {Torn, value}
          PROVE  Named(files[path])'
      <4>1. files'[path] = value
        BY <3>2 DEF Torn
      <4>2. Named(value)'
        BY <1>2, <3>2, WrittenIsNamed
      <4>. QED BY <4>1, <4>2 DEF Named
    <3>. QED BY <1>2, <2>1, <3>1, <3>2, FilesAre DEF Files
  <2>5. \A d \in Commands : cmd'[d].seen # None => Named(cmd[d].seen)'
    <3> SUFFICES ASSUME NEW d \in Commands, cmd'[d].seen # None PROVE Named(cmd[d].seen)'
      OBVIOUS
    <3>1. PICK f : Named(f) /\ cmd'[d].seen = f
      <4>1. CASE cmd'[d].seen = cmd[d].seen
        BY <4>1 DEF NamedInv
      <4>2. CASE d = c
        BY <1>2, <2>1, <4>1, <4>2, SeenIs DEF NamedInv
      <4>. QED BY <2>1, <4>1, <4>2 DEF Alone
    <3>2. Named(f)'
      BY <2>2, <3>1
    <3>. QED BY <3>1, <3>2 DEF Named
  <2>6. \A d \in Commands : cmd'[d].at = "declining" => cmd'[d].seen # None
    <3>1. CASE cmd'[c].at = "declining"
      BY <1>2, <2>1, <3>1, DeclineReads DEF NamedInv, Alone
    <3>. QED BY <2>1, <3>1 DEF NamedInv, Alone
  <2>7. \A d \in Commands :
          cmd'[d].at = "submitting" => cmd'[d].row.by # None /\ Named(cmd[d].row)'
    <3> SUFFICES ASSUME NEW d \in Commands, cmd'[d].at = "submitting"
                 PROVE  cmd'[d].row.by # None /\ Named(cmd[d].row)'
      OBVIOUS
    <3>1. PICK row : row.by # None /\ Named(row) /\ cmd'[d].row = row
      <4>1. CASE d = c
        BY <1>2, <2>1, <4>1, Arrives, OneAction, RowIsNamed
      <4>2. CASE d # c
        BY <2>1, <4>2 DEF NamedInv, Alone
      <4>. QED BY <4>1, <4>2
    <3>2. Named(row)'
      BY <2>2, <3>1
    <3>. QED BY <3>1, <3>2 DEF Named
  <2>8. \A row \in accepted' : row.by # None /\ Named(row)'
    <3>1. \A row \in accepted : row.by # None /\ Named(row)'
      BY <2>2 DEF NamedInv
    <3>2. CASE cmd[c].at = "submitting" /\ accepted' = accepted \cup {cmd[c].row}
      <4>1. cmd[c].row.by # None /\ Named(cmd[c].row)
        BY <3>2 DEF NamedInv
      <4>2. ASSUME NEW row, row = cmd[c].row PROVE row.by # None /\ Named(row)'
        BY <2>2, <4>1, <4>2
      <4>. QED BY <3>1, <3>2, <4>2
    <3>. QED BY <1>2, <3>1, <3>2, AcceptedIs
  <2>. QED BY <2>1, <2>3, <2>4, <2>5, <2>6, <2>7, <2>8 DEF NamedInv
<1>. QED BY <1>1, <1>2 DEF Next

\* Of every row the service took: when the route that made its recommendation was
\* answered with an inference id, the row has that id, whatever was routed or
\* declined between the two reads of the report.
THEOREM NamedRows == Spec => []NamedRowOfOneDecision
<1>1. Init => NamedInv
  BY ShapeInit DEF Init, NamedInv, Named, ConfigFile
<1>2. NamedInv => NamedRowOfOneDecision
  BY DEF NamedInv, Named, NamedRowOfOneDecision
<1>. QED BY <1>1, <1>2, NamedStep, PTL DEF Spec


-----------------------------------------------------------------------------
(***************************************************************************)
(* Retention.  The date of a routing decision is that of its correlation,  *)
(* which does not change, so what a listing found out about one holds when *)
(* the prune comes to delete by it, unless another command has removed     *)
(* records meanwhile.                                                      *)
(***************************************************************************)
DateOf(path) == path[2].createdAt

Outnumbered(path) ==
  \E K \in SUBSET (In(path[1]) \ {path}) :
    Cardinality(K) >= MaxRecords /\ \A q \in K : DateOf(q) >= DateOf(path)

Expired(path, now) == ~ (DateOf(path) >= now - MaxAge)

\* No other command has removed records.
OnlyRemover(x) == \A c \in (Inspections \cup Clears) \ {x} : cmd[c].at = "idle"

DatesFit ==
  /\ \A path \in DOMAIN files :
       path[1] = "correlations" /\ files[path].whole
         => files[path].createdAt = path[2].createdAt
  /\ \A c \in Commands :
       cmd[c].at = "declining" => cmd[c].seen.createdAt = cmd[c].corr.createdAt

DoomedAreRight ==
  \A x \in Inspections : cmd[x].at = "deleting" /\ OnlyRemover(x) =>
    \A path \in cmd[x].doomed : path[1] = "correlations" =>
      path \in DOMAIN files /\ (Expired(path, cmd[x].stamp) \/ Outnumbered(path))

PruneInv ==
  /\ Shape /\ IsFiniteSet(In("correlations"))
  /\ DatesFit /\ DoomedAreRight

\* What is young enough but not kept, as many as may be kept are not older than.
LEMMA NotKept ==
  ASSUME NEW dir, IsFiniteSet(In(dir)), NEW now, NEW S \in KeptSets(dir, now),
         NEW path \in In(dir) \ S, Young(path, now)
  PROVE  /\ S \subseteq In(dir) \ {path} /\ Cardinality(S) >= MaxRecords
         /\ \A q \in S : files[q].createdAt >= files[path].createdAt
<1> DEFINE young == {p \in In(dir) : Young(p, now)}
<1>1. IsFiniteSet(young) /\ path \in young /\ S \in SUBSET young
  <2>1. young \in SUBSET In(dir)
    BY DEF In
  <2>. QED BY <2>1, FS_Subset DEF KeptSets
<1>2. \A q \in S : files[q].createdAt >= files[path].createdAt
  BY <1>1 DEF KeptSets
<1>3. Cardinality(S) = IF Cardinality(young) > MaxRecords THEN MaxRecords ELSE Cardinality(young)
  BY DEF KeptSets
<1> HIDE DEF young
<1>4. Cardinality(S) # Cardinality(young)
  BY <1>1, FS_Subset
<1>5. Cardinality(S) = MaxRecords /\ MaxRecords \in Nat
  BY <1>3, <1>4, RetentionAssumption
<1>6. young \subseteq In(dir)
  BY DEF young
<1>. QED BY <1>1, <1>2, <1>5, <1>6

\* A listing dooms what is too old or outnumbered.
LEMMA ListedAreRight ==
  ASSUME PruneInv, NEW dir, dir = "correlations", Readable(dir), NEW now, NEW S \in KeptSets(dir, now),
         NEW path \in In(dir) \ S
  PROVE  Expired(path, now) \/ Outnumbered(path)
<1>1. \A q \in In(dir) : q[1] = dir /\ DateOf(q) = files[q].createdAt
  BY DEF In, Readable, DateOf, PruneInv, DatesFit
<1>2. CASE ~ Young(path, now)
  BY <1>1, <1>2 DEF Young, Expired
<1>3. CASE Young(path, now)
  <2>1. /\ S \subseteq In(dir) \ {path} /\ Cardinality(S) >= MaxRecords
        /\ \A q \in S : files[q].createdAt >= files[path].createdAt
    BY <1>3, NotKept DEF PruneInv
  <2>2. \A q \in S : DateOf(q) >= DateOf(path)
    BY <1>1, <2>1
  <2>. QED BY <1>1, <2>1, <2>2 DEF Outnumbered
<1>. QED BY <1>2, <1>3

\* What a listing found stays true while no record is removed.
LEMMA FoundOutStays ==
  ASSUME PruneInv, NEW c \in Commands, Call(c) \/ Step(c), DOMAIN files \subseteq DOMAIN files',
         NEW path \in DOMAIN files, path[1] = "correlations", NEW now
  PROVE  /\ Expired(path, now) => Expired(path, now)'
         /\ Outnumbered(path) => Outnumbered(path)'
<1>1. Expired(path, now) => ~ (DateOf(path)' >= now - MaxAge)
  BY DEF Expired, DateOf
<1>2. ASSUME Outnumbered(path) PROVE Outnumbered(path)'
  <2>1. PICK K \in SUBSET (In(path[1]) \ {path}) :
          Cardinality(K) >= MaxRecords /\ \A q \in K : DateOf(q) >= DateOf(path)
    BY <1>2 DEF Outnumbered
  <2>2. \A q \in K : q \in DOMAIN files /\ q \in DOMAIN files' /\ q[1] = path[1]
    BY <2>1 DEF In
  <2>3. \A q \in K : DateOf(q)' >= DateOf(path)'
    BY <2>1, <2>2
  <2>4. K \in SUBSET (In(path[1])' \ {path})
    BY <2>1, <2>2 DEF In
  <2>. QED BY <2>1, <2>3, <2>4 DEF Outnumbered
<1>. QED BY <1>1, <1>2 DEF Expired


\* One step makes one correlation.
LEMMA FewFiles ==
  ASSUME Shape, IsFiniteSet(In("correlations")), NEW c \in Commands, Call(c) \/ Step(c)
  PROVE  IsFiniteSet(In("correlations")')
<1> DEFINE more == In("correlations") \cup {CorrelationFile(cmd[c].corr)}
<1>1. ASSUME NEW path, NEW value, Writes(c, path, value), path[1] = "correlations"
      PROVE  path = CorrelationFile(cmd[c].corr)
  BY <1>1 DEF Writes, WritesCorrelation, WritesHash, WritesAudit, WritesConfig, HashFile, AuditFile,
              OutcomeAudit, RowAudit, ConfigFile, FunnelFile
<1>2. In("correlations")' \in SUBSET more
  BY <1>1, FilesAre DEF Files, In
<1>3. IsFiniteSet(more)
  BY FS_Singleton, FS_Union
<1> HIDE DEF more
<1>. QED BY <1>2, <1>3, FS_Subset

\* Dates: what is written has the date of its path.
LEMMA DatesStep ==
  ASSUME PruneInv, NEW c \in Commands, Call(c) \/ Step(c)
  PROVE  DatesFit'
<1>1. Shape /\ Shape' /\ Alone(c)
  BY SetsWhatFits, UpdateIs DEF PruneInv
<1>2. ASSUME NEW path \in DOMAIN files', path[1] = "correlations", files'[path].whole
      PROVE  files'[path].createdAt = path[2].createdAt
  <2>1. CASE path \in DOMAIN files /\ files'[path] = files[path]
    BY <1>2, <2>1 DEF PruneInv, DatesFit
  <2>2. ASSUME NEW value, Writes(c, path, value), files'[path] \in {Torn, value}
        PROVE  files'[path].createdAt = path[2].createdAt
    <3>1. files'[path] = value
      BY <1>2, <2>2 DEF Torn
    <3>2. ~ WritesHash(c, path, value) /\ ~ WritesAudit(c, path, value)
      BY <1>2 DEF WritesHash, WritesAudit, HashFile, AuditFile, OutcomeAudit, RowAudit
    <3>3. ~ WritesConfig(c, path, value)
      BY <1>2 DEF WritesConfig, ConfigFile, FunnelFile
    <3>4. path[2] = cmd[c].corr /\ value.createdAt = cmd[c].corr.createdAt
      BY <2>2, <3>2, <3>3 DEF Writes, WritesCorrelation, CorrelationFile, Correlation, PruneInv,
                              DatesFit
    <3>. QED BY <3>1, <3>4
  <2>. QED BY <1>1, <1>2, <2>1, <2>2, FilesAre DEF Files
<1>3. ASSUME NEW d \in Commands, cmd'[d].at = "declining"
      PROVE  cmd'[d].seen.createdAt = cmd'[d].corr.createdAt
  <2>1. CASE d # c \/ cmd'[d] = cmd[d]
    BY <1>1, <1>3, <2>1 DEF PruneInv, DatesFit, Alone
  <2>2. CASE d = c /\ cmd[c].at = "idle"
    <3>1. PICK k : /\ ~ FindThrows(k) /\ Found(k) # None
                   /\ cmd'[c].corr = k /\ cmd'[c].seen = Found(k)
      BY <1>1, <1>3, <2>2, DeclineIs
    <3>2. Found(k) = files[CorrelationFile(k)] /\ CorrelationFile(k) \in DOMAIN files
          /\ files[CorrelationFile(k)].whole
      BY <3>1, FoundIsWhole
    <3>3. Found(k).createdAt = k.createdAt
      BY <3>2 DEF PruneInv, DatesFit, CorrelationFile
    <3>. QED BY <2>2, <3>1, <3>3
  <2>3. CASE d = c /\ cmd[c].at = "declining"
    <3>1. StoreDecline(c)
      BY <2>3, OneAction
    <3>2. Carries(c)
      BY <1>1, <3>1, WriteIs DEF StoreDecline
    <3>. QED BY <1>3, <2>3, <3>2 DEF Carries, Keeps, Local, Ended, PruneInv, DatesFit
  <2>. QED BY <1>1, <1>3, <2>1, <2>2, <2>3, Arrives
<1>. QED BY <1>2, <1>3 DEF DatesFit

LEMMA ListingDooms ==
  ASSUME PruneInv, NEW x \in Inspections, x \in Commands, ListExpired(x),
         cmd'[x].at = "deleting"
  PROVE  /\ UNCHANGED files /\ cmd'[x].stamp = cmd[x].stamp
         /\ \A path \in cmd'[x].doomed : path[1] = "correlations" =>
              path \in DOMAIN files /\ (Expired(path, cmd[x].stamp) \/ Outnumbered(path))
<1> DEFINE dir == NextDir(x)
<1>1. UNCHANGED files
  BY DEF ListExpired
<1>2. ~ Goto(x, "failed")
  BY GotoIs DEF PruneInv, GoesTo
<1>3. PICK S \in KeptSets(dir, cmd[x].stamp) :
        /\ Readable(dir)
        /\ Update(x, [at |-> IF S = {} THEN "emptying" ELSE "deleting",
                      doomed |-> In(dir) \ S])
  BY <1>2 DEF ListExpired
<1> HIDE DEF dir
<1>4. cmd'[x].doomed = In(dir) \ S /\ cmd'[x].stamp = cmd[x].stamp
  <2> DEFINE new == [at |-> IF S = {} THEN "emptying" ELSE "deleting",
                     doomed |-> In(dir) \ S]
  <2>1. "at" \in DOMAIN new /\ new.at \notin Ended
    BY DEF Ended
  <2>2. Sets(x, new)
    BY <1>3, <2>1, SetsIs DEF PruneInv
  <2>. QED BY <2>2 DEF Sets, Fields
<1>5. ASSUME NEW path \in In(dir) \ S, path[1] = "correlations"
      PROVE  path \in DOMAIN files /\ (Expired(path, cmd[x].stamp) \/ Outnumbered(path))
  <2>1. path \in DOMAIN files /\ dir = "correlations"
    BY <1>5 DEF In
  <2>. QED BY <1>3, <1>5, <2>1, ListedAreRight
<1>. QED BY <1>1, <1>4, <1>5

LEMMA DoomedStep ==
  ASSUME PruneInv, NEW c \in Commands, Call(c) \/ Step(c)
  PROVE  DoomedAreRight'
<1> SUFFICES ASSUME NEW x \in Inspections, cmd'[x].at = "deleting", OnlyRemover(x)',
                    NEW path \in cmd'[x].doomed, path[1] = "correlations"
             PROVE  /\ path \in DOMAIN files'
                    /\ Expired(path, cmd[x].stamp)' \/ Outnumbered(path)'
  BY DEF DoomedAreRight
<1>1. Shape /\ Alone(c) /\ x \in Commands /\ cmd'[c].at # "idle"
  BY SetsWhatFits, UpdateIs, Arrives DEF PruneInv, Commands
<1>2. CASE c = x
  <2>1. ListExpired(x)
    <3>1. cmd[x].at = "pruning"
      BY <1>1, <1>2, Arrives
    <3>2. PruneStep(x)
      BY <1>2, <3>1, OneAction
    <3>3. ~ ListRecords(x)
      BY <1>1, GotoIs DEF ListRecords, GoesTo
    <3>. QED BY <3>1, <3>2, <3>3 DEF PruneStep, DeleteDoomed, EmptyDir
  <2>2. /\ files' = files /\ cmd'[x].stamp = cmd[x].stamp
        /\ path \in DOMAIN files
        /\ Expired(path, cmd[x].stamp) \/ Outnumbered(path)
    BY <1>1, <2>1, ListingDooms
  <2>3. Outnumbered(path) => Outnumbered(path)'
    BY <2>2 DEF Outnumbered, In, DateOf
  <2>4. Expired(path, cmd[x].stamp) => Expired(path, cmd[x].stamp)'
    BY <2>2 DEF Expired, DateOf
  <2>. QED BY <2>2, <2>3, <2>4
<1>3. CASE c # x
  <2>1. cmd'[x] = cmd[x]
    BY <1>1, <1>3 DEF Alone
  <2>2. c \notin Inspections \cup Clears
    BY <1>1, <1>3 DEF OnlyRemover
  <2>3. OnlyRemover(x)
    BY <1>1, <2>2 DEF OnlyRemover, Alone, Commands
  <2>4. path \in DOMAIN files /\ (Expired(path, cmd[x].stamp) \/ Outnumbered(path))
    BY <2>1, <2>3 DEF PruneInv, DoomedAreRight
  <2>5. DOMAIN files \subseteq DOMAIN files'
    BY <1>1, <2>2, FilesAre
  <2>6. DateOf(path)' = DateOf(path)
    BY <2>4, <2>5
  <2>7. Expired(path, cmd[x].stamp) => Expired(path, cmd[x].stamp)'
    BY <2>1, <2>6 DEF Expired
  <2>8. Outnumbered(path) => Outnumbered(path)'
    BY <2>4, <2>5, FoundOutStays
  <2>. QED BY <2>4, <2>5, <2>7, <2>8
<1>. QED BY <1>2, <1>3

LEMMA PruneStepKeeps == PruneInv /\ [Next]_vars => PruneInv'
<1> SUFFICES ASSUME PruneInv, [Next]_vars PROVE PruneInv'
  OBVIOUS
<1>1. CASE Tick \/ UNCHANGED vars
  <2>1. cmd' = cmd /\ files' = files
    BY <1>1 DEF Tick, vars
  <2>2. Shape' /\ IsFiniteSet(In("correlations")') /\ DatesFit'
    BY <2>1 DEF PruneInv, Shape, DatesFit, In
  <2>3. DoomedAreRight'
    BY <2>1 DEF PruneInv, DoomedAreRight, OnlyRemover, Expired, Outnumbered, DateOf, In
  <2>. QED BY <2>2, <2>3 DEF PruneInv
<1>2. ASSUME NEW c \in Commands, Call(c) \/ Step(c) PROVE PruneInv'
  BY <1>2, ShapeNext, FewFiles, DatesStep, DoomedStep DEF PruneInv, Next
<1>. QED BY <1>1, <1>2 DEF Next

\* A prune deletes, of the dated records, what is too old or outnumbered, although
\* other commands have written since its listing, for any number of them, any
\* retention policy and any dates.
THEOREM PruneIsRight == Spec => PruneKeepsWithinLimits
<1> DEFINE Kept == \A x \in Inspections :
       /\ cmd[x].at = "deleting" /\ cmd'[x].at = "pruning"
       /\ \A c \in (Inspections \cup Clears) \ {x} : cmd[c].at = "idle"
       => \A path \in DOMAIN files \ DOMAIN files' :
            path[1] = "correlations" =>
              \/ ~ files[path].whole \/ ~ Young(path, cmd[x].stamp)
              \/ Cardinality({q \in In("correlations") \ {path} :
                   files[q].whole => files[q].createdAt >= files[path].createdAt})
                   >= MaxRecords
<1>1. Init => PruneInv
  <2> SUFFICES ASSUME Init PROVE PruneInv
    OBVIOUS
  <2>1. DOMAIN files = {ConfigFile} /\ \A c \in Commands : cmd[c].at = "idle"
    BY DEF Init
  <2>2. IsFiniteSet(In("correlations"))
    <3>1. In("correlations") = {}
      BY <2>1 DEF In, ConfigFile
    <3>. QED BY <3>1, FS_EmptySet
  <2>3. DatesFit
    BY <2>1 DEF DatesFit, ConfigFile
  <2>4. DoomedAreRight
    BY <2>1 DEF DoomedAreRight, Commands
  <2>. QED BY <2>2, <2>3, <2>4, ShapeInit DEF PruneInv
<1>2. PruneInv /\ [Next]_vars => Kept
  <2> SUFFICES ASSUME PruneInv, [Next]_vars, NEW x \in Inspections,
                      cmd[x].at = "deleting", cmd'[x].at = "pruning", OnlyRemover(x),
                      NEW path \in DOMAIN files, path \notin DOMAIN files',
                      path[1] = "correlations",
                      files[path].whole, Young(path, cmd[x].stamp)
               PROVE  Cardinality({q \in In(path[1]) \ {path} :
                        files[q].whole => files[q].createdAt >= files[path].createdAt})
                          >= MaxRecords
    BY DEF OnlyRemover
  <2> DEFINE Newer == {q \in In(path[1]) \ {path} :
                         files[q].whole => files[q].createdAt >= files[path].createdAt}
  <2>1. x \in Commands
    BY DEF Commands
  <2>2. PICK c \in Commands : Call(c) \/ Step(c)
    BY <2>1 DEF Next, Tick, vars
  <2>3. c = x
    BY <2>1, <2>2, SetsWhatFits, UpdateIs DEF Alone, PruneInv
  <2>4. DeleteDoomed(x)
    BY <2>1, <2>2, <2>3, OneAction DEF PruneStep, ListExpired, EmptyDir, ListRecords
  <2>5. path \in cmd[x].doomed
    BY <2>4 DEF DeleteDoomed, RemoveAll
  <2>6. \A q \in In(path[1]) : files[q].whole => files[q].createdAt = DateOf(q)
    BY DEF In, DateOf, PruneInv, DatesFit
  <2>7. files[path].createdAt = DateOf(path)
    BY <2>6 DEF In
  <2>8. ~ Expired(path, cmd[x].stamp)
    BY <2>7 DEF Expired, Young
  <2>9. PICK K \in SUBSET (In(path[1]) \ {path}) :
          Cardinality(K) >= MaxRecords /\ \A q \in K : DateOf(q) >= DateOf(path)
    BY <2>5, <2>8 DEF PruneInv, DoomedAreRight, Outnumbered
  <2>10. K \in SUBSET Newer
    BY <2>6, <2>7, <2>9
  <2>11. IsFiniteSet(Newer)
    <3>1. Newer \in SUBSET In("correlations")
      BY DEF In
    <3>. QED BY <3>1, FS_Subset DEF PruneInv
  <2> HIDE DEF Newer
  <2>12. Cardinality(K) <= Cardinality(Newer) /\ IsFiniteSet(K)
    BY <2>10, <2>11, FS_Subset
  <2>13. Cardinality(K) \in Nat /\ Cardinality(Newer) \in Nat
    BY <2>11, <2>12, FS_CardinalityType
  <2>14. Cardinality(Newer) >= MaxRecords
    BY <2>9, <2>12, <2>13, RetentionAssumption
  <2>. QED BY <2>14 DEF Newer
<1>3. Spec => [][Kept]_vars
  BY <1>1, <1>2, PruneStepKeeps, PTL DEF Spec
<1>. QED BY <1>3 DEF PruneKeepsWithinLimits

=============================================================================

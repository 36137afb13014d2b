-------------------------- MODULE CorrectiveCorpus --------------------------
(***************************************************************************)
(* The corpus commands of packages/scan/src/corpus: enumerate the pull     *)
(* requests a branch landed in a window, label them, and find the later    *)
(* changes that repaired them, up to a cut-off the caller names.  Each     *)
(* command reads files the ones before it left in a cache directory.       *)
(*                                                                         *)
(* Abstracted: a message is what the labeller's patterns make of it, an    *)
(* issue a fix closes is a bug, and changes of one day are simultaneous.   *)
(* The clone, GraphQL and the file system answer; a killed command is run  *)
(* again.  Rollups, bots that close the pull requests they land, and fixes *)
(* too large to blame are left out.                                        *)
(***************************************************************************)
EXTENDS Integers, Sequences, FiniteSets, FiniteSetsExt

CONSTANTS
  Arrivals,      \* changes and how they land, [how, says], per length of the branch
  Issues, Regressions,   \* issues reported, and those labelled a regression
  Until,         \* the cohort is what landed on the days before this one
  LastDay,       \* bound on the days
  CutOffs,       \* the cut-offs a label or a correction is asked for: starts of days
  MaxLandings,   \* bound on the commits of the branch
  MaxCitations,  \* bound on what issues cite
  MaxIssueOriginals,  \* an issue that cites more originals reports none
  MaxLag,        \* a fix later than this is no fix
  Spans,         \* the horizons of a label
  Unread         \* a file not written yet

ASSUME CorpusAssumption ==
  /\ {Until, LastDay, MaxLandings, MaxCitations, MaxIssueOriginals, MaxLag} \subseteq Nat
  /\ DOMAIN Arrivals = 0 .. MaxLandings /\ Regressions \subseteq Issues /\ Until > 0 /\ CutOffs \subseteq Nat

VARIABLES
  day,        \* today
  history,    \* first-parent commits: day, pull requests landed, message
  texts,      \* each pull request's own text
  citations,  \* [issue, original, day]: an issue cites a pull request
  synced,     \* commits the clone has
  cohort,     \* prs.jsonl
  xrefs,      \* cached cross-references of the cohort
  base,       \* s2.jsonl.gz: the day its labels were computed for
  fixPrs,     \* fix-prs.jsonl
  found       \* candidates.jsonl.gz and corrective.jsonl.gz, with their cut-off; no
              \* file tells what the clone had and whether the fix sources were fresh

worldVars == <<day, history, texts, citations>>
cacheVars == <<synced, cohort, xrefs, base, fixPrs, found>>
corpusVars == <<worldVars, cacheVars>>

Plain == [kind |-> "plain", of |-> 0, issue |-> 0, excluded |-> FALSE]

CorpusInit ==
  /\ day = 0 /\ history = <<>> /\ texts = <<>> /\ citations = {}
  /\ synced = 0
  /\ cohort = Unread /\ xrefs = Unread /\ base = Unread /\ fixPrs = Unread /\ found = Unread

-----------------------------------------------------------------------------
(* The repository: commits land, issues cite pull requests.                  *)
FirstLanding(n) == Min({i \in DOMAIN history : n \in history[i].prs})

Push(commits, said) ==
  /\ Len(history) + Len(commits) <= MaxLandings
  /\ history' = history \o commits
  /\ texts' = texts \o said
  /\ UNCHANGED <<day, citations, cacheVars>>

Landed(prs, message, members) ==
  [day |-> day, prs |-> prs, message |-> message, members |-> members]

NextPr == Len(texts) + 1

\* A squash or merge commit, a rebase of two commits, a batch of two pull
\* requests, a push without one, or a pull request that lands once more.
LandChange ==
  \E change \in Arrivals[Len(history)] : LET m == change.says IN
    \/ change.how = "squash" /\ Push(<<Landed({NextPr}, m, 1)>>, <<m>>)
    \/ change.how = "rebase" /\ Push(<<Landed({}, m, 1), Landed({NextPr}, Plain, 2)>>, <<Plain>>)
    \/ change.how = "batch" /\ Push(<<Landed({NextPr, NextPr + 1}, Plain, 1)>>, <<m, Plain>>)
    \/ change.how = "push" /\ Push(<<Landed({}, m, 1)>>, <<>>)
    \/ change.how = "again" /\ \E n \in DOMAIN texts : Push(<<Landed({n}, m, 1)>>, <<>>)

Cite ==
  /\ Cardinality(citations) < MaxCitations
  /\ \E i \in Issues, n \in DOMAIN texts :
       citations' = citations \cup {[issue |-> i, original |-> n, day |-> day]}
  /\ UNCHANGED <<day, history, texts, cacheVars>>

NextDay ==
  /\ day < LastDay /\ day' = day + 1
  /\ UNCHANGED <<history, texts, citations, cacheVars>>

-----------------------------------------------------------------------------
(* Enumeration: the pull requests that commits of a span of days landed.     *)
Span(from, until, last) == {i \in 1 .. last : history[i].day \in from .. until - 1}

\* A commit that lands only pull requests an earlier one of the span landed.
Relands(span, i) ==
  \A n \in history[i].prs : \E j \in span : j < i /\ n \in history[j].prs

\* A rebase merge claims the commit before it, unless that names a pull request.
Claimed(span, i) ==
  IF /\ history[i].members > 1 /\ i - 1 \in span /\ history[i - 1].prs = {}
  THEN {i - 1} ELSE {}

Record(span, n) ==
  LET landings == {i \in span : n \in history[i].prs}
      first == Min(landings)
  IN [pr |-> n, sha |-> first, day |-> history[FirstLanding(n)].day,
      members |-> Claimed(span, first),
      relanded |-> {i \in landings \ {first} : Relands(span, i)}]

Records(from, until, last) ==
  LET span == Span(from, until, last)
  IN {Record(span, n) : n \in UNION {history[i].prs : i \in span}}

\* corpus-enumerate, of a window that has closed.
Enumerate ==
  /\ day >= Until
  /\ synced' = Len(history)
  /\ cohort' = Records(0, Until, Len(history))
  /\ UNCHANGED <<worldVars, xrefs, base, fixPrs, found>>

\* Cross-references are fetched once: later commands find them in the cache.
CrossReferences == IF xrefs = Unread THEN citations ELSE xrefs

\* corpus-label
Label(asOf) ==
  /\ cohort # Unread
  /\ xrefs' = CrossReferences
  /\ base' = asOf
  /\ UNCHANGED <<worldVars, synced, cohort, fixPrs, found>>

-----------------------------------------------------------------------------
(* Fix events.                                                               *)
RevertCommits(asOf) == {i \in Span(0, asOf, synced) : history[i].message.kind = "revert"}

\* The pull request whose event a commit's message goes to.
EventOf(records, i) ==
  LET owners == {r.pr : r \in {q \in records : q.sha = i}}
  IN IF owners = {} THEN 0 ELSE Max(owners)

PrEvent(records, r, asOf) ==
  [pr |-> r.pr, sha |-> r.sha, day |-> r.day,
   says |-> {texts[r.pr]} \cup
     {history[i].message : i \in {c \in RevertCommits(asOf) : c = r.sha /\ EventOf(records, c) = r.pr}}]

CommitEvent(i) ==
  [pr |-> 0, sha |-> i, day |-> history[i].day, says |-> {history[i].message}]

Events(records, asOf) ==
  {PrEvent(records, r, asOf) : r \in records}
  \cup {CommitEvent(i) : i \in {c \in RevertCommits(asOf) : EventOf(records, c) = 0}}

-----------------------------------------------------------------------------
(* Candidates.                                                               *)
Shas(r) == {r.sha} \cup r.relanded

\* Beside TheOne, which is used: an ambiguous commit names the first.
TheFirst(records) == IF records = {} THEN {} ELSE {CHOOSE r \in records : \A q \in records : r.pr <= q.pr}

\* The one original a commit names; none when it is unknown or ambiguous.
TheOne(records) == IF Cardinality(records) = 1 THEN records ELSE {}

Named(i) == TheOne({r \in cohort : i \in Shas(r)})

\* Blame sees the commits of a rebase too.
Blamed(i) == TheOne({r \in cohort : i \in Shas(r) \cup r.members})

\* The originals an issue cited after they merged.
Citers(i) ==
  {r \in cohort : \E c \in CrossReferences : c.issue = i /\ c.original = r.pr /\ c.day > r.day}

Reported(i) == IF Cardinality(Citers(i)) > MaxIssueOriginals THEN {} ELSE Citers(i)

Reverts(e) == {m \in e.says : m.kind = "revert"}

\* The originals an event is linked to, and by which proxy.  A revert is
\* nothing else; only a pull request closes issues.
Proposed(e) ==
  LET cited == {m.of : m \in {n \in e.says : n.kind = "cite"}}
      fixes == {m \in e.says : m.kind = "fix"}
      reported == UNION {Reported(m.issue) : m \in fixes}
      regressed == UNION {Reported(m.issue) : m \in {n \in fixes : n.issue \in Regressions}}
  IN IF Reverts(e) # {} THEN (UNION {Named(m.of) : m \in Reverts(e)}) \X {"revert"}
     ELSE ({r \in cohort : r.pr \in cited} \cup reported) \X {"repair_reference"}
          \cup regressed \X {"regression_issue"}
          \cup (UNION {Blamed(m.of) : m \in fixes}) \X {"szz"}

InTime(r, e) == r.pr # e.pr /\ e.day - r.day \in 1 .. MaxLag

\* The fix's identity: its pull request, else its commit.
Fix(e) == IF e.pr # 0 THEN <<"pr", e.pr>> ELSE <<"commit", e.sha>>

\* Kept, but rejected: backports and the like, and reverts of reverts.
Excluded(e, r, proxy) ==
  (\E m \in e.says : m.excluded) \/ (proxy = "revert" /\ texts[r.pr].kind = "revert")

Drafts(records, asOf) ==
  UNION {{[original |-> p[1].pr, fix |-> Fix(e), proxy |-> p[2], lag |-> e.day - p[1].day,
           on |-> e.day, rejected |-> Excluded(e, p[1], p[2])] :
            p \in {q \in Proposed(e) : InTime(q[1], e)}} : e \in Events(records, asOf)}

Id(c) == <<c.original, c.fix, c.proxy>>

\* One per original, fix and proxy: one exclusion rejects it.
Candidates(records, asOf) ==
  LET drafts == Drafts(records, asOf)
  IN {d \in drafts : d.rejected \/ ~ \E q \in drafts : Id(q) = Id(d) /\ q.rejected}

Accepted(candidates) == {c \in candidates : ~c.rejected}

\* A row per original and horizon, null while its base label is missing.
Corrective(r, h, accepted) ==
  IF base < r.day + h THEN "null"
  ELSE IF \E c \in accepted : c.original = r.pr /\ c.lag <= h THEN "true" ELSE "false"

\* Beside FixSources, which is used: those since the last cut-off.
NewFixSources(asOf) ==
  Records(IF found = Unread THEN Until ELSE Max({Until, found.asOf}), asOf, synced)

\* corpus-corrective.  The fix sources are enumerated once, up to the cut-off
\* of that run.
FixSources(asOf) ==
  IF fixPrs # Unread THEN fixPrs
  ELSE IF Until < asOf THEN Records(Until, asOf, synced) ELSE {}

Correct(asOf) ==
  /\ base # Unread
  /\ xrefs' = CrossReferences
  /\ fixPrs' = IF Until < asOf THEN FixSources(asOf) ELSE fixPrs
  /\ LET candidates == Candidates(cohort \cup FixSources(asOf), asOf) IN
       found' = [asOf |-> asOf, seen |-> synced, fresh |-> fixPrs = Unread,
                 candidates |-> candidates,
                 rows |-> [n \in {r.pr : r \in cohort} |-> [h \in Spans |->
                   Corrective(CHOOSE r \in cohort : r.pr = n, h, Accepted(candidates))]]]
  /\ UNCHANGED <<worldVars, synced, cohort, base>>

CorpusNext ==
  \/ LandChange \/ Cite \/ NextDay
  \/ Enumerate
  \/ \E asOf \in {d \in CutOffs : d <= day} : Label(asOf) \/ Correct(asOf)

-----------------------------------------------------------------------------
(* Properties.                                                               *)
\* What a change says repairs pull request n: it reverts a commit of the window
\* that landed n alone, or cites n, or closes an issue that blames n and hardly
\* another, or changes lines n landed in the window.
Repairs(m, n) ==
  LET about(k) == {c \in xrefs : c.issue = m.issue /\ c.original = k
                     /\ c.day > history[FirstLanding(k)].day}
      inWindow(i) == i \in DOMAIN history /\ history[i].day < Until
      landedHere == IF inWindow(m.of) THEN history[m.of].prs ELSE {}
      next == m.of + 1
  IN CASE m.kind = "revert" -> landedHere = {n}
       [] m.kind = "cite" -> m.of = n
       [] m.kind = "fix" ->
            \/ about(n) # {}
               /\ Cardinality({r.pr : r \in {q \in cohort : about(q.pr) # {}}}) <= MaxIssueOriginals
            \/ landedHere = {n}
            \/ history[m.of].prs = {} /\ inWindow(next) /\ history[next].prs = {n}
               /\ history[next].members = 2 /\ FirstLanding(n) = next
       [] OTHER -> FALSE

\* The changes on the branch: what they are, say, and when they landed.
Changes ==
  {[fix |-> <<"pr", n>>, says |-> texts[n], on |-> history[FirstLanding(n)].day,
    last |-> FirstLanding(n)] : n \in DOMAIN texts}
  \cup {[fix |-> <<"commit", i>>, says |-> history[i].message, on |-> history[i].day, last |-> i] :
          i \in {j \in DOMAIN history : history[j].prs = {} /\ history[j].message.kind = "revert"}}

Repaired(change) ==
  {n \in {r.pr : r \in cohort} :
     /\ Repairs(change.says, n) /\ change.fix # <<"pr", n>>
     /\ change.on - history[FirstLanding(n)].day \in 1 .. MaxLag
     /\ ~change.says.excluded
     /\ ~(change.says.kind = "revert" /\ texts[n].kind = "revert")}

\* A commit that lands pull request n again and says it reverts something speaks
\* for itself or for n, by the records its run has: neither is one fix.
Twofold(fix) ==
  \E i \in DOMAIN history : \E n \in history[i].prs :
    /\ history[i].message.kind = "revert" /\ FirstLanding(n) # i
    /\ fix \in {<<"pr", n>>, <<"commit", i>>}

\* The accepted links are those the branch and the issues bear out: none is
\* read out of a commit several pull requests share, an issue that came first
\* or tracks many, or the pull request itself; and a run that enumerates its
\* fix sources misses none the clone had before the cut-off, in the cohort or
\* after it, squashed, rebased, landed twice or pushed.  Twofold fixes, and runs
\* that find their fix sources cached, are left out.
LinksAreExact ==
  found # Unread /\ found.fresh =>
    LET links == {<<c.original, c.fix>> : c \in {d \in Accepted(found.candidates) : ~Twofold(d.fix)}}
        truth(changes) == UNION {{<<n, c.fix>> : n \in Repaired(c)} : c \in changes}
    IN /\ links \subseteq truth(Changes)
       /\ truth({c \in Changes : c.last <= found.seen /\ c.on < found.asOf /\ ~Twofold(c.fix)})
            \subseteq links

\* A later run, to a later cut-off, takes no accepted link back and gives it no
\* other identity, and no row that was true turns false: but for twofold fixes.
LinksStay ==
  [][found # Unread /\ found'.asOf >= found.asOf =>
       /\ {Id(c) : c \in {d \in Accepted(found.candidates) : ~Twofold(d.fix)}}
            \subseteq {Id(c) : c \in Accepted(found'.candidates)}
       /\ \A n \in DOMAIN found.rows : \A h \in Spans :
            \/ found.rows[n][h] # "true" \/ found'.rows[n][h] # "false"
            \/ \E c \in Accepted(found.candidates) : c.original = n /\ Twofold(c.fix)]_corpusVars

\* "Corpus cut-off: no fix after this is considered"
NoFixAfterCutoff ==
  found # Unread => \A c \in found.candidates : c.on < found.asOf
=============================================================================

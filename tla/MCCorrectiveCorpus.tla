------------------------- MODULE MCCorrectiveCorpus -------------------------
\* Small instances of CorrectiveCorpus.
EXTENDS CorrectiveCorpus

Said(kind, of) == [Plain EXCEPT !.kind = kind, !.of = of]
Closing(of) == [Said("fix", of) EXCEPT !.issue = 1]

Lands(how, says) == [how |-> how, says |-> says]

\* The second commit reverts or fixes the first; the third also reverts the
\* second, cites the first, lands a pull request again as a revert, or is a
\* backport of a revert.
MCArrivals ==
  [n \in 0 .. MaxLandings |->
    IF n = 0 THEN {Lands(how, Plain) : how \in {"squash", "rebase", "batch", "push"}}
    ELSE {Lands("squash", says) : says \in {Plain, Said("revert", 1), Closing(1)}}
         \cup {Lands("push", Said("revert", 1)), Lands("again", Plain)}
         \cup IF n = 1 THEN {Lands("rebase", Said("revert", 1)), Lands("batch", Closing(1))}
              ELSE {Lands("push", Said("revert", 2)), Lands("squash", Said("revert", 2)),
                    Lands("squash", Said("cite", 1)), Lands("again", Said("revert", 1)),
                    Lands("squash", [Said("revert", 1) EXCEPT !.excluded = TRUE])}]

CorpusSpec == CorpusInit /\ [][CorpusNext]_corpusVars

\* What no command heeds is left out: changes and citations of the last day,
\* and citations made once they are cached.  The clone lacks one change at most,
\* and labels are of the last day.
Heeded ==
  /\ \A i \in DOMAIN history : history[i].day < LastDay
  /\ \A c \in citations : c.day < LastDay
  /\ xrefs # Unread => citations = xrefs
  /\ cohort # Unread => Len(history) <= synced + 1
  /\ base \in {Unread, LastDay}
=============================================================================

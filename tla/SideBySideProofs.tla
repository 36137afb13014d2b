-------------------------- MODULE SideBySideProofs --------------------------
(***************************************************************************)
(* What holds of the three components MCSideBySide puts side by side, for  *)
(* every value of their constants: what the cost tracker's count is worth, *)
(* which decision and correlation the router files an outcome under, and   *)
(* what the corpus commands accept as a corrective link.                   *)
(***************************************************************************)
EXTENDS CostTracker, Router, MCCorrectiveCorpus, FiniteSetTheorems, SequenceTheorems,
        WellFoundedInduction, TLAPS

-----------------------------------------------------------------------------
(***************************************************************************)
(* The cost tracker: what its count and its generated ids are worth, proved *)
(* from the specification CostTracker for any calls, overlapping or not.   *)
(***************************************************************************)

\* A flush in progress: what it has given the ledger is there, and what it answers
\* for is there or in its slice.
FlightSound(f) ==
  /\ f.taken <= Len(f.pending)
  /\ \A i \in 1..f.taken : f.pending[i] \in records
  /\ \A x \in f.due : x \in records \/ \E i \in 1..Len(f.pending) : f.pending[i] = x

\* What holds of any calls.
Base ==
  /\ TrackerTypeOK
  /\ claimed \subseteq records
  /\ DefaultIdsFresh
  /\ \A n \in DOMAIN flights : FlightSound(flights[n])

\* The accepted events the flush in progress is about: counted or in its slice.
Through(f) == persistedCount + Len(f.pending)

\* The one flush in progress: its slice follows the counted events.
FlightFits(f) ==
  /\ Through(f) <= Len(acceptedEvents)
  /\ \A i \in 1..Len(f.pending) : f.pending[i] = acceptedEvents[persistedCount + i]
  /\ f.final <=> stage = "ending"
  /\ f.final => Through(f) = Len(acceptedEvents)

Counted ==
  /\ persistedCount <= Len(acceptedEvents)
  /\ \A i \in 1..persistedCount : acceptedEvents[i] \in records

\* What holds until a flush overlaps another.
Serial ==
  /\ Counted
  /\ Len(flights) <= 1
  /\ flights # <<>> => FlightFits(flights[1])
  /\ stage = "ending" => flights # <<>>
  /\ stage = "done" => flights = <<>>
  /\ stage = "done" /\ ~flushFailed => persistedCount = Len(acceptedEvents)

TInv == Base /\ (~overlapped => Serial)

-----------------------------------------------------------------------------
(***************************************************************************)
(* Generated ids.                                                          *)
(***************************************************************************)
\* Of one more number than there are accepted events, one is no event's id, and
\* the first such number is the next id.
LEMMA NextIsFresh ==
  ASSUME acceptedEvents \in Seq(EventIds), seenEventIds = ToSet(acceptedEvents),
         eventCounter \in Nat
  PROVE  NextCounter \in Nat /\ NextCounter > eventCounter /\ NextCounter \notin seenEventIds
<1> DEFINE len   == Len(acceptedEvents)
           range == (eventCounter + 1)..(eventCounter + len + 1)
           Fresh(n) == n \notin seenEventIds /\ \A m \in (eventCounter + 1)..(n - 1) : m \in seenEventIds
<1>1. len \in Nat /\ DOMAIN acceptedEvents = 1..len
  OBVIOUS
<1>2. IsFiniteSet(seenEventIds) /\ Cardinality(seenEventIds) <= len
  <2>1. acceptedEvents \in Surjection(1..len, seenEventIds)
    BY <1>1 DEF Surjection, ToSet
  <2>2. IsFiniteSet(1..len) /\ Cardinality(1..len) = len
    <3>1. IsFiniteSet(1..len)
          /\ Cardinality(1..len) = IF 1 > len THEN 0 ELSE len - 1 + 1
      BY <1>1, FS_Interval
    <3>. QED BY <1>1, <3>1
  <2>3. IsFiniteSet(seenEventIds) /\ Cardinality(seenEventIds) <= Cardinality(1..len)
    BY <2>1, <2>2, FS_Surjection
  <2>. QED BY <2>2, <2>3
<1>3. \E n \in range : n \notin seenEventIds
  <2> SUFFICES ASSUME range \subseteq seenEventIds PROVE FALSE
    OBVIOUS
  <2>1. Cardinality(range) = len + 1
    <3>1. Cardinality(range) = (eventCounter + len + 1) - (eventCounter + 1) + 1
      BY <1>1, FS_Interval
    <3>. QED BY <1>1, <3>1
  <2>2. Cardinality(range) <= Cardinality(seenEventIds)
    BY <1>2, FS_Subset
  <2>3. Cardinality(seenEventIds) \in Nat
    BY <1>2, FS_CardinalityType
  <2> HIDE DEF range
  <2>. QED BY <1>1, <1>2, <2>1, <2>2, <2>3
<1>4. PICK n \in range : Fresh(n)
  <2> DEFINE S    == {k \in range : k \notin seenEventIds}
             Less == OpToRel(<, Nat)
  <2>1. S \subseteq Nat /\ S # {}
    BY <1>1, <1>3
  <2>2. IsWellFoundedOn(Less, Nat)
    BY NatLessThanWellFounded
  <2>3. \E n \in S : \A k \in S : ~ (<<k, n>> \in Less)
    <3> HIDE DEF S, Less
    <3>. QED BY <2>1, <2>2, WFMin
  <2>4. \A k, n \in Nat : k < n => <<k, n>> \in Less
    BY DEF OpToRel
  <2>5. PICK n \in S : \A k \in S : ~ (k < n)
    BY <2>1, <2>3, <2>4
  <2>. QED BY <1>1, <2>5
<1>5. NextCounter \in range /\ Fresh(NextCounter)
  BY <1>4 DEF NextCounter
<1>. QED BY <1>1, <1>5
-----------------------------------------------------------------------------
(***************************************************************************)
(* Each operation keeps what holds of any calls.                           *)
(***************************************************************************)
\* An event at the end moves no earlier one.
LEMMA Appended ==
  ASSUME NEW s \in Seq(EventIds), NEW x \in EventIds
  PROVE  /\ Append(s, x) \in Seq(EventIds) /\ Len(Append(s, x)) = Len(s) + 1 /\ Len(s) \in Nat
         /\ \A i \in 1..Len(s) : Append(s, x)[i] = s[i]
         /\ ToSet(Append(s, x)) = ToSet(s) \cup {x}
<1> DEFINE new == Append(s, x)
<1>1. /\ new \in Seq(EventIds) /\ Len(new) = Len(s) + 1 /\ Len(s) \in Nat
      /\ DOMAIN new = 1..(Len(s) + 1) /\ DOMAIN s = 1..Len(s)
      /\ \A i \in 1..Len(s) : new[i] = s[i]
      /\ new[Len(s) + 1] = x
  OBVIOUS
<1> HIDE DEF new
<1>2. \A y : y \in ToSet(new) <=> y \in ToSet(s) \cup {x}
  BY <1>1 DEF ToSet
<1>. QED BY <1>1, <1>2 DEF new

\* What is left of a sequence without one element is of it.
LEMMA Removed ==
  ASSUME NEW S, NEW s \in Seq(S), NEW n \in DOMAIN s
  PROVE  /\ RemoveAt(s, n) \in Seq(S)
         /\ \A i \in DOMAIN RemoveAt(s, n) : \E j \in DOMAIN s : RemoveAt(s, n)[i] = s[j]
<1> DEFINE before == SubSeq(s, 1, n - 1)
           after  == SubSeq(s, n + 1, Len(s))
<1>1. Len(s) \in Nat /\ n \in 1..Len(s) /\ DOMAIN s = 1..Len(s)
  OBVIOUS
<1>2. /\ before \in Seq(S) /\ Len(before) = n - 1
      /\ \A i \in 1..(n - 1) : before[i] = s[i]
  BY <1>1
<1>3. /\ after \in Seq(S) /\ Len(after) = Len(s) - n
      /\ \A i \in 1..(Len(s) - n) : after[i] = s[n + i]
  BY <1>1
<1>4. RemoveAt(s, n) = before \o after
  BY DEF RemoveAt
<1> HIDE DEF before, after
<1>5. /\ before \o after \in Seq(S) /\ DOMAIN (before \o after) = 1..(Len(s) - 1)
      /\ \A i \in 1..(Len(s) - 1) :
           (before \o after)[i] = IF i <= n - 1 THEN before[i] ELSE after[i - (n - 1)]
  <2>1. /\ before \o after \in Seq(S) /\ Len(before \o after) = Len(before) + Len(after)
        /\ \A i \in 1..Len(before \o after) :
             (before \o after)[i] = IF i <= Len(before) THEN before[i] ELSE after[i - Len(before)]
    <3>1. before \in Seq(S) /\ after \in Seq(S)
      BY <1>2, <1>3
    <3>. QED BY <3>1, ConcatProperties
  <2>2. Len(before) + Len(after) = Len(s) - 1
    BY <1>1, <1>2, <1>3
  <2>3. DOMAIN (before \o after) = 1..Len(before \o after)
    BY <2>1
  <2>. QED BY <1>2, <2>1, <2>2, <2>3
<1>6. \A i \in 1..(Len(s) - 1) : \E j \in DOMAIN s : (before \o after)[i] = s[j]
  <2> TAKE i \in 1..(Len(s) - 1)
  <2>0. i \in Nat /\ n \in Nat
    BY <1>1
  <2>1. CASE i <= n - 1
    <3>1. i \in DOMAIN s /\ i \in 1..(n - 1)
      BY <1>1, <2>1
    <3>2. (before \o after)[i] = before[i]
      BY <1>5, <2>1
    <3>. QED BY <1>2, <3>1, <3>2
  <2>2. CASE i > n - 1
    <3>1. i - (n - 1) \in 1..(Len(s) - n) /\ n + (i - (n - 1)) = i + 1 /\ i + 1 \in DOMAIN s
      BY <1>1, <2>2
    <3>2. ~(i <= n - 1)
      BY <2>0, <2>2
    <3>3. (before \o after)[i] = after[i - (n - 1)]
      BY <1>5, <3>2
    <3>. QED BY <1>3, <3>1, <3>3
  <2>3. i <= n - 1 \/ i > n - 1
    BY <2>0
  <2>. QED BY <2>1, <2>2, <2>3
<1>. QED BY <1>4, <1>5, <1>6

\* Flushes stay sound as the ledger grows.
LEMMA SoundStays ==
  ASSUME NEW f, FlightSound(f), records \subseteq records'
  PROVE  /\ f.taken <= Len(f.pending)
         /\ \A i \in 1..f.taken : f.pending[i] \in records'
         /\ \A x \in f.due : x \in records' \/ \E i \in 1..Len(f.pending) : f.pending[i] = x
BY DEF FlightSound

\* The flushes after a step are sound if each is like one before.
LEMMA AllSound ==
  ASSUME Base, records \subseteq records',
         \A n \in DOMAIN flights' : \E m \in DOMAIN flights : flights'[n] = flights[m]
  PROVE  (\A n \in DOMAIN flights : FlightSound(flights[n]))'
<1>1. ASSUME NEW n \in DOMAIN flights'
      PROVE  LET f == flights'[n] IN
             /\ f.taken <= Len(f.pending)
             /\ \A i \in 1..f.taken : f.pending[i] \in records'
             /\ \A x \in f.due : x \in records' \/ \E i \in 1..Len(f.pending) : f.pending[i] = x
  <2>1. PICK m \in DOMAIN flights : flights'[n] = flights[m]
    OBVIOUS
  <2>2. FlightSound(flights[m])
    BY DEF Base
  <2>. QED BY <2>1, <2>2, SoundStays
<1>. QED BY <1>1 DEF FlightSound

LEMMA IngestKeepsBase ==
  ASSUME Base, NEW id \in EventIds, NEW generated \in BOOLEAN,
         IngestInto(id, generated), generated => id \notin seenEventIds,
         eventCounter' \in 0..MaxCounter, UntouchedByRecording
  PROVE  Base'
<1>1. UNCHANGED <<persistedCount, flights, stage, flushFailed, records, acked, claimed, failures, overlapped>>
  BY DEF UntouchedByRecording
<1>2. result' \in Results /\ DefaultIdsFresh'
  BY DEF IngestInto, Accept, Reject, Results, DefaultIdsFresh
<1>3. acceptedEvents' \in Seq(EventIds) /\ seenEventIds' = ToSet(acceptedEvents')
  <2>1. acceptedEvents \in Seq(EventIds) /\ seenEventIds = ToSet(acceptedEvents)
    BY DEF Base, TrackerTypeOK
  <2>. QED BY <2>1, Appended DEF IngestInto, Accept, Reject
<1>4. TrackerTypeOK'
  BY <1>1, <1>2, <1>3 DEF Base, TrackerTypeOK
<1>5. (\A n \in DOMAIN flights : FlightSound(flights[n]))'
  BY <1>1, AllSound
<1>. QED BY <1>1, <1>2, <1>4, <1>5 DEF Base

\* The slice a flush begins with, and what is in it while none has overlapped.
LEMMA PendingIs ==
  ASSUME Base
  PROVE  /\ Pending \in Seq(EventIds)
         /\ persistedCount \in Nat /\ Len(acceptedEvents) \in Nat
         /\ Serial => /\ Len(Pending) = Len(acceptedEvents) - persistedCount
                      /\ \A i \in 1..Len(Pending) : Pending[i] = acceptedEvents[persistedCount + i]
<1>1. acceptedEvents \in Seq(EventIds) /\ persistedCount \in Nat /\ Len(acceptedEvents) \in Nat
  BY DEF Base, TrackerTypeOK
<1>2. CASE persistedCount <= Len(acceptedEvents)
  BY <1>1, <1>2 DEF Pending
<1>3. CASE persistedCount > Len(acceptedEvents)
  <2>1. Pending = <<>>
    BY <1>1, <1>3 DEF Pending
  <2>2. ~Serial
    BY <1>1, <1>3 DEF Serial, Counted
  <2>. QED BY <1>1, <2>1, <2>2
<1>. QED BY <1>1, <1>2, <1>3

\* Every accepted event is in the ledger or in the slice.
LEMMA PendingCovers ==
  ASSUME Base, Serial, NEW x \in ToSet(acceptedEvents)
  PROVE  x \in records \/ \E i \in 1..Len(Pending) : Pending[i] = x
<1>1. acceptedEvents \in Seq(EventIds) /\ Counted
  BY DEF Base, TrackerTypeOK, Serial
<1>2. PICK k \in 1..Len(acceptedEvents) : acceptedEvents[k] = x
  BY <1>1 DEF ToSet
<1>3. CASE k <= persistedCount
  BY <1>2, <1>3, PendingIs DEF Counted, Serial
<1>4. CASE k > persistedCount
  <2>1. k - persistedCount \in 1..Len(Pending) /\ persistedCount + (k - persistedCount) = k
    BY <1>2, <1>4, PendingIs
  <2>. QED BY <1>2, <2>1, PendingIs
<1>. QED BY <1>2, <1>3, <1>4, PendingIs

\* A flush begins sound, and answers at once for what is counted.
LEMMA FlushKeepsBase ==
  ASSUME TInv, Flush \/ End
  PROVE  Base'
<1>1. /\ Base /\ stage = "running" /\ overlapped' = (overlapped \/ flights # <<>>)
      /\ UNCHANGED <<tracker, persistedCount, flushFailed, result, ledger, failures>>
  BY DEF TInv, Flush, End
<1>2. /\ acceptedEvents' = acceptedEvents /\ seenEventIds' = seenEventIds
      /\ eventCounter' = eventCounter /\ records' = records /\ acked' = acked
      /\ persistedCount' = persistedCount /\ flushFailed' = flushFailed
      /\ result' = result /\ failures' = failures
  BY <1>1 DEF tracker, ledger
<1>3. overlapped \in BOOLEAN /\ overlapped' \in BOOLEAN /\ flights \in Seq(Flights)
      /\ acceptedEvents \in Seq(EventIds)
  BY <1>1 DEF Base, TrackerTypeOK
<1>4. Due \subseteq EventIds
      /\ \A x \in Due : x \in records \/ \E i \in 1..Len(Pending) : Pending[i] = x
  <2>1. CASE overlapped'
    BY <2>1 DEF Due
  <2>2. CASE ~overlapped'
    <3>1. Serial
      BY <1>1, <2>2 DEF TInv
    <3>2. Due = ToSet(acceptedEvents) /\ ToSet(acceptedEvents) \subseteq EventIds
      BY <1>3, <2>2 DEF Due, ToSet
    <3>. QED BY <1>1, <3>1, <3>2, PendingCovers
  <2>. QED BY <2>1, <2>2
<1>5. CASE Pending = <<>>
  <2>1. Due \subseteq records
    BY <1>4, <1>5
  <2>2. claimed' \subseteq records /\ flights' = flights /\ stage' \in {"running", "done"}
    BY <1>1, <1>5, <2>1 DEF Flush, End, Base
  <2>3. TrackerTypeOK'
    BY <1>1, <1>2, <1>3, <2>2 DEF Base, TrackerTypeOK
  <2>4. (\A n \in DOMAIN flights : FlightSound(flights[n]))'
    BY <1>1, <1>2, <2>2, AllSound
  <2>. QED BY <1>1, <1>2, <2>2, <2>3, <2>4 DEF Base, DefaultIdsFresh
<1>6. CASE Pending # <<>>
  <2>1. PICK final \in BOOLEAN : flights' = Append(flights, NewFlight(final))
    BY <1>1, <1>6 DEF Flush, End
  <2>2. PICK f \in Flights : /\ flights' = Append(flights, f)
                             /\ f.pending = Pending /\ f.taken = 0 /\ f.due = Due
    <3>1. NewFlight(final) \in Flights
      BY <1>1, <1>4, PendingIs DEF NewFlight, Flights
    <3>2. /\ NewFlight(final).pending = Pending /\ NewFlight(final).taken = 0
          /\ NewFlight(final).due = Due
      BY DEF NewFlight
    <3>. QED BY <2>1, <3>1, <3>2
  <2>3. claimed' = claimed /\ stage' \in {"running", "ending"}
    BY <1>1, <1>6 DEF Flush, End
  <2>4. /\ flights' \in Seq(Flights) /\ DOMAIN flights' = 1..(Len(flights) + 1)
        /\ flights'[Len(flights) + 1] = f /\ Len(flights) \in Nat /\ DOMAIN flights = 1..Len(flights)
        /\ \A n \in DOMAIN flights : flights'[n] = flights[n]
    BY <1>3, <2>2
  <2>5. TrackerTypeOK'
    BY <1>1, <1>2, <1>3, <2>3, <2>4 DEF Base, TrackerTypeOK
  <2>6. /\ f.taken <= Len(f.pending)
        /\ \A i \in 1..f.taken : f.pending[i] \in records'
        /\ \A x \in f.due : x \in records' \/ \E i \in 1..Len(f.pending) : f.pending[i] = x
    <3>1. Len(Pending) \in Nat
      BY <1>1, PendingIs
    <3>2. \A i \in 1..f.taken : FALSE
      BY <2>2
    <3>. QED BY <1>2, <1>4, <2>2, <3>1, <3>2
  <2>7. \A n \in DOMAIN flights :
          /\ flights'[n].taken <= Len(flights'[n].pending)
          /\ \A i \in 1..flights'[n].taken : flights'[n].pending[i] \in records'
          /\ \A x \in flights'[n].due :
               x \in records' \/ \E i \in 1..Len(flights'[n].pending) : flights'[n].pending[i] = x
    <3>1. \A n \in DOMAIN flights : FlightSound(flights[n])
      BY <1>1 DEF Base
    <3>. QED BY <1>2, <2>4, <3>1, SoundStays
  <2>8. (\A n \in DOMAIN flights : FlightSound(flights[n]))'
    <3>1. \A n \in DOMAIN flights' : n \in DOMAIN flights \/ n = Len(flights) + 1
      BY <2>4
    <3>. QED BY <2>4, <2>6, <2>7, <3>1 DEF FlightSound
  <2>. QED BY <1>1, <1>2, <2>3, <2>5, <2>8 DEF Base, DefaultIdsFresh
<1>. QED BY <1>5, <1>6

LEMMA ResetKeepsBase ==
  ASSUME Base, Reset
  PROVE  Base'
<1>1. /\ acceptedEvents' = <<>> /\ seenEventIds' = {} /\ eventCounter' = 0 /\ persistedCount' = 0
      /\ overlapped' \in BOOLEAN
      /\ UNCHANGED <<flights, stage, flushFailed, result, records, acked, claimed, failures>>
  BY DEF Reset, CountAfterReset, ledger
<1>2. ToSet(<<>>) = {} /\ <<>> \in Seq(EventIds) /\ 0 \in 0..MaxCounter
  BY TrackerAssumption DEF ToSet
<1>3. TrackerTypeOK'
  BY <1>1, <1>2 DEF Base, TrackerTypeOK
<1>4. (\A n \in DOMAIN flights : FlightSound(flights[n]))'
  BY <1>1, AllSound
<1>. QED BY <1>1, <1>3, <1>4 DEF Base, DefaultIdsFresh

\* The ledger's next entry is an event of a flush in progress.
LEMMA Serving ==
  ASSUME Base, NEW n \in Unserved
  PROVE  /\ n \in DOMAIN flights /\ flights[n] \in Flights /\ FlightSound(flights[n])
         /\ flights[n].taken \in Nat /\ flights[n].pending \in Seq(EventIds)
         /\ Len(flights[n].pending) \in Nat /\ flights[n].taken < Len(flights[n].pending)
         /\ Entry(n) = flights[n].pending[flights[n].taken + 1] /\ Entry(n) \in EventIds
<1>1. n \in DOMAIN flights /\ flights[n].taken < Len(flights[n].pending)
  BY DEF Unserved
<1>2. flights[n] \in Flights /\ FlightSound(flights[n])
  BY <1>1 DEF Base, TrackerTypeOK
<1>3. flights[n].taken \in Nat /\ flights[n].pending \in Seq(EventIds)
  BY <1>2 DEF Flights
<1>4. flights[n].taken + 1 \in 1..Len(flights[n].pending)
  BY <1>1, <1>3
<1>. QED BY <1>1, <1>2, <1>3, <1>4 DEF Entry

LEMMA AppendKeepsBase ==
  ASSUME Base, AppendEntry
  PROVE  Base'
<1>1. PICK n \in Unserved : /\ Store!Acknowledge(Entry(n))
                            /\ flights' = [flights EXCEPT ![n].taken = @ + 1]
  BY DEF AppendEntry
<1> DEFINE f == flights[n]
           g == [f EXCEPT !.taken = @ + 1]
<1>2. /\ n \in DOMAIN flights /\ f \in Flights /\ FlightSound(f) /\ f.taken \in Nat
      /\ Len(f.pending) \in Nat /\ f.taken < Len(f.pending)
      /\ Entry(n) = f.pending[f.taken + 1] /\ Entry(n) \in EventIds
  BY Serving
<1>3. /\ records' = records \cup {Entry(n)} /\ acked' = acked \cup {Entry(n)}
      /\ UNCHANGED <<acceptedEvents, seenEventIds, eventCounter, persistedCount, stage,
                     flushFailed, result, claimed, failures, overlapped>>
  BY <1>1 DEF AppendEntry, Store!Acknowledge, tracker
<1>4. /\ g \in Flights /\ g.pending = f.pending /\ g.due = f.due /\ g.taken = f.taken + 1
  BY <1>2 DEF Flights
<1>5. flights \in Seq(Flights)
  BY DEF Base, TrackerTypeOK
<1>6. flights' = [flights EXCEPT ![n] = g]
  BY <1>1
<1> HIDE DEF g
<1>7. /\ flights' \in Seq(Flights) /\ DOMAIN flights' = DOMAIN flights /\ flights'[n] = g
      /\ \A m \in DOMAIN flights : m # n => flights'[m] = flights[m]
  BY <1>2, <1>4, <1>5, <1>6
<1>8. TrackerTypeOK'
  BY <1>2, <1>3, <1>7 DEF Base, TrackerTypeOK
<1>9. /\ g.taken <= Len(g.pending)
      /\ \A i \in 1..g.taken : g.pending[i] \in records'
      /\ \A x \in g.due : x \in records' \/ \E i \in 1..Len(g.pending) : g.pending[i] = x
  <2>1. \A i \in 1..g.taken : i \in 1..f.taken \/ i = f.taken + 1
    BY <1>2, <1>4
  <2> HIDE DEF f
  <2>2. \A i \in 1..g.taken : g.pending[i] \in records'
    BY <1>2, <1>3, <1>4, <2>1 DEF FlightSound
  <2>3. g.taken <= Len(g.pending)
    BY <1>2, <1>4
  <2>. QED BY <1>2, <1>3, <1>4, <2>2, <2>3 DEF FlightSound
<1>10. \A m \in DOMAIN flights : m # n =>
         /\ flights'[m].taken <= Len(flights'[m].pending)
         /\ \A i \in 1..flights'[m].taken : flights'[m].pending[i] \in records'
         /\ \A x \in flights'[m].due :
              x \in records' \/ \E i \in 1..Len(flights'[m].pending) : flights'[m].pending[i] = x
  <2>1. records \subseteq records' /\ \A m \in DOMAIN flights : FlightSound(flights[m])
    BY <1>3 DEF Base
  <2>. QED BY <1>7, <2>1, SoundStays
<1>11. (\A m \in DOMAIN flights : FlightSound(flights[m]))'
  BY <1>7, <1>9, <1>10 DEF FlightSound
<1>. QED BY <1>3, <1>8, <1>11 DEF Base, DefaultIdsFresh

LEMMA FailKeepsBase ==
  ASSUME Base, AppendFails
  PROVE  Base'
<1>1. PICK n \in Unserved :
        /\ Store!Persist(Entry(n)) \/ UNCHANGED ledger
        /\ flights' = RemoveAt(flights, n) /\ persistedCount' = persistedCount
        /\ stage' = IF flights[n].final THEN "done" ELSE stage
        /\ flushFailed' = (flushFailed \/ flights[n].final)
  BY DEF AppendFails, CountAfterFailure, StageAfter
<1>2. n \in DOMAIN flights /\ flights[n] \in Flights /\ Entry(n) \in EventIds /\ flights \in Seq(Flights)
  BY Serving DEF Base, TrackerTypeOK
<1>3. failures' = failures + 1 /\ failures < MaxFailures
      /\ UNCHANGED <<acceptedEvents, seenEventIds, eventCounter, result, claimed, overlapped>>
  BY DEF AppendFails, tracker
<1>4. records \subseteq records' /\ records' \subseteq EventIds /\ acked' = acked
  BY <1>1, <1>2 DEF Store!Persist, ledger, Base, TrackerTypeOK
<1>5. /\ flights' \in Seq(Flights)
      /\ \A m \in DOMAIN flights' : \E k \in DOMAIN flights : flights'[m] = flights[k]
  BY <1>1, <1>2, Removed
<1>6. TrackerTypeOK'
  <2>1. stage' \in {"running", "ending", "done"} /\ flushFailed' \in BOOLEAN
    BY <1>1, <1>2 DEF Base, TrackerTypeOK, Flights
  <2>2. failures' \in 0..MaxFailures
    BY <1>3, TrackerAssumption DEF Base, TrackerTypeOK
  <2>. QED BY <1>1, <1>3, <1>4, <1>5, <2>1, <2>2 DEF Base, TrackerTypeOK
<1>7. (\A m \in DOMAIN flights : FlightSound(flights[m]))'
  BY <1>4, <1>5, AllSound
<1>. QED BY <1>3, <1>4, <1>6, <1>7 DEF Base, DefaultIdsFresh

\* The flush that returns has given the ledger all its slice.
LEMMA Returning ==
  ASSUME Base, FlushReturns
  PROVE  /\ flights \in Seq(Flights) /\ flights # <<>> /\ Head(flights) = flights[1]
         /\ flights[1] \in Flights /\ Len(flights[1].pending) \in Nat
         /\ \A i \in 1..Len(flights[1].pending) : flights[1].pending[i] \in records
         /\ flights[1].due \subseteq records
<1>1. flights \in Seq(Flights) /\ flights # <<>> /\ 1 \notin Unserved
  BY DEF Base, TrackerTypeOK, FlushReturns
<1>2. 1 \in DOMAIN flights /\ Head(flights) = flights[1] /\ flights[1] \in Flights
  BY <1>1
<1>3. FlightSound(flights[1]) /\ ~(flights[1].taken < Len(flights[1].pending))
  BY <1>1, <1>2 DEF Base, Unserved
<1>4. flights[1].taken \in Nat /\ Len(flights[1].pending) \in Nat
  BY <1>2 DEF Flights
<1>5. flights[1].taken = Len(flights[1].pending)
  BY <1>3, <1>4 DEF FlightSound
<1>. QED BY <1>1, <1>2, <1>3, <1>4, <1>5 DEF FlightSound

LEMMA ReturnKeepsBase ==
  ASSUME Base, FlushReturns
  PROVE  Base'
<1> DEFINE f == flights[1]
<1>1. /\ flights \in Seq(Flights) /\ flights # <<>> /\ Head(flights) = f /\ f \in Flights
      /\ Len(f.pending) \in Nat /\ f.due \subseteq records
  BY Returning
<1>2. /\ persistedCount' = persistedCount + Len(f.pending)
      /\ flights' = Tail(flights) /\ claimed' = claimed \cup f.due
      /\ stage' = IF f.final THEN "done" ELSE stage
      /\ UNCHANGED <<acceptedEvents, seenEventIds, eventCounter, flushFailed, result,
                     records, acked, failures, overlapped>>
  BY <1>1 DEF FlushReturns, StageAfter, tracker, ledger
<1>3. /\ Tail(flights) \in Seq(Flights)
      /\ \A m \in DOMAIN Tail(flights) : m + 1 \in DOMAIN flights /\ Tail(flights)[m] = flights[m + 1]
  BY <1>1
<1>4. persistedCount' \in Nat
  BY <1>1, <1>2 DEF Base, TrackerTypeOK
<1>5. TrackerTypeOK'
  BY <1>1, <1>2, <1>3, <1>4 DEF Base, TrackerTypeOK
<1>6. (\A m \in DOMAIN flights : FlightSound(flights[m]))'
  BY <1>2, <1>3, AllSound
<1>. QED BY <1>1, <1>2, <1>5, <1>6 DEF Base, DefaultIdsFresh

-----------------------------------------------------------------------------
(***************************************************************************)
(* Each operation keeps what holds until a flush overlaps another.         *)
(***************************************************************************)
LEMMA OneFlight ==
  ASSUME Base, Serial, flights # <<>>
  PROVE  /\ flights[1] \in Flights /\ FlightFits(flights[1]) /\ flights = <<flights[1]>>
         /\ Len(flights) = 1 /\ Len(flights[1].pending) \in Nat
         /\ flights[1].final \in BOOLEAN
<1>1. flights \in Seq(Flights) /\ Len(flights) <= 1 /\ FlightFits(flights[1])
  BY DEF Base, Serial, TrackerTypeOK
<1>2. Len(flights) = 1
  <2> DEFINE k == Len(flights)
  <2>1. k \in Nat /\ k # 0 /\ k <= 1
    BY <1>1, EmptySeq
  <2> HIDE DEF k
  <2>2. k = 1
    BY <2>1
  <2>. QED BY <2>2 DEF k
<1>3. flights = <<flights[1]>> /\ flights[1] \in Flights
  BY <1>1, <1>2
<1>4. Len(flights[1].pending) \in Nat /\ flights[1].final \in BOOLEAN
  BY <1>3 DEF Flights
<1>. QED BY <1>1, <1>2, <1>3, <1>4

LEMMA IngestKeepsSerial ==
  ASSUME Base, Serial, NEW id \in EventIds, NEW generated \in BOOLEAN, stage = "running",
         IngestInto(id, generated), UntouchedByRecording
  PROVE  Serial'
<1>1. UNCHANGED <<persistedCount, flights, stage, flushFailed, records>>
  BY DEF UntouchedByRecording
<1>2. CASE acceptedEvents' = acceptedEvents
  BY <1>1, <1>2 DEF Serial, Counted, FlightFits, Through
<1>3. CASE acceptedEvents' = Append(acceptedEvents, id)
  <2> DEFINE s == acceptedEvents
  <2>1. s \in Seq(EventIds) /\ persistedCount \in Nat
    BY DEF Base, TrackerTypeOK
  <2>2. /\ Len(s') = Len(s) + 1 /\ Len(s) \in Nat
        /\ \A i \in 1..Len(s) : s'[i] = s[i]
    BY <1>3, <2>1, Appended
  <2>3. Counted'
    <3>1. persistedCount' = persistedCount /\ records' = records
      BY <1>1
    <3>2. persistedCount <= Len(s) /\ \A i \in 1..persistedCount : s[i] \in records
      BY DEF Serial, Counted
    <3>3. \A i \in 1..persistedCount : i \in 1..Len(s)
      BY <2>1, <2>2, <3>2
    <3>4. \A i \in 1..persistedCount : s'[i] \in records
      BY <2>2, <3>2, <3>3
    <3>. QED BY <2>1, <2>2, <3>1, <3>2, <3>4 DEF Counted
  <2>4. (flights # <<>> => FlightFits(flights[1]))'
    <3> SUFFICES ASSUME flights # <<>> PROVE FlightFits(flights[1])'
      BY <1>1
    <3> DEFINE f == flights[1]
    <3>1. FlightFits(f) /\ Len(f.pending) \in Nat
      BY OneFlight
    <3>2. /\ Through(f)' = Through(f) /\ Through(f) \in Nat /\ Through(f) <= Len(s)
          /\ f' = f
      BY <1>1, <2>1, <3>1 DEF Through, FlightFits
    <3>3. \A i \in 1..Through(f) : s'[i] = s[i]
      BY <2>2, <3>2
    <3>4. \A i \in 1..Len(f.pending) : persistedCount + i \in 1..Through(f)
      BY <2>1, <3>1 DEF Through
    <3>5. ~f.final
      BY <3>1 DEF FlightFits
    <3>6. f' = f /\ stage' = stage /\ persistedCount' = persistedCount
      BY <1>1, <3>2
    <3>7. /\ Through(f)' <= Len(s')
          /\ \A i \in 1..Len(f.pending) : f.pending[i] = s'[persistedCount + i]
          /\ f.final <=> stage = "ending"
      BY <2>2, <3>1, <3>2, <3>3, <3>4 DEF FlightFits
    <3> HIDE DEF f
    <3>. QED BY <3>2, <3>5, <3>6, <3>7 DEF FlightFits, f
  <2>. QED BY <1>1, <2>3, <2>4 DEF Serial
<1>. QED BY <1>2, <1>3 DEF IngestInto, Accept, Reject

LEMMA RecordKeeps ==
  ASSUME TInv, RecordGenerated \/ RecordExplicit
  PROVE  TInv'
<1>1. PICK id \in EventIds, generated \in BOOLEAN :
        /\ IngestInto(id, generated) /\ (generated => id \notin seenEventIds)
        /\ eventCounter' \in 0..MaxCounter
  <2>1. CASE RecordGenerated
    <3>1. NextCounter \in Nat /\ NextCounter > eventCounter /\ NextCounter \notin seenEventIds
      BY TrackerAssumption, NextIsFresh DEF TInv, Base, TrackerTypeOK
    <3>2. NextCounter \in 1..MaxCounter
      BY <2>1, <3>1, TrackerAssumption DEF RecordGenerated, TInv, Base, TrackerTypeOK
    <3>3. NextCounter \in EventIds
      BY <3>2 DEF EventIds
    <3>4. IngestInto(NextCounter, TRUE) /\ eventCounter' = NextCounter
      BY <2>1 DEF RecordGenerated
    <3>5. eventCounter' \in 0..MaxCounter
      BY <3>2, <3>4, TrackerAssumption
    <3>. QED BY <3>1, <3>3, <3>4, <3>5
  <2>2. CASE RecordExplicit
    <3>1. PICK id \in ExplicitIds : IngestInto(id, FALSE)
      BY <2>2 DEF RecordExplicit
    <3>2. id \in EventIds /\ eventCounter' \in 0..MaxCounter
      BY <2>2, <3>1 DEF RecordExplicit, EventIds, TInv, Base, TrackerTypeOK
    <3>. QED BY <3>1, <3>2
  <2>. QED BY <2>1, <2>2
<1>2. Base /\ stage = "running" /\ UntouchedByRecording /\ overlapped' = overlapped
  BY DEF TInv, RecordGenerated, RecordExplicit, UntouchedByRecording
<1>3. Base'
  BY <1>1, <1>2, IngestKeepsBase
<1>4. ASSUME ~overlapped' PROVE Serial'
  <2>1. Serial
    BY <1>2, <1>4 DEF TInv
  <2>. QED BY <1>1, <1>2, <2>1, IngestKeepsSerial
<1>. QED BY <1>3, <1>4 DEF TInv

\* A flush that overlaps none is about all that is not counted.
LEMMA FlushKeeps ==
  ASSUME TInv, Flush \/ End
  PROVE  TInv'
<1>1. Base /\ Base'
  BY FlushKeepsBase DEF TInv
<1>2. SUFFICES ASSUME ~overlapped' PROVE Serial'
  BY <1>1 DEF TInv
<1>3. /\ stage = "running" /\ flights = <<>> /\ Serial
      /\ UNCHANGED <<tracker, persistedCount, flushFailed, result, ledger, failures>>
  BY <1>2 DEF Flush, End, TInv
<1>4. /\ acceptedEvents' = acceptedEvents /\ records' = records /\ persistedCount' = persistedCount
      /\ flushFailed' = flushFailed /\ Counted /\ Counted'
  BY <1>3 DEF tracker, ledger, Serial, Counted
<1>5. /\ Pending \in Seq(EventIds) /\ Len(Pending) = Len(acceptedEvents) - persistedCount
      /\ persistedCount \in Nat /\ Len(acceptedEvents) \in Nat
      /\ \A i \in 1..Len(Pending) : Pending[i] = acceptedEvents[persistedCount + i]
  BY <1>1, <1>3, PendingIs
<1>6. CASE Pending = <<>>
  <2>1. flights' = <<>> /\ stage' \in {"running", "done"} /\ persistedCount = Len(acceptedEvents)
    BY <1>3, <1>5, <1>6 DEF Flush, End
  <2>. QED BY <1>3, <1>4, <2>1 DEF Serial
<1>7. CASE Pending # <<>>
  <2>1. PICK final \in BOOLEAN : /\ flights' = Append(flights, NewFlight(final))
                                 /\ stage' = IF final THEN "ending" ELSE "running"
    BY <1>3, <1>7 DEF Flush, End
  <2> DEFINE f == NewFlight(final)
  <2>2. f.pending = Pending /\ f.final = final
    BY DEF NewFlight
  <2>3. flights' = <<f>>
    BY <1>3, <2>1
  <2> HIDE DEF f
  <2>4. Len(flights') = 1 /\ flights'[1] = f /\ flights' # <<>>
    BY <2>3
  <2>5. FlightFits(flights[1])'
    <3>1. persistedCount + Len(Pending) = Len(acceptedEvents)
      BY <1>5
    <3>2. f.final <=> stage' = "ending"
      BY <2>1, <2>2
    <3>3. flights'[1].pending = Pending /\ (flights'[1].final <=> stage' = "ending")
      BY <2>2, <2>4, <3>2
    <3>. QED BY <1>4, <1>5, <3>1, <3>3 DEF FlightFits, Through
  <2>. QED BY <1>4, <2>1, <2>4, <2>5 DEF Serial
<1>. QED BY <1>6, <1>7

\* After a reset nothing is counted, and nothing is to be when none was in progress.
LEMMA ResetKeeps ==
  ASSUME TInv, Reset
  PROVE  TInv'
<1>1. Base'
  BY ResetKeepsBase DEF TInv
<1>2. ASSUME ~overlapped' PROVE Serial'
  <2>1. /\ flights = <<>> /\ flights' = <<>> /\ stage' = "running" /\ acceptedEvents' = <<>>
        /\ persistedCount' = 0
    BY <1>2 DEF Reset, CountAfterReset
  <2>2. Len(<<>>) = 0
    OBVIOUS
  <2>. QED BY <2>1, <2>2 DEF Serial, Counted
<1>. QED BY <1>1, <1>2 DEF TInv

LEMMA AppendKeeps ==
  ASSUME TInv, AppendEntry
  PROVE  TInv'
<1>1. Base /\ Base' /\ overlapped' = overlapped
  BY AppendKeepsBase DEF TInv, AppendEntry
<1>2. SUFFICES ASSUME ~overlapped' PROVE Serial'
  BY <1>1 DEF TInv
<1>3. PICK n \in Unserved : /\ Store!Acknowledge(Entry(n))
                            /\ flights' = [flights EXCEPT ![n].taken = @ + 1]
  BY DEF AppendEntry
<1>4. n \in DOMAIN flights /\ Serial
  BY <1>1, <1>2, Serving DEF TInv
<1>5. flights # <<>> /\ flights \in Seq(Flights)
  BY <1>1, <1>4 DEF Base, TrackerTypeOK
<1>6. FlightFits(flights[1]) /\ Len(flights) = 1 /\ DOMAIN flights = {1} /\ flights[1] \in Flights
  BY <1>1, <1>4, <1>5, OneFlight
<1>7. /\ flights' # <<>> /\ Len(flights') = 1
      /\ flights'[1].pending = flights[1].pending /\ flights'[1].final = flights[1].final
  <2>1. n = 1
    BY <1>4, <1>6
  <2>2. flights' \in Seq(Flights)
    BY <1>1 DEF Base, TrackerTypeOK
  <2>3. DOMAIN flights' = {1}
    BY <1>3, <1>6
  <2>4. flights'[1] = [flights[1] EXCEPT !.taken = @ + 1]
    BY <1>3, <1>6, <2>1
  <2>. QED BY <1>6, <2>2, <2>3, <2>4 DEF Flights
<1>8. /\ records \subseteq records'
      /\ UNCHANGED <<acceptedEvents, persistedCount, stage, flushFailed>>
  BY <1>3 DEF AppendEntry, Store!Acknowledge, tracker
<1>. QED BY <1>4, <1>6, <1>7, <1>8 DEF Serial, Counted, FlightFits, Through

LEMMA FailKeeps ==
  ASSUME TInv, AppendFails
  PROVE  TInv'
<1>1. Base /\ Base' /\ overlapped' = overlapped
  BY FailKeepsBase DEF TInv, AppendFails
<1>2. SUFFICES ASSUME ~overlapped' PROVE Serial'
  BY <1>1 DEF TInv
<1>3. PICK n \in Unserved :
        /\ Store!Persist(Entry(n)) \/ UNCHANGED ledger
        /\ flights' = RemoveAt(flights, n) /\ persistedCount' = persistedCount
        /\ stage' = IF flights[n].final THEN "done" ELSE stage
        /\ flushFailed' = (flushFailed \/ flights[n].final)
  BY DEF AppendFails, CountAfterFailure, StageAfter
<1>4. n \in DOMAIN flights /\ Serial /\ acceptedEvents' = acceptedEvents
  BY <1>1, <1>2, Serving DEF TInv, AppendFails, tracker
<1>5. PICK f \in Flights : f = flights[1] /\ flights = <<f>> /\ FlightFits(f) /\ n = 1
  <2>1. flights # <<>>
    BY <1>1, <1>4 DEF Base, TrackerTypeOK
  <2>2. flights[1] \in Flights /\ flights = <<flights[1]>> /\ FlightFits(flights[1])
    BY <1>1, <1>4, <2>1, OneFlight
  <2>3. DOMAIN <<flights[1]>> = {1}
    OBVIOUS
  <2>. QED BY <1>4, <2>2, <2>3
<1>6. flights' = <<>>
  <2>1. RemoveAt(<<f>>, 1) = <<>>
    BY DEF RemoveAt
  <2>. QED BY <1>3, <1>5, <2>1
<1>7. records \subseteq records'
  BY <1>3 DEF Store!Persist, ledger
<1>8. stage' # "ending" /\ (stage' = "done" => flushFailed' \/ stage = "done")
  BY <1>1, <1>3, <1>5 DEF FlightFits, Base, TrackerTypeOK
<1>9. flights # <<>> => stage # "done"
  BY <1>4 DEF Serial
<1>. QED BY <1>3, <1>4, <1>5, <1>6, <1>7, <1>8, <1>9 DEF Serial, Counted

LEMMA ReturnKeeps ==
  ASSUME TInv, FlushReturns
  PROVE  TInv'
<1>1. Base /\ Base' /\ overlapped' = overlapped
  BY ReturnKeepsBase DEF TInv, FlushReturns
<1>2. SUFFICES ASSUME ~overlapped' PROVE Serial'
  BY <1>1 DEF TInv
<1>3. Serial
  BY <1>1, <1>2 DEF TInv
<1>4. PICK f \in Flights : /\ f = flights[1] /\ flights = <<f>> /\ FlightFits(f)
                           /\ Len(f.pending) \in Nat /\ f.final \in BOOLEAN
                           /\ \A i \in 1..Len(f.pending) : f.pending[i] \in records
  BY <1>1, <1>3, OneFlight, Returning
<1>5. /\ persistedCount' = Through(f) /\ flights' = <<>>
      /\ stage' = IF f.final THEN "done" ELSE stage
      /\ UNCHANGED <<acceptedEvents, flushFailed, records>>
  <2>1. Head(<<f>>) = f /\ Tail(<<f>>) = <<>>
    OBVIOUS
  <2>. QED BY <1>4, <2>1 DEF FlushReturns, StageAfter, Through, tracker, ledger
<1>6. persistedCount \in Nat /\ Through(f) \in Nat /\ Through(f) <= Len(acceptedEvents)
  <2>1. persistedCount \in Nat
    BY <1>1 DEF Base, TrackerTypeOK
  <2>. QED BY <1>4, <2>1 DEF Through, FlightFits
\* Counted before, or taken by the ledger in this flight.
<1>7. \A i \in 1..Through(f) : acceptedEvents[i] \in records
  <2> SUFFICES ASSUME NEW i \in 1..Through(f) PROVE acceptedEvents[i] \in records
    OBVIOUS
  <2>1. CASE i <= persistedCount
    BY <1>3, <1>6, <2>1 DEF Serial, Counted
  <2>2. CASE i > persistedCount
    <3>1. i - persistedCount \in 1..Len(f.pending) /\ persistedCount + (i - persistedCount) = i
      BY <1>4, <1>6, <2>2 DEF Through
    <3>2. f.pending[i - persistedCount] = acceptedEvents[persistedCount + (i - persistedCount)]
      BY <1>4, <3>1 DEF FlightFits
    <3>. QED BY <1>4, <3>1, <3>2
  <2>. QED BY <1>6, <2>1, <2>2
<1>8. Counted'
  BY <1>5, <1>6, <1>7 DEF Counted
<1>9. /\ stage' # "ending"
      /\ stage' = "done" /\ ~flushFailed' => persistedCount' = Len(acceptedEvents')
  <2>1. stage # "done"
    BY <1>3, <1>4 DEF Serial
  <2>. QED BY <1>1, <1>4, <1>5, <2>1 DEF FlightFits, Base, TrackerTypeOK
<1>. QED BY <1>5, <1>8, <1>9 DEF Serial

\* Of any calls, and failures of the ledger.
THEOREM TrackerInvariant == TrackerSpec => []TInv
<1>1. ASSUME TrackerInit PROVE TInv
  <2>1. ToSet(<<>>) = {} /\ <<>> \in Seq(EventIds) /\ <<>> \in Seq(Flights) /\ Len(<<>>) = 0
        /\ DOMAIN <<>> = {}
    BY DEF ToSet
  <2>2. 0 \in 0..MaxCounter /\ 0 \in 0..MaxFailures
    BY TrackerAssumption
  <2>3. TrackerTypeOK
    BY <1>1, <2>1, <2>2 DEF TrackerInit, TrackerTypeOK, Results
  <2>4. Counted /\ claimed \subseteq records /\ DefaultIdsFresh
    BY <1>1, <2>1 DEF TrackerInit, Counted, DefaultIdsFresh
  <2>. QED BY <1>1, <2>1, <2>3, <2>4 DEF TrackerInit, TInv, Base, Serial
<1>2. TInv /\ [TrackerNext]_trackerVars => TInv'
  <2>1. CASE UNCHANGED trackerVars
    BY <2>1 DEF trackerVars, TInv, Base, Serial, TrackerTypeOK, Counted, DefaultIdsFresh,
                FlightSound, FlightFits, Through
  <2>. QED BY <2>1, RecordKeeps, FlushKeeps, ResetKeeps, AppendKeeps, FailKeeps, ReturnKeeps
           DEF TrackerNext
<1>. QED BY <1>1, <1>2, PTL DEF TrackerSpec

-----------------------------------------------------------------------------
(***************************************************************************)
(* What it gives.                                                          *)
(***************************************************************************)
\* What was accepted when a flush began is in the ledger once it resolved, if no
\* flush had overlapped another by then.
THEOREM ResolvedMeansPersisted == TrackerSpec => []FlushPersists
<1>1. TInv => FlushPersists
  BY DEF TInv, Base, FlushPersists
<1>. QED BY <1>1, TrackerInvariant, PTL

\* While no flush overlaps another, what the tracker counts, and what a clean
\* report holds, is in the ledger; and no default id is ever a duplicate.
THEOREM CountIsSound == TrackerSpec => []TrackerSound
<1>1. ASSUME Base, NEW n \in 0..Len(acceptedEvents), \A i \in 1..n : acceptedEvents[i] \in records
      PROVE  ToSet(SubSeq(acceptedEvents, 1, n)) \subseteq records
  <2>1. acceptedEvents \in Seq(EventIds)
    BY <1>1 DEF Base, TrackerTypeOK
  <2>2. /\ DOMAIN SubSeq(acceptedEvents, 1, n) = 1..n
        /\ \A i \in 1..n : SubSeq(acceptedEvents, 1, n)[i] = acceptedEvents[i]
    BY <2>1
  <2>. QED BY <1>1, <2>2 DEF ToSet
<1>2. ASSUME Base, Serial
      PROVE  /\ persistedCount <= Len(acceptedEvents)
             /\ ToSet(SubSeq(acceptedEvents, 1, persistedCount)) \subseteq records
             /\ stage = "done" /\ ~flushFailed => ToSet(acceptedEvents) \subseteq records
  <2>1. /\ persistedCount \in 0..Len(acceptedEvents)
        /\ DOMAIN acceptedEvents = 1..Len(acceptedEvents)
        /\ \A i \in 1..persistedCount : acceptedEvents[i] \in records
    BY <1>2 DEF Base, Serial, TrackerTypeOK, Counted
  <2>2. ToSet(SubSeq(acceptedEvents, 1, persistedCount)) \subseteq records
    BY <1>1, <1>2, <2>1
  <2>3. stage = "done" /\ ~flushFailed => ToSet(acceptedEvents) \subseteq records
    BY <1>2, <2>1 DEF Serial, ToSet
  <2>. QED BY <2>1, <2>2, <2>3
<1>3. TInv => TrackerSound
  BY <1>2 DEF TInv, Base, TrackerSound, CountedArePersisted, DoneMeansPersisted
<1>. QED BY <1>3, TrackerInvariant, PTL

-----------------------------------------------------------------------------
(***************************************************************************)
(* The router: which decision and correlation an outcome is filed under, for *)
(* any routes, reports and tasks, proved from the specification Router.    *)
(***************************************************************************)

\* The types, also of the two variables of the calls RouterTypeOK leaves out.
TypesHold ==
  /\ RouterTypeOK
  /\ asked \in [Calls -> Correlations \cup {Unkeyed, None}]
  /\ outcome \in [Calls -> {"open", "resolved", "rejected"}]

\* A correlation is of the task it is stored or used for, and a task that no
\* caller named is routed by the route() that minted it only.
CorrelationsFit ==
  /\ \A u \in Tasks : stored[u] # None => stored[u].task = u
  /\ \A r \in Routes : route[r].state # "idle" =>
       /\ route[r].task \in CallerTasks \cup {r}
       /\ route[r].correlation # None => route[r].correlation.task = route[r].task
       /\ route[r].state \in {"routing", "done"} => route[r].correlation # None

\* x is what the answered route() it names decided.
Remembers(x) ==
  /\ route[x.call].state = "done"
  /\ x.task = route[x.call].task
  /\ x.correlation = route[x.call].correlation
  /\ x.decision = answer[x.call]

RowsRemember ==
  /\ \A p \in Reports : report[p].state = "idle" => report[p].row = None
  /\ lastRoute # None => Remembers(lastRoute)
  /\ \A p \in Submitted :
       /\ Remembers(report[p].row)
       /\ report[p].given \in {None, report[p].row.correlation}

\* A report asks under the key of its row, a route without one.
AskedForRows ==
  /\ \A r \in Routes : asked[r] \in {None, Unkeyed}
  /\ \A p \in Reports :
       IF report[p].row = None THEN asked[p] = None ELSE asked[p] = KeyOf(report[p].row)

\* The server acts on what it was asked, and answers with what it did.
EffectsAsked == \A e \in applied : asked[e.call] = e.key

AnswersFit ==
  \A p \in Submitted : report[p].state = "done" =>
    /\ answer[p] \in applied
    /\ answer[p].call = p \/ answer[p].key = asked[p]

RInv ==
  /\ TypesHold /\ CorrelationsFit /\ RowsRemember
  /\ AskedForRows /\ EffectsAsked /\ AnswersFit

LEMMA RInvInit == RouterInit => RInv
BY AbsentAssumption, ClockAssumption
   DEF RouterInit, Remote!Init, RInv, TypesHold, RouterTypeOK, CorrelationsFit, RowsRemember,
       AskedForRows, EffectsAsked, AnswersFit, Submitted, RouteStates, ReportStates, Calls


(***************************************************************************)
(* Each operation keeps RInv.                                              *)
(***************************************************************************)
\* Calls keep their types when one of them settles.
LEMMA SettlesWell ==
  ASSUME TypesHold, NEW c \in Calls, NEW v \in {"resolved", "rejected"},
         NEW e \in Effects \cup {None}
  PROVE  /\ [outcome EXCEPT ![c] = v] \in [Calls -> {"open", "resolved", "rejected"}]
         /\ [answer EXCEPT ![c] = e] \in [Calls -> Effects \cup {None}]
BY DEF TypesHold, RouterTypeOK

LEMMA CallRouteKeeps ==
  ASSUME RInv, NEW r \in Routes, NEW u \in CallerTasks \cup {r}, CallRoute(r, u)
  PROVE  RInv'
<1>1. u \in Tasks /\ route[r].state = "idle"
  BY DEF Tasks, CallRoute
<1>2. /\ route' = [route EXCEPT ![r] =
                    [state |-> "looking", task |-> u, correlation |-> stored[u]]]
      /\ UNCHANGED <<clock, stored, lastRoute, report, remoteVars>>
  BY DEF CallRoute
<1>3. TypesHold'
  BY <1>1, <1>2 DEF RInv, TypesHold, RouterTypeOK, RouteStates, remoteVars
<1>4. CorrelationsFit'
  BY <1>1, <1>2 DEF RInv, TypesHold, RouterTypeOK, CorrelationsFit
<1>5. \A x \in RoutedTasks : Remembers(x) => Remembers(x)'
  BY <1>1, <1>2 DEF Remembers, RoutedTasks, RInv, TypesHold, RouterTypeOK, remoteVars
<1>6. RowsRemember'
  BY <1>2, <1>5 DEF RInv, TypesHold, RouterTypeOK, RowsRemember, Submitted
<1>. QED BY <1>2, <1>3, <1>4, <1>6
         DEF RInv, AskedForRows, EffectsAsked, AnswersFit, Submitted, remoteVars

LEMMA DispatchKeeps ==
  ASSUME RInv, NEW r \in Routes, Dispatch(r)
  PROVE  RInv'
<1> DEFINE c == Correlation(r)
<1>1. PICK state \in {"routing", "failed"} :
        /\ route' = [route EXCEPT ![r].correlation = c, ![r].state = state]
        /\ IF state = "routing" THEN Remote!Ask(r, Unkeyed) ELSE Remote!Reject(r)
  BY DEF Dispatch
<1>2. /\ route[r].state = "looking" /\ route[r].task \in Tasks
      /\ UNCHANGED <<clock, lastRoute, report>>
  BY AbsentAssumption DEF Dispatch, RInv, CorrelationsFit, Tasks
<1>3. c \in Correlations /\ c # None /\ c.task = route[r].task
  BY <1>2, AbsentAssumption
     DEF Correlation, Correlations, RInv, TypesHold, RouterTypeOK, CorrelationsFit
<1>4. stored' \in {stored, [stored EXCEPT ![route[r].task] = c]}
  BY DEF Dispatch
<1> HIDE DEF c
<1>5. /\ applied' = applied /\ answer' = answer
      /\ \/ asked' = [asked EXCEPT ![r] = Unkeyed] /\ asked[r] = None
         \/ asked' = asked
      /\ outcome' \in {outcome, [outcome EXCEPT ![r] = "rejected"]}
  BY <1>1 DEF Remote!Ask, Remote!Reject
<1>6. TypesHold'
  BY <1>1, <1>2, <1>3, <1>4, <1>5
     DEF RInv, TypesHold, RouterTypeOK, RouteStates, Calls
<1>7. CorrelationsFit'
  BY <1>1, <1>2, <1>3, <1>4 DEF RInv, TypesHold, RouterTypeOK, CorrelationsFit
<1>8. \A x \in RoutedTasks : Remembers(x) => Remembers(x)'
  BY <1>1, <1>2, <1>5 DEF Remembers, RoutedTasks, RInv, TypesHold, RouterTypeOK
<1>9. RowsRemember'
  BY <1>2, <1>8 DEF RInv, TypesHold, RouterTypeOK, RowsRemember, Submitted
<1>10. AskedForRows'
  BY <1>2, <1>5, CallsAssumption DEF RInv, TypesHold, AskedForRows, Calls
<1>11. EffectsAsked'
  BY <1>5, AbsentAssumption DEF RInv, TypesHold, RouterTypeOK, EffectsAsked, Effects
<1>12. AnswersFit'
  BY <1>2, <1>5, CallsAssumption DEF RInv, TypesHold, AnswersFit, Submitted, Calls
<1>. QED BY <1>6, <1>7, <1>9, <1>10, <1>11, <1>12 DEF RInv

LEMMA RouteAnsweredKeeps ==
  ASSUME RInv, NEW r \in Routes, RouteAnswered(r)
  PROVE  RInv'
<1>1. PICK e \in Effects :
        /\ Remote!Resolve(r, e)
        /\ lastRoute' = [call |-> r, task |-> route[r].task,
                         correlation |-> route[r].correlation, decision |-> e]
  BY DEF RouteAnswered, RememberedAs
<1>2. /\ route[r].state = "routing" /\ route' = [route EXCEPT ![r].state = "done"]
      /\ UNCHANGED <<clock, stored, report>>
  BY DEF RouteAnswered
<1>3. /\ outcome' = [outcome EXCEPT ![r] = "resolved"] /\ answer' = [answer EXCEPT ![r] = e]
      /\ UNCHANGED <<asked, applied>>
  BY <1>1 DEF Remote!Resolve
<1>4. route[r].task \in Tasks /\ route[r].correlation \in Correlations
  BY <1>2 DEF RInv, TypesHold, RouterTypeOK, CorrelationsFit, Tasks
<1>5. lastRoute' \in RoutedTasks
  BY <1>1, <1>4 DEF RoutedTasks
<1>6. TypesHold'
  <2>1. route' \in [Routes -> [state : RouteStates, task : Tasks \cup {None},
                              correlation : Correlations \cup {None}]]
    BY <1>2 DEF RInv, TypesHold, RouterTypeOK, RouteStates
  <2>2. /\ outcome' \in [Calls -> {"open", "resolved", "rejected"}]
        /\ answer' \in [Calls -> Effects \cup {None}]
    BY <1>3, SettlesWell DEF RInv, Calls
  <2>. QED BY <1>2, <1>3, <1>5, <2>1, <2>2 DEF RInv, TypesHold, RouterTypeOK
<1>7. CorrelationsFit'
  BY <1>2, <1>4, AbsentAssumption DEF RInv, TypesHold, RouterTypeOK, CorrelationsFit
<1>8. \A x \in RoutedTasks : Remembers(x) => Remembers(x)'
  BY <1>2, <1>3 DEF Remembers, RoutedTasks, RInv, TypesHold, RouterTypeOK
<1>9. Remembers(lastRoute)'
  BY <1>1, <1>2, <1>3 DEF Remembers, RInv, TypesHold, RouterTypeOK, Calls
<1>10. RowsRemember'
  BY <1>2, <1>8, <1>9 DEF RInv, TypesHold, RouterTypeOK, RowsRemember, Submitted
<1>11. AskedForRows' /\ EffectsAsked'
  BY <1>2, <1>3 DEF RInv, AskedForRows, EffectsAsked
<1>12. AnswersFit'
  BY <1>2, <1>3, CallsAssumption DEF RInv, TypesHold, RouterTypeOK, AnswersFit, Submitted, Calls
<1>. QED BY <1>6, <1>7, <1>10, <1>11, <1>12 DEF RInv

LEMMA RouteFailsKeeps ==
  ASSUME RInv, NEW r \in Routes, RouteFails(r)
  PROVE  RInv'
<1>1. /\ route[r].state = "routing" /\ route' = [route EXCEPT ![r].state = "failed"]
      /\ UNCHANGED <<clock, stored, lastRoute, report>>
  BY DEF RouteFails
<1> DEFINE Settled == /\ outcome' \in [Calls -> {"open", "resolved", "rejected"}]
                      /\ answer' \in [Calls -> Effects \cup {None}]
                      /\ \A c \in Calls \ {r} : answer'[c] = answer[c]
                      /\ UNCHANGED <<asked, applied>>
<1>2. Settled
  <2>1. CASE Remote!Reject(r)
    BY <2>1 DEF Remote!Reject, RInv, TypesHold, RouterTypeOK
  <2>2. ASSUME NEW e \in Effects, Remote!Resolve(r, e) PROVE Settled
    BY <2>2 DEF Remote!Resolve, RInv, TypesHold, RouterTypeOK
  <2>. QED BY <2>1, <2>2 DEF RouteFails
<1>3. TypesHold'
  BY <1>1, <1>2 DEF RInv, TypesHold, RouterTypeOK, RouteStates
<1>4. CorrelationsFit'
  BY <1>1 DEF RInv, TypesHold, RouterTypeOK, CorrelationsFit
<1>5. \A x \in RoutedTasks : Remembers(x) => Remembers(x)'
  BY <1>1, <1>2 DEF Remembers, RoutedTasks, RInv, TypesHold, RouterTypeOK, Calls
<1>6. RowsRemember'
  BY <1>1, <1>5 DEF RInv, TypesHold, RouterTypeOK, RowsRemember, Submitted
<1>7. AskedForRows' /\ EffectsAsked'
  BY <1>1, <1>2 DEF RInv, AskedForRows, EffectsAsked
<1>8. AnswersFit'
  BY <1>1, <1>2, CallsAssumption DEF RInv, TypesHold, RouterTypeOK, AnswersFit, Submitted, Calls
<1>. QED BY <1>3, <1>4, <1>6, <1>7, <1>8 DEF RInv

LEMMA CallReportKeeps ==
  ASSUME RInv, NEW p \in Reports, NEW given \in Returned \cup {None}, CallReport(p, given)
  PROVE  RInv'
<1> DEFINE called == [state |-> "submitting", given |-> given, row |-> lastRoute]
<1>1. /\ report[p].state = "idle" /\ lastRoute # None
      /\ given \in {None, lastRoute.correlation}
      /\ report' = [report EXCEPT ![p] = called]
      /\ asked' = [asked EXCEPT ![p] = KeyOf(lastRoute)]
      /\ UNCHANGED <<clock, stored, route, lastRoute, applied, outcome, answer>>
  BY DEF CallReport, IsLast, Remote!Ask
<1>2. lastRoute \in RoutedTasks /\ lastRoute.correlation \in Correlations
  BY <1>1 DEF RInv, TypesHold, RouterTypeOK, RoutedTasks
<1>3. asked[p] = None
  BY DEF CallReport, Remote!Ask
<1>4. TypesHold'
  BY <1>1, <1>2 DEF RInv, TypesHold, RouterTypeOK, ReportStates, Calls, KeyOf
<1>5. RowsRemember'
  BY <1>1, <1>2 DEF RInv, TypesHold, RouterTypeOK, RowsRemember, Submitted, Remembers
<1>6. AskedForRows'
  BY <1>1, <1>2, CallsAssumption, AbsentAssumption
     DEF RInv, TypesHold, RouterTypeOK, AskedForRows, Calls, KeyOf
<1>7. EffectsAsked'
  BY <1>1, <1>3, AbsentAssumption DEF RInv, TypesHold, RouterTypeOK, EffectsAsked, Effects
<1>8. AnswersFit'
  BY <1>1 DEF RInv, TypesHold, RouterTypeOK, AnswersFit, Submitted, Calls
<1>. QED BY <1>1, <1>4, <1>5, <1>6, <1>7, <1>8 DEF RInv, CorrelationsFit

LEMMA RefuseReportKeeps ==
  ASSUME RInv, NEW p \in Reports, NEW given \in Returned \cup {None}, RefuseReport(p, given)
  PROVE  RInv'
<1>1. /\ report[p].state = "idle"
      /\ report' = [report EXCEPT ![p].state = "refused", ![p].given = given]
      /\ outcome' = [outcome EXCEPT ![p] = "rejected"]
      /\ UNCHANGED <<clock, stored, route, lastRoute, asked, applied, answer>>
  BY DEF RefuseReport, Remote!Reject
<1>2. given \in Correlations \cup {None}
  BY DEF Returned, RInv, TypesHold, RouterTypeOK
<1>3. report[p].row = None
  BY <1>1 DEF RInv, RowsRemember
<1>4. TypesHold'
  <2>1. report' \in [Reports ->
          [state : ReportStates, given : Correlations \cup {None},
           row : RoutedTasks \cup {None}]]
    <3>1. [report[p] EXCEPT !.state = "refused", !.given = given]
            \in [state : ReportStates, given : Correlations \cup {None},
                row : RoutedTasks \cup {None}]
      <4>1. report[p] \in [state : ReportStates, given : Correlations \cup {None},
                           row : RoutedTasks \cup {None}]
        BY DEF RInv, TypesHold, RouterTypeOK
      <4>2. "refused" \in ReportStates
        BY DEF ReportStates
      <4>. QED BY <1>2, <4>1, <4>2
    <3>2. report' = [report EXCEPT ![p] = [report[p] EXCEPT !.state = "refused", !.given = given]]
      BY <1>1
    <3>. QED BY <3>1, <3>2 DEF RInv, TypesHold, RouterTypeOK
  <2>2. outcome' \in [Calls -> {"open", "resolved", "rejected"}]
    BY <1>1 DEF RInv, TypesHold, Calls
  <2>. QED BY <1>1, <2>1, <2>2 DEF RInv, TypesHold, RouterTypeOK
<1>5. RowsRemember'
  <2>1. Submitted' = Submitted /\ p \notin Submitted
    BY <1>1, <1>3 DEF RInv, TypesHold, RouterTypeOK, Submitted
  <2>2. \A x : Remembers(x)' <=> Remembers(x)
    BY <1>1 DEF Remembers
  <2>3. \A q \in Reports : q # p => report'[q] = report[q]
    BY <1>1 DEF RInv, TypesHold, RouterTypeOK
  <2>4. report'[p].row = None
    BY <1>1, <1>3 DEF RInv, TypesHold, RouterTypeOK
  <2>5. \A q \in Submitted : q \in Reports
    BY DEF Submitted
  <2>. QED BY <1>1, <2>1, <2>2, <2>3, <2>4, <2>5 DEF RInv, RowsRemember
<1>6. AskedForRows' /\ EffectsAsked' /\ AnswersFit' /\ CorrelationsFit'
  BY <1>1, <1>3
     DEF RInv, TypesHold, RouterTypeOK, AskedForRows, EffectsAsked, AnswersFit, CorrelationsFit,
         Submitted
<1>. QED BY <1>4, <1>5, <1>6 DEF RInv

LEMMA ReportSettlesKeeps ==
  ASSUME RInv, NEW p \in Reports, ReportAnswered(p) \/ ReportFails(p)
  PROVE  RInv'
<1>1. PICK s \in {"done", "failed"} :
        /\ report[p].state = "submitting"
        /\ report' = [report EXCEPT ![p].state = s]
        /\ UNCHANGED <<clock, stored, route, lastRoute, asked, applied>>
        /\ s = "done" => \E e \in Effects : Remote!Resolve(p, e)
        /\ s = "failed" => Remote!Reject(p)
  BY DEF ReportAnswered, ReportFails, Remote!Resolve, Remote!Reject
<1>2. /\ outcome' \in {[outcome EXCEPT ![p] = "resolved"], [outcome EXCEPT ![p] = "rejected"]}
      /\ \/ s = "failed" /\ answer' = answer
         \/ \E e \in applied : /\ e \in Effects /\ answer' = [answer EXCEPT ![p] = e]
                               /\ e.call = p \/ e.key = asked[p]
  BY <1>1 DEF Remote!Resolve, Remote!Reject, Remote!SameKey
<1>3. TypesHold'
  <2>1. report' \in [Reports ->
          [state : ReportStates, given : Correlations \cup {None},
           row : RoutedTasks \cup {None}]]
    BY <1>1 DEF RInv, TypesHold, RouterTypeOK, ReportStates
  <2>2. outcome' \in [Calls -> {"open", "resolved", "rejected"}]
    BY <1>2, SettlesWell DEF RInv, Calls
  <2>3. answer' \in [Calls -> Effects \cup {None}]
    <3> DEFINE Answers == [Calls -> Effects \cup {None}]
    <3>1. answer \in Answers
      BY DEF RInv, TypesHold, RouterTypeOK
    <3>2. \A e \in Effects : [answer EXCEPT ![p] = e] \in Answers
      BY SettlesWell DEF RInv, Calls
    <3> HIDE DEF Answers
    <3>3. answer' \in Answers
      BY <1>2, <3>1, <3>2
    <3>. QED BY <3>3 DEF Answers
  <2>. QED BY <1>1, <2>1, <2>2, <2>3 DEF RInv, TypesHold, RouterTypeOK
<1>4. \A r \in Routes : answer'[r] = answer[r]
  BY <1>2, CallsAssumption DEF RInv, TypesHold, RouterTypeOK, Calls
<1>5. \A x \in RoutedTasks : Remembers(x) => Remembers(x)'
  BY <1>1, <1>4 DEF Remembers, RoutedTasks
<1>6. RowsRemember'
  BY <1>1, <1>5 DEF RInv, TypesHold, RouterTypeOK, RowsRemember, Submitted
<1>7. AskedForRows' /\ EffectsAsked' /\ CorrelationsFit'
  BY <1>1 DEF RInv, TypesHold, RouterTypeOK, AskedForRows, EffectsAsked, CorrelationsFit
<1>8. AnswersFit'
  BY <1>1, <1>2 DEF RInv, TypesHold, RouterTypeOK, AnswersFit, Submitted, Calls
<1>. QED BY <1>3, <1>6, <1>7, <1>8 DEF RInv

LEMMA ServerKeeps ==
  ASSUME RInv, NEW c \in Calls, Server(c)
  PROVE  RInv'
<1>1. PICK e \in Effects : e.call = c /\ e.key = asked[c] /\ applied' = applied \cup {e}
  BY DEF Server, Remote!Apply
<1>2. UNCHANGED <<routerVars, asked, outcome, answer>>
  BY DEF Server, Remote!Apply
<1>. QED BY <1>1, <1>2
         DEF RInv, TypesHold, RouterTypeOK, CorrelationsFit, RowsRemember, AskedForRows,
             EffectsAsked, AnswersFit, Submitted, Remembers, routerVars

LEMMA TickKeeps ==
  ASSUME RInv, Tick \/ UNCHANGED allRouterVars
  PROVE  RInv'
<1>1. UNCHANGED <<stored, route, lastRoute, report, remoteVars>>
  BY DEF Tick, allRouterVars, routerVars
<1>2. clock' \in 0 .. MaxClock
  BY ClockAssumption DEF Tick, allRouterVars, routerVars, RInv, TypesHold, RouterTypeOK
<1>. QED BY <1>1, <1>2
         DEF RInv, TypesHold, RouterTypeOK, CorrelationsFit, RowsRemember, AskedForRows,
             EffectsAsked, AnswersFit, Submitted, Remembers, remoteVars

THEOREM RouterInvariant == RouterSpec => []RInv
<1>1. RInv /\ [RouterNext]_allRouterVars => RInv'
  BY CallRouteKeeps, DispatchKeeps, RouteAnsweredKeeps, RouteFailsKeeps, CallReportKeeps,
     RefuseReportKeeps, ReportSettlesKeeps, ServerKeeps, TickKeeps DEF RouterNext
<1>. QED BY <1>1, RInvInit, PTL DEF RouterSpec

-----------------------------------------------------------------------------
(***************************************************************************)
(* What it gives.                                                          *)
(***************************************************************************)
\* Two rows of one minted task under one correlation are the same row: only the
\* route() that minted the task can have answered it.
LEMMA OneRow ==
  ASSUME RInv, NEW x \in RoutedTasks, NEW y \in RoutedTasks, Remembers(x), Remembers(y),
         x.correlation = y.correlation, x.task \notin CallerTasks
  PROVE  x = y
<1>1. ASSUME NEW z \in RoutedTasks, Remembers(z)
      PROVE  z.correlation.task = z.task /\ z.task \in CallerTasks \cup {z.call}
  BY <1>1, AbsentAssumption
     DEF RInv, CorrelationsFit, Remembers, RoutedTasks, TypesHold, RouterTypeOK
<1>2. x.call = y.call /\ x.task = y.task
  BY <1>1
<1>. QED BY <1>2 DEF Remembers, RoutedTasks

LEMMA CountedNow ==
  ASSUME RInv
  PROVE  AcceptedIsCounted
<1> SUFFICES ASSUME NEW p \in Submitted, report[p].state = "done",
                    report[p].row.task \notin CallerTasks
             PROVE  report[answer[p].call].row = report[p].row
  BY DEF AcceptedIsCounted
<1> DEFINE q == answer[p].call
<1>1. p \in Reports /\ report[p].row \in RoutedTasks /\ Remembers(report[p].row)
  BY DEF Submitted, RInv, RowsRemember, TypesHold, RouterTypeOK
<1>2. answer[p] \in applied /\ (q = p \/ answer[p].key = asked[p])
  BY DEF RInv, AnswersFit
<1>3. CASE q = p
  BY <1>3
<1>4. CASE answer[p].key = asked[p]
  <2>1. asked[p] = report[p].row.correlation /\ asked[p] \in Correlations
    BY <1>1 DEF RInv, AskedForRows, KeyOf, Submitted, RoutedTasks
  <2>2. q \in Calls /\ asked[q] = asked[p]
    BY <1>2, <1>4 DEF RInv, EffectsAsked, TypesHold, RouterTypeOK, Effects
  <2>3. q \in Reports
    BY <2>1, <2>2, AbsentAssumption DEF RInv, AskedForRows, Calls
  <2>4. report[q].row # None /\ report[q].row.correlation = report[p].row.correlation
    BY <2>1, <2>2, <2>3, AbsentAssumption DEF RInv, AskedForRows, KeyOf
  <2>5. report[q].row \in RoutedTasks /\ Remembers(report[q].row)
    BY <2>3, <2>4 DEF Submitted, RInv, RowsRemember, TypesHold, RouterTypeOK
  <2>. QED BY <1>1, <2>4, <2>5, OneRow
<1>. QED BY <1>2, <1>3, <1>4

\* A report is of the decision and the correlation of one route(), and one that
\* is accepted was counted for that decision.
THEOREM ReportsJoin == RouterSpec => []ReportsAreOfOneRoute
<1>1. RInv => RouterTypeOK /\ RowIsOfOneRoute
  BY DEF RInv, TypesHold, RowsRemember, RowIsOfOneRoute, Remembers
<1>2. RInv => ReportsAreOfOneRoute
  BY <1>1, CountedNow DEF ReportsAreOfOneRoute
<1>. QED BY <1>2, RouterInvariant, PTL

\* An outcome given for one task is filed under a route of that task.
THEOREM OutcomesStay == RouterSpec => []OutcomeStaysWithItsTask
<1>1. ASSUME RInv, NEW p \in Submitted, NEW r \in Routes, route[r].state = "done",
             report[p].given = route[r].correlation
      PROVE  report[p].row.task = route[r].task
  <2> DEFINE row == report[p].row
  <2>1. row \in RoutedTasks /\ Remembers(row) /\ report[p].given \in {None, row.correlation}
    BY <1>1 DEF Submitted, RInv, RowsRemember, TypesHold, RouterTypeOK
  <2>2. ASSUME NEW s \in Routes, route[s].state = "done"
        PROVE  route[s].correlation # None /\ route[s].correlation.task = route[s].task
    BY <1>1, <2>2 DEF RInv, CorrelationsFit
  <2>. QED BY <1>1, <2>1, <2>2 DEF Remembers, RoutedTasks
<1>2. RInv => OutcomeStaysWithItsTask
  BY <1>1 DEF OutcomeStaysWithItsTask
<1>. QED BY <1>2, RouterInvariant, PTL

-----------------------------------------------------------------------------
(***************************************************************************)
(* The corpus: what is accepted as a corrective link, for any branch and   *)
(* citations, proved from the specification CorpusSpec of the commands.    *)
(***************************************************************************)

\* A set of natural numbers has a least one.
LEMMA LeastExists ==
  ASSUME NEW T \in SUBSET Nat, T # {}
  PROVE Min(T) \in T /\ \A y \in T : Min(T) <= y
<1> DEFINE Less == OpToRel(<, Nat)
<1>1. \E x \in T : \A y \in T : ~ (<<y, x>> \in Less)
  <2>1. IsWellFoundedOn(Less, Nat)
    BY NatLessThanWellFounded
  <2> HIDE DEF Less
  <2>. QED BY <2>1, WFMin
<1>2. \A x, y \in Nat : y < x => <<y, x>> \in Less
  BY DEF OpToRel
<1>3. PICK x \in T : \A y \in T : ~ (y < x)
  BY <1>1, <1>2
<1>4. \A y \in T : x <= y
  BY <1>3
<1>. QED BY <1>4 DEF Min

\* A bounded set of numbers has a greatest one.
LEMMA GreatestExists ==
  ASSUME NEW n \in Nat, NEW T \in SUBSET (1..n), T # {}
  PROVE Max(T) \in T /\ \A y \in T : Max(T) >= y
<1> DEFINE mirror == {n - x : x \in T}
<1>1. mirror \in SUBSET Nat /\ mirror # {}
  <2>1. \A x \in T : n - x \in Nat
    OBVIOUS
  <2>. QED BY <2>1
<1>2. PICK m \in mirror : \A y \in mirror : m <= y
  <2> HIDE DEF mirror
  <2>. QED BY <1>1, LeastExists
<1>3. PICK x \in T : m = n - x
  OBVIOUS
<1>4. \A y \in T : x >= y
  <2> TAKE y \in T
  <2>1. n - x <= n - y
    BY <1>2, <1>3
  <2>2. x \in 1..n /\ y \in 1..n
    OBVIOUS
  <2>. QED BY <2>1, <2>2
<1>. QED BY <1>4 DEF Max

-----------------------------------------------------------------------------
(***************************************************************************)
(* The corpus, of any branch, texts and files.                             *)
(***************************************************************************)
Messages == {Plain} \cup {change.says : change \in UNION {Arrivals[k] : k \in 0..MaxLandings}}

\* A commit of the branch.
Landings == [day : Nat, prs : SUBSET (Nat \ {0}), message : Messages, members : Nat]

\* The definitions of CorrectiveCorpus, of a branch h, texts t, cohort co and
\* references x that need not be those of the state.
FirstOf(h, n) == Min({i \in DOMAIN h : n \in h[i].prs})
SpanOf(h, from, until, last) == {i \in 1 .. last : h[i].day \in from .. until - 1}
RelandsOf(h, span, i) == \A n \in h[i].prs : \E j \in span : j < i /\ n \in h[j].prs
ClaimedOf(h, span, i) ==
  IF /\ h[i].members > 1 /\ i - 1 \in span /\ h[i - 1].prs = {} THEN {i - 1} ELSE {}
RecordOf(h, span, n) ==
  LET landings == {i \in span : n \in h[i].prs}
      first == Min(landings)
  IN [pr |-> n, sha |-> first, day |-> h[FirstOf(h, n)].day,
      members |-> ClaimedOf(h, span, first),
      relanded |-> {i \in landings \ {first} : RelandsOf(h, span, i)}]
RecordsOf(h, from, until, last) ==
  LET span == SpanOf(h, from, until, last)
  IN {RecordOf(h, span, n) : n \in UNION {h[i].prs : i \in span}}

\* The records a command makes are those of the branch, before and after a step.
LEMMA RecordsAre ==
  ASSUME NEW from, NEW until, NEW last
  PROVE /\ Records(from, until, last) = RecordsOf(history, from, until, last)
        /\ Records(from, until, last)' = RecordsOf(history', from, until, last)
BY DEF Records, RecordsOf, Record, RecordOf, Span, SpanOf, Relands, RelandsOf, Claimed, ClaimedOf,
       FirstLanding, FirstOf

\* The events of a branch.
RevertsOf(h, asOf, last) == {i \in SpanOf(h, 0, asOf, last) : h[i].message.kind = "revert"}
PrEventOf(h, t, last, held, r, asOf) ==
  [pr |-> r.pr, sha |-> r.sha, day |-> r.day,
   says |-> {t[r.pr]} \cup
     {h[i].message : i \in {c \in RevertsOf(h, asOf, last) : c = r.sha /\ EventOf(held, c) = r.pr}}]
CommitEventOf(h, i) == [pr |-> 0, sha |-> i, day |-> h[i].day, says |-> {h[i].message}]
EventsOf(h, t, last, held, asOf) ==
  {PrEventOf(h, t, last, held, r, asOf) : r \in held}
  \cup {CommitEventOf(h, i) : i \in {c \in RevertsOf(h, asOf, last) : EventOf(held, c) = 0}}

\* The events of a run are those of the branch, before and after a step.
LEMMA EventsAre ==
  ASSUME NEW held, NEW asOf
  PROVE /\ Events(held, asOf) = EventsOf(history, texts, synced, held, asOf)
        /\ Events(held, asOf)' = EventsOf(history', texts', synced', held, asOf)
BY DEF Events, EventsOf, PrEvent, PrEventOf, CommitEvent, CommitEventOf, RevertCommits, RevertsOf,
       Span, SpanOf, EventOf

\* What an event proposes to a cohort.
NamedOf(co, i) == TheOne({r \in co : i \in Shas(r)})
BlamedOf(co, i) == TheOne({r \in co : i \in Shas(r) \cup r.members})
CitersOf(co, x, i) == {r \in co : \E c \in x : c.issue = i /\ c.original = r.pr /\ c.day > r.day}
ReportedOf(co, x, i) == IF Cardinality(CitersOf(co, x, i)) > MaxIssueOriginals THEN {} ELSE CitersOf(co, x, i)
ProposedOf(co, x, e) ==
  LET cited == {m.of : m \in {n \in e.says : n.kind = "cite"}}
      fixes == {m \in e.says : m.kind = "fix"}
      reported == UNION {ReportedOf(co, x, m.issue) : m \in fixes}
      regressed == UNION {ReportedOf(co, x, m.issue) : m \in {n \in fixes : n.issue \in Regressions}}
  IN IF Reverts(e) # {} THEN (UNION {NamedOf(co, m.of) : m \in Reverts(e)}) \X {"revert"}
     ELSE ({r \in co : r.pr \in cited} \cup reported) \X {"repair_reference"}
          \cup regressed \X {"regression_issue"}
          \cup (UNION {BlamedOf(co, m.of) : m \in fixes}) \X {"szz"}

\* What an event proposes is to the cohort there is, before and after a step.
LEMMA ProposedIs ==
  ASSUME NEW e
  PROVE /\ Proposed(e) = ProposedOf(cohort, CrossReferences, e)
        /\ Proposed(e)' = ProposedOf(cohort', CrossReferences', e)
BY DEF Proposed, ProposedOf, Named, NamedOf, Blamed, BlamedOf, Reported, ReportedOf, Citers, CitersOf

\* The drafts of a branch.
ExcludedOf(t, e, r, proxy) ==
  (\E m \in e.says : m.excluded) \/ (proxy = "revert" /\ t[r.pr].kind = "revert")

DraftOf(t, e, p) ==
  [original |-> p[1].pr, fix |-> Fix(e), proxy |-> p[2], lag |-> e.day - p[1].day,
   on |-> e.day, rejected |-> ExcludedOf(t, e, p[1], p[2])]

DraftsOf(h, t, last, co, x, held, asOf) ==
  UNION {{DraftOf(t, e, p) : p \in {q \in ProposedOf(co, x, e) : InTime(q[1], e)}} :
           e \in EventsOf(h, t, last, held, asOf)}

\* The drafts of a run are those of the branch, before and after a step.
LEMMA DraftsAre ==
  ASSUME NEW held, NEW asOf
  PROVE /\ Drafts(held, asOf)
             = DraftsOf(history, texts, synced, cohort, CrossReferences, held, asOf)
        /\ Drafts(held, asOf)'
             = DraftsOf(history', texts', synced', cohort', CrossReferences', held, asOf)
BY EventsAre, ProposedIs DEF Drafts, DraftsOf, DraftOf, Excluded, ExcludedOf

-----------------------------------------------------------------------------
(***************************************************************************)
(* What a branch keeps to: a commit lands pull requests that have a text,  *)
(* and one whose message is a revert lands for the first time only what    *)
(* says the same.                                                          *)
(***************************************************************************)
FirstAt(h, i, n) == \A j \in DOMAIN h : j < i => n \notin h[j].prs

BranchOk(h, t) ==
  /\ h \in Seq(Landings) /\ t \in Seq(Messages)
  /\ \A i \in DOMAIN h : \A n \in h[i].prs :
       /\ n \in DOMAIN t
       /\ h[i].message.kind = "revert" /\ FirstAt(h, i, n) => h[i].message = t[n]

\* The pull request and the commit that are one fix or two.
TwofoldOf(h, fix) ==
  \E i \in DOMAIN h : \E n \in h[i].prs :
    /\ h[i].message.kind = "revert" /\ ~FirstAt(h, i, n)
    /\ fix \in {<<"pr", n>>, <<"commit", i>>}

\* They are those of the specification.
LEMMA TwofoldIs ==
  ASSUME BranchOk(history, texts), NEW fix
  PROVE Twofold(fix) <=> TwofoldOf(history, fix)
<1>1. ASSUME NEW i \in DOMAIN history, NEW n \in history[i].prs
      PROVE FirstLanding(n) # i <=> ~FirstAt(history, i, n)
  <2> DEFINE landings == {j \in DOMAIN history : n \in history[j].prs}
  <2>1. landings \in SUBSET Nat /\ i \in landings /\ DOMAIN history \subseteq Nat
    BY DEF BranchOk
  <2>2. FirstLanding(n) = Min(landings)
    BY DEF FirstLanding
  <2>3. FirstLanding(n) \in landings /\ \A j \in landings : FirstLanding(n) <= j
    <3> HIDE DEF landings
    <3>. QED BY <2>1, <2>2, LeastExists
  <2>4. FirstAt(history, i, n) <=> \A j \in landings : ~(j < i)
    BY DEF FirstAt
  <2> HIDE DEF landings
  <2>5. PICK v \in landings : FirstLanding(n) = v /\ \A j \in landings : v <= j
    BY <2>3
  <2>6. v \in Nat /\ i \in Nat /\ v <= i /\ \A j \in landings : j \in Nat
    BY <2>1, <2>5
  <2>7. v # i <=> ~FirstAt(history, i, n)
    <3>1. CASE v = i
      BY <2>4, <2>5, <2>6, <3>1
    <3>2. CASE v # i
      BY <2>4, <2>5, <2>6, <3>2
    <3>. QED BY <3>1, <3>2
  <2>. QED BY <2>5, <2>7
<1>. QED BY <1>1 DEF Twofold, TwofoldOf

\* Once twofold, always.
LEMMA TwofoldStays ==
  ASSUME NEW h, NEW t, BranchOk(h, t), NEW h2, NEW t2, BranchOk(h2, t2),
         DOMAIN h \subseteq DOMAIN h2, \A i \in DOMAIN h : h2[i] = h[i],
         NEW fix, TwofoldOf(h, fix)
  PROVE TwofoldOf(h2, fix)
<1>1. PICK i \in DOMAIN h : \E n \in h[i].prs :
        /\ h[i].message.kind = "revert" /\ ~FirstAt(h, i, n)
        /\ fix \in {<<"pr", n>>, <<"commit", i>>}
  BY DEF TwofoldOf
<1>2. \A n \in h[i].prs : ~FirstAt(h, i, n) => ~FirstAt(h2, i, n)
  BY DEF FirstAt
<1>3. i \in DOMAIN h2 /\ h2[i] = h[i]
  OBVIOUS
<1>. QED BY <1>1, <1>2, <1>3 DEF TwofoldOf

\* A record is of a pull request that has a text, which its commit landed.
RecordOk(h, t, r) ==
  /\ r.pr \in DOMAIN t /\ r.sha \in DOMAIN h
  /\ r.pr \in h[r.sha].prs

\* The records of a span are of pull requests that commits of the span landed.
LEMMA RecordsAreOk ==
  ASSUME NEW h, NEW t, BranchOk(h, t), NEW from \in Nat, NEW until \in Nat, NEW last \in 0 .. Len(h),
         NEW r \in RecordsOf(h, from, until, last)
  PROVE /\ RecordOk(h, t, r)
        /\ r.sha \in SpanOf(h, from, until, last)
<1> DEFINE span == SpanOf(h, from, until, last)
<1>0. span \subseteq 1 .. last /\ span \subseteq DOMAIN h /\ DOMAIN h = 1 .. Len(h) /\ Len(h) \in Nat
  BY DEF BranchOk, SpanOf
<1>1. PICK n \in UNION {h[i].prs : i \in span} : r = RecordOf(h, span, n)
  BY DEF RecordsOf
<1> DEFINE landings == {i \in span : n \in h[i].prs}
<1>2. landings # {} /\ landings \in SUBSET Nat
  BY <1>0
<1>3. Min(landings) \in landings
  <2> HIDE DEF landings
  <2>. QED BY <1>2, LeastExists
<1>4. r.pr = n /\ r.sha = Min(landings)
  BY <1>1 DEF RecordOf
<1>5. n \in DOMAIN t
  BY <1>0, <1>1 DEF BranchOk
<1>. QED BY <1>0, <1>3, <1>4, <1>5 DEF RecordOk

\* The event of a pull request: its commit's message, a revert, is its own text.
OwnEvent(t, r) == [pr |-> r.pr, sha |-> r.sha, day |-> r.day, says |-> {t[r.pr]}]

\* What a pull request says itself, and a commit of no record.
SaidOf(h, t, last, held, asOf) ==
  {OwnEvent(t, r) : r \in held}
  \cup {CommitEventOf(h, i) : i \in {c \in RevertsOf(h, asOf, last) : EventOf(held, c) = 0}}

\* But for twofold fixes, an event says one thing.
LEMMA EventsSay ==
  ASSUME NEW h, NEW t, BranchOk(h, t), NEW last \in 0 .. Len(h), NEW asOf, NEW held,
         \A r \in held : RecordOk(h, t, r), NEW e, ~TwofoldOf(h, Fix(e))
  PROVE e \in EventsOf(h, t, last, held, asOf) <=> e \in SaidOf(h, t, last, held, asOf)
<1>1. ASSUME NEW r \in held, ~TwofoldOf(h, <<"pr", r.pr>>)
      PROVE PrEventOf(h, t, last, held, r, asOf) = OwnEvent(t, r)
  <2> DEFINE said == {h[i].message :
                        i \in {c \in RevertsOf(h, asOf, last) : c = r.sha /\ EventOf(held, c) = r.pr}}
  <2>1. RecordOk(h, t, r) /\ r.sha \in DOMAIN h /\ r.pr \in h[r.sha].prs
    BY DEF RecordOk
  <2>2. h[r.sha].message.kind = "revert" => FirstAt(h, r.sha, r.pr)
    BY <1>1, <2>1 DEF TwofoldOf
  <2>3. h[r.sha].message.kind = "revert" => h[r.sha].message = t[r.pr]
    BY <2>1, <2>2 DEF BranchOk
  <2>4. \A m \in said : m = t[r.pr]
    BY <2>3 DEF RevertsOf
  <2>5. {t[r.pr]} \cup said = {t[r.pr]}
    <3> HIDE DEF said
    <3>. QED BY <2>4
  <2>. QED BY <2>5 DEF PrEventOf, OwnEvent
<1>2. ASSUME NEW r \in held
      PROVE /\ Fix(PrEventOf(h, t, last, held, r, asOf)) = <<"pr", r.pr>>
            /\ Fix(OwnEvent(t, r)) = <<"pr", r.pr>>
  <2>1. r.pr # 0
    BY DEF RecordOk, BranchOk
  <2>. QED BY <2>1 DEF PrEventOf, OwnEvent, Fix
<1>3. (\E r \in held : e = PrEventOf(h, t, last, held, r, asOf)) <=> (\E r \in held : e = OwnEvent(t, r))
  BY <1>1, <1>2
<1>. QED BY <1>3 DEF EventsOf, SaidOf

\* What an event proposes are records of the cohort, and a proxy.
LEMMA ProposedAreOfCohort ==
  ASSUME NEW co, NEW x, NEW e, NEW q \in ProposedOf(co, x, e)
  PROVE q[1] \in co /\ q = <<q[1], q[2]>>
<1>1. \A i : NamedOf(co, i) \subseteq co /\ BlamedOf(co, i) \subseteq co
  BY DEF NamedOf, BlamedOf, TheOne
<1>2. \A i : ReportedOf(co, x, i) \subseteq co
  BY DEF ReportedOf, CitersOf
<1> DEFINE fixes == {m \in e.says : m.kind = "fix"}
           cited == {m.of : m \in {n \in e.says : n.kind = "cite"}}
           reported == UNION {ReportedOf(co, x, m.issue) : m \in fixes}
           regressed == UNION {ReportedOf(co, x, m.issue) : m \in {n \in fixes : n.issue \in Regressions}}
           blamed == UNION {BlamedOf(co, m.of) : m \in fixes}
           named == UNION {NamedOf(co, m.of) : m \in Reverts(e)}
           quoted == {r \in co : r.pr \in cited} \cup reported
<1>3. /\ reported \subseteq co /\ regressed \subseteq co /\ blamed \subseteq co
      /\ named \subseteq co /\ quoted \subseteq co
  BY <1>1, <1>2
<1>4. \/ q \in named \X {"revert"}
      \/ q \in quoted \X {"repair_reference"}
      \/ q \in regressed \X {"regression_issue"}
      \/ q \in blamed \X {"szz"}
  BY DEF ProposedOf
<1> HIDE DEF fixes, cited, reported, regressed, blamed, named, quoted
<1>. QED BY <1>3, <1>4

-----------------------------------------------------------------------------
(***************************************************************************)
(* Drafts as the branch, the texts, the clone, the cut-off and the fix     *)
(* sources grow.                                                           *)
(***************************************************************************)
Extended(f, g) == /\ DOMAIN f \subseteq DOMAIN g
                  /\ \A i \in DOMAIN f : g[i] = f[i]

\* What is found anew is of commits from the cut-off on.
AddsLater(h, old, new, asOf) ==
  /\ old \subseteq new
  /\ \A r \in new \ old : h[r.sha].day >= asOf

\* An event stays an event: its text, and the records its commit is of, stay.
LEMMA EventsGrow ==
  ASSUME NEW h, NEW t, BranchOk(h, t), NEW h2, NEW t2, BranchOk(h2, t2),
         Extended(h, h2), Extended(t, t2),
         NEW last \in 0 .. Len(h), NEW last2 \in 0 .. Len(h2), last <= last2,
         NEW asOf \in Nat, NEW asOf2 \in Nat, asOf <= asOf2,
         NEW held, NEW held2, AddsLater(h2, held, held2, asOf),
         \A r \in held : RecordOk(h, t, r),
         \A r \in held2 : RecordOk(h2, t2, r)
  PROVE \A e \in EventsOf(h, t, last, held, asOf) :
          ~TwofoldOf(h2, Fix(e)) => e \in EventsOf(h2, t2, last2, held2, asOf2)
<1>1. \A r \in held : r \in held2 /\ OwnEvent(t2, r) = OwnEvent(t, r)
  BY DEF AddsLater, RecordOk, Extended, OwnEvent
<1>2. ASSUME NEW i \in RevertsOf(h, asOf, last), EventOf(held, i) = 0
      PROVE /\ i \in RevertsOf(h2, asOf2, last2)
            /\ EventOf(held2, i) = 0
            /\ CommitEventOf(h2, i) = CommitEventOf(h, i)
  <2>0. h \in Seq(Landings)
    BY DEF BranchOk
  <2>1. /\ i \in 1 .. last /\ i \in DOMAIN h /\ h2[i] = h[i] /\ i \in 1 .. last2
        /\ h[i].day \in Nat /\ h[i].day < asOf /\ h[i].message.kind = "revert"
    <3>1. /\ i \in 1 .. last /\ h[i].day \in 0 .. asOf - 1 /\ h[i].message.kind = "revert"
      BY <1>2 DEF RevertsOf, SpanOf
    <3>2. i \in DOMAIN h /\ i \in 1 .. last2
      BY <2>0, <3>1
    <3>3. h2[i] = h[i]
      BY <3>2 DEF Extended
    <3>. QED BY <3>1, <3>2, <3>3
  <2>2. i \in RevertsOf(h2, asOf2, last2)
    BY <2>1 DEF RevertsOf, SpanOf
  <2>3. {q \in held2 : q.sha = i} = {q \in held : q.sha = i}
    BY <2>1 DEF AddsLater
  <2>4. EventOf(held2, i) = EventOf(held, i)
    BY <2>3 DEF EventOf
  <2>. QED BY <1>2, <2>1, <2>2, <2>4 DEF CommitEventOf
<1>3. SaidOf(h, t, last, held, asOf) \subseteq SaidOf(h2, t2, last2, held2, asOf2)
  BY <1>1, <1>2 DEF SaidOf
<1>4. ASSUME NEW e \in EventsOf(h, t, last, held, asOf), ~TwofoldOf(h2, Fix(e))
      PROVE e \in EventsOf(h2, t2, last2, held2, asOf2)
  <2>1. ~TwofoldOf(h, Fix(e))
    BY <1>4, TwofoldStays DEF Extended
  <2>2. e \in SaidOf(h, t, last, held, asOf)
    BY <1>4, <2>1, EventsSay
  <2>. QED BY <1>3, <1>4, <2>2, EventsSay
<1>. QED BY <1>4

\* A draft stays a draft, as it was, but for twofold fixes.
LEMMA DraftsGrow ==
  ASSUME NEW h, NEW t, BranchOk(h, t), NEW h2, NEW t2, BranchOk(h2, t2),
         Extended(h, h2), Extended(t, t2),
         NEW last \in 0 .. Len(h), NEW last2 \in 0 .. Len(h2), last <= last2,
         NEW asOf \in Nat, NEW asOf2 \in Nat, asOf <= asOf2,
         NEW held, NEW held2, AddsLater(h2, held, held2, asOf),
         \A r \in held : RecordOk(h, t, r),
         \A r \in held2 : RecordOk(h2, t2, r),
         NEW co, NEW x, co \subseteq held
  PROVE \A d \in DraftsOf(h, t, last, co, x, held, asOf) :
          ~TwofoldOf(h2, d.fix) => d \in DraftsOf(h2, t2, last2, co, x, held2, asOf2)
<1>1. \A e \in EventsOf(h, t, last, held, asOf) :
        ~TwofoldOf(h2, Fix(e)) => e \in EventsOf(h2, t2, last2, held2, asOf2)
  BY EventsGrow
<1>2. ASSUME NEW e, NEW q \in ProposedOf(co, x, e)
      PROVE DraftOf(t2, e, q) = DraftOf(t, e, q)
  <2>1. q[1] \in co
    BY ProposedAreOfCohort
  <2>2. t2[q[1].pr] = t[q[1].pr]
    BY <2>1 DEF RecordOk, Extended
  <2>3. ExcludedOf(t2, e, q[1], q[2]) = ExcludedOf(t, e, q[1], q[2])
    BY <2>2 DEF ExcludedOf
  <2>. QED BY <2>3 DEF DraftOf
<1>3. SUFFICES ASSUME NEW d \in DraftsOf(h, t, last, co, x, held, asOf), ~TwofoldOf(h2, d.fix)
               PROVE d \in DraftsOf(h2, t2, last2, co, x, held2, asOf2)
  OBVIOUS
<1>4. PICK e \in EventsOf(h, t, last, held, asOf) :
        \E q \in ProposedOf(co, x, e) : InTime(q[1], e) /\ d = DraftOf(t, e, q)
  BY <1>3 DEF DraftsOf
<1>5. PICK q \in ProposedOf(co, x, e) : InTime(q[1], e) /\ d = DraftOf(t, e, q)
  BY <1>4
<1>6. d.fix = Fix(e)
  BY <1>5 DEF DraftOf
<1>7. e \in EventsOf(h2, t2, last2, held2, asOf2)
  BY <1>1, <1>3, <1>6
<1>. QED BY <1>2, <1>5, <1>7 DEF DraftsOf

\* Of two events of one fix, each says what the other does, but of twofold ones.
LEMMA OneSaying ==
  ASSUME NEW h, NEW t, BranchOk(h, t), NEW last \in 0 .. Len(h), NEW asOf, NEW held,
         \A r \in held : RecordOk(h, t, r),
         NEW e \in EventsOf(h, t, last, held, asOf), NEW f \in EventsOf(h, t, last, held, asOf),
         Fix(e) = Fix(f), ~TwofoldOf(h, Fix(e))
  PROVE e.says = f.says
<1>1. ASSUME NEW g \in SaidOf(h, t, last, held, asOf)
      PROVE \/ g.pr # 0 /\ g.says = {t[g.pr]}
            \/ g.pr = 0 /\ g.says = {h[g.sha].message}
  <2>1. CASE \E r \in held : g = OwnEvent(t, r)
    BY <2>1 DEF OwnEvent, RecordOk, BranchOk
  <2>2. CASE \E i \in RevertsOf(h, asOf, last) : g = CommitEventOf(h, i)
    BY <2>2 DEF CommitEventOf
  <2>. QED BY <2>1, <2>2 DEF SaidOf
<1>2. e \in SaidOf(h, t, last, held, asOf) /\ f \in SaidOf(h, t, last, held, asOf)
  BY EventsSay
<1>. QED BY <1>1, <1>2 DEF Fix

\* Of two drafts with one identity, both are rejected or neither, but of twofold
\* fixes.
LEMMA OneVerdict ==
  ASSUME NEW h, NEW t, BranchOk(h, t), NEW last \in 0 .. Len(h), NEW asOf, NEW held,
         \A r \in held : RecordOk(h, t, r), NEW co, NEW x,
         NEW c \in DraftsOf(h, t, last, co, x, held, asOf),
         NEW d \in DraftsOf(h, t, last, co, x, held, asOf), Id(c) = Id(d),
         ~TwofoldOf(h, c.fix)
  PROVE c.rejected = d.rejected
<1>1. PICK e \in EventsOf(h, t, last, held, asOf) :
        \E q \in ProposedOf(co, x, e) : InTime(q[1], e) /\ c = DraftOf(t, e, q)
  BY DEF DraftsOf
<1>2. PICK q \in ProposedOf(co, x, e) : c = DraftOf(t, e, q)
  BY <1>1
<1>3. PICK f \in EventsOf(h, t, last, held, asOf) :
        \E p \in ProposedOf(co, x, f) : InTime(p[1], f) /\ d = DraftOf(t, f, p)
  BY DEF DraftsOf
<1>4. PICK p \in ProposedOf(co, x, f) : d = DraftOf(t, f, p)
  BY <1>3
<1>5. Fix(e) = Fix(f) /\ q[1].pr = p[1].pr /\ q[2] = p[2] /\ c.fix = Fix(e)
  BY <1>2, <1>4 DEF DraftOf, Id
<1>6. e.says = f.says
  BY <1>5, OneSaying
<1>7. ExcludedOf(t, e, q[1], q[2]) = ExcludedOf(t, f, p[1], p[2])
  BY <1>5, <1>6 DEF ExcludedOf
<1>. QED BY <1>2, <1>4, <1>7 DEF DraftOf

-----------------------------------------------------------------------------
(***************************************************************************)
(* The invariant of the commands.                                          *)
(***************************************************************************)
Citings == [issue : Issues, original : Nat, day : Nat]

\* Records as a file holds them.
FileRecords == [pr : Nat, sha : Nat, day : Nat, members : SUBSET Nat, relanded : SUBSET Nat]

\* No file holds what stands for a file not written yet.
UnreadIsNoFile == Unread \notin SUBSET Citings /\ Unread \notin SUBSET FileRecords

\* Every text is of a pull request that landed.
AllLanded(h, t) == \A n \in DOMAIN t : \E i \in DOMAIN h : n \in h[i].prs

\* The branch, and citations by number.
WorldInv ==
  /\ day \in Nat /\ citations \in SUBSET Citings
  /\ BranchOk(history, texts) /\ AllLanded(history, texts)

\* The fix sources there are.
Fixed == IF fixPrs = Unread THEN {} ELSE fixPrs

\* The cohort is closed: later commits are of later days.  Each file is there
\* only when those it is made from are.
CacheInv ==
  /\ synced \in 0 .. Len(history)
  /\ cohort # Unread => day >= Until /\ cohort = RecordsOf(history, 0, Until, Len(history))
  /\ base # Unread => cohort # Unread /\ xrefs # Unread
  /\ \A r \in Fixed : RecordOk(history, texts, r) /\ history[r.sha].day >= Until

\* An accepted candidate would be drafted again, unless its fix is twofold, and a
\* row that is true has one.
FoundOk(h, f, co, drafts) ==
  /\ \A c \in Accepted(f.candidates) : TwofoldOf(h, c.fix) \/ c \in drafts
  /\ DOMAIN f.rows = {r.pr : r \in co}
  /\ \A n \in DOMAIN f.rows : \A k \in Spans :
       f.rows[n][k] = "true" => \E c \in Accepted(f.candidates) : c.original = n /\ c.lag <= k

\* What was found is found of files there are.
FoundInv ==
  found # Unread =>
    /\ cohort # Unread /\ xrefs # Unread
    /\ found.asOf \in Nat /\ (fixPrs = Unread => found.asOf <= Until)
    /\ FoundOk(history, found, cohort,
               DraftsOf(history, texts, synced, cohort, xrefs, cohort \cup Fixed, found.asOf))

CorpusInv == WorldInv /\ CacheInv /\ FoundInv

\* The records of a span are the same on a branch that later commits extend.
LEMMA RecordsOfSpan ==
  ASSUME NEW h, NEW t, BranchOk(h, t), NEW h2, NEW t2, BranchOk(h2, t2), Extended(h, h2),
         NEW from, NEW until, NEW last, NEW last2,
         SpanOf(h2, from, until, last2) = SpanOf(h, from, until, last),
         SpanOf(h, from, until, last) \subseteq DOMAIN h
  PROVE RecordsOf(h2, from, until, last2) = RecordsOf(h, from, until, last)
<1>0. h \in Seq(Landings) /\ h2 \in Seq(Landings)
  BY DEF BranchOk
<1>1. /\ Len(h) \in Nat /\ DOMAIN h = 1 .. Len(h) /\ Len(h2) \in Nat /\ DOMAIN h2 = 1 .. Len(h2)
      /\ \A i \in DOMAIN h : h2[i] = h[i] /\ i \in DOMAIN h2
  BY <1>0 DEF Extended
<1> DEFINE span == SpanOf(h, from, until, last)
<1>2. SpanOf(h2, from, until, last2) = span
  OBVIOUS
<1>3. \A i \in span : i \in DOMAIN h /\ h2[i] = h[i]
  BY <1>1
<1> HIDE DEF span
<1>4. ASSUME NEW n \in UNION {h[i].prs : i \in span}
      PROVE h2[FirstOf(h2, n)].day = h[FirstOf(h, n)].day
  <2> DEFINE a == {i \in DOMAIN h : n \in h[i].prs}
             b == {i \in DOMAIN h2 : n \in h2[i].prs}
  <2>1. a # {} /\ a \in SUBSET Nat /\ b # {} /\ b \in SUBSET Nat /\ a \subseteq b
    BY <1>1, <1>3
  <2>2. \A i \in b : i \notin a => i > Len(h)
    BY <1>1
  <2>3. \A i \in a : i <= Len(h) /\ i \in DOMAIN h
    BY <1>1
  <2> HIDE DEF a, b
  <2>4. Min(a) \in a /\ \A y \in a : Min(a) <= y
    BY <2>1, LeastExists
  <2>5. Min(b) \in b /\ \A y \in b : Min(b) <= y
    BY <2>1, LeastExists
  <2>5a. PICK u, v \in Nat : /\ u = Min(a) /\ u \in a /\ \A y \in a : u <= y
                             /\ v = Min(b) /\ v \in b /\ \A y \in b : v <= y
    BY <2>1, <2>4, <2>5
  <2>6. v \in a
    BY <1>1, <2>1, <2>2, <2>3, <2>5a
  <2>7. Min(a) = Min(b)
    <3>1. u <= v /\ v <= u
      BY <2>1, <2>5a, <2>6
    <3>. QED BY <2>5a, <3>1
  <2>8. FirstOf(h, n) = Min(a) /\ FirstOf(h2, n) = Min(b)
    BY DEF FirstOf, a, b
  <2>. QED BY <1>1, <2>3, <2>4, <2>7, <2>8
<1>5. ASSUME NEW n \in UNION {h[i].prs : i \in span}
      PROVE RecordOf(h2, span, n) = RecordOf(h, span, n)
  <2> DEFINE landings == {i \in span : n \in h[i].prs}
  <2>1. {i \in span : n \in h2[i].prs} = landings
    BY <1>3
  <2>2. landings # {} /\ landings \in SUBSET Nat
    BY <1>1, <1>3
  <2>3. Min(landings) \in landings
    <3> HIDE DEF landings
    <3>. QED BY <2>2, LeastExists
  <2>4. ClaimedOf(h2, span, Min(landings)) = ClaimedOf(h, span, Min(landings))
    BY <1>3, <2>3 DEF ClaimedOf
  <2>5. \A i \in span : RelandsOf(h2, span, i) = RelandsOf(h, span, i)
    <3>. QED BY <1>3 DEF RelandsOf
  <2>6. {i \in landings \ {Min(landings)} : RelandsOf(h2, span, i)}
          = {i \in landings \ {Min(landings)} : RelandsOf(h, span, i)}
    BY <2>5
  <2>. QED BY <1>4, <2>1, <2>4, <2>6 DEF RecordOf
<1>6. {h2[i].prs : i \in span} = {h[i].prs : i \in span}
  BY <1>3
<1>. QED BY <1>2, <1>5, <1>6 DEF RecordsOf, span

\* A branch that later commits extend.
LEMMA RecordsOfExtended ==
  ASSUME NEW h, NEW t, BranchOk(h, t), NEW h2, NEW t2, BranchOk(h2, t2), Extended(h, h2),
         NEW until \in Nat, \A i \in DOMAIN h2 : i \notin DOMAIN h => h2[i].day >= until
  PROVE RecordsOf(h2, 0, until, Len(h2)) = RecordsOf(h, 0, until, Len(h))
<1>0. h \in Seq(Landings) /\ h2 \in Seq(Landings)
  BY DEF BranchOk
<1>1. /\ Len(h) \in Nat /\ DOMAIN h = 1 .. Len(h) /\ Len(h2) \in Nat /\ DOMAIN h2 = 1 .. Len(h2)
      /\ \A i \in DOMAIN h : h2[i] = h[i] /\ i \in DOMAIN h2
  BY <1>0 DEF Extended
<1>1a. \A i \in DOMAIN h2 : h2[i].day \in Nat
  <2>1. \A i \in DOMAIN h2 : h2[i] \in Landings
    BY <1>0
  <2>. QED BY <2>1 DEF Landings
<1> DEFINE span == SpanOf(h, 0, until, Len(h))
<1>2. SpanOf(h2, 0, until, Len(h2)) = span
  <2>1. ASSUME NEW i \in SpanOf(h2, 0, until, Len(h2)) PROVE i \in span
    <3>1. i \in DOMAIN h2 /\ h2[i].day < until
      BY <1>1, <1>1a DEF SpanOf
    <3>. QED BY <1>1, <1>1a, <3>1 DEF SpanOf
  <2>2. ASSUME NEW i \in span PROVE i \in SpanOf(h2, 0, until, Len(h2))
    BY <1>1 DEF SpanOf
  <2>. QED BY <2>1, <2>2
<1>3. span \subseteq DOMAIN h
  BY <1>1 DEF SpanOf
<1>. QED BY <1>2, <1>3, RecordsOfSpan

\* The records of the commits a clone had are those they were.
LEMMA RecordsOfClone ==
  ASSUME NEW h, NEW t, BranchOk(h, t), NEW h2, NEW t2, BranchOk(h2, t2), Extended(h, h2),
         NEW from, NEW until, NEW last \in 0 .. Len(h)
  PROVE RecordsOf(h2, from, until, last) = RecordsOf(h, from, until, last)
<1>1. h \in Seq(Landings)
  BY DEF BranchOk
<1>2. \A i \in 1 .. last : i \in DOMAIN h /\ h2[i] = h[i]
  BY <1>1 DEF Extended
<1>3. SpanOf(h2, from, until, last) = SpanOf(h, from, until, last)
  BY <1>2 DEF SpanOf
<1>4. SpanOf(h, from, until, last) \subseteq DOMAIN h
  BY <1>2 DEF SpanOf
<1>. QED BY <1>3, <1>4, RecordsOfSpan

\* The records of a branch are records of a file.
LEMMA RecordsTyped ==
  ASSUME NEW h, NEW t, BranchOk(h, t), NEW from \in Nat, NEW until \in Nat, NEW last \in 0 .. Len(h)
  PROVE RecordsOf(h, from, until, last) \in SUBSET FileRecords
<1> DEFINE span == SpanOf(h, from, until, last)
<1>0. h \in Seq(Landings)
  BY DEF BranchOk
<1>1. span \subseteq Nat /\ span \subseteq DOMAIN h /\ DOMAIN h \subseteq Nat
  BY <1>0 DEF SpanOf
<1>2. \A i \in DOMAIN h : h[i].day \in Nat /\ h[i].prs \subseteq Nat
  <2>1. \A i \in DOMAIN h : h[i] \in Landings
    BY <1>0
  <2>. QED BY <2>1 DEF Landings
<1>3. ASSUME NEW n \in UNION {h[i].prs : i \in span} PROVE RecordOf(h, span, n) \in FileRecords
  <2> DEFINE landings == {i \in span : n \in h[i].prs}
             all == {i \in DOMAIN h : n \in h[i].prs}
  <2>1. landings # {} /\ landings \in SUBSET Nat /\ all # {} /\ all \in SUBSET Nat
    BY <1>1
  <2>2. Min(landings) \in landings /\ Min(all) \in all
    <3> HIDE DEF landings, all
    <3>. QED BY <2>1, LeastExists
  <2>3. n \in Nat /\ Min(landings) \in Nat /\ h[FirstOf(h, n)].day \in Nat
    BY <1>1, <1>2, <2>2 DEF FirstOf
  <2>4. ClaimedOf(h, span, Min(landings)) \subseteq Nat
    <3> HIDE DEF span
    <3>. QED BY <1>1 DEF ClaimedOf
  <2>5. {i \in landings \ {Min(landings)} : RelandsOf(h, span, i)} \subseteq Nat
    BY <2>1
  <2> HIDE DEF span
  <2>. QED BY <2>3, <2>4, <2>5 DEF RecordOf, FileRecords
<1> HIDE DEF span
<1>. QED BY <1>3 DEF RecordsOf, span

-----------------------------------------------------------------------------
(***************************************************************************)
(* The branch grows.                                                       *)
(***************************************************************************)
\* A list of one or of two.
LEMMA ListOfOne ==
  ASSUME NEW S, NEW c \in S
  PROVE /\ <<c>> \in Seq(S) /\ Len(<<c>>) = 1
        /\ \A j \in DOMAIN <<c>> : <<c>>[j] = c
OBVIOUS

\* A list of two.
LEMMA ListOfTwo ==
  ASSUME NEW S, NEW b \in S, NEW c \in S
  PROVE /\ <<b, c>> \in Seq(S) /\ Len(<<b, c>>) = 2
        /\ \A j \in DOMAIN <<b, c>> : <<b, c>>[j] = b \/ <<b, c>>[j] = c
<1>1. <<b, c>> \in Seq(S) /\ Len(<<b, c>>) = 2 /\ <<b, c>>[1] = b /\ <<b, c>>[2] = c
  OBVIOUS
<1>2. DOMAIN <<b, c>> = {1, 2}
  OBVIOUS
<1>. QED BY <1>1, <1>2

\* A commit of today, of pull requests that have a text; a revert says theirs, or
\* they have landed before.
Fits(h, c, t, today) ==
  /\ c.day = today
  /\ \A n \in c.prs :
       /\ n \in DOMAIN t
       /\ c.message.kind = "revert" => c.message = t[n] \/ \E j \in DOMAIN h : n \in h[j].prs

\* A branch that fitting commits extend is one.
LEMMA Pushed ==
  ASSUME NEW h, NEW t, BranchOk(h, t), NEW commits \in Seq(Landings), NEW said \in Seq(Messages),
         NEW today, \A j \in DOMAIN commits : Fits(h, commits[j], t \o said, today)
  PROVE /\ BranchOk(h \o commits, t \o said)
        /\ Extended(h, h \o commits) /\ Extended(t, t \o said)
        /\ \A i \in DOMAIN (h \o commits) : i \notin DOMAIN h => (h \o commits)[i].day = today
<1>0. h \in Seq(Landings) /\ t \in Seq(Messages)
  BY DEF BranchOk
<1>1. /\ h \o commits \in Seq(Landings) /\ t \o said \in Seq(Messages)
      /\ Extended(h, h \o commits) /\ Extended(t, t \o said)
  BY <1>0 DEF Extended
<1>2. \A i \in DOMAIN (h \o commits) :
        IF i \in DOMAIN h THEN (h \o commits)[i] = h[i]
        ELSE i - Len(h) \in DOMAIN commits /\ (h \o commits)[i] = commits[i - Len(h)]
  BY <1>0
<1>3. \A n \in DOMAIN t : n \in DOMAIN (t \o said) /\ (t \o said)[n] = t[n]
  BY <1>1 DEF Extended
<1>4. ASSUME NEW i \in DOMAIN (h \o commits), NEW n \in (h \o commits)[i].prs
      PROVE /\ n \in DOMAIN (t \o said)
            /\ (h \o commits)[i].message.kind = "revert" /\ FirstAt(h \o commits, i, n) =>
                 (h \o commits)[i].message = (t \o said)[n]
  <2>1. /\ DOMAIN h \subseteq DOMAIN (h \o commits) /\ DOMAIN h = 1 .. Len(h) /\ Len(h) \in Nat
        /\ \A j \in DOMAIN h : (h \o commits)[j] = h[j]
    BY <1>0, <1>1 DEF Extended
  <2>2. CASE i \in DOMAIN h
    <3>1. n \in h[i].prs /\ (h \o commits)[i] = h[i]
      BY <1>4, <2>1, <2>2
    <3>2. FirstAt(h \o commits, i, n) => FirstAt(h, i, n)
      BY <2>1 DEF FirstAt
    <3>. QED BY <1>3, <2>2, <3>1, <3>2 DEF BranchOk
  <2>3. CASE i \notin DOMAIN h
    <3>1. /\ i - Len(h) \in DOMAIN commits /\ (h \o commits)[i] = commits[i - Len(h)]
          /\ i \in Nat /\ \A j \in DOMAIN h : j < i
      <4>1. i \in 1 .. Len(h \o commits)
        BY <1>1
      <4>2. \A j \in DOMAIN h : j < i
        BY <2>1, <2>3, <4>1
      <4>. QED BY <1>2, <2>3, <4>1, <4>2
    <3>2. FirstAt(h \o commits, i, n) => ~ \E j \in DOMAIN h : n \in h[j].prs
      BY <2>1, <3>1 DEF FirstAt
    <3>. QED BY <1>4, <3>1, <3>2 DEF Fits
  <2>. QED BY <2>2, <2>3
<1>5. \A i \in DOMAIN (h \o commits) : i \notin DOMAIN h => (h \o commits)[i].day = today
  BY <1>2 DEF Fits
<1>. QED BY <1>1, <1>4, <1>5 DEF BranchOk

\* A change lands as commits of today, each of the pull requests it adds or of
\* one there is.
LEMMA ChangeLands ==
  ASSUME WorldInv, LandChange
  PROVE /\ BranchOk(history', texts') /\ AllLanded(history', texts')
        /\ Extended(history, history') /\ Extended(texts, texts')
        /\ \A i \in DOMAIN history' : i \notin DOMAIN history => history'[i].day = day
        /\ UNCHANGED <<day, citations, cacheVars>>
<1>0. BranchOk(history, texts) /\ day \in Nat /\ history \in Seq(Landings) /\ texts \in Seq(Messages)
  BY DEF WorldInv, BranchOk
<1>1. PICK change \in Arrivals[Len(history)] : LET m == change.says IN
        \/ change.how = "squash" /\ Push(<<Landed({NextPr}, m, 1)>>, <<m>>)
        \/ change.how = "rebase" /\ Push(<<Landed({}, m, 1), Landed({NextPr}, Plain, 2)>>, <<Plain>>)
        \/ change.how = "batch" /\ Push(<<Landed({NextPr, NextPr + 1}, Plain, 1)>>, <<m, Plain>>)
        \/ change.how = "push" /\ Push(<<Landed({}, m, 1)>>, <<>>)
        \/ change.how = "again" /\ \E n \in DOMAIN texts : Push(<<Landed({n}, m, 1)>>, <<>>)
  BY DEF LandChange
<1> DEFINE m == change.says
<1>2. MaxLandings \in Nat
  BY CorpusAssumption
<1>3. ASSUME NEW commits, NEW said, Push(commits, said)
      PROVE /\ Len(history) + Len(commits) <= MaxLandings
            /\ history' = history \o commits /\ texts' = texts \o said
            /\ UNCHANGED <<day, citations, cacheVars>>
  BY <1>3 DEF Push
<1>4. ASSUME NEW commits, NEW said, Push(commits, said), commits \in Seq(Landings), said \in Seq(Messages),
             \A j \in DOMAIN commits : Fits(history, commits[j], texts \o said, day),
             \A n \in DOMAIN (texts \o said) : n \in DOMAIN texts \/ \E j \in DOMAIN commits : n \in commits[j].prs
      PROVE /\ BranchOk(history', texts') /\ AllLanded(history', texts')
            /\ Extended(history, history') /\ Extended(texts, texts')
            /\ \A i \in DOMAIN history' : i \notin DOMAIN history => history'[i].day = day
            /\ UNCHANGED <<day, citations, cacheVars>>
  <2>1. /\ BranchOk(history \o commits, texts \o said)
        /\ Extended(history, history \o commits) /\ Extended(texts, texts \o said)
        /\ \A i \in DOMAIN (history \o commits) : i \notin DOMAIN history => (history \o commits)[i].day = day
    BY <1>0, <1>4, Pushed
  <2>2. /\ history' = history \o commits /\ texts' = texts \o said
        /\ UNCHANGED <<day, citations, cacheVars>>
    BY <1>3, <1>4
  <2>3. /\ \A i \in DOMAIN history : i \in DOMAIN (history \o commits)
        /\ \A j \in DOMAIN commits : /\ Len(history) + j \in DOMAIN (history \o commits)
                                   /\ (history \o commits)[Len(history) + j] = commits[j]
    BY <1>0, <1>4
  <2>4. AllLanded(history \o commits, texts \o said)
    <3>1. AllLanded(history, texts) /\ \A i \in DOMAIN history : (history \o commits)[i] = history[i]
      BY <2>1 DEF WorldInv, Extended
    <3>. QED BY <1>4, <2>3, <3>1 DEF AllLanded
  <2>. QED BY <2>1, <2>2, <2>4
<1>4a. ASSUME NEW c \in Landings, NEW said \in Seq(Messages), Push(<<c>>, said),
              Fits(history, c, texts \o said, day),
              \A n \in DOMAIN (texts \o said) : n \in DOMAIN texts \/ n \in c.prs
       PROVE /\ BranchOk(history', texts') /\ AllLanded(history', texts')
             /\ Extended(history, history') /\ Extended(texts, texts')
             /\ \A i \in DOMAIN history' : i \notin DOMAIN history => history'[i].day = day
             /\ UNCHANGED <<day, citations, cacheVars>>
  <2>1. /\ <<c>> \in Seq(Landings) /\ \A j \in DOMAIN <<c>> : Fits(history, <<c>>[j], texts \o said, day)
        /\ 1 \in DOMAIN <<c>> /\ <<c>>[1] = c
    BY <1>4a, ListOfOne
  <2>. QED BY <1>4, <1>4a, <2>1
<1>5. Len(history) \in 0 .. MaxLandings
  <2>1. \A commits, said : Push(commits, said) => Len(history) + Len(commits) <= MaxLandings
    BY <1>3
  <2>2. \A a, b : Len(<<a>>) = 1 /\ Len(<<a, b>>) = 2
    <3>1. ASSUME NEW a, NEW b PROVE Len(<<a>>) = 1 /\ Len(<<a, b>>) = 2
      BY ListOfOne, ListOfTwo
    <3>. QED BY <3>1
  <2>3. \E n \in Nat : Len(history) + n <= MaxLandings
    <3>1. ASSUME NEW a, NEW said, Push(<<a>>, said) PROVE Len(history) + 1 <= MaxLandings
      BY <2>1, <2>2, <3>1
    <3>2. ASSUME NEW a, NEW b, NEW said, Push(<<a, b>>, said) PROVE Len(history) + 2 <= MaxLandings
      BY <2>1, <2>2, <3>2
    <3>. QED BY <1>1, <3>1, <3>2
  <2>. QED BY <1>0, <1>2, <2>3
<1>6. Plain \in Messages /\ m \in Messages /\ Plain.kind = "plain"
  BY <1>5 DEF Messages, Plain
<1>7. NextPr \in Nat \ {0} /\ NextPr = Len(texts) + 1 /\ Len(texts) \in Nat
      /\ DOMAIN texts = 1 .. Len(texts)
  BY <1>0 DEF NextPr
<1>8. ASSUME NEW prs \in SUBSET (Nat \ {0}), NEW said \in Messages, NEW members \in Nat
      PROVE /\ Landed(prs, said, members) \in Landings
            /\ Landed(prs, said, members).day = day
            /\ Landed(prs, said, members).prs = prs
            /\ Landed(prs, said, members).message = said
  BY <1>0 DEF Landed, Landings
<1> HIDE DEF m
<1>9. CASE Push(<<Landed({NextPr}, m, 1)>>, <<m>>)
  <2> DEFINE c == Landed({NextPr}, m, 1)
  <2>1. c \in Landings /\ c.day = day /\ c.prs = {NextPr} /\ c.message = m
    BY <1>6, <1>7, <1>8
  <2>2. /\ NextPr \in DOMAIN (texts \o <<m>>) /\ (texts \o <<m>>)[NextPr] = m
        /\ \A n \in DOMAIN (texts \o <<m>>) : n \in DOMAIN texts \/ n = NextPr
    BY <1>0, <1>6, <1>7
  <2>. HIDE DEF c
  <2>3. Push(<<c>>, <<m>>)
    BY <1>9 DEF c
  <2>4. Fits(history, c, texts \o <<m>>, day) /\ <<m>> \in Seq(Messages)
    BY <1>6, <2>1, <2>2, ListOfOne DEF Fits
  <2>. QED BY <1>4a, <2>1, <2>2, <2>3, <2>4
<1>10. CASE Push(<<Landed({}, m, 1), Landed({NextPr}, Plain, 2)>>, <<Plain>>)
  <2> DEFINE b == Landed({}, m, 1)
             c == Landed({NextPr}, Plain, 2)
  <2>1. /\ b \in Landings /\ b.day = day /\ b.prs = {}
        /\ c \in Landings /\ c.day = day /\ c.prs = {NextPr} /\ c.message = Plain
    BY <1>6, <1>7, <1>8
  <2>2. /\ NextPr \in DOMAIN (texts \o <<Plain>>)
        /\ \A n \in DOMAIN (texts \o <<Plain>>) : n \in DOMAIN texts \/ n = NextPr
    BY <1>0, <1>6, <1>7
  <2>. HIDE DEF b, c
  <2>3. Push(<<b, c>>, <<Plain>>)
    BY <1>10 DEF b, c
  <2>4. Fits(history, b, texts \o <<Plain>>, day) /\ Fits(history, c, texts \o <<Plain>>, day)
    BY <1>6, <2>1, <2>2 DEF Fits
  <2>5. /\ <<b, c>> \in Seq(Landings) /\ <<Plain>> \in Seq(Messages)
        /\ \A j \in DOMAIN <<b, c>> : Fits(history, <<b, c>>[j], texts \o <<Plain>>, day)
        /\ 2 \in DOMAIN <<b, c>> /\ <<b, c>>[2] = c
    BY <1>6, <2>1, <2>4, ListOfOne, ListOfTwo
  <2>. QED BY <1>4, <2>1, <2>2, <2>3, <2>5
<1>11. CASE Push(<<Landed({NextPr, NextPr + 1}, Plain, 1)>>, <<m, Plain>>)
  <2> DEFINE c == Landed({NextPr, NextPr + 1}, Plain, 1)
  <2>1. c \in Landings /\ c.day = day /\ c.prs = {NextPr, NextPr + 1} /\ c.message = Plain
    BY <1>6, <1>7, <1>8
  <2>2. /\ NextPr \in DOMAIN (texts \o <<m, Plain>>) /\ NextPr + 1 \in DOMAIN (texts \o <<m, Plain>>)
        /\ \A n \in DOMAIN (texts \o <<m, Plain>>) : n \in DOMAIN texts \/ n \in {NextPr, NextPr + 1}
    BY <1>0, <1>6, <1>7
  <2>. HIDE DEF c
  <2>3. Push(<<c>>, <<m, Plain>>)
    BY <1>11 DEF c
  <2>4. Fits(history, c, texts \o <<m, Plain>>, day) /\ <<m, Plain>> \in Seq(Messages)
    BY <1>6, <2>1, <2>2, ListOfTwo DEF Fits
  <2>. QED BY <1>4a, <2>1, <2>2, <2>3, <2>4
<1>12. CASE Push(<<Landed({}, m, 1)>>, <<>>)
  <2> DEFINE c == Landed({}, m, 1)
  <2>1. c \in Landings /\ c.day = day /\ c.prs = {}
    BY <1>6, <1>7, <1>8
  <2>. HIDE DEF c
  <2>2. Push(<<c>>, <<>>)
    BY <1>12 DEF c
  <2>3. Fits(history, c, texts \o <<>>, day) /\ <<>> \in Seq(Messages)
    BY <2>1 DEF Fits
  <2>4. \A n \in DOMAIN (texts \o <<>>) : n \in DOMAIN texts
    BY <1>0
  <2>. QED BY <1>4a, <2>1, <2>2, <2>3, <2>4
<1>13. CASE change.how = "again" /\ \E n \in DOMAIN texts : Push(<<Landed({n}, m, 1)>>, <<>>)
  <2>1. PICK n \in DOMAIN texts : Push(<<Landed({n}, m, 1)>>, <<>>)
    BY <1>13
  <2> DEFINE c == Landed({n}, m, 1)
  <2>2. c \in Landings /\ c.day = day /\ c.prs = {n} /\ c.message = m
    BY <1>6, <1>7, <1>8
  <2>3. \E j \in DOMAIN history : n \in history[j].prs
    BY DEF WorldInv, AllLanded
  <2>4. n \in DOMAIN (texts \o <<>>) /\ \A k \in DOMAIN (texts \o <<>>) : k \in DOMAIN texts
    BY <1>0
  <2>. HIDE DEF c
  <2>5. Push(<<c>>, <<>>)
    BY <2>1 DEF c
  <2>6. Fits(history, c, texts \o <<>>, day) /\ <<>> \in Seq(Messages)
    BY <2>2, <2>3, <2>4 DEF Fits
  <2>. QED BY <1>4a, <2>2, <2>4, <2>5, <2>6
<1>. QED BY <1>1, <1>9, <1>10, <1>11, <1>12, <1>13 DEF m


-----------------------------------------------------------------------------
(***************************************************************************)
(* The invariant holds.                                                    *)
(***************************************************************************)
\* What the files hold are records of the branch.
LEMMA SourcesOk ==
  ASSUME CorpusInv, cohort # Unread
  PROVE \A r \in cohort \cup Fixed : RecordOk(history, texts, r)
<1>1. BranchOk(history, texts) /\ Until \in Nat /\ Len(history) \in 0 .. Len(history) /\ 0 \in Nat
  BY CorpusAssumption DEF CorpusInv, WorldInv, BranchOk
<1>2. \A r \in cohort : RecordOk(history, texts, r)
  BY <1>1, RecordsAreOk DEF CorpusInv, CacheInv
<1>. QED BY <1>2 DEF CorpusInv, CacheInv

\* They stay so.
LEMMA RecordStaysOk ==
  ASSUME NEW h, NEW t, NEW h2, NEW t2, Extended(h, h2), Extended(t, t2), NEW r, RecordOk(h, t, r)
  PROVE RecordOk(h2, t2, r)
BY DEF RecordOk, Extended

\* A branch never loses a commit.
LEMMA NoShorter ==
  ASSUME NEW h, NEW t, BranchOk(h, t), NEW h2, NEW t2, BranchOk(h2, t2), Extended(h, h2)
  PROVE Len(h) \in Nat /\ Len(h2) \in Nat /\ Len(h) <= Len(h2)
<1>1. Len(h) \in Nat /\ Len(h2) \in Nat /\ DOMAIN h = 1 .. Len(h) /\ DOMAIN h2 = 1 .. Len(h2)
  BY DEF BranchOk
<1>2. CASE Len(h) = 0
  BY <1>1, <1>2
<1>3. CASE Len(h) > 0
  <2>1. Len(h) \in DOMAIN h2
    BY <1>1, <1>3 DEF Extended
  <2>. QED BY <1>1, <2>1
<1>. QED BY <1>1, <1>2, <1>3

\* The world moves on: what was found would be found again.
LEMMA WorldMoves ==
  ASSUME CorpusInv, WorldInv', Extended(history, history'), Extended(texts, texts'), day' >= day,
         \A i \in DOMAIN history' : i \notin DOMAIN history => history'[i].day = day,
         UNCHANGED cacheVars
  PROVE CorpusInv'
<1>1. BranchOk(history, texts) /\ BranchOk(history', texts') /\ Until \in Nat /\ day \in Nat /\ day' \in Nat
  BY CorpusAssumption DEF CorpusInv, WorldInv
<1>2. Len(history) \in Nat /\ Len(history') \in Nat /\ Len(history) <= Len(history')
  BY <1>1, NoShorter
<1>3. /\ synced' = synced /\ cohort' = cohort /\ xrefs' = xrefs /\ base' = base /\ fixPrs' = fixPrs
      /\ found' = found /\ Fixed' = Fixed
  BY DEF cacheVars, Fixed
<1>4. synced \in 0 .. Len(history) /\ synced \in 0 .. Len(history')
  BY <1>2 DEF CorpusInv, CacheInv
<1>5. cohort # Unread => day' >= Until /\ cohort = RecordsOf(history', 0, Until, Len(history'))
  <2>1. SUFFICES ASSUME cohort # Unread
                 PROVE day' >= Until /\ cohort = RecordsOf(history', 0, Until, Len(history'))
    OBVIOUS
  <2>2. day >= Until /\ cohort = RecordsOf(history, 0, Until, Len(history))
    BY <2>1 DEF CorpusInv, CacheInv
  <2>3. \A i \in DOMAIN history' : i \notin DOMAIN history => history'[i].day >= Until
    BY <2>2
  <2>4. RecordsOf(history', 0, Until, Len(history')) = RecordsOf(history, 0, Until, Len(history))
    BY <1>1, <2>3, RecordsOfExtended
  <2>. QED BY <1>1, <2>2, <2>4
<1>6. \A r \in Fixed : RecordOk(history', texts', r) /\ history'[r.sha].day >= Until
  <2> TAKE r \in Fixed
  <2>1. RecordOk(history, texts, r) /\ history[r.sha].day >= Until
    BY DEF CorpusInv, CacheInv
  <2>2. history'[r.sha] = history[r.sha]
    BY <2>1 DEF RecordOk, Extended
  <2>. QED BY <2>1, <2>2, RecordStaysOk
<1>7. CacheInv'
  BY <1>3, <1>4, <1>5, <1>6 DEF CorpusInv, CacheInv
<1>8. FoundInv'
  <2>1. SUFFICES ASSUME found # Unread PROVE FoundInv'
    BY <1>3 DEF FoundInv
  <2> DEFINE sources == cohort \cup Fixed
  <2>2. /\ cohort # Unread /\ xrefs # Unread /\ found.asOf \in Nat /\ (fixPrs = Unread => found.asOf <= Until)
        /\ FoundOk(history, found, cohort,
                   DraftsOf(history, texts, synced, cohort, xrefs, sources, found.asOf))
    BY <2>1 DEF CorpusInv, FoundInv
  <2>3. \A r \in sources : RecordOk(history, texts, r) /\ RecordOk(history', texts', r)
    BY <2>2, SourcesOk, RecordStaysOk
  <2>4. AddsLater(history', sources, sources, found.asOf) /\ cohort \subseteq sources
    BY DEF AddsLater
  <2>5. synced <= synced /\ found.asOf <= found.asOf
    BY <1>4, <2>2
  <2> HIDE DEF sources
  <2>6. \A d \in DraftsOf(history, texts, synced, cohort, xrefs, sources, found.asOf) :
          ~TwofoldOf(history', d.fix) =>
            d \in DraftsOf(history', texts', synced, cohort, xrefs, sources, found.asOf)
    BY <1>1, <1>4, <2>2, <2>3, <2>4, <2>5, DraftsGrow
  <2>6a. \A fix : TwofoldOf(history, fix) => TwofoldOf(history', fix)
    BY <1>1, TwofoldStays DEF Extended
  <2>7. FoundOk(history', found, cohort,
                DraftsOf(history', texts', synced, cohort, xrefs, sources, found.asOf))
    BY <2>2, <2>6, <2>6a DEF FoundOk
  <2>. QED BY <1>3, <2>2, <2>7 DEF FoundInv, sources
<1>. QED BY <1>7, <1>8 DEF CorpusInv

\* An enumeration of a closed window makes the cohort there is.
LEMMA EnumerateKeeps ==
  ASSUME CorpusInv, Enumerate
  PROVE CorpusInv'
<1>1. /\ BranchOk(history, texts) /\ Until \in Nat /\ day >= Until
      /\ synced' = Len(history) /\ cohort' = RecordsOf(history, 0, Until, Len(history))
      /\ UNCHANGED <<worldVars, xrefs, base, fixPrs, found>>
  BY CorpusAssumption, RecordsAre DEF CorpusInv, WorldInv, Enumerate
<1>2. /\ history' = history /\ texts' = texts /\ day' = day /\ citations' = citations
      /\ xrefs' = xrefs /\ base' = base /\ fixPrs' = fixPrs /\ found' = found /\ Fixed' = Fixed
  BY <1>1 DEF worldVars, Fixed
<1>3. Len(history) \in Nat /\ synced \in 0 .. Len(history)
  BY <1>1 DEF CorpusInv, CacheInv, BranchOk
<1>4. cohort # Unread => cohort' = cohort
  BY <1>1 DEF CorpusInv, CacheInv
<1>5. WorldInv' /\ CacheInv'
  BY <1>1, <1>2, <1>3, <1>4 DEF CorpusInv, WorldInv, CacheInv
<1>6. FoundInv'
  <2>1. SUFFICES ASSUME found # Unread PROVE FoundInv'
    BY <1>2 DEF FoundInv
  <2> DEFINE sources == cohort \cup Fixed
  <2>2. /\ cohort # Unread /\ xrefs # Unread /\ found.asOf \in Nat /\ (fixPrs = Unread => found.asOf <= Until)
        /\ FoundOk(history, found, cohort,
                   DraftsOf(history, texts, synced, cohort, xrefs, sources, found.asOf))
    BY <2>1 DEF CorpusInv, FoundInv
  <2>3. \A r \in sources : RecordOk(history, texts, r)
    BY <2>2, SourcesOk
  <2>4. AddsLater(history, sources, sources, found.asOf) /\ cohort \subseteq sources
    BY DEF AddsLater
  <2>5. /\ Len(history) \in 0 .. Len(history) /\ synced <= Len(history) /\ found.asOf <= found.asOf
        /\ Extended(history, history) /\ Extended(texts, texts)
    BY <1>3, <2>2 DEF Extended
  <2> HIDE DEF sources
  <2>6. \A d \in DraftsOf(history, texts, synced, cohort, xrefs, sources, found.asOf) :
          ~TwofoldOf(history, d.fix) =>
            d \in DraftsOf(history, texts, Len(history), cohort, xrefs, sources, found.asOf)
    BY <1>1, <1>3, <2>2, <2>3, <2>4, <2>5, DraftsGrow
  <2>7. FoundOk(history, found, cohort,
                DraftsOf(history, texts, Len(history), cohort, xrefs, sources, found.asOf))
    BY <2>2, <2>6 DEF FoundOk
  <2>8. cohort' = cohort /\ synced' = Len(history)
    BY <1>1, <1>4, <2>2
  <2>. QED BY <1>2, <2>2, <2>7, <2>8 DEF FoundInv, sources
<1>. QED BY <1>5, <1>6 DEF CorpusInv

\* The references are fetched once.
LEMMA LabelKeeps ==
  ASSUME CorpusInv, UnreadIsNoFile, NEW asOf, Label(asOf)
  PROVE CorpusInv'
<1>1. /\ cohort # Unread /\ xrefs' = CrossReferences
      /\ day' = day /\ history' = history /\ texts' = texts /\ citations' = citations
      /\ synced' = synced /\ cohort' = cohort /\ fixPrs' = fixPrs /\ found' = found /\ Fixed' = Fixed
  BY DEF Label, worldVars, Fixed
<1>2. xrefs' # Unread /\ (xrefs # Unread => xrefs' = xrefs)
  BY <1>1 DEF CrossReferences, CorpusInv, WorldInv, UnreadIsNoFile
<1>3. WorldInv' /\ CacheInv'
  BY <1>1, <1>2 DEF CorpusInv, WorldInv, CacheInv
<1>4. FoundInv'
  BY <1>1, <1>2 DEF CorpusInv, FoundInv
<1>. QED BY <1>3, <1>4 DEF CorpusInv


\* The fix sources a run reads are those it leaves; beyond the ones there were
\* it finds only commits that landed after the last cut-off.
LEMMA SourcesGrow ==
  ASSUME CorpusInv, UnreadIsNoFile, NEW asOf \in Nat, Correct(asOf)
  PROVE /\ Fixed' = FixSources(asOf)
        /\ fixPrs' = Unread => asOf <= Until
        /\ \A r \in FixSources(asOf) : RecordOk(history, texts, r) /\ history[r.sha].day >= Until
        /\ Fixed \subseteq FixSources(asOf)
        /\ fixPrs # Unread => FixSources(asOf) = Fixed
<1>1. BranchOk(history, texts) /\ Until \in Nat /\ synced \in 0 .. Len(history)
  BY CorpusAssumption DEF CorpusInv, WorldInv, CacheInv
<1>2. fixPrs' = IF Until < asOf THEN FixSources(asOf) ELSE fixPrs
  BY DEF Correct
<1>3. CASE fixPrs # Unread
  BY <1>2, <1>3 DEF FixSources, Fixed, CorpusInv, CacheInv
<1>4. CASE fixPrs = Unread /\ Until < asOf
  <2>1. FixSources(asOf) = RecordsOf(history, Until, asOf, synced) /\ fixPrs' = FixSources(asOf) /\ Fixed = {}
    BY <1>2, <1>4, RecordsAre DEF FixSources, Fixed
  <2>2. FixSources(asOf) # Unread
    BY <1>1, <2>1, RecordsTyped DEF UnreadIsNoFile
  <2>3. ASSUME NEW r \in FixSources(asOf)
        PROVE RecordOk(history, texts, r) /\ history[r.sha].day >= Until
    <3>1. RecordOk(history, texts, r) /\ r.sha \in SpanOf(history, Until, asOf, synced)
      BY <1>1, <2>1, RecordsAreOk
    <3>. QED BY <1>1, <3>1 DEF SpanOf
  <2>4. Fixed' = FixSources(asOf)
    BY <2>1, <2>2 DEF Fixed
  <2>. QED BY <1>4, <2>1, <2>2, <2>3, <2>4
<1>5. CASE fixPrs = Unread /\ ~(Until < asOf)
  BY <1>1, <1>2, <1>5 DEF FixSources, Fixed
<1>. QED BY <1>3, <1>4, <1>5

\* What a correction finds.
LEMMA Corrected ==
  ASSUME CorpusInv, NEW asOf, Correct(asOf)
  PROVE /\ base # Unread /\ cohort # Unread /\ xrefs # Unread /\ CrossReferences = xrefs
        /\ day' = day /\ history' = history /\ texts' = texts /\ citations' = citations
        /\ synced' = synced /\ cohort' = cohort /\ base' = base /\ xrefs' = xrefs
        /\ found'.asOf = asOf
        /\ found'.candidates = Candidates(cohort \cup FixSources(asOf), asOf)
        /\ found'.rows = [n \in {r.pr : r \in cohort} |-> [h \in Spans |->
             Corrective(CHOOSE r \in cohort : r.pr = n, h, Accepted(found'.candidates))]]
<1>1. /\ base # Unread /\ cohort # Unread /\ xrefs # Unread /\ CrossReferences = xrefs
      /\ day' = day /\ history' = history /\ texts' = texts /\ citations' = citations
      /\ synced' = synced /\ cohort' = cohort /\ base' = base /\ xrefs' = xrefs
  BY DEF Correct, CorpusInv, CacheInv, worldVars, CrossReferences
<1> DEFINE candidates == Candidates(cohort \cup FixSources(asOf), asOf)
           rows == [n \in {r.pr : r \in cohort} |-> [h \in Spans |->
                     Corrective(CHOOSE r \in cohort : r.pr = n, h, Accepted(candidates))]]
<1>2. found' = [asOf |-> asOf, seen |-> synced, fresh |-> fixPrs = Unread,
                candidates |-> candidates, rows |-> rows]
  BY DEF Correct
<1> HIDE DEF candidates, rows
<1>3. found'.asOf = asOf /\ found'.candidates = candidates /\ found'.rows = rows
  BY <1>2
<1>. QED BY <1>1, <1>3 DEF candidates, rows

\* A row is true by an accepted candidate, and only so; never of another's.
LEMMA RowsAreTold ==
  ASSUME CorpusInv, NEW asOf, Correct(asOf), NEW n \in {r.pr : r \in cohort}, NEW h \in Spans
  PROVE /\ n \in DOMAIN found'.rows /\ h \in DOMAIN found'.rows[n]
        /\ found'.rows[n][h] = "true" =>
             \E c \in Accepted(found'.candidates) : c.original = n /\ c.lag <= h
        /\ (\E c \in Accepted(found'.candidates) : c.original = n /\ c.lag <= h) =>
             found'.rows[n][h] # "false"
<1> DEFINE r == CHOOSE r \in cohort : r.pr = n
<1>1. r \in cohort /\ r.pr = n
  OBVIOUS
<1> HIDE DEF r
<1>2. found'.rows = [k \in {q.pr : q \in cohort} |-> [g \in Spans |->
             Corrective(CHOOSE q \in cohort : q.pr = k, g, Accepted(found'.candidates))]]
  BY Corrected
<1>3. found'.rows[n][h] = Corrective(r, h, Accepted(found'.candidates))
  BY <1>2 DEF r
<1>4. n \in DOMAIN found'.rows /\ h \in DOMAIN found'.rows[n]
  BY <1>2
<1>. QED BY <1>1, <1>3, <1>4 DEF Corrective

\* A correction leaves what the next one would find again.
LEMMA CorrectKeeps ==
  ASSUME CorpusInv, UnreadIsNoFile, NEW asOf \in Nat, Correct(asOf)
  PROVE CorpusInv'
<1> DEFINE sources == cohort \cup FixSources(asOf)
<1>1. /\ cohort # Unread /\ xrefs # Unread /\ CrossReferences = xrefs
      /\ day' = day /\ history' = history /\ texts' = texts /\ citations' = citations
      /\ synced' = synced /\ cohort' = cohort /\ base' = base /\ xrefs' = xrefs
      /\ found'.asOf = asOf /\ found'.candidates = Candidates(sources, asOf)
  BY Corrected
<1>2. /\ Fixed' = FixSources(asOf) /\ (fixPrs' = Unread => asOf <= Until)
      /\ \A r \in FixSources(asOf) : RecordOk(history, texts, r) /\ history[r.sha].day >= Until
  BY SourcesGrow
<1>3. WorldInv' /\ CacheInv'
  BY <1>1, <1>2 DEF CorpusInv, WorldInv, CacheInv
<1>4. Accepted(found'.candidates) \subseteq DraftsOf(history, texts, synced, cohort, xrefs, sources, asOf)
  <2>1. Candidates(sources, asOf) \subseteq Drafts(sources, asOf)
    BY DEF Candidates
  <2>2. Drafts(sources, asOf) = DraftsOf(history, texts, synced, cohort, CrossReferences, sources, asOf)
    BY DraftsAre
  <2> HIDE DEF sources
  <2>. QED BY <1>1, <2>1, <2>2 DEF Accepted
<1>5. DOMAIN found'.rows = {r.pr : r \in cohort}
  BY Corrected
<1>6. \A n \in DOMAIN found'.rows : \A h \in Spans :
        found'.rows[n][h] = "true" =>
          \E c \in Accepted(found'.candidates) : c.original = n /\ c.lag <= h
  BY <1>5, RowsAreTold
<1>7. FoundOk(history, found', cohort,
              DraftsOf(history, texts, synced, cohort, xrefs, sources, asOf))
  BY <1>4, <1>5, <1>6 DEF FoundOk
<1>8. FoundInv'
  <2>1. cohort' \cup Fixed' = sources
    BY <1>1, <1>2
  <2> HIDE DEF sources
  <2>. QED BY <1>1, <1>2, <1>7, <2>1 DEF FoundInv
<1>. QED BY <1>3, <1>8 DEF CorpusInv

\* A later cut-off drafts what an earlier one did, and rejects none of it, but of
\* twofold fixes.
LEMMA AcceptedStay ==
  ASSUME CorpusInv, UnreadIsNoFile, NEW asOf \in Nat, Correct(asOf), found # Unread, asOf >= found.asOf
  PROVE \A c \in Accepted(found.candidates) :
          TwofoldOf(history, c.fix) \/ c \in Accepted(found'.candidates)
<1> DEFINE old == cohort \cup Fixed
           new == cohort \cup FixSources(asOf)
<1>1. /\ cohort # Unread /\ CrossReferences = xrefs
      /\ found'.candidates = Candidates(new, asOf)
  BY Corrected
<1>2. /\ BranchOk(history, texts) /\ synced \in 0 .. Len(history) /\ Until \in Nat
      /\ Extended(history, history) /\ Extended(texts, texts)
  BY CorpusAssumption DEF CorpusInv, WorldInv, CacheInv, Extended
<1>3. /\ found.asOf \in Nat /\ (fixPrs = Unread => found.asOf <= Until)
      /\ \A c \in Accepted(found.candidates) :
           TwofoldOf(history, c.fix) \/ c \in DraftsOf(history, texts, synced, cohort, xrefs, old, found.asOf)
  BY DEF CorpusInv, FoundInv, FoundOk
<1>4. /\ \A r \in FixSources(asOf) : RecordOk(history, texts, r) /\ history[r.sha].day >= Until
      /\ Fixed \subseteq FixSources(asOf)
      /\ fixPrs # Unread => FixSources(asOf) = Fixed
  BY SourcesGrow
<1>5. \A r \in old : RecordOk(history, texts, r)
  BY <1>1, SourcesOk
<1>6. \A r \in new : RecordOk(history, texts, r)
  BY <1>4, <1>5
<1>7. AddsLater(history, old, new, found.asOf)
  <2>1. old \subseteq new
    BY <1>4
  <2>2. ASSUME NEW r \in new \ old PROVE history[r.sha].day >= found.asOf
    <3>1. r \in FixSources(asOf) /\ fixPrs = Unread
      BY <1>4, <2>2
    <3>2. history[r.sha].day \in Nat
      <4>1. r.sha \in DOMAIN history /\ history \in Seq(Landings)
        BY <1>2, <1>6 DEF RecordOk, BranchOk
      <4>2. history[r.sha] \in Landings
        BY <4>1
      <4>. QED BY <4>2 DEF Landings
    <3>. QED BY <1>2, <1>3, <1>4, <3>1, <3>2
  <2>. QED BY <2>1, <2>2 DEF AddsLater
<1>8. cohort \subseteq old /\ synced <= synced
  BY <1>2
<1> HIDE DEF old, new
<1>9. \A d \in DraftsOf(history, texts, synced, cohort, xrefs, old, found.asOf) :
        ~TwofoldOf(history, d.fix) => d \in DraftsOf(history, texts, synced, cohort, xrefs, new, asOf)
  BY <1>2, <1>3, <1>5, <1>6, <1>7, <1>8, DraftsGrow
<1>10. Drafts(new, asOf) = DraftsOf(history, texts, synced, cohort, xrefs, new, asOf)
  BY <1>1, DraftsAre
<1>11. ASSUME NEW c \in Accepted(found.candidates), ~TwofoldOf(history, c.fix)
       PROVE c \in Accepted(found'.candidates)
  <2>1. c \in Drafts(new, asOf) /\ ~c.rejected
    BY <1>3, <1>9, <1>10, <1>11 DEF Accepted
  <2>2. \A q \in Drafts(new, asOf) : Id(q) = Id(c) => q.rejected = c.rejected
    BY <1>2, <1>6, <1>10, <1>11, <2>1, OneVerdict
  <2>3. c \in Candidates(new, asOf)
    BY <2>1, <2>2 DEF Candidates
  <2>. QED BY <1>1, <2>1, <2>3 DEF Accepted
<1>. QED BY <1>11

-----------------------------------------------------------------------------
\* Every step keeps the invariant.
LEMMA CorpusStep ==
  ASSUME CorpusInv, UnreadIsNoFile, [CorpusNext]_corpusVars
  PROVE CorpusInv'
<1>1. CASE LandChange
  <2>1. /\ BranchOk(history', texts') /\ AllLanded(history', texts')
        /\ Extended(history, history') /\ Extended(texts, texts')
        /\ \A i \in DOMAIN history' : i \notin DOMAIN history => history'[i].day = day
        /\ UNCHANGED <<day, citations, cacheVars>>
    BY <1>1, ChangeLands DEF CorpusInv
  <2>2. WorldInv' /\ day' >= day /\ UNCHANGED cacheVars
    BY <2>1 DEF CorpusInv, WorldInv
  <2>. QED BY <2>1, <2>2, WorldMoves
<1>2. CASE Cite
  <2>1. /\ history' = history /\ texts' = texts /\ day' = day /\ UNCHANGED cacheVars
        /\ \E i \in Issues, n \in DOMAIN texts :
             citations' = citations \cup {[issue |-> i, original |-> n, day |-> day]}
    BY <1>2 DEF Cite
  <2>2. DOMAIN texts \subseteq Nat /\ day \in Nat /\ citations \in SUBSET Citings
    BY DEF CorpusInv, WorldInv, BranchOk
  <2>3. citations' \in SUBSET Citings
    BY <2>1, <2>2 DEF Citings
  <2>4. WorldInv' /\ day' >= day /\ Extended(history, history') /\ Extended(texts, texts')
    BY <2>1, <2>2, <2>3 DEF CorpusInv, WorldInv, Extended
  <2>. QED BY <2>1, <2>4, WorldMoves
<1>3. CASE NextDay
  <2>1. /\ history' = history /\ texts' = texts /\ citations' = citations /\ day' = day + 1
        /\ UNCHANGED cacheVars /\ day \in Nat
    BY <1>3 DEF NextDay, CorpusInv, WorldInv
  <2>2. WorldInv' /\ day' >= day /\ Extended(history, history') /\ Extended(texts, texts')
    BY <2>1 DEF CorpusInv, WorldInv, Extended
  <2>. QED BY <2>1, <2>2, WorldMoves
<1>4. CASE Enumerate
  BY <1>4, EnumerateKeeps
<1>5. CASE \E asOf \in {d \in CutOffs : d <= day} : Label(asOf) \/ Correct(asOf)
  <2>1. PICK asOf \in CutOffs : Label(asOf) \/ Correct(asOf)
    BY <1>5
  <2>2. asOf \in Nat
    BY CorpusAssumption
  <2>. QED BY <2>1, <2>2, LabelKeeps, CorrectKeeps
<1>6. CASE UNCHANGED corpusVars
  <2>1. /\ history' = history /\ texts' = texts /\ citations' = citations /\ day' = day
        /\ UNCHANGED cacheVars /\ day \in Nat
    BY <1>6 DEF corpusVars, worldVars, CorpusInv, WorldInv
  <2>2. WorldInv' /\ day' >= day /\ Extended(history, history') /\ Extended(texts, texts')
    BY <2>1 DEF CorpusInv, WorldInv, Extended
  <2>. QED BY <2>1, <2>2, WorldMoves
<1>. QED BY <1>1, <1>2, <1>3, <1>4, <1>5, <1>6 DEF CorpusNext

\* Nothing has landed and no file is written.
LEMMA CorpusStarts == CorpusInit => CorpusInv
<1> SUFFICES ASSUME CorpusInit PROVE CorpusInv
  OBVIOUS
<1>1. BranchOk(history, texts) /\ AllLanded(history, texts)
  BY DEF CorpusInit, BranchOk, AllLanded
<1>2. WorldInv
  BY <1>1 DEF CorpusInit, WorldInv
<1>3. CacheInv
  BY DEF CorpusInit, CacheInv, Fixed
<1>. QED BY <1>2, <1>3 DEF CorpusInit, CorpusInv, FoundInv

\* A link once accepted stays, under its identity, and a row once true, but by
\* twofold fixes.
LinkStays ==
  found # Unread /\ found'.asOf >= found.asOf =>
    /\ {Id(c) : c \in {d \in Accepted(found.candidates) : ~Twofold(d.fix)}}
         \subseteq {Id(c) : c \in Accepted(found'.candidates)}
    /\ \A n \in DOMAIN found.rows : \A h \in Spans :
         \/ found.rows[n][h] # "true" \/ found'.rows[n][h] # "false"
         \/ \E c \in Accepted(found.candidates) : c.original = n /\ Twofold(c.fix)

\* No step takes back a link, and none turns a true row false.
LEMMA LinksStep ==
  ASSUME CorpusInv, UnreadIsNoFile, [CorpusNext]_corpusVars
  PROVE LinkStays
<1>1. CASE found' = found
  BY <1>1 DEF LinkStays
<1>2. CASE found' # found
  <2>1. PICK asOf \in CutOffs : Correct(asOf)
    BY <1>2 DEF CorpusNext, LandChange, Push, Cite, NextDay, Enumerate, Label, corpusVars, cacheVars
  <2>2. asOf \in Nat
    BY CorpusAssumption
  <2>3. SUFFICES ASSUME found # Unread, asOf >= found.asOf PROVE LinkStays
    BY <2>1, Corrected DEF LinkStays
  <2>4. \A c \in Accepted(found.candidates) : Twofold(c.fix) \/ c \in Accepted(found'.candidates)
    <3>1. BranchOk(history, texts)
      BY DEF CorpusInv, WorldInv
    <3>. QED BY <2>1, <2>2, <2>3, <3>1, AcceptedStay, TwofoldIs
  <2>5. FoundOk(history, found, cohort,
                DraftsOf(history, texts, synced, cohort, xrefs, cohort \cup Fixed, found.asOf))
    BY <2>3 DEF CorpusInv, FoundInv
  <2>6. ASSUME NEW n \in DOMAIN found.rows, NEW h \in Spans, found.rows[n][h] = "true"
        PROVE \/ found'.rows[n][h] # "false"
              \/ \E c \in Accepted(found.candidates) : c.original = n /\ Twofold(c.fix)
    <3>1. n \in {r.pr : r \in cohort}
      BY <2>5 DEF FoundOk
    <3>2. \E c \in Accepted(found.candidates) : c.original = n /\ c.lag <= h
      BY <2>5, <2>6 DEF FoundOk
    <3>. QED BY <2>1, <2>4, <3>1, <3>2, RowsAreTold
  <2>. QED BY <2>4, <2>6 DEF LinkStays
<1>. QED BY <1>1, <1>2

\* The corpus keeps its invariant.
THEOREM CorpusInvariant ==
  ASSUME UnreadIsNoFile
  PROVE CorpusSpec => []CorpusInv
<1>1. CorpusInit => CorpusInv
  BY CorpusStarts
<1>2. CorpusInv /\ [CorpusNext]_corpusVars => CorpusInv'
  BY CorpusStep
<1>. QED BY <1>1, <1>2, PTL DEF CorpusSpec

\* A later run of the corpus takes back no link and turns no true row false, but
\* for fixes that are a pull request landed again by a commit that says it
\* reverts something, or that commit.
THEOREM LinksAlwaysStay ==
  ASSUME UnreadIsNoFile
  PROVE CorpusSpec => LinksStay
<1>1. CorpusInv /\ [CorpusNext]_corpusVars => [LinkStays]_corpusVars
  BY LinksStep
<1>2. CorpusSpec => []CorpusInv
  BY CorpusInvariant
<1>3. CorpusInv /\ [CorpusNext]_corpusVars
        => [found # Unread /\ found'.asOf >= found.asOf =>
             /\ {Id(c) : c \in {d \in Accepted(found.candidates) : ~Twofold(d.fix)}}
                  \subseteq {Id(c) : c \in Accepted(found'.candidates)}
             /\ \A n \in DOMAIN found.rows : \A h \in Spans :
                  \/ found.rows[n][h] # "true" \/ found'.rows[n][h] # "false"
                  \/ \E c \in Accepted(found.candidates) : c.original = n /\ Twofold(c.fix)]_corpusVars
  BY <1>1 DEF LinkStays
<1>. QED BY <1>2, <1>3, PTL DEF CorpusSpec, LinksStay


-----------------------------------------------------------------------------
(***************************************************************************)
(* The shape of a branch: only one pull request alone lands again; a rebase *)
(* merge follows the commit it claims, which names none, and is the first  *)
(* landing of one pull request.                                            *)
(***************************************************************************)
\* The commit of a branch at one place.
ShapeAt(h, i) ==
  /\ \A n, k \in h[i].prs : n # k => FirstAt(h, i, n)
  /\ h[i].members > 1 =>
       /\ h[i].members = 2 /\ i - 1 \in DOMAIN h
       /\ h[i - 1].prs = {} /\ h[i - 1].day = h[i].day
       /\ \A n, k \in h[i].prs : n = k /\ FirstAt(h, i, n)

Shape(h) == \A i \in DOMAIN h : ShapeAt(h, i)

\* A commit that keeps the shape.
FollowsOn(h, c) ==
  LET fresh(n) == \A j \in DOMAIN h : n \notin h[j].prs
  IN /\ \A n, k \in c.prs : n # k => fresh(n)
     /\ c.members > 1 =>
          /\ c.members = 2 /\ Len(h) \in DOMAIN h
          /\ h[Len(h)].prs = {} /\ h[Len(h)].day = c.day
          /\ \A n, k \in c.prs : n = k /\ fresh(n)

\* A branch that such a commit extends keeps its shape.
LEMMA ShapeGrows ==
  ASSUME NEW h \in Seq(Landings), Shape(h), NEW c \in Landings, FollowsOn(h, c)
  PROVE Shape(h \o <<c>>)
<1> DEFINE h2 == h \o <<c>>
<1>1. /\ Len(h) \in Nat /\ DOMAIN h = 1 .. Len(h) /\ DOMAIN h2 = 1 .. Len(h) + 1
      /\ h2[Len(h) + 1] = c /\ \A i \in DOMAIN h : h2[i] = h[i]
  <2>1. <<c>> \in Seq(Landings) /\ Len(<<c>>) = 1 /\ <<c>>[1] = c
    OBVIOUS
  <2>. QED BY <2>1
<1> HIDE DEF h2
<1>2. ASSUME NEW i \in DOMAIN h PROVE ShapeAt(h2, i)
  <2>1. ShapeAt(h, i) /\ h2[i] = h[i] /\ (i - 1 \in DOMAIN h => h2[i - 1] = h[i - 1] /\ i - 1 \in DOMAIN h2)
    BY <1>1 DEF Shape
  <2>2. \A n : FirstAt(h, i, n) => FirstAt(h2, i, n)
    BY <1>1 DEF FirstAt
  <2>. QED BY <2>1, <2>2 DEF ShapeAt
<1>3. ShapeAt(h2, Len(h) + 1)
  <2>1. \A n : (\A j \in DOMAIN h : n \notin h[j].prs) => FirstAt(h2, Len(h) + 1, n)
    BY <1>1 DEF FirstAt
  <2>2. Len(h) + 1 - 1 = Len(h) /\ (Len(h) \in DOMAIN h => h2[Len(h)] = h[Len(h)] /\ Len(h) \in DOMAIN h2)
    BY <1>1
  <2>. QED BY <1>1, <2>1, <2>2 DEF ShapeAt, FollowsOn
<1>4. \A i \in DOMAIN h2 : i \in DOMAIN h \/ i = Len(h) + 1
  BY <1>1
<1>. QED BY <1>2, <1>3, <1>4 DEF Shape, h2

ShapeInv == Shape(history)

\* Changes land so.
LEMMA ChangeShapes ==
  ASSUME WorldInv, ShapeInv, LandChange
  PROVE ShapeInv'
<1>0. BranchOk(history, texts) /\ day \in Nat /\ history \in Seq(Landings) /\ texts \in Seq(Messages)
  BY DEF WorldInv, BranchOk
<1>1. PICK change \in Arrivals[Len(history)] : LET m == change.says IN
        \/ change.how = "squash" /\ Push(<<Landed({NextPr}, m, 1)>>, <<m>>)
        \/ change.how = "rebase" /\ Push(<<Landed({}, m, 1), Landed({NextPr}, Plain, 2)>>, <<Plain>>)
        \/ change.how = "batch" /\ Push(<<Landed({NextPr, NextPr + 1}, Plain, 1)>>, <<m, Plain>>)
        \/ change.how = "push" /\ Push(<<Landed({}, m, 1)>>, <<>>)
        \/ change.how = "again" /\ \E n \in DOMAIN texts : Push(<<Landed({n}, m, 1)>>, <<>>)
  BY DEF LandChange
<1> DEFINE m == change.says
<1>2. ASSUME NEW commits, NEW said, Push(commits, said)
      PROVE /\ Len(history) + Len(commits) <= MaxLandings
            /\ history' = history \o commits /\ texts' = texts \o said
  BY <1>2 DEF Push
<1>3. Len(history) \in 0 .. MaxLandings
  <2>1. \A commits, said : Push(commits, said) => Len(history) + Len(commits) <= MaxLandings
    BY <1>2
  <2>2. \A a, b : Len(<<a>>) = 1 /\ Len(<<a, b>>) = 2
    <3>1. ASSUME NEW a, NEW b PROVE Len(<<a>>) = 1 /\ Len(<<a, b>>) = 2
      BY ListOfOne, ListOfTwo
    <3>. QED BY <3>1
  <2>3. \E n \in Nat : Len(history) + n <= MaxLandings
    <3>1. ASSUME NEW a, NEW said, Push(<<a>>, said) PROVE Len(history) + 1 <= MaxLandings
      BY <2>1, <2>2, <3>1
    <3>2. ASSUME NEW a, NEW b, NEW said, Push(<<a, b>>, said) PROVE Len(history) + 2 <= MaxLandings
      BY <2>1, <2>2, <3>2
    <3>. QED BY <1>1, <3>1, <3>2
  <2>. QED BY <1>0, <2>3, CorpusAssumption
<1>4. Plain \in Messages /\ m \in Messages /\ Plain.kind = "plain"
  BY <1>3 DEF Messages, Plain
<1>5. /\ NextPr \in Nat \ {0} /\ NextPr = Len(texts) + 1 /\ Len(texts) \in Nat
      /\ DOMAIN texts = 1 .. Len(texts)
  BY <1>0 DEF NextPr
<1>6. ASSUME NEW prs \in SUBSET (Nat \ {0}), NEW said \in Messages, NEW members \in Nat
      PROVE /\ Landed(prs, said, members) \in Landings
            /\ Landed(prs, said, members).day = day
            /\ Landed(prs, said, members).prs = prs
            /\ Landed(prs, said, members).message = said
            /\ Landed(prs, said, members).members = members
  BY <1>0 DEF Landed, Landings
<1>7. \A n \in {NextPr, NextPr + 1} : \A j \in DOMAIN history : n \notin history[j].prs
  BY <1>0, <1>5 DEF BranchOk
<1> HIDE DEF m
\* One commit more, of pull requests new or not.
<1>8. ASSUME NEW c \in Landings, NEW said, Push(<<c>>, said), FollowsOn(history, c)
      PROVE ShapeInv'
  <2>1. history' = history \o <<c>>
    BY <1>2, <1>8
  <2>. QED BY <1>0, <1>8, <2>1, ShapeGrows DEF ShapeInv
<1>9. CASE Push(<<Landed({NextPr}, m, 1)>>, <<m>>)
  <2> DEFINE c == Landed({NextPr}, m, 1)
  <2>1. c \in Landings /\ c.day = day /\ c.prs = {NextPr} /\ c.message = m /\ c.members = 1
    BY <1>4, <1>5, <1>6
  <2>. HIDE DEF c
  <2>3. Push(<<c>>, <<m>>)
    BY <1>9 DEF c
  <2>4. FollowsOn(history, c)
    BY <1>7, <2>1 DEF FollowsOn
  <2>. QED BY <1>8, <2>1, <2>3, <2>4
<1>10. CASE Push(<<Landed({}, m, 1), Landed({NextPr}, Plain, 2)>>, <<Plain>>)
  <2> DEFINE b == Landed({}, m, 1)
             c == Landed({NextPr}, Plain, 2)
             h == history \o <<b>>
  <2>1. /\ b \in Landings /\ b.day = day /\ b.prs = {} /\ b.members = 1
        /\ c \in Landings /\ c.day = day /\ c.prs = {NextPr} /\ c.message = Plain /\ c.members = 2
    BY <1>4, <1>5, <1>6
  <2>3. Push(<<b, c>>, <<Plain>>)
    BY <1>10
  <2>. HIDE DEF b, c
  <2>4. FollowsOn(history, b)
    BY <2>1 DEF FollowsOn
  <2>5. Shape(h) /\ h \in Seq(Landings)
    <3>1. <<b>> \in Seq(Landings)
      BY <2>1, ListOfOne
    <3>. QED BY <1>0, <2>1, <2>4, <3>1, ShapeGrows DEF ShapeInv
  <2>6. /\ Len(h) \in DOMAIN h /\ h[Len(h)] = b
        /\ \A j \in DOMAIN h : (j \in DOMAIN history /\ h[j] = history[j]) \/ h[j] = b
    <3>1. <<b>> \in Seq(Landings) /\ Len(<<b>>) = 1 /\ <<b>>[1] = b
      BY <2>1
    <3>. QED BY <1>0, <3>1
  <2>7. FollowsOn(h, c)
    <3>1. \A j \in DOMAIN h : NextPr \notin h[j].prs
      BY <1>7, <2>1, <2>6
    <3>. HIDE DEF h
    <3>. QED BY <1>4, <2>1, <2>6, <3>1 DEF FollowsOn
  <2>8. history \o <<b, c>> = h \o <<c>>
    <3>1. <<b>> \in Seq(Landings) /\ <<c>> \in Seq(Landings)
      BY <2>1
    <3>2. <<b>> \o <<c>> = <<b, c>>
      <4>1. /\ <<b>> \o <<c>> \in Seq(Landings) /\ <<b, c>> \in Seq(Landings)
            /\ Len(<<b>> \o <<c>>) = 2 /\ Len(<<b, c>>) = 2
            /\ (<<b>> \o <<c>>)[1] = b /\ (<<b>> \o <<c>>)[2] = c
        BY <2>1, <3>1
      <4>2. \A i \in 1 .. 2 : (<<b>> \o <<c>>)[i] = <<b, c>>[i]
        BY <4>1
      <4>. QED BY <4>1, <4>2, SeqEqual
    <3>3. (history \o <<b>>) \o <<c>> = history \o (<<b>> \o <<c>>)
      <4>1. history \in Seq(Landings)
        BY <1>0
      <4> HIDE DEF h
      <4>. QED BY <3>1, <4>1, ConcatAssociative
    <3>. QED BY <3>2, <3>3
  <2>9. history' = h \o <<c>>
    BY <1>2, <2>3, <2>8
  <2>10. Shape(history')
    BY <2>1, <2>5, <2>7, <2>9, ShapeGrows
  <2>. QED BY <2>10 DEF ShapeInv
<1>11. CASE Push(<<Landed({NextPr, NextPr + 1}, Plain, 1)>>, <<m, Plain>>)
  <2> DEFINE c == Landed({NextPr, NextPr + 1}, Plain, 1)
  <2>1. c \in Landings /\ c.prs = {NextPr, NextPr + 1} /\ c.message = Plain /\ c.members = 1
    BY <1>4, <1>5, <1>6
  <2>. HIDE DEF c
  <2>3. Push(<<c>>, <<m, Plain>>)
    BY <1>11 DEF c
  <2>4. FollowsOn(history, c)
    BY <1>7, <2>1 DEF FollowsOn
  <2>. QED BY <1>8, <2>1, <2>3, <2>4
<1>12. CASE Push(<<Landed({}, m, 1)>>, <<>>)
  <2> DEFINE c == Landed({}, m, 1)
  <2>1. c \in Landings /\ c.prs = {} /\ c.members = 1
    BY <1>4, <1>5, <1>6
  <2>. HIDE DEF c
  <2>3. Push(<<c>>, <<>>)
    BY <1>12 DEF c
  <2>4. FollowsOn(history, c)
    BY <2>1 DEF FollowsOn
  <2>. QED BY <1>8, <2>1, <2>3, <2>4
<1>13. CASE change.how = "again" /\ \E n \in DOMAIN texts : Push(<<Landed({n}, m, 1)>>, <<>>)
  <2>1. PICK n \in DOMAIN texts : Push(<<Landed({n}, m, 1)>>, <<>>)
    BY <1>13
  <2> DEFINE c == Landed({n}, m, 1)
  <2>2. c \in Landings /\ c.prs = {n} /\ c.message = m /\ c.members = 1
    BY <1>4, <1>5, <1>6
  <2>. HIDE DEF c
  <2>5. Push(<<c>>, <<>>)
    BY <2>1 DEF c
  <2>6. FollowsOn(history, c)
    BY <2>2 DEF FollowsOn
  <2>. QED BY <1>8, <2>2, <2>5, <2>6
<1>. QED BY <1>1, <1>9, <1>10, <1>11, <1>12, <1>13 DEF m


-----------------------------------------------------------------------------
(***************************************************************************)
(* Who a commit names.                                                     *)
(***************************************************************************)
CohortOf(h) == RecordsOf(h, 0, Until, Len(h))
Window(h) == SpanOf(h, 0, Until, Len(h))

\* The window is the commits of the days before the cohort closed.
LEMMA WindowIs ==
  ASSUME NEW h, NEW t, BranchOk(h, t)
  PROVE /\ Window(h) = {i \in DOMAIN h : h[i].day < Until}
        /\ DOMAIN h = 1 .. Len(h) /\ Len(h) \in Nat
        /\ \A i \in DOMAIN h : h[i].day \in Nat /\ h[i].members \in Nat
<1>0. h \in Seq(Landings) /\ Until \in Nat
  BY CorpusAssumption DEF BranchOk
<1>1. Len(h) \in Nat /\ DOMAIN h = 1 .. Len(h) /\ \A i \in DOMAIN h : h[i] \in Landings
  BY <1>0
<1>2. \A i \in DOMAIN h : h[i].day \in Nat /\ h[i].members \in Nat
  BY <1>1 DEF Landings
<1>3. ASSUME NEW i \in DOMAIN h PROVE i \in Window(h) <=> h[i].day < Until
  BY <1>0, <1>1, <1>2 DEF Window, SpanOf
<1>4. Window(h) \subseteq DOMAIN h
  BY <1>1 DEF Window, SpanOf
<1>. QED BY <1>1, <1>2, <1>3, <1>4

\* The record of a pull request is of its first landing in the span.
LEMMA RecordIs ==
  ASSUME NEW h, NEW t, BranchOk(h, t), NEW from \in Nat, NEW until \in Nat, NEW last \in 0 .. Len(h),
         NEW r \in RecordsOf(h, from, until, last)
  PROVE LET span == SpanOf(h, from, until, last)
        IN /\ r.sha \in span /\ r.pr \in h[r.sha].prs
           /\ \A i \in span : r.pr \in h[i].prs => r.sha <= i
           /\ r = RecordOf(h, span, r.pr)
           /\ r.day = h[FirstOf(h, r.pr)].day
           /\ r.members = ClaimedOf(h, span, r.sha)
           /\ r.relanded = {i \in span : r.pr \in h[i].prs /\ i # r.sha /\ RelandsOf(h, span, i)}
<1> DEFINE span == SpanOf(h, from, until, last)
<1>1. PICK n \in UNION {h[i].prs : i \in span} : r = RecordOf(h, span, n)
  BY DEF RecordsOf
<1> DEFINE landings == {i \in span : n \in h[i].prs}
<1>2. landings # {} /\ landings \in SUBSET Nat
  BY <1>1 DEF SpanOf
<1>3. Min(landings) \in landings /\ \A i \in landings : Min(landings) <= i
  <2> HIDE DEF landings
  <2>. QED BY <1>2, LeastExists
<1>4. /\ r.pr = n /\ r.sha = Min(landings) /\ r.day = h[FirstOf(h, n)].day
      /\ r.members = ClaimedOf(h, span, Min(landings))
      /\ r.relanded = {i \in landings \ {Min(landings)} : RelandsOf(h, span, i)}
  <2> HIDE DEF span
  <2>. QED BY <1>1 DEF RecordOf
<1>5. r.relanded = {i \in span : r.pr \in h[i].prs /\ i # r.sha /\ RelandsOf(h, span, i)}
  <2> HIDE DEF span
  <2>. QED BY <1>4
<1> HIDE DEF span
<1>. QED BY <1>1, <1>3, <1>4, <1>5 DEF span

\* A pull request that landed in the span has one.
LEMMA RecordFor ==
  ASSUME NEW h, NEW from, NEW until, NEW last, NEW i \in SpanOf(h, from, until, last), NEW n \in h[i].prs
  PROVE /\ RecordOf(h, SpanOf(h, from, until, last), n) \in RecordsOf(h, from, until, last)
        /\ RecordOf(h, SpanOf(h, from, until, last), n).pr = n
<1> DEFINE span == SpanOf(h, from, until, last)
<1>1. n \in UNION {h[j].prs : j \in span}
  OBVIOUS
<1> HIDE DEF span
<1>2. RecordOf(h, span, n) \in {RecordOf(h, span, k) : k \in UNION {h[j].prs : j \in span}}
  BY <1>1
<1>3. RecordOf(h, span, n).pr = n
  BY DEF RecordOf
<1>. QED BY <1>2, <1>3 DEF RecordsOf, span

\* What holds of the records of the cohort.
LEMMA CohortIs ==
  ASSUME NEW h, NEW t, BranchOk(h, t), NEW r \in CohortOf(h)
  PROVE /\ r.sha \in Window(h) /\ r.sha \in Nat \ {0} /\ r.pr \in h[r.sha].prs
        /\ \A i \in Window(h) : r.pr \in h[i].prs => r.sha <= i
        /\ r.day = h[FirstOf(h, r.pr)].day
        /\ r.members = ClaimedOf(h, Window(h), r.sha)
        /\ r.relanded = {i \in Window(h) : r.pr \in h[i].prs /\ i # r.sha /\ RelandsOf(h, Window(h), i)}
        /\ \A q \in CohortOf(h) : q.pr = r.pr => q = r
<1>1. Until \in Nat /\ 0 \in Nat /\ Len(h) \in 0 .. Len(h)
  BY CorpusAssumption DEF BranchOk
<1>2. r \in RecordsOf(h, 0, Until, Len(h))
  BY DEF CohortOf
<1>3. /\ r.sha \in Window(h) /\ r.pr \in h[r.sha].prs
      /\ \A i \in Window(h) : r.pr \in h[i].prs => r.sha <= i
      /\ r = RecordOf(h, Window(h), r.pr)
      /\ r.day = h[FirstOf(h, r.pr)].day
      /\ r.members = ClaimedOf(h, Window(h), r.sha)
      /\ r.relanded = {i \in Window(h) : r.pr \in h[i].prs /\ i # r.sha /\ RelandsOf(h, Window(h), i)}
  BY <1>1, <1>2, RecordIs DEF Window
<1>4. ASSUME NEW q \in CohortOf(h), q.pr = r.pr PROVE q = r
  <2>1. q = RecordOf(h, Window(h), q.pr)
    BY <1>1, RecordIs DEF Window, CohortOf
  <2>. QED BY <1>3, <1>4, <2>1
<1>5. r.sha \in Nat \ {0}
  BY <1>3 DEF Window, SpanOf
<1>. QED BY <1>3, <1>4, <1>5

\* A pull request that landed in the window is of the cohort.
LEMMA CohortHas ==
  ASSUME NEW h, NEW i \in Window(h), NEW n \in h[i].prs
  PROVE \E r \in CohortOf(h) : r.pr = n
BY RecordFor DEF Window, CohortOf

\* The cohort is finite.
LEMMA CohortFinite ==
  ASSUME NEW h, NEW t, BranchOk(h, t)
  PROVE IsFiniteSet(CohortOf(h))
<1> DEFINE span == Window(h)
           prs == UNION {h[i].prs : i \in span}
           f == [n \in prs |-> RecordOf(h, span, n)]
<1>1. prs \subseteq 1 .. Len(t) /\ Len(t) \in Nat
  BY WindowIs DEF BranchOk
<1>2. IsFiniteSet(prs)
  <2>1. IsFiniteSet(1 .. Len(t))
    BY <1>1, FS_Interval
  <2>. QED BY <1>1, <2>1, FS_Subset
<1>3. CohortOf(h) = {RecordOf(h, span, n) : n \in prs}
  BY DEF CohortOf, RecordsOf, Window
<1> HIDE DEF prs, span
<1>4. f \in Surjection(prs, CohortOf(h))
  BY <1>3 DEF Surjection
<1>. QED BY <1>2, <1>4, FS_Surjection

\* The one of a set is its only member.
LEMMA TheOneIs ==
  ASSUME NEW S, IsFiniteSet(S), NEW r
  PROVE r \in TheOne(S) <=> S = {r}
<1>1. Cardinality(S) = 1 <=> \E x : S = {x}
  BY FS_Singleton
<1>. QED BY <1>1 DEF TheOne

-----------------------------------------------------------------------------
\* The records of a commit: of a pull request it landed, first or alone.
LEMMA ShasAre ==
  ASSUME NEW h, NEW t, BranchOk(h, t), Shape(h), NEW r \in CohortOf(h), NEW i
  PROVE {q \in CohortOf(h) : i \in Shas(q)} = {r} <=> i \in Window(h) /\ h[i].prs = {r.pr}
<1> DEFINE named == {q \in CohortOf(h) : i \in Shas(q)}
<1>1. ASSUME NEW q \in CohortOf(h), i \in Shas(q) PROVE i \in Window(h) /\ q.pr \in h[i].prs
  BY <1>1, CohortIs DEF Shas
<1>2. ASSUME i \in Window(h), h[i].prs = {r.pr} PROVE named = {r}
  <2>1. i \in Shas(r)
    <3>1. CASE i = r.sha
      BY <3>1 DEF Shas
    <3>2. CASE i # r.sha
      <4>1. r.sha < i /\ r.sha \in Window(h) /\ r.pr \in h[r.sha].prs
        <5>1. i \in DOMAIN h /\ DOMAIN h \subseteq Nat
          BY <1>2, WindowIs
        <5>. QED BY <1>2, <3>2, <5>1, CohortIs
      <4>2. RelandsOf(h, Window(h), i)
        BY <1>2, <4>1 DEF RelandsOf
      <4>. QED BY <1>2, <3>2, <4>2, CohortIs DEF Shas
    <3>. QED BY <3>1, <3>2
  <2>2. ASSUME NEW q \in named PROVE q = r
    <3>1. q.pr \in h[i].prs
      BY <1>1
    <3>. QED BY <1>2, <3>1, CohortIs
  <2>. QED BY <2>1, <2>2
<1>3. ASSUME named = {r} PROVE i \in Window(h) /\ h[i].prs = {r.pr}
  <2>1. i \in Window(h) /\ r.pr \in h[i].prs
    BY <1>1, <1>3
  <2>2. ASSUME NEW k \in h[i].prs PROVE k = r.pr
    <3>1. SUFFICES ASSUME k # r.pr PROVE FALSE
      OBVIOUS
    <3>2. PICK q \in CohortOf(h) : q.pr = k
      BY <2>1, CohortHas
    <3>3. i \in DOMAIN h /\ DOMAIN h \subseteq Nat
      BY <2>1, WindowIs
    <3>4. FirstAt(h, i, k)
      BY <2>1, <3>1, <3>3 DEF Shape, ShapeAt
    <3>5. q.sha \in DOMAIN h /\ q.pr \in h[q.sha].prs /\ q.sha <= i
      BY <2>1, <3>2, CohortIs, WindowIs
    <3>6. q.sha = i
      BY <3>2, <3>3, <3>4, <3>5 DEF FirstAt
    <3>7. q \in named
      BY <3>6 DEF Shas
    <3>. QED BY <1>3, <3>1, <3>2, <3>7
  <2>. QED BY <2>1, <2>2
<1>. QED BY <1>2, <1>3

\* Blame names also who claims the commit.
LEMMA ClaimsAre ==
  ASSUME NEW h, NEW t, BranchOk(h, t), Shape(h), NEW r \in CohortOf(h), NEW i \in Nat
  PROVE {q \in CohortOf(h) : i \in Shas(q) \cup q.members} = {r}
          <=> \/ i \in Window(h) /\ h[i].prs = {r.pr}
              \/ /\ h[i].prs = {} /\ i + 1 \in Window(h) /\ h[i + 1].prs = {r.pr}
                 /\ h[i + 1].members = 2 /\ FirstOf(h, r.pr) = i + 1
<1> DEFINE named == {q \in CohortOf(h) : i \in Shas(q)}
           blamed == {q \in CohortOf(h) : i \in Shas(q) \cup q.members}
           claims == /\ h[i].prs = {} /\ i + 1 \in Window(h) /\ h[i + 1].prs = {r.pr}
                     /\ h[i + 1].members = 2 /\ FirstOf(h, r.pr) = i + 1
<1>0. /\ Window(h) = {j \in DOMAIN h : h[j].day < Until} /\ DOMAIN h \subseteq Nat \ {0}
      /\ \A j \in DOMAIN h : h[j].members \in Nat
  BY WindowIs
<1>1. named = {r} <=> i \in Window(h) /\ h[i].prs = {r.pr}
  BY ShasAre
<1>2. \A q \in CohortOf(h) : q.sha \in Nat \ {0} /\ q.sha \in Window(h) /\ q.pr \in h[q.sha].prs
                             /\ q.members = ClaimedOf(h, Window(h), q.sha)
                             /\ (q.pr = r.pr => q = r)
  BY CohortIs
<1>3. ASSUME NEW q \in CohortOf(h), i \in q.members
      PROVE i = q.sha - 1 /\ q.sha = i + 1 /\ h[q.sha].members > 1 /\ i \in Window(h) /\ h[i].prs = {}
  <2>1. i \in ClaimedOf(h, Window(h), q.sha) /\ q.sha \in Nat
    BY <1>2, <1>3
  <2>2. /\ h[q.sha].members > 1 /\ q.sha - 1 \in Window(h) /\ h[q.sha - 1].prs = {}
        /\ i = q.sha - 1
    BY <2>1 DEF ClaimedOf
  <2>. QED BY <2>1, <2>2
<1>4. ASSUME NEW q \in CohortOf(h), i \in Shas(q) PROVE i \in Window(h) /\ q.pr \in h[i].prs
  BY <1>4, CohortIs DEF Shas
<1>5. ASSUME i \in Window(h), h[i].prs = {r.pr} PROVE blamed = {r}
  <2>1. blamed = named
    BY <1>3, <1>5
  <2>. QED BY <1>1, <1>5, <2>1
<1>6. ASSUME claims PROVE blamed = {r}
  <2>1. i + 1 \in DOMAIN h /\ h[i + 1].members > 1
    BY <1>0, <1>6
  <2>2. i \in DOMAIN h /\ h[i].day = h[i + 1].day
    <3>1. ShapeAt(h, i + 1) /\ i + 1 - 1 = i
      BY <2>1 DEF Shape
    <3>. QED BY <2>1, <3>1 DEF ShapeAt
  <2>3. i \in Window(h)
    BY <1>0, <1>6, <2>2
  <2>4. r.sha = i + 1
    <3>1. r.sha <= i + 1
      BY <1>6, CohortIs
    <3> DEFINE landings == {j \in DOMAIN h : r.pr \in h[j].prs}
    <3>2. r.sha \in landings /\ landings \in SUBSET Nat
      BY <1>0, <1>2
    <3>3. FirstOf(h, r.pr) = Min(landings)
      BY DEF FirstOf
    <3>4. \A j \in landings : Min(landings) <= j
      <4> HIDE DEF landings
      <4>. QED BY <3>2, LeastExists
    <3>5. i + 1 <= r.sha
      BY <1>6, <3>2, <3>3, <3>4
    <3>. QED BY <1>2, <3>1, <3>5
  <2>5. i \in r.members
    <3>1. i + 1 - 1 = i
      OBVIOUS
    <3>2. ClaimedOf(h, Window(h), i + 1) = {i}
      BY <1>6, <2>1, <2>3, <3>1 DEF ClaimedOf
    <3>. QED BY <1>2, <2>4, <3>2
  <2>6. ASSUME NEW q \in blamed PROVE q = r
    <3>1. i \in q.members
      BY <1>4, <1>6
    <3>2. q.sha = i + 1
      BY <1>3, <3>1
    <3>3. q.pr = r.pr
      BY <1>2, <1>6, <3>2
    <3>. QED BY <1>2, <3>3
  <2>. QED BY <2>5, <2>6
<1>7. ASSUME blamed = {r}, i \in Shas(r) PROVE i \in Window(h) /\ h[i].prs = {r.pr}
  <2>1. named = {r}
    BY <1>7
  <2>. QED BY <1>1, <2>1
<1>8. ASSUME blamed = {r}, i \notin Shas(r) PROVE claims
  <2>1. i \in r.members
    BY <1>8
  <2>2. r.sha = i + 1 /\ h[i + 1].members > 1 /\ h[i].prs = {}
    BY <1>3, <2>1
  <2>3. i + 1 \in Window(h) /\ i + 1 \in DOMAIN h /\ r.pr \in h[i + 1].prs
    BY <1>0, <1>2, <2>2
  <2>4. h[i + 1].members = 2 /\ \A n, k \in h[i + 1].prs : n = k /\ FirstAt(h, i + 1, n)
    BY <2>2, <2>3 DEF Shape, ShapeAt
  <2>5. FirstOf(h, r.pr) = i + 1
    <3> DEFINE landings == {j \in DOMAIN h : r.pr \in h[j].prs}
    <3>1. i + 1 \in landings /\ landings \in SUBSET Nat
      BY <1>0, <2>3
    <3>2. FirstOf(h, r.pr) = Min(landings)
      BY DEF FirstOf
    <3>3. Min(landings) \in landings /\ \A j \in landings : Min(landings) <= j
      <4> HIDE DEF landings
      <4>. QED BY <3>1, LeastExists
    <3>4. \A j \in landings : ~(j < i + 1)
      BY <2>3, <2>4 DEF FirstAt
    <3>5. PICK v \in Nat : v = Min(landings)
      BY <3>1, <3>3
    <3>6. v <= i + 1 /\ ~(v < i + 1)
      BY <3>1, <3>3, <3>4, <3>5
    <3>. QED BY <3>2, <3>5, <3>6
  <2>. QED BY <2>2, <2>3, <2>4, <2>5
<1>. QED BY <1>5, <1>6, <1>7, <1>8


\* The originals an issue blames, as the issue's citations have it.
AboutOf(h, x, issue, n) ==
  {c \in x : c.issue = issue /\ c.original = n /\ c.day > h[FirstOf(h, n)].day}

\* Those an issue blames.
BlamedBy(h, x, issue) ==
  {q.pr : q \in {r \in CohortOf(h) : AboutOf(h, x, issue, r.pr) # {}}}

\* An issue names whom it cites after the merge, unless it cites too many.
LEMMA ReportsAre ==
  ASSUME NEW h, NEW t, BranchOk(h, t), NEW r \in CohortOf(h), NEW x, NEW issue
  PROVE r \in ReportedOf(CohortOf(h), x, issue)
          <=> AboutOf(h, x, issue, r.pr) # {} /\ Cardinality(BlamedBy(h, x, issue)) <= MaxIssueOriginals
<1> DEFINE citers == CitersOf(CohortOf(h), x, issue)
           f == [q \in citers |-> q.pr]
<1>1. \A q \in CohortOf(h) : /\ q.day = h[FirstOf(h, q.pr)].day
                             /\ \A p \in CohortOf(h) : p.pr = q.pr => p = q
  BY CohortIs
<1>2. \A q \in CohortOf(h) : q \in citers <=> AboutOf(h, x, issue, q.pr) # {}
  BY <1>1 DEF CitersOf, AboutOf
<1>3. citers \subseteq CohortOf(h)
  BY DEF CitersOf
<1>4. IsFiniteSet(citers)
  BY <1>3, CohortFinite, FS_Subset
<1>5. BlamedBy(h, x, issue) = {q.pr : q \in citers}
  BY <1>2, <1>3 DEF BlamedBy
<1> HIDE DEF citers
<1>6. f \in Surjection(citers, BlamedBy(h, x, issue)) /\ f \in Injection(citers, BlamedBy(h, x, issue))
  <2>1. f \in [citers -> BlamedBy(h, x, issue)] /\ \A n \in BlamedBy(h, x, issue) : \E q \in citers : f[q] = n
    BY <1>5
  <2>2. \A p, q \in citers : f[p] = f[q] => p = q
    BY <1>1, <1>3
  <2>. QED BY <2>1, <2>2 DEF Surjection, Injection, IsInjective
<1>7. Cardinality(BlamedBy(h, x, issue)) = Cardinality(citers)
  BY <1>4, <1>6, FS_Surjection
<1>8. Cardinality(citers) \in Nat /\ MaxIssueOriginals \in Nat
  BY <1>4, FS_CardinalityType, CorpusAssumption
<1>. QED BY <1>2, <1>7, <1>8 DEF ReportedOf, citers

\* What is said to repair a pull request of the cohort, of any branch.
RepairsOf(h, x, m, n) ==
  \/ m.kind = "revert" /\ m.of \in Window(h) /\ h[m.of].prs = {n}
  \/ m.kind = "cite" /\ m.of = n
  \/ /\ m.kind = "fix"
     /\ \/ AboutOf(h, x, m.issue, n) # {} /\ Cardinality(BlamedBy(h, x, m.issue)) <= MaxIssueOriginals
        \/ m.of \in Window(h) /\ h[m.of].prs = {n}
        \/ /\ h[m.of].prs = {} /\ m.of + 1 \in Window(h) /\ h[m.of + 1].prs = {n}
           /\ h[m.of + 1].members = 2 /\ FirstOf(h, n) = m.of + 1

\* The two ways to say so agree.
LEMMA RepairsAre ==
  ASSUME BranchOk(history, texts), cohort = CohortOf(history), NEW m, NEW n
  PROVE Repairs(m, n) <=> RepairsOf(history, xrefs, m, n)
<1>1. Window(history) = {i \in DOMAIN history : history[i].day < Until}
  BY WindowIs
<1> DEFINE about(k) == {c \in xrefs : c.issue = m.issue /\ c.original = k
                         /\ c.day > history[FirstLanding(k)].day}
           inWindow(i) == i \in DOMAIN history /\ history[i].day < Until
           landedHere == IF inWindow(m.of) THEN history[m.of].prs ELSE {}
           next == m.of + 1
<1>2. \A k : about(k) = AboutOf(history, xrefs, m.issue, k) /\ FirstLanding(k) = FirstOf(history, k)
  BY DEF AboutOf, FirstLanding, FirstOf
<1>3. {r.pr : r \in {q \in cohort : about(q.pr) # {}}} = BlamedBy(history, xrefs, m.issue)
  BY <1>2 DEF BlamedBy
<1>4. landedHere = {n} <=> m.of \in Window(history) /\ history[m.of].prs = {n}
  BY <1>1
<1>5. inWindow(next) <=> m.of + 1 \in Window(history)
  BY <1>1
<1>6. Repairs(m, n) =
        CASE m.kind = "revert" -> landedHere = {n}
          [] m.kind = "cite" -> m.of = n
          [] m.kind = "fix" ->
               \/ about(n) # {}
                  /\ Cardinality({r.pr : r \in {q \in cohort : about(q.pr) # {}}}) <= MaxIssueOriginals
               \/ landedHere = {n}
               \/ history[m.of].prs = {} /\ inWindow(next) /\ history[next].prs = {n}
                  /\ history[next].members = 2 /\ FirstLanding(n) = next
          [] OTHER -> FALSE
  BY DEF Repairs
<1> HIDE DEF about, inWindow, landedHere
<1>7. CASE m.kind = "revert"
  BY <1>4, <1>6, <1>7 DEF RepairsOf
<1>8. CASE m.kind = "cite"
  BY <1>6, <1>8 DEF RepairsOf
<1>9. CASE m.kind = "fix"
  BY <1>2, <1>3, <1>4, <1>5, <1>6, <1>9 DEF RepairsOf
<1>10. CASE m.kind \notin {"revert", "cite", "fix"}
  BY <1>6, <1>10 DEF RepairsOf
<1>. QED BY <1>7, <1>8, <1>9, <1>10

\* An event that says one thing proposes the records of what that repairs, and
\* for a revert as one.
ProposesRepairs(h, x, e, m, r) ==
  /\ (\E p : <<r, p>> \in ProposedOf(CohortOf(h), x, e)) <=> RepairsOf(h, x, m, r.pr)
  /\ \A p : <<r, p>> \in ProposedOf(CohortOf(h), x, e) => (p = "revert" <=> m.kind = "revert")

\* So it is of every branch and every event that says one thing.
LEMMA ProposedRepairs ==
  ASSUME NEW h, NEW t, BranchOk(h, t), Shape(h), NEW r \in CohortOf(h), NEW x, NEW e, NEW m,
         e.says = {m}, m.of \in Nat
  PROVE ProposesRepairs(h, x, e, m, r)
<1> USE DEF ProposesRepairs
<1> DEFINE co == CohortOf(h)
           cited == {k.of : k \in {n \in e.says : n.kind = "cite"}}
           fixes == {k \in e.says : k.kind = "fix"}
           reported == UNION {ReportedOf(co, x, k.issue) : k \in fixes}
           regressed == UNION {ReportedOf(co, x, k.issue) : k \in {n \in fixes : n.issue \in Regressions}}
           quoted == {q \in co : q.pr \in cited} \cup reported
           blamed == UNION {BlamedOf(co, k.of) : k \in fixes}
           named == UNION {NamedOf(co, k.of) : k \in Reverts(e)}
<1>1. ProposedOf(co, x, e) = IF Reverts(e) # {} THEN named \X {"revert"}
                             ELSE quoted \X {"repair_reference"} \cup regressed \X {"regression_issue"}
                                  \cup blamed \X {"szz"}
  BY DEF ProposedOf
<1>2. r \in NamedOf(co, m.of) <=> m.of \in Window(h) /\ h[m.of].prs = {r.pr}
  <2> DEFINE S == {q \in co : m.of \in Shas(q)}
  <2>1. IsFiniteSet(S)
    BY CohortFinite, FS_Subset
  <2>2. r \in TheOne(S) <=> S = {r}
    <3> HIDE DEF S
    <3>. QED BY <2>1, TheOneIs
  <2>. QED BY <2>2, ShasAre DEF NamedOf
<1>3. r \in BlamedOf(co, m.of)
        <=> \/ m.of \in Window(h) /\ h[m.of].prs = {r.pr}
            \/ /\ h[m.of].prs = {} /\ m.of + 1 \in Window(h) /\ h[m.of + 1].prs = {r.pr}
               /\ h[m.of + 1].members = 2 /\ FirstOf(h, r.pr) = m.of + 1
  <2> DEFINE S == {q \in co : m.of \in Shas(q) \cup q.members}
  <2>1. IsFiniteSet(S)
    BY CohortFinite, FS_Subset
  <2>2. r \in TheOne(S) <=> S = {r}
    <3> HIDE DEF S
    <3>. QED BY <2>1, TheOneIs
  <2>3. S = {r} <=> \/ m.of \in Window(h) /\ h[m.of].prs = {r.pr}
                    \/ /\ h[m.of].prs = {} /\ m.of + 1 \in Window(h) /\ h[m.of + 1].prs = {r.pr}
                       /\ h[m.of + 1].members = 2 /\ FirstOf(h, r.pr) = m.of + 1
    <3>1. PICK i \in Nat : i = m.of
      OBVIOUS
    <3>2. {q \in CohortOf(h) : i \in Shas(q) \cup q.members} = {r}
            <=> \/ i \in Window(h) /\ h[i].prs = {r.pr}
                \/ /\ h[i].prs = {} /\ i + 1 \in Window(h) /\ h[i + 1].prs = {r.pr}
                   /\ h[i + 1].members = 2 /\ FirstOf(h, r.pr) = i + 1
      BY ClaimsAre
    <3>. QED BY <3>1, <3>2
  <2>4. BlamedOf(co, m.of) = TheOne(S)
    BY DEF BlamedOf
  <2> HIDE DEF S, co
  <2>. QED BY <2>2, <2>3, <2>4
<1>4. r \in ReportedOf(co, x, m.issue)
        <=> AboutOf(h, x, m.issue, r.pr) # {} /\ Cardinality(BlamedBy(h, x, m.issue)) <= MaxIssueOriginals
  BY ReportsAre
<1>5. /\ m.kind = "revert" => Reverts(e) = {m} /\ named = NamedOf(co, m.of)
      /\ m.kind # "revert" => Reverts(e) = {}
  BY DEF Reverts
<1>6. /\ (r \in quoted) <=> (m.kind = "cite" /\ m.of = r.pr) \/ (m.kind = "fix" /\ r \in ReportedOf(co, x, m.issue))
      /\ r \in regressed => m.kind = "fix" /\ r \in ReportedOf(co, x, m.issue)
      /\ r \in blamed <=> m.kind = "fix" /\ r \in BlamedOf(co, m.of)
  OBVIOUS
<1> HIDE DEF co, quoted, regressed, blamed, named
<1>7. CASE m.kind = "revert"
  <2>1. \A p : <<r, p>> \in ProposedOf(co, x, e) <=> p = "revert" /\ r \in NamedOf(co, m.of)
    BY <1>1, <1>5, <1>7
  <2>. QED BY <1>2, <1>7, <2>1 DEF RepairsOf, co
<1>8. CASE m.kind # "revert"
  <2>1. \A p : <<r, p>> \in ProposedOf(co, x, e)
                 <=> \/ p = "repair_reference" /\ r \in quoted
                     \/ p = "regression_issue" /\ r \in regressed
                     \/ p = "szz" /\ r \in blamed
    BY <1>1, <1>5, <1>8
  <2>2. (\E p : <<r, p>> \in ProposedOf(co, x, e)) <=> r \in quoted \/ r \in regressed \/ r \in blamed
    BY <2>1
  <2>3. \A p : <<r, p>> \in ProposedOf(co, x, e) => p # "revert"
    BY <2>1
  <2>. QED BY <1>3, <1>4, <1>6, <1>8, <2>2, <2>3 DEF RepairsOf, co
<1>. QED BY <1>7, <1>8


-----------------------------------------------------------------------------
(***************************************************************************)
(* What a run that enumerates its fix sources drafts.                      *)
(***************************************************************************)
\* What was drafted of a branch is drafted of one later commits extend, but of
\* twofold fixes.
LEMMA DraftsSame ==
  ASSUME NEW h, NEW t, BranchOk(h, t), NEW h2, NEW t2, BranchOk(h2, t2),
         Extended(h, h2), Extended(t, t2), NEW last \in 0 .. Len(h), NEW last2 \in 0 .. Len(h2), last2 = last,
         NEW asOf \in Nat, NEW held, \A r \in held : RecordOk(h, t, r),
         \A r \in held : RecordOk(h2, t2, r), NEW co, NEW x, co \subseteq held
  PROVE \A d : ~TwofoldOf(h2, d.fix) =>
          (d \in DraftsOf(h2, t2, last, co, x, held, asOf) <=> d \in DraftsOf(h, t, last, co, x, held, asOf))
<1>1. \A r \in held : OwnEvent(t2, r) = OwnEvent(t, r)
  BY DEF RecordOk, Extended, OwnEvent
<1>2. \A i \in 1 .. last : i \in DOMAIN h /\ h2[i] = h[i]
  <2>1. h \in Seq(Landings)
    BY DEF BranchOk
  <2>. QED BY <2>1 DEF Extended
<1>3. /\ RevertsOf(h2, asOf, last) = RevertsOf(h, asOf, last)
      /\ \A i \in RevertsOf(h, asOf, last) : CommitEventOf(h2, i) = CommitEventOf(h, i)
  BY <1>2 DEF RevertsOf, SpanOf, CommitEventOf
<1>4. SaidOf(h2, t2, last, held, asOf) = SaidOf(h, t, last, held, asOf)
  BY <1>1, <1>3 DEF SaidOf
<1>5. last \in 0 .. Len(h2)
  OBVIOUS
<1>6. ASSUME NEW e, ~TwofoldOf(h2, Fix(e))
      PROVE e \in EventsOf(h2, t2, last, held, asOf) <=> e \in EventsOf(h, t, last, held, asOf)
  <2>1. ~TwofoldOf(h, Fix(e))
    BY <1>6, TwofoldStays DEF Extended
  <2>2. e \in EventsOf(h2, t2, last, held, asOf) <=> e \in SaidOf(h2, t2, last, held, asOf)
    BY <1>5, <1>6, EventsSay
  <2>3. e \in EventsOf(h, t, last, held, asOf) <=> e \in SaidOf(h, t, last, held, asOf)
    BY <2>1, EventsSay
  <2>. QED BY <1>4, <2>2, <2>3
<1>7. ASSUME NEW e, NEW q \in ProposedOf(co, x, e)
      PROVE DraftOf(t2, e, q) = DraftOf(t, e, q)
  <2>1. q[1] \in co
    BY ProposedAreOfCohort
  <2>2. t2[q[1].pr] = t[q[1].pr]
    BY <2>1 DEF RecordOk, Extended
  <2>3. ExcludedOf(t2, e, q[1], q[2]) = ExcludedOf(t, e, q[1], q[2])
    BY <2>2 DEF ExcludedOf
  <2>. QED BY <2>3 DEF DraftOf
<1>8. \A d : d \in DraftsOf(h, t, last, co, x, held, asOf) <=>
        \E e \in EventsOf(h, t, last, held, asOf) :
          \E q \in ProposedOf(co, x, e) : InTime(q[1], e) /\ d = DraftOf(t, e, q)
  BY DEF DraftsOf
<1>9. \A d : d \in DraftsOf(h2, t2, last, co, x, held, asOf) <=>
        \E e \in EventsOf(h2, t2, last, held, asOf) :
          \E q \in ProposedOf(co, x, e) : InTime(q[1], e) /\ d = DraftOf(t2, e, q)
  BY DEF DraftsOf
<1>10. \A e, q : DraftOf(t, e, q).fix = Fix(e) /\ DraftOf(t2, e, q).fix = Fix(e)
  BY DEF DraftOf
<1>. QED BY <1>6, <1>7, <1>8, <1>9, <1>10

\* The sources of a run that enumerates them.
SourcesOf(h, co, seen, asOf) == co \cup IF Until < asOf THEN RecordsOf(h, Until, asOf, seen) ELSE {}

Sound(drafts) == {d \in drafts : ~d.rejected}

\* What was found by such a run is what is drafted from them, not rejected, but
\* for twofold fixes.
FreshInv ==
  found # Unread /\ found.fresh =>
    /\ found.seen \in 0 .. Len(history)
    /\ \A d : ~TwofoldOf(history, d.fix) =>
         (d \in Accepted(found.candidates) <=>
            d \in Sound(DraftsOf(history, texts, found.seen, cohort, xrefs,
                                SourcesOf(history, cohort, found.seen, found.asOf), found.asOf)))

ExactInv == CorpusInv /\ ShapeInv /\ FreshInv

\* The sources of a run are records of the branch.
LEMMA FreshSourcesOk ==
  ASSUME CorpusInv, cohort # Unread, NEW seen \in 0 .. Len(history), NEW asOf \in Nat
  PROVE \A r \in SourcesOf(history, cohort, seen, asOf) : RecordOk(history, texts, r)
<1>1. BranchOk(history, texts) /\ Until \in Nat
  BY CorpusAssumption DEF CorpusInv, WorldInv
<1>2. \A r \in cohort : RecordOk(history, texts, r)
  BY SourcesOk
<1>3. \A r \in RecordsOf(history, Until, asOf, seen) : RecordOk(history, texts, r)
  BY <1>1, RecordsAreOk
<1>. QED BY <1>2, <1>3 DEF SourcesOf

\* Nothing but a correction changes what one drafted.
LEMMA FreshStays ==
  ASSUME CorpusInv, FreshInv, WorldInv', Extended(history, history'), Extended(texts, texts'),
         found' = found, found # Unread => cohort' = cohort /\ xrefs' = xrefs
  PROVE FreshInv'
<1>1. SUFFICES ASSUME found # Unread, found.fresh PROVE FreshInv'
  BY DEF FreshInv
<1> DEFINE sources == SourcesOf(history, cohort, found.seen, found.asOf)
<1>2. /\ BranchOk(history, texts) /\ BranchOk(history', texts')
      /\ cohort # Unread /\ found.asOf \in Nat /\ cohort' = cohort /\ xrefs' = xrefs
      /\ found.seen \in 0 .. Len(history)
  BY <1>1 DEF CorpusInv, WorldInv, FoundInv, FreshInv
<1>3. found.seen \in 0 .. Len(history')
  BY <1>2, NoShorter
<1>4. \A r \in sources : RecordOk(history, texts, r) /\ RecordOk(history', texts', r)
  BY <1>2, FreshSourcesOk, RecordStaysOk
<1>5. SourcesOf(history', cohort, found.seen, found.asOf) = sources
  <2>1. RecordsOf(history', Until, found.asOf, found.seen) = RecordsOf(history, Until, found.asOf, found.seen)
    BY <1>2, RecordsOfClone
  <2>. QED BY <2>1 DEF SourcesOf
<1>6. cohort \subseteq sources
  BY DEF SourcesOf
<1> HIDE DEF sources
<1>7. \A d : ~TwofoldOf(history', d.fix) =>
        (d \in DraftsOf(history', texts', found.seen, cohort, xrefs, sources, found.asOf) <=>
         d \in DraftsOf(history, texts, found.seen, cohort, xrefs, sources, found.asOf))
  BY <1>2, <1>3, <1>4, <1>6, DraftsSame
<1>8. \A d : ~TwofoldOf(history, d.fix) =>
        (d \in Accepted(found.candidates) <=>
         d \in Sound(DraftsOf(history, texts, found.seen, cohort, xrefs, sources, found.asOf)))
  BY <1>1 DEF FreshInv, sources
<1>9. \A d : TwofoldOf(history, d.fix) => TwofoldOf(history', d.fix)
  BY <1>2, TwofoldStays DEF Extended
<1>10. \A d : ~TwofoldOf(history', d.fix) =>
        (d \in Accepted(found.candidates) <=>
         d \in Sound(DraftsOf(history', texts', found.seen, cohort, xrefs, sources, found.asOf)))
  BY <1>7, <1>8, <1>9 DEF Sound
<1>. QED BY <1>2, <1>3, <1>5, <1>10 DEF FreshInv

\* A correction that enumerates its sources accepts what is drafted from them.
LEMMA CorrectFresh ==
  ASSUME CorpusInv, UnreadIsNoFile, NEW asOf \in Nat, Correct(asOf)
  PROVE FreshInv'
<1> DEFINE sources == SourcesOf(history, cohort, synced, asOf)
<1>1. /\ cohort # Unread /\ CrossReferences = xrefs
      /\ history' = history /\ texts' = texts /\ cohort' = cohort /\ xrefs' = xrefs
      /\ found'.asOf = asOf /\ found'.candidates = Candidates(cohort \cup FixSources(asOf), asOf)
  BY Corrected
<1>2. found'.seen = synced /\ (found'.fresh <=> fixPrs = Unread)
  <2> DEFINE candidates == Candidates(cohort \cup FixSources(asOf), asOf)
             rows == [n \in {r.pr : r \in cohort} |-> [h \in Spans |->
                       Corrective(CHOOSE r \in cohort : r.pr = n, h, Accepted(candidates))]]
             unread == fixPrs = Unread
  <2>1. found' = [asOf |-> asOf, seen |-> synced, fresh |-> unread,
                  candidates |-> candidates, rows |-> rows]
    BY DEF Correct
  <2> HIDE DEF candidates, rows, unread
  <2>2. found'.seen = synced /\ found'.fresh = unread
    BY <2>1
  <2>. QED BY <2>2 DEF unread
<1>3. SUFFICES ASSUME fixPrs = Unread PROVE FreshInv'
  BY <1>2 DEF FreshInv
<1>4. BranchOk(history, texts) /\ synced \in 0 .. Len(history)
  BY DEF CorpusInv, WorldInv, CacheInv
<1>5. cohort \cup FixSources(asOf) = sources
  BY <1>3, RecordsAre DEF FixSources, SourcesOf
<1>6. \A r \in sources : RecordOk(history, texts, r)
  BY <1>1, <1>4, FreshSourcesOk
<1> HIDE DEF sources
<1>7. Drafts(sources, asOf) = DraftsOf(history, texts, synced, cohort, xrefs, sources, asOf)
  BY <1>1, DraftsAre
<1>8. \A c, d \in Drafts(sources, asOf) :
        ~TwofoldOf(history, c.fix) /\ Id(c) = Id(d) => c.rejected = d.rejected
  BY <1>4, <1>6, <1>7, OneVerdict
<1>9. \A d : ~TwofoldOf(history, d.fix) =>
        (d \in Accepted(Candidates(sources, asOf)) <=> d \in Sound(Drafts(sources, asOf)))
  BY <1>8 DEF Candidates, Accepted, Sound
<1>. QED BY <1>1, <1>2, <1>4, <1>5, <1>7, <1>9 DEF FreshInv, sources

\* Every step keeps that, and the shape of the branch.
LEMMA ExactStep ==
  ASSUME ExactInv, UnreadIsNoFile, [CorpusNext]_corpusVars
  PROVE ExactInv'
<1>1. CorpusInv'
  BY CorpusStep DEF ExactInv
<1>2. WorldInv' /\ WorldInv
  BY <1>1 DEF ExactInv, CorpusInv
<1>3. CASE LandChange
  <2>1. /\ Extended(history, history') /\ Extended(texts, texts') /\ UNCHANGED cacheVars
    BY <1>2, <1>3, ChangeLands
  <2>2. FreshInv'
    BY <1>2, <2>1, FreshStays DEF ExactInv, cacheVars
  <2>3. ShapeInv'
    BY <1>2, <1>3, ChangeShapes DEF ExactInv
  <2>. QED BY <1>1, <2>2, <2>3 DEF ExactInv
<1>4. CASE history' = history /\ texts' = texts
  <2>1. ShapeInv' /\ Extended(history, history') /\ Extended(texts, texts')
    BY <1>4 DEF ExactInv, ShapeInv, Extended
  <2>2. CASE \E asOf \in CutOffs : Correct(asOf)
    <3>1. PICK asOf \in CutOffs : Correct(asOf)
      BY <2>2
    <3>2. asOf \in Nat
      BY CorpusAssumption
    <3>. QED BY <1>1, <2>1, <3>1, <3>2, CorrectFresh DEF ExactInv
  <2>3. CASE found' = found /\ (found # Unread => cohort' = cohort /\ xrefs' = xrefs)
    BY <1>1, <1>2, <2>1, <2>3, FreshStays DEF ExactInv
  <2>4. CASE Enumerate
    <3>1. /\ found' = found /\ xrefs' = xrefs /\ cohort' = RecordsOf(history, 0, Until, Len(history))
      BY <2>4, RecordsAre DEF Enumerate
    <3>2. found # Unread => cohort' = cohort
      BY <3>1 DEF ExactInv, CorpusInv, CacheInv, FoundInv
    <3>. QED BY <2>3, <3>1, <3>2
  <2>5. CASE \E asOf \in CutOffs : Label(asOf)
    <3>1. found' = found /\ cohort' = cohort /\ xrefs' = CrossReferences
      BY <2>5 DEF Label
    <3>2. found # Unread => xrefs' = xrefs
      BY <3>1 DEF ExactInv, CorpusInv, FoundInv, CrossReferences
    <3>. QED BY <2>3, <3>1, <3>2
  <2>6. CASE Cite \/ NextDay \/ UNCHANGED corpusVars
    BY <2>3, <2>6 DEF Cite, NextDay, corpusVars, cacheVars
  <2>7. LandChange => UNCHANGED cacheVars
    BY DEF LandChange, Push
  <2>8. CASE LandChange
    BY <2>3, <2>7, <2>8 DEF cacheVars
  <2>. QED BY <2>2, <2>4, <2>5, <2>6, <2>8 DEF CorpusNext
<1>5. LandChange \/ (history' = history /\ texts' = texts)
  BY DEF CorpusNext, Cite, NextDay, Enumerate, Label, Correct, corpusVars, worldVars
<1>. QED BY <1>3, <1>4, <1>5

\* It holds of an empty branch.
LEMMA ExactStarts == CorpusInit => ExactInv
<1> SUFFICES ASSUME CorpusInit PROVE ExactInv
  OBVIOUS
<1>1. CorpusInv
  BY CorpusStarts
<1>2. ShapeInv /\ FreshInv
  BY DEF CorpusInit, ShapeInv, Shape, FreshInv
<1>. QED BY <1>1, <1>2 DEF ExactInv


-----------------------------------------------------------------------------
(***************************************************************************)
(* What was drafted is what the branch and the issues bear out.            *)
(***************************************************************************)
\* Who is said to revert or fix something is named by a number.
SaysNumbers ==
  \A k \in 0 .. MaxLandings : \A change \in Arrivals[k] : change.says.of \in Nat

\* So do the messages of a branch.
LEMMA MessagesNumber ==
  ASSUME SaysNumbers, NEW m \in Messages
  PROVE m.of \in Nat
BY DEF SaysNumbers, Messages, Plain

\* The first landing of what landed.
LEMMA FirstLands ==
  ASSUME NEW h, NEW t, BranchOk(h, t), NEW n, NEW i \in DOMAIN h, n \in h[i].prs
  PROVE /\ FirstOf(h, n) \in DOMAIN h /\ n \in h[FirstOf(h, n)].prs /\ FirstOf(h, n) <= i
        /\ FirstAt(h, FirstOf(h, n), n)
<1> DEFINE landings == {j \in DOMAIN h : n \in h[j].prs}
<1>1. DOMAIN h \subseteq Nat
  BY WindowIs
<1>2. i \in landings /\ landings \in SUBSET Nat
  BY <1>1
<1>3. FirstOf(h, n) = Min(landings)
  BY DEF FirstOf
<1>4. Min(landings) \in landings /\ \A j \in landings : Min(landings) <= j
  <2> HIDE DEF landings
  <2>. QED BY <1>2, LeastExists
<1>5. PICK v \in landings : v = Min(landings) /\ \A j \in landings : v <= j
  BY <1>4
<1>6. v \in DOMAIN h /\ n \in h[v].prs /\ v <= i /\ FirstAt(h, v, n)
  <2>1. v \in Nat /\ v \in DOMAIN h /\ n \in h[v].prs /\ v <= i
    BY <1>2, <1>5
  <2>2. \A j \in DOMAIN h : n \in h[j].prs => v <= j
    BY <1>5
  <2>3. \A j \in DOMAIN h : j < v => n \notin h[j].prs
    BY <1>1, <2>1, <2>2
  <2>. QED BY <2>1, <2>3 DEF FirstAt
<1>. QED BY <1>3, <1>5, <1>6

\* A commit that says it reverts something, and lands nothing again, is an event
\* of its own just when it lands no pull request.
LEMMA RevertsOwned ==
  ASSUME NEW h, NEW t, BranchOk(h, t), Shape(h), NEW seen \in 0 .. Len(h), NEW asOf \in Nat,
         \A r \in SourcesOf(h, CohortOf(h), seen, asOf) : RecordOk(h, t, r),
         NEW i \in RevertsOf(h, asOf, seen), ~TwofoldOf(h, <<"commit", i>>)
  PROVE EventOf(SourcesOf(h, CohortOf(h), seen, asOf), i) = 0 <=> h[i].prs = {}
<1> DEFINE sources == SourcesOf(h, CohortOf(h), seen, asOf)
           owners == {r.pr : r \in {q \in sources : q.sha = i}}
<1>1. EventOf(sources, i) = IF owners = {} THEN 0 ELSE Max(owners)
  BY DEF EventOf
<1>2. /\ Window(h) = {j \in DOMAIN h : h[j].day < Until} /\ DOMAIN h = 1 .. Len(h) /\ Len(h) \in Nat
      /\ \A j \in DOMAIN h : h[j].day \in Nat
  BY WindowIs
<1>3. i \in DOMAIN h /\ i \in 1 .. seen /\ h[i].day < asOf /\ h[i].message.kind = "revert" /\ Until \in Nat
  <2>1. i \in 1 .. seen /\ h[i].day \in 0 .. asOf - 1 /\ h[i].message.kind = "revert"
    BY DEF RevertsOf, SpanOf
  <2>2. i \in DOMAIN h
    BY <1>2, <2>1
  <2>. QED BY <1>2, <2>1, <2>2, CorpusAssumption
<1>4. ASSUME h[i].prs = {} PROVE EventOf(sources, i) = 0
  <2>1. owners = {}
    <3> HIDE DEF sources
    <3>1. \A r \in sources : r.sha = i => r.pr \in h[i].prs
      BY DEF RecordOk, sources
    <3>. QED BY <1>4, <3>1
  <2>. QED BY <1>1, <2>1
<1>5. ASSUME NEW n \in h[i].prs PROVE EventOf(sources, i) # 0
  <2>1. FirstAt(h, i, n)
    BY <1>3 DEF TwofoldOf
  <2>2. \E r \in sources : r.pr = n /\ r.sha = i
    <3>1. CASE h[i].day < Until
      <4>1. i \in Window(h)
        BY <1>2, <1>3, <3>1
      <4>2. PICK r \in CohortOf(h) : r.pr = n
        BY <4>1, CohortHas
      <4>3. r.sha \in DOMAIN h /\ r.pr \in h[r.sha].prs /\ r.sha <= i
        BY <1>2, <4>1, <4>2, CohortIs
      <4>4. r.sha = i
        BY <1>2, <1>3, <2>1, <4>2, <4>3 DEF FirstAt
      <4>. QED BY <4>2, <4>4 DEF SourcesOf
    <3>2. CASE ~(h[i].day < Until)
      <4>1. Until < asOf /\ i \in SpanOf(h, Until, asOf, seen)
        BY <1>2, <1>3, <3>2 DEF SpanOf
      <4>2. PICK r \in RecordsOf(h, Until, asOf, seen) : r.pr = n
        BY <4>1, RecordFor
      <4>3. r.sha \in SpanOf(h, Until, asOf, seen) /\ r.pr \in h[r.sha].prs /\ r.sha <= i
        BY <1>3, <4>1, <4>2, RecordIs
      <4>4. r.sha \in DOMAIN h
        BY <1>2, <4>3 DEF SpanOf
      <4>5. r.sha = i
        BY <1>2, <1>3, <2>1, <4>2, <4>3, <4>4 DEF FirstAt
      <4>. QED BY <4>1, <4>2, <4>5 DEF SourcesOf
    <3>. QED BY <3>1, <3>2
  <2>3. owners # {}
    <3> HIDE DEF sources
    <3>. QED BY <2>2
  <2>4. owners \in SUBSET (1 .. Len(t)) /\ Len(t) \in Nat
    <3>1. DOMAIN t = 1 .. Len(t) /\ Len(t) \in Nat
      BY DEF BranchOk
    <3>2. \A r \in sources : r.pr \in DOMAIN t
      BY DEF RecordOk
    <3> HIDE DEF sources
    <3>. QED BY <3>1, <3>2
  <2>5. Max(owners) \in owners
    <3> HIDE DEF owners
    <3>. QED BY <2>3, <2>4, GreatestExists
  <2>. QED BY <1>1, <2>3, <2>4, <2>5
<1>. QED BY <1>4, <1>5

\* What landed before the cut-off and the clone has is among the sources.
LEMMA SourceFor ==
  ASSUME NEW h, NEW t, BranchOk(h, t), NEW seen \in 0 .. Len(h), NEW asOf \in Nat,
         NEW n, NEW i \in DOMAIN h, n \in h[i].prs, i <= seen, h[i].day < asOf
  PROVE \E r \in SourcesOf(h, CohortOf(h), seen, asOf) : r.pr = n
<1>1. /\ Window(h) = {j \in DOMAIN h : h[j].day < Until} /\ DOMAIN h = 1 .. Len(h) /\ Len(h) \in Nat
      /\ \A j \in DOMAIN h : h[j].day \in Nat
  BY WindowIs
<1>2. Until \in Nat
  BY CorpusAssumption
<1>3. CASE h[i].day < Until
  <2>1. i \in Window(h)
    BY <1>1, <1>3
  <2>. QED BY <2>1, CohortHas DEF SourcesOf
<1>4. CASE ~(h[i].day < Until)
  <2>1. Until < asOf /\ i \in SpanOf(h, Until, asOf, seen)
    BY <1>1, <1>2, <1>4 DEF SpanOf
  <2>. QED BY <2>1, RecordFor DEF SourcesOf
<1>. QED BY <1>3, <1>4

\* A source is of the day its pull request first landed.
LEMMA SourceDay ==
  ASSUME NEW h, NEW t, BranchOk(h, t), NEW seen \in 0 .. Len(h), NEW asOf \in Nat,
         NEW r \in SourcesOf(h, CohortOf(h), seen, asOf)
  PROVE r.day = h[FirstOf(h, r.pr)].day
<1>1. Until \in Nat
  BY CorpusAssumption
<1>2. CASE r \in CohortOf(h)
  BY <1>2, CohortIs
<1>3. CASE r \in RecordsOf(h, Until, asOf, seen)
  BY <1>1, <1>3, RecordIs
<1>. QED BY <1>2, <1>3 DEF SourcesOf


\* A link is accepted for an event just when the event repairs the original.
LEMMA LinkIsRepair ==
  ASSUME BranchOk(history, texts), Shape(history), cohort = CohortOf(history),
         NEW e, NEW m, e.says = {m}, m.of \in Nat, e.pr \in Nat, NEW r \in cohort,
         NEW change, change.fix = Fix(e), change.says = m, change.on = e.day
  PROVE (\E p : /\ <<r, p>> \in ProposedOf(cohort, xrefs, e) /\ InTime(r, e)
                /\ ~ExcludedOf(texts, e, r, p))
          <=> r.pr \in Repaired(change)
<1>1. /\ (\E p : <<r, p>> \in ProposedOf(cohort, xrefs, e)) <=> RepairsOf(history, xrefs, m, r.pr)
      /\ \A p : <<r, p>> \in ProposedOf(cohort, xrefs, e) => (p = "revert" <=> m.kind = "revert")
  <2>1. ProposesRepairs(history, xrefs, e, m, r)
    BY ProposedRepairs
  <2>2. ProposedOf(CohortOf(history), xrefs, e) = ProposedOf(cohort, xrefs, e)
    OBVIOUS
  <2> DEFINE proposed == ProposedOf(cohort, xrefs, e)
  <2> HIDE DEF proposed
  <2>3. ProposedOf(CohortOf(history), xrefs, e) = proposed
    BY <2>2 DEF proposed
  <2>4. (\E p : <<r, p>> \in proposed) <=> RepairsOf(history, xrefs, m, r.pr)
    BY <2>1, <2>3 DEF ProposesRepairs
  <2>5. \A p : <<r, p>> \in proposed => (p = "revert" <=> m.kind = "revert")
    BY <2>1, <2>3 DEF ProposesRepairs
  <2>. QED BY <2>4, <2>5 DEF proposed
<1>2. Repairs(change.says, r.pr) <=> RepairsOf(history, xrefs, m, r.pr)
  BY RepairsAre
<1>3. r.day = history[FirstLanding(r.pr)].day /\ r.pr \in DOMAIN texts /\ DOMAIN texts \subseteq Nat \ {0}
  <2>1. r.day = history[FirstOf(history, r.pr)].day /\ r.sha \in Window(history) /\ r.pr \in history[r.sha].prs
    BY CohortIs
  <2>2. r.sha \in DOMAIN history
    BY <2>1, WindowIs
  <2>. QED BY <2>1, <2>2 DEF BranchOk, FirstLanding, FirstOf
<1>4. InTime(r, e) <=> /\ change.fix # <<"pr", r.pr>>
                       /\ change.on - history[FirstLanding(r.pr)].day \in 1 .. MaxLag
  <2>1. r.pr # e.pr <=> change.fix # <<"pr", r.pr>>
    BY <1>3 DEF Fix
  <2>. QED BY <1>3, <2>1 DEF InTime
<1>5. \A p : <<r, p>> \in ProposedOf(cohort, xrefs, e) =>
        (~ExcludedOf(texts, e, r, p) <=>
           /\ ~change.says.excluded
           /\ ~(change.says.kind = "revert" /\ texts[r.pr].kind = "revert"))
  BY <1>1 DEF ExcludedOf
<1>6. r.pr \in Repaired(change) <=>
        /\ Repairs(change.says, r.pr) /\ change.fix # <<"pr", r.pr>>
        /\ change.on - history[FirstLanding(r.pr)].day \in 1 .. MaxLag
        /\ ~change.says.excluded
        /\ ~(change.says.kind = "revert" /\ texts[r.pr].kind = "revert")
  BY DEF Repaired
<1>. QED BY <1>1, <1>2, <1>4, <1>5, <1>6

\* The events of a run are changes of the branch, but for twofold fixes.
LEMMA EventIsChange ==
  ASSUME BranchOk(history, texts), Shape(history), cohort = CohortOf(history), SaysNumbers,
         NEW seen \in 0 .. Len(history), NEW asOf \in Nat,
         \A r \in SourcesOf(history, cohort, seen, asOf) : RecordOk(history, texts, r),
         NEW e \in EventsOf(history, texts, seen, SourcesOf(history, cohort, seen, asOf), asOf),
         ~TwofoldOf(history, Fix(e))
  PROVE \E change \in Changes : /\ change.fix = Fix(e) /\ e.says = {change.says} /\ change.on = e.day
                                /\ change.says.of \in Nat /\ e.pr \in Nat
<1> DEFINE sources == SourcesOf(history, cohort, seen, asOf)
<1>1. /\ DOMAIN texts = 1 .. Len(texts) /\ \A n \in DOMAIN texts : texts[n] \in Messages
      /\ \A i \in DOMAIN history : history[i].message \in Messages
  <2>1. texts \in Seq(Messages) /\ history \in Seq(Landings)
    BY DEF BranchOk
  <2>2. \A i \in DOMAIN history : history[i] \in Landings
    BY <2>1
  <2>. QED BY <2>1, <2>2 DEF Landings
<1>2. e \in SaidOf(history, texts, seen, sources, asOf)
  BY EventsSay
<1>3. CASE \E r \in sources : e = OwnEvent(texts, r)
  <2>1. PICK r \in sources : e = OwnEvent(texts, r)
    BY <1>3
  <2>2. r.pr \in DOMAIN texts /\ r.pr \in Nat \ {0}
    BY <1>1, <2>1 DEF RecordOk
  <2>3. r.day = history[FirstLanding(r.pr)].day
    BY <2>1, SourceDay DEF FirstLanding, FirstOf
  <2>4. /\ e.pr = r.pr /\ e.day = r.day /\ e.says = {texts[r.pr]} /\ Fix(e) = <<"pr", r.pr>>
    BY <2>1, <2>2 DEF OwnEvent, Fix
  <2> DEFINE change == [fix |-> <<"pr", r.pr>>, says |-> texts[r.pr],
                        on |-> history[FirstLanding(r.pr)].day, last |-> FirstLanding(r.pr)]
  <2>5. change \in Changes
    BY <2>2 DEF Changes
  <2>6. change.fix = <<"pr", r.pr>> /\ change.says = texts[r.pr] /\ change.on = r.day
    BY <2>3
  <2> HIDE DEF change
  <2>7. change.says.of \in Nat
    BY <1>1, <2>2, <2>6, MessagesNumber
  <2>. QED BY <2>2, <2>4, <2>5, <2>6, <2>7
<1>4. CASE \E i \in RevertsOf(history, asOf, seen) : EventOf(sources, i) = 0 /\ e = CommitEventOf(history, i)
  <2>1. PICK i \in RevertsOf(history, asOf, seen) : EventOf(sources, i) = 0 /\ e = CommitEventOf(history, i)
    BY <1>4
  <2>2. history[i].prs = {}
    <3>1. Fix(e) = <<"commit", i>>
      BY <2>1 DEF CommitEventOf, Fix
    <3>. QED BY <2>1, <3>1, RevertsOwned
  <2>3. i \in DOMAIN history /\ history[i].message.kind = "revert"
    <3>1. DOMAIN history = 1 .. Len(history) /\ Len(history) \in Nat
      BY WindowIs
    <3>. QED BY <3>1 DEF RevertsOf, SpanOf
  <2>4. /\ e.pr = 0 /\ e.day = history[i].day /\ e.says = {history[i].message} /\ Fix(e) = <<"commit", i>>
    BY <2>1 DEF CommitEventOf, Fix
  <2> DEFINE change == [fix |-> <<"commit", i>>, says |-> history[i].message,
                        on |-> history[i].day, last |-> i]
  <2>5. change \in Changes
    BY <2>2, <2>3 DEF Changes
  <2>6. change.fix = <<"commit", i>> /\ change.says = history[i].message /\ change.on = history[i].day
    OBVIOUS
  <2> HIDE DEF change
  <2>7. change.says.of \in Nat
    BY <1>1, <2>3, <2>6, MessagesNumber
  <2>. QED BY <2>4, <2>5, <2>6, <2>7
<1>. QED BY <1>2, <1>3, <1>4 DEF SaidOf

\* And a change the clone had, before the cut-off, is an event of it, but a
\* twofold one.
LEMMA ChangeIsEvent ==
  ASSUME BranchOk(history, texts), ShapeInv, cohort = CohortOf(history), SaysNumbers,
         NEW seen \in 0 .. Len(history), NEW asOf \in Nat,
         \A r \in SourcesOf(history, cohort, seen, asOf) : RecordOk(history, texts, r),
         AllLanded(history, texts),
         NEW change \in Changes, change.last <= seen, change.on < asOf,
         ~TwofoldOf(history, change.fix)
  PROVE \E e \in EventsOf(history, texts, seen, SourcesOf(history, cohort, seen, asOf), asOf) :
          /\ change.fix = Fix(e) /\ e.says = {change.says} /\ change.on = e.day
          /\ change.says.of \in Nat /\ e.pr \in Nat
<1> DEFINE sources == SourcesOf(history, cohort, seen, asOf)
<1>1. /\ DOMAIN texts = 1 .. Len(texts) /\ \A n \in DOMAIN texts : texts[n] \in Messages
      /\ \A i \in DOMAIN history : history[i].message \in Messages
  <2>1. texts \in Seq(Messages) /\ history \in Seq(Landings)
    BY DEF BranchOk
  <2>2. \A i \in DOMAIN history : history[i] \in Landings
    BY <2>1
  <2>. QED BY <2>1, <2>2 DEF Landings
<1>2. \A e \in SaidOf(history, texts, seen, sources, asOf) :
        Fix(e) = change.fix => e \in EventsOf(history, texts, seen, sources, asOf)
  BY EventsSay
<1>3. CASE \E n \in DOMAIN texts :
             change = [fix |-> <<"pr", n>>, says |-> texts[n], on |-> history[FirstLanding(n)].day,
                       last |-> FirstLanding(n)]
  <2>1. PICK n \in DOMAIN texts :
             change = [fix |-> <<"pr", n>>, says |-> texts[n], on |-> history[FirstLanding(n)].day,
                       last |-> FirstLanding(n)]
    BY <1>3
  <2>2. /\ change.fix = <<"pr", n>> /\ change.says = texts[n]
        /\ change.on = history[FirstLanding(n)].day /\ change.last = FirstLanding(n)
        /\ FirstLanding(n) = FirstOf(history, n) /\ n \in Nat \ {0}
    BY <1>1, <2>1 DEF FirstLanding, FirstOf
  <2>3. FirstLanding(n) \in DOMAIN history /\ n \in history[FirstLanding(n)].prs
    <3>1. PICK i \in DOMAIN history : n \in history[i].prs
      BY DEF AllLanded
    <3>. QED BY <2>2, <3>1, FirstLands
  <2>4. PICK r \in sources : r.pr = n
    BY <2>2, <2>3, SourceFor
  <2>5. r.day = history[FirstLanding(n)].day
    BY <2>2, <2>4, SourceDay
  <2> DEFINE e == OwnEvent(texts, r)
  <2>6. e.pr = n /\ e.day = r.day /\ e.says = {texts[n]} /\ Fix(e) = <<"pr", n>>
    BY <2>2, <2>4 DEF OwnEvent, Fix
  <2>7. e \in EventsOf(history, texts, seen, sources, asOf)
    <3>1. e \in SaidOf(history, texts, seen, sources, asOf)
      BY DEF SaidOf
    <3>2. Fix(e) = change.fix
      BY <2>2, <2>6
    <3> HIDE DEF sources, e
    <3>. QED BY <1>2, <3>1, <3>2
  <2>8. change.says.of \in Nat
    BY <1>1, <2>2, MessagesNumber
  <2> HIDE DEF e
  <2>. QED BY <2>2, <2>5, <2>7, <2>6, <2>8
<1>4. CASE \E i \in {j \in DOMAIN history : history[j].prs = {} /\ history[j].message.kind = "revert"} :
             change = [fix |-> <<"commit", i>>, says |-> history[i].message, on |-> history[i].day,
                       last |-> i]
  <2>1. PICK i \in DOMAIN history :
             /\ history[i].prs = {} /\ history[i].message.kind = "revert"
             /\ change = [fix |-> <<"commit", i>>, says |-> history[i].message, on |-> history[i].day,
                          last |-> i]
    BY <1>4
  <2>2. /\ change.fix = <<"commit", i>> /\ change.says = history[i].message
        /\ change.on = history[i].day /\ change.last = i
    BY <2>1
  <2>3. i \in RevertsOf(history, asOf, seen)
    <3>1. DOMAIN history = 1 .. Len(history) /\ Len(history) \in Nat /\ history[i].day \in Nat
      BY WindowIs
    <3>. QED BY <2>1, <2>2, <3>1 DEF RevertsOf, SpanOf
  <2>4. EventOf(sources, i) = 0
    BY <2>1, <2>2, <2>3, RevertsOwned DEF ShapeInv
  <2> DEFINE e == CommitEventOf(history, i)
  <2>5. e.pr = 0 /\ e.day = history[i].day /\ e.says = {history[i].message} /\ Fix(e) = <<"commit", i>>
    BY DEF CommitEventOf, Fix
  <2>6. e \in EventsOf(history, texts, seen, sources, asOf)
    <3>1. e \in SaidOf(history, texts, seen, sources, asOf)
      BY <2>3, <2>4 DEF SaidOf
    <3>2. Fix(e) = change.fix
      BY <2>2, <2>5
    <3> HIDE DEF sources, e
    <3>. QED BY <1>2, <3>1, <3>2
  <2>7. change.says.of \in Nat
    BY <1>1, <2>1, <2>2, MessagesNumber
  <2> HIDE DEF e
  <2>. QED BY <2>2, <2>6, <2>5, <2>7
<1>. QED BY <1>3, <1>4 DEF Changes

\* What was drafted and not rejected is what was repaired, but by twofold fixes.
LEMMA LinksAre ==
  ASSUME ExactInv, SaysNumbers
  PROVE LinksAreExact
<1>1. SUFFICES ASSUME found # Unread, found.fresh PROVE LinksAreExact
  BY DEF LinksAreExact
<1> DEFINE asOf == found.asOf
           seen == found.seen
           sources == SourcesOf(history, cohort, seen, asOf)
           drafts == DraftsOf(history, texts, seen, cohort, xrefs, sources, asOf)
           links == {<<c.original, c.fix>> : c \in {d \in Accepted(found.candidates) : ~Twofold(d.fix)}}
           truth(changes) == UNION {{<<n, c.fix>> : n \in Repaired(c)} : c \in changes}
<1>2. /\ BranchOk(history, texts) /\ AllLanded(history, texts) /\ ShapeInv /\ Shape(history)
      /\ cohort # Unread /\ cohort = CohortOf(history)
      /\ asOf \in Nat /\ seen \in 0 .. Len(history)
      /\ \A d : ~TwofoldOf(history, d.fix) => (d \in Accepted(found.candidates) <=> d \in Sound(drafts))
  BY <1>1 DEF ExactInv, CorpusInv, WorldInv, ShapeInv, FoundInv, FreshInv, CacheInv, CohortOf
<1>3. \A r \in sources : RecordOk(history, texts, r)
  BY <1>2, FreshSourcesOk DEF ExactInv
<1>3a. \A fix : Twofold(fix) <=> TwofoldOf(history, fix)
  BY <1>2, TwofoldIs
<1> HIDE DEF sources, asOf, seen
<1>4. links \subseteq truth(Changes)
  <2>1. SUFFICES ASSUME NEW d \in Sound(drafts), ~TwofoldOf(history, d.fix)
                 PROVE <<d.original, d.fix>> \in truth(Changes)
    BY <1>2, <1>3a
  <2>2. PICK e \in EventsOf(history, texts, seen, sources, asOf) :
          \E q \in ProposedOf(cohort, xrefs, e) : InTime(q[1], e) /\ d = DraftOf(texts, e, q)
    BY <2>1 DEF Sound, DraftsOf
  <2>3. PICK q \in ProposedOf(cohort, xrefs, e) : InTime(q[1], e) /\ d = DraftOf(texts, e, q)
    BY <2>2
  <2>4. q[1] \in cohort /\ q = <<q[1], q[2]>>
    BY <2>3, ProposedAreOfCohort
  <2>5. PICK r, p : q = <<r, p>> /\ r \in cohort /\ q[1] = r /\ q[2] = p
    BY <2>4
  <2>6. d.original = r.pr /\ d.fix = Fix(e) /\ d.rejected = ExcludedOf(texts, e, r, p)
    BY <2>3, <2>5 DEF DraftOf
  <2>7. ~ExcludedOf(texts, e, r, p)
    BY <2>1, <2>6 DEF Sound
  <2>8. PICK change \in Changes : /\ change.fix = Fix(e) /\ e.says = {change.says} /\ change.on = e.day
                                  /\ change.says.of \in Nat /\ e.pr \in Nat
    BY <1>2, <1>3, <2>1, <2>2, <2>6, EventIsChange DEF sources
  <2>9. r.pr \in Repaired(change)
    BY <1>2, <2>3, <2>5, <2>7, <2>8, LinkIsRepair
  <2>. QED BY <2>6, <2>8, <2>9
<1>5. truth({c \in Changes : c.last <= seen /\ c.on < asOf /\ ~Twofold(c.fix)}) \subseteq links
  <2>1. SUFFICES ASSUME NEW change \in Changes, change.last <= seen, change.on < asOf,
                        ~TwofoldOf(history, change.fix), NEW n \in Repaired(change)
                 PROVE <<n, change.fix>> \in links
    BY <1>3a
  <2>2. PICK e \in EventsOf(history, texts, seen, sources, asOf) :
          /\ change.fix = Fix(e) /\ e.says = {change.says} /\ change.on = e.day
          /\ change.says.of \in Nat /\ e.pr \in Nat
    BY <1>2, <1>3, <2>1, ChangeIsEvent, ZenonT(30) DEF sources
  <2>3. PICK r \in cohort : r.pr = n
    BY <2>1 DEF Repaired
  <2>4. PICK p : /\ <<r, p>> \in ProposedOf(cohort, xrefs, e) /\ InTime(r, e)
                 /\ ~ExcludedOf(texts, e, r, p)
    BY <1>2, <2>1, <2>2, <2>3, LinkIsRepair
  <2> DEFINE d == DraftOf(texts, e, <<r, p>>)
  <2>5. d.original = n /\ d.fix = change.fix /\ d.rejected = ExcludedOf(texts, e, r, p)
    BY <2>2, <2>3 DEF DraftOf
  <2>6. d \in drafts
    BY <2>2, <2>4 DEF DraftsOf
  <2> HIDE DEF d, drafts
  <2>7. d \in Accepted(found.candidates) /\ ~Twofold(d.fix)
    BY <1>2, <1>3a, <2>1, <2>4, <2>5, <2>6 DEF Sound
  <2>. QED BY <2>5, <2>7
<1>. QED BY <1>4, <1>5 DEF LinksAreExact, seen, asOf

\* A run that enumerates its fix sources afresh accepts the links there are, and
\* no others: for every branch, citations, cut-off and order of the commands, but
\* for fixes that are a pull request landed again by a commit that says it
\* reverts something, or that commit.
THEOREM LinksAreAlwaysExact ==
  ASSUME UnreadIsNoFile, SaysNumbers
  PROVE CorpusSpec => []LinksAreExact
<1>1. CorpusInit => ExactInv
  BY ExactStarts
<1>2. ExactInv /\ [CorpusNext]_corpusVars => ExactInv'
  BY ExactStep
<1>3. ExactInv => LinksAreExact
  BY LinksAre
<1>. QED BY <1>1, <1>2, <1>3, PTL DEF CorpusSpec
=============================================================================

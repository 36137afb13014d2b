--------------------------- MODULE CostLedgerProofs ---------------------------
(***************************************************************************)
(* The cost ledger keeps its file, its index and its promise, whatever it  *)
(* was asked to append and however often writes failed or the process      *)
(* stopped, for all limits: until a failed write could not be taken back.  *)
(***************************************************************************)
EXTENDS CostLedger, FiniteSetTheorems, SequenceTheorems, WellFoundedInduction,
        TLAPS

-----------------------------------------------------------------------------
(***************************************************************************)
(* The inductive invariant.                                                *)
(***************************************************************************)
\* Every half comes after the one it has to: a line begins after the end of
\* another, and ends after its own beginning.
Lines(f) ==
  \A n \in DOMAIN f :
    IF f[n].half = 1 THEN n = 1 \/ f[n - 1].half = 2
    ELSE n > 1 /\ f[n - 1] = [id |-> f[n].id, half |-> 1]

\* No id ends two lines, and the last line is ended.
Once(f) ==
  \A m, n \in DOMAIN f : f[m].half = 2 /\ f[n].half = 2 /\ f[m].id = f[n].id => m = n
Whole(f) == f = <<>> \/ f[Len(f)].half = 2

\* A part of a line, and a file that ends in one.
Part(id, n) == SubSeq(Line(id), 1, n)
Kept == SubSeq(file, 1, sizeBytes)

\* What the ledger has in memory is what the file has.
Indexed == Whole(file) /\ byId = Parsed(file) /\ sizeBytes = Len(file)

\* There is room for the record that is written.
Admitted == Entry \notin byId /\ ~ExceedsLimit

\* A write failed: after what is indexed there is a part of the line, of which
\* nobody was told.
Torn ==
  /\ sizeBytes <= Len(file)
  /\ Whole(Kept) /\ byId = Parsed(Kept)
  /\ \E n \in 0..2 : file = Kept \o Part(Entry, n)
  /\ acked \subseteq byId /\ Entry \notin byId

FileSound ==
  /\ Lines(file) /\ Once(file)
  /\ Len(file) <= MaxBytes /\ Cardinality(Parsed(file)) <= MaxRecords
  /\ acked \subseteq Parsed(file)
  /\ phase \in {"idle", "writing"} => Indexed
  /\ phase = "writing" => Admitted
  /\ phase = "recovering" => Torn

\* A ledger that is in use never takes the file to be longer than it is, even
\* after a recovery failed.
LengthKnown == ~MayOpen => sizeBytes <= Len(file)

LInv ==
  /\ TypeOK
  /\ queue \in Seq(Batches) /\ faults \in [FaultKinds -> Nat]
  /\ LengthKnown
  /\ Intact => FileSound

-----------------------------------------------------------------------------
(***************************************************************************)
(* The file.                                                               *)
(***************************************************************************)
\* A file has a last line end, so that CompleteLength chooses it.
LEMMA LastEnd ==
  ASSUME NEW f \in Seq(Halves)
  PROVE  /\ CompleteLength(f) \in LineEnds(f)
         /\ CompleteLength(f) \in 0..Len(f)
         /\ \A n \in LineEnds(f) : n <= CompleteLength(f)
<1> DEFINE S    == {Len(f) - n : n \in LineEnds(f)}
           Less == OpToRel(<, Nat)
<1>1. Len(f) \in Nat /\ DOMAIN f = 1..Len(f)
  OBVIOUS
<1>2. LineEnds(f) \subseteq 0..Len(f) /\ 0 \in LineEnds(f)
  BY <1>1 DEF LineEnds
<1>3. S \subseteq Nat /\ S # {}
  BY <1>1, <1>2
<1>4. IsWellFoundedOn(Less, Nat)
  BY NatLessThanWellFounded
<1>5. \E d \in S : \A e \in S : ~ (<<e, d>> \in Less)
  <2> HIDE DEF S, Less
  <2>. QED BY <1>3, <1>4, WFMin
<1>6. \A d, e \in Nat : e < d => <<e, d>> \in Less
  BY DEF OpToRel
<1>7. PICK d \in S : \A e \in S : ~ (e < d)
  BY <1>3, <1>5, <1>6
<1>8. PICK n \in LineEnds(f) : d = Len(f) - n
  BY <1>7
<1>9. \A m \in LineEnds(f) : m <= n
  <2> SUFFICES ASSUME NEW m \in LineEnds(f) PROVE m <= n
    OBVIOUS
  <2>1. ~ (Len(f) - m < Len(f) - n)
    BY <1>7, <1>8
  <2>2. m \in 0..Len(f) /\ n \in 0..Len(f)
    BY <1>2
  <2>. QED BY <1>1, <2>1, <2>2
<1>. QED BY <1>2, <1>9 DEF CompleteLength

\* In a file of lines every end of a line ends a record.
LEMMA LinesParse ==
  ASSUME NEW f \in Seq(Halves), Lines(f)
  PROVE  /\ RecordEnds(f) = {n \in DOMAIN f : f[n].half = 2}
         /\ Parsed(f) = {f[n].id : n \in {m \in DOMAIN f : f[m].half = 2}}
         /\ Parsed(f) \subseteq RecordIds
<1>1. DOMAIN f = 1..Len(f) /\ Len(f) \in Nat /\ \A n \in DOMAIN f : f[n] \in Halves
  OBVIOUS
<1>2. ASSUME NEW n \in DOMAIN f, f[n].half = 2
      PROVE  ParsedAt(f, n)
  <2>0. f[n].half # 1
    BY <1>2
  <2>1. n > 1 /\ f[n - 1] = [id |-> f[n].id, half |-> 1]
    BY <2>0 DEF Lines
  <2>2. n - 1 \in DOMAIN f /\ f[n - 1].half = 1
    BY <1>1, <2>1
  <2>3. n - 1 = 1 \/ f[n - 1 - 1].half = 2
    BY <2>2 DEF Lines
  <2>4. n - 2 \in LineEnds(f)
    BY <1>1, <2>1, <2>3 DEF LineEnds
  <2>. QED BY <2>1, <2>4 DEF ParsedAt
<1>3. RecordEnds(f) = {n \in DOMAIN f : f[n].half = 2}
  BY <1>1, <1>2 DEF RecordEnds, LineEnds
<1>. QED BY <1>1, <1>3 DEF Parsed, Halves

\* A part of a new line after the last: no half is out of place, and the id is
\* there when the line is whole.
LEMMA PartAdds ==
  ASSUME NEW f \in Seq(Halves), Lines(f), Once(f), Whole(f),
         NEW id \in RecordIds, id \notin Parsed(f), NEW n \in 0..2
  PROVE  LET g == f \o Part(id, n) IN
           /\ g \in Seq(Halves) /\ Len(g) = Len(f) + n
           /\ SubSeq(g, 1, Len(f)) = f
           /\ Lines(g) /\ Once(g)
           /\ Parsed(g) = IF n = 2 THEN Parsed(f) \cup {id} ELSE Parsed(f)
           /\ n = 2 => Whole(g)
<1> DEFINE g == f \o Part(id, n)
<1>1. /\ Part(id, n) \in Seq(Halves) /\ Len(Part(id, n)) = n
      /\ \A i \in 1..n : Part(id, n)[i] = [id |-> id, half |-> i]
  <2>1. Line(id) \in Seq(Halves) /\ Len(Line(id)) = 2
    BY DEF Line, Halves
  <2>2. \A i \in 1..2 : Line(id)[i] = [id |-> id, half |-> i]
    BY DEF Line
  <2>3. 1 \in Int /\ n \in Int /\ \A i \in 1..n : i \in 1..2 /\ Line(id)[i] \in Halves
    BY <2>2 DEF Halves
  <2>4. /\ Part(id, n) \in Seq(Halves)
        /\ Len(Part(id, n)) = IF 1 <= n THEN n - 1 + 1 ELSE 0
        /\ \A i \in 1..(n - 1 + 1) : Part(id, n)[i] = Line(id)[1 + i - 1]
    BY <2>3, SubSeqProperties DEF Part
  <2>5. \A i \in 1..n : Part(id, n)[i] = Line(id)[i]
    BY <2>4
  <2>. QED BY <2>2, <2>3, <2>4, <2>5
<1>2. /\ Len(f) \in Nat /\ DOMAIN f = 1..Len(f)
      /\ g \in Seq(Halves) /\ Len(g) = Len(f) + n /\ DOMAIN g = 1..(Len(f) + n)
      /\ \A i \in 1..Len(f) : g[i] = f[i]
      /\ \A i \in 1..n : g[Len(f) + i] = [id |-> id, half |-> i]
  BY <1>1
<1>0. \A i \in DOMAIN g \ 1..Len(f) :
        i - Len(f) \in 1..n /\ g[i] = [id |-> id, half |-> i - Len(f)]
  <2> SUFFICES ASSUME NEW i \in DOMAIN g \ 1..Len(f)
               PROVE  i - Len(f) \in 1..n /\ g[i] = [id |-> id, half |-> i - Len(f)]
    OBVIOUS
  <2>1. i - Len(f) \in 1..n /\ i = Len(f) + (i - Len(f))
    BY <1>2
  <2> DEFINE k == i - Len(f)
  <2>2. k \in 1..n /\ g[Len(f) + k] = [id |-> id, half |-> k]
    BY <1>2, <2>1
  <2>. QED BY <2>1, <2>2
<1>3. SubSeq(g, 1, Len(f)) = f
  BY <1>2
<1>4. Lines(g)
  <2> SUFFICES ASSUME NEW i \in DOMAIN g
               PROVE  IF g[i].half = 1 THEN i = 1 \/ g[i - 1].half = 2
                      ELSE i > 1 /\ g[i - 1] = [id |-> g[i].id, half |-> 1]
    BY DEF Lines
  <2>1. CASE i \in 1..Len(f)
    <3>1. IF f[i].half = 1 THEN i = 1 \/ f[i - 1].half = 2
          ELSE i > 1 /\ f[i - 1] = [id |-> f[i].id, half |-> 1]
      BY <1>2, <2>1 DEF Lines
    <3>2. i > 1 => g[i - 1] = f[i - 1]
      BY <1>2, <2>1
    <3>. QED BY <1>2, <2>1, <3>1, <3>2
  <2>2. CASE i = Len(f) + 1
    <3>1. i \notin 1..Len(f) /\ i - Len(f) = 1
      BY <1>2, <2>2
    <3>2. g[i] = [id |-> id, half |-> 1]
      BY <1>0, <3>1
    <3>3. Len(f) # 0 => g[i - 1] = f[Len(f)] /\ f[Len(f)].half = 2
      BY <1>2, <2>2 DEF Whole
    <3>. QED BY <1>2, <2>2, <3>2, <3>3
  <2>3. CASE i = Len(f) + 2
    <3>1. i \notin 1..Len(f) /\ i - Len(f) = 2 /\ i - 1 \notin 1..Len(f) /\ i - 1 - Len(f) = 1
      BY <1>2, <2>3
    <3>2. i - 1 \in DOMAIN g /\ i > 1
      BY <1>2, <2>3
    <3>3. g[i] = [id |-> id, half |-> 2] /\ g[i - 1] = [id |-> id, half |-> 1]
      BY <1>0, <3>1, <3>2
    <3>. QED BY <3>2, <3>3
  <2>4. i \in 1..Len(f) \/ i = Len(f) + 1 \/ i = Len(f) + 2
    BY <1>2
  <2>. QED BY <2>1, <2>2, <2>3, <2>4
<1>5. \A i \in 1..Len(f) : f[i].half = 2 => f[i].id # id
  BY <1>2, LinesParse
<1>6. \A i \in DOMAIN g :
        g[i].half = 2 => \/ i \in 1..Len(f) /\ g[i] = f[i]
                         \/ n = 2 /\ i = Len(f) + 2 /\ g[i].id = id
  <2> SUFFICES ASSUME NEW i \in DOMAIN g, g[i].half = 2, i \notin 1..Len(f)
               PROVE  n = 2 /\ i = Len(f) + 2 /\ g[i].id = id
    BY <1>2
  <2>1. i - Len(f) \in 1..n /\ g[i] = [id |-> id, half |-> i - Len(f)]
    BY <1>0
  <2>2. i - Len(f) = 2 /\ g[i].id = id
    BY <2>1
  <2>. QED BY <1>2, <2>1, <2>2
<1>7. Once(g)
  BY <1>2, <1>5, <1>6 DEF Once
<1>8. Parsed(g) = IF n = 2 THEN Parsed(f) \cup {id} ELSE Parsed(f)
  <2>1. Parsed(g) = {g[i].id : i \in {m \in DOMAIN g : g[m].half = 2}}
    BY <1>2, <1>4, LinesParse
  <2>2. Parsed(f) = {f[i].id : i \in {m \in DOMAIN f : f[m].half = 2}}
    BY LinesParse
  <2>3. Parsed(f) \subseteq Parsed(g)
    BY <1>2, <2>1, <2>2
  <2>4. n = 2 => id \in Parsed(g)
    <3> SUFFICES ASSUME n = 2 PROVE id \in Parsed(g)
      OBVIOUS
    <3>1. 2 \in 1..n /\ Len(f) + 2 \in DOMAIN g
      BY <1>2
    <3>2. g[Len(f) + 2] = [id |-> id, half |-> 2]
      BY <1>2, <3>1
    <3>. QED BY <2>1, <3>1, <3>2
  <2>5. ASSUME NEW i \in DOMAIN g, g[i].half = 2
        PROVE  g[i].id \in Parsed(f) \/ (n = 2 /\ g[i].id = id)
    <3>1. CASE i \in 1..Len(f) /\ g[i] = f[i]
      <4>1. i \in {m \in DOMAIN f : f[m].half = 2}
        BY <1>2, <2>5, <3>1
      <4>2. f[i].id \in Parsed(f)
        BY <2>2, <4>1
      <4>3. g[i].id = f[i].id
        BY <3>1
      <4>4. g[i].id \in Parsed(f)
        BY <4>2, <4>3, Zenon
      <4>. QED BY <4>4
    <3>. QED BY <1>6, <2>5, <3>1
  <2>6. \A x \in Parsed(g) : x \in Parsed(f) \/ (n = 2 /\ x = id)
    BY <2>1, <2>5
  <2>. QED BY <2>3, <2>4, <2>6
<1>9. n = 2 => Whole(g)
  BY <1>2 DEF Whole
<1>. QED BY <1>2, <1>3, <1>4, <1>7, <1>8, <1>9

\* A file of lines that is cut is one, and loses only records.
LEMMA PrefixKeeps ==
  ASSUME NEW f \in Seq(Halves), Lines(f), Once(f), NEW k \in 0..Len(f)
  PROVE  LET g == SubSeq(f, 1, k) IN
           /\ g \in Seq(Halves) /\ Len(g) = k
           /\ Lines(g) /\ Once(g)
           /\ Parsed(g) = {f[n].id : n \in {m \in 1..k : f[m].half = 2}}
           /\ k \in LineEnds(f) => Whole(g)
<1> DEFINE g == SubSeq(f, 1, k)
<1>1. /\ Len(f) \in Nat /\ k \in Nat /\ k <= Len(f) /\ DOMAIN f = 1..Len(f)
      /\ \A i \in 1..k : f[i] \in Halves
  OBVIOUS
<1>2. /\ g \in Seq(Halves) /\ Len(g) = k /\ DOMAIN g = 1..k
      /\ \A i \in 1..k : g[i] = f[i]
  <2>1. /\ g \in Seq(Halves)
        /\ Len(g) = IF 1 <= k THEN k - 1 + 1 ELSE 0
        /\ \A i \in 1..(k - 1 + 1) : g[i] = f[1 + i - 1]
    BY <1>1, SubSeqProperties
  <2>. QED BY <1>1, <2>1
<1>3. Lines(g)
  <2> SUFFICES ASSUME NEW i \in 1..k
               PROVE  IF g[i].half = 1 THEN i = 1 \/ g[i - 1].half = 2
                      ELSE i > 1 /\ g[i - 1] = [id |-> g[i].id, half |-> 1]
    BY <1>2 DEF Lines
  <2>0. i \in DOMAIN f
    BY <1>1
  <2>1. IF f[i].half = 1 THEN i = 1 \/ f[i - 1].half = 2
        ELSE i > 1 /\ f[i - 1] = [id |-> f[i].id, half |-> 1]
    BY <2>0 DEF Lines
  <2>2. i > 1 => g[i - 1] = f[i - 1]
    BY <1>1, <1>2
  <2>. QED BY <1>2, <2>1, <2>2
<1>4. Once(g)
  BY <1>1, <1>2 DEF Once
<1>5. Parsed(g) = {g[n].id : n \in {m \in 1..k : g[m].half = 2}}
  BY <1>2, <1>3, LinesParse
<1>6. k \in LineEnds(f) => Whole(g)
  BY <1>1, <1>2 DEF LineEnds, Whole
<1>7. Parsed(g) = {f[n].id : n \in {m \in 1..k : f[m].half = 2}}
  BY <1>2, <1>5
<1>. HIDE DEF g
<1>. QED BY <1>2, <1>3, <1>4, <1>6, <1>7 DEF g

\* Cutting a torn tail loses no record.
LEMMA CutKeeps ==
  ASSUME NEW f \in Seq(Halves), Lines(f), Once(f)
  PROVE  LET g == CutTail(f) IN
           /\ g \in Seq(Halves) /\ Len(g) = CompleteLength(f) /\ Len(g) <= Len(f)
           /\ Lines(g) /\ Once(g) /\ Whole(g)
           /\ Parsed(g) = Parsed(f)
<1> DEFINE k == CompleteLength(f)
           g == SubSeq(f, 1, k)
<1>1. k \in LineEnds(f) /\ k \in 0..Len(f) /\ \A n \in LineEnds(f) : n <= k
  BY LastEnd
<1>2. Len(f) \in Nat /\ DOMAIN f = 1..Len(f)
  OBVIOUS
<1> HIDE DEF k
<1>3. /\ g \in Seq(Halves) /\ Len(g) = k
      /\ Lines(g) /\ Once(g) /\ Whole(g)
      /\ Parsed(g) = {f[n].id : n \in {m \in 1..k : f[m].half = 2}}
  BY <1>1, PrefixKeeps
<1>4. {m \in 1..k : f[m].half = 2} = {m \in DOMAIN f : f[m].half = 2}
  BY <1>1, <1>2 DEF LineEnds
<1>5. Parsed(f) = {f[n].id : n \in {m \in DOMAIN f : f[m].half = 2}}
  BY LinesParse
<1>. QED BY <1>1, <1>2, <1>3, <1>4, <1>5 DEF CutTail, k

\* As many records as ids.
LEMMA OneRecordEach ==
  ASSUME NEW f \in Seq(Halves), Lines(f), Once(f)
  PROVE  /\ IsFiniteSet(Parsed(f))
         /\ Cardinality(RecordEnds(f)) = Cardinality(Parsed(f))
<1> DEFINE E == {n \in DOMAIN f : f[n].half = 2}
           g == [n \in E |-> f[n].id]
<1>1. RecordEnds(f) = E /\ Parsed(f) = {f[n].id : n \in E}
  BY LinesParse
<1>2. IsFiniteSet(E)
  <2>1. IsFiniteSet(1..Len(f))
    BY FS_Interval
  <2>2. E \in SUBSET (1..Len(f))
    OBVIOUS
  <2>. QED BY <2>1, <2>2, FS_Subset
<1>3. g \in Bijection(E, Parsed(f))
  <2>1. g \in [E -> Parsed(f)]
    BY <1>1
  <2>2. \A a, b \in E : g[a] = g[b] => a = b
    BY DEF Once
  <2>3. \A x \in Parsed(f) : \E n \in E : g[n] = x
    BY <1>1
  <2>. QED BY <2>1, <2>2, <2>3 DEF Bijection, Injection, Surjection, IsInjective
<1>4. IsFiniteSet(Parsed(f)) /\ Cardinality(Parsed(f)) = Cardinality(E)
  BY <1>2, <1>3, FS_Bijection DEF ExistsBijection
<1>. QED BY <1>1, <1>4

-----------------------------------------------------------------------------
(***************************************************************************)
(* The queue.                                                              *)
(***************************************************************************)
LEMMA BatchIs ==
  ASSUME NEW b
  PROVE  b \in Batches <=> b \in Seq(RecordIds) /\ Len(b) \in 1..MaxBatch
BY BoundAssumption DEF Batches

\* The call in progress goes to its next entry, or leaves the queue.
LEMMA QueueMovesOn ==
  ASSUME LInv, queue # <<>>, begun, NextEntry \/ RejectCall
  PROVE  /\ queue' \in Seq(Batches) /\ Len(queue') <= MaxQueue
         /\ begun' \in BOOLEAN /\ (begun' => queue' # <<>>)
         /\ Entry \in RecordIds
<1>1. /\ queue \in Seq(Batches) /\ Len(queue) <= MaxQueue /\ Len(queue) \in Nat
      /\ begun \in BOOLEAN /\ MaxQueue \in Nat /\ MaxBatch \in Nat
  BY BoundAssumption DEF LInv, TypeOK
<1>2. /\ Head(queue) \in Batches /\ Tail(queue) \in Seq(Batches)
      /\ Len(Tail(queue)) = Len(queue) - 1
  BY <1>1, HeadTailProperties
<1>3. Head(queue) \in Seq(RecordIds) /\ Len(Head(queue)) \in 1..MaxBatch
  BY <1>2, BatchIs
<1>4. Head(queue) # <<>> /\ Entry \in RecordIds
  BY <1>3 DEF Entry
<1>5. CASE queue' = Tail(queue) /\ begun' = FALSE
  <2>1. Len(Tail(queue)) <= MaxQueue
    BY <1>1, <1>2
  <2>. QED BY <1>2, <1>4, <1>5, <2>1
<1>6. CASE /\ Len(Head(queue)) # 1
           /\ queue' = <<Tail(Head(queue))>> \o Tail(queue) /\ UNCHANGED begun
  <2>1. Tail(Head(queue)) \in Seq(RecordIds) /\ Len(Tail(Head(queue))) = Len(Head(queue)) - 1
    BY <1>3, <1>4, HeadTailProperties
  <2>2. Tail(Head(queue)) \in Batches
    <3>1. Len(Head(queue)) - 1 \in 1..MaxBatch
      <4> DEFINE n == Len(Head(queue))
      <4>1. n \in 1..MaxBatch /\ n # 1 /\ MaxBatch \in Nat
        BY <1>1, <1>3, <1>6
      <4> HIDE DEF n
      <4>2. n - 1 \in 1..MaxBatch
        BY <4>1
      <4>. QED BY <4>2 DEF n
    <3>. QED BY <2>1, <3>1, BatchIs
  <2>3. /\ <<Tail(Head(queue))>> \o Tail(queue) \in Seq(Batches)
        /\ Len(<<Tail(Head(queue))>> \o Tail(queue)) = Len(queue)
    BY <1>1, <1>2, <2>2
  <2>. QED BY <1>1, <1>4, <1>6, <2>3
<1>. QED BY <1>5, <1>6 DEF NextEntry, RejectCall

\* The first of the calls has an entry, and stays first when others queue up.
LEMMA FirstEntry ==
  ASSUME LInv, queue # <<>>
  PROVE  /\ Entry \in RecordIds
         /\ \A b : Head(Append(queue, b)) = Head(queue)
<1>1. queue \in Seq(Batches) /\ Len(queue) \in Nat /\ Head(queue) = queue[1]
  BY DEF LInv
<1>2. Len(queue) >= 1
  BY <1>1
<1>3. Head(queue) \in Seq(RecordIds) /\ Len(Head(queue)) \in 1..MaxBatch
  <2>1. Head(queue) \in Batches
    BY <1>1, <1>2
  <2>. QED BY <2>1, BatchIs
<1>4. Entry \in RecordIds
  BY <1>3 DEF Entry
<1>5. ASSUME NEW b PROVE Head(Append(queue, b)) = Head(queue)
  <2>1. Append(queue, b) \in Seq(Batches \cup {b})
    BY <1>1
  <2>2. Len(Append(queue, b)) = Len(queue) + 1 /\ Append(queue, b)[1] = queue[1]
    BY <1>1, <1>2
  <2>. QED BY <1>1, <2>1, <2>2
<1>. QED BY <1>4, <1>5

-----------------------------------------------------------------------------
(***************************************************************************)
(* Types.                                                                  *)
(***************************************************************************)
LEMMA FaultTyped ==
  ASSUME LInv, NEW k \in FaultKinds, Fault(k)
  PROVE  /\ faults' \in [FaultKinds -> Nat]
         /\ \A j \in FaultKinds : faults'[j] \in 0..MaxFaults[j]
         /\ faults'[k] = faults[k] + 1
         /\ \A j \in FaultKinds \ {k} : faults'[j] = faults[j]
<1>1. /\ faults \in [FaultKinds -> Nat]
      /\ \A j \in FaultKinds : faults[j] \in 0..MaxFaults[j] /\ MaxFaults[j] \in Nat
  BY BoundAssumption DEF LInv, TypeOK
<1>2. faults[k] < MaxFaults[k] /\ faults' = [faults EXCEPT ![k] = faults[k] + 1]
  BY DEF Fault
<1>3. faults'[k] = faults[k] + 1 /\ \A j \in FaultKinds \ {k} : faults'[j] = faults[j]
  BY <1>1, <1>2
<1>4. \A j \in FaultKinds : faults'[j] \in 0..MaxFaults[j]
  BY <1>1, <1>2, <1>3
<1>5. faults' \in [FaultKinds -> Nat]
  BY <1>1, <1>2
<1>. QED BY <1>3, <1>4, <1>5

\* A line that is whole is the part of two halves; any part is of halves.
LEMMA PartIs ==
  ASSUME NEW id \in RecordIds
  PROVE  /\ Len(Line(id)) = 2 /\ Line(id) = Part(id, 2)
         /\ \A n \in 0..2 : Part(id, n) \in Seq(Halves) /\ Len(Part(id, n)) = n
<1>1. Line(id) \in Seq(Halves) /\ Len(Line(id)) = 2
  BY DEF Line, Halves
<1>2. Line(id) = Part(id, 2)
  BY <1>1 DEF Part
<1>3. ASSUME NEW n \in 0..2
      PROVE  Part(id, n) \in Seq(Halves) /\ Len(Part(id, n)) = n
  <2>1. 1 \in Int /\ n \in Int /\ \A i \in 1..n : Line(id)[i] \in Halves
    BY <1>1
  <2>2. /\ Part(id, n) \in Seq(Halves)
        /\ Len(Part(id, n)) = IF 1 <= n THEN n - 1 + 1 ELSE 0
    BY <2>1, SubSeqProperties DEF Part
  <2>. QED BY <2>2
<1>. QED BY <1>1, <1>2, <1>3

\* What a write that did not complete leaves behind.
LEMMA PartialIs ==
  ASSUME LInv, phase = "writing", PartialWrite
  PROVE  \E n \in 0..2 : file' = file \o Part(Entry, n)
<1>1. Entry \in RecordIds
  BY FirstEntry DEF LInv, TypeOK
<1>. QED BY <1>1, PartIs DEF PartialWrite, Part

LEMMA TypesKept ==
  ASSUME LInv, Next
  PROVE  TypeOK' /\ queue' \in Seq(Batches) /\ faults' \in [FaultKinds -> Nat]
<1> USE DEF TypeOK, LInv
<1>0. \A s : s \in Seq(Batches) => \A n \in DOMAIN s : s[n] \in Batches
  OBVIOUS
<1>1. /\ file \in Seq(Halves) /\ queue \in Seq(Batches) /\ Len(queue) <= MaxQueue
      /\ CompleteLength(file) \in Nat /\ CutTail(file) \in Seq(Halves)
      /\ Parsed(file) \subseteq RecordIds
  <2>1. /\ file \in Seq(Halves) /\ Len(file) \in Nat /\ DOMAIN file = 1..Len(file)
        /\ queue \in Seq(Batches) /\ Len(queue) <= MaxQueue
    OBVIOUS
  <2>2. CompleteLength(file) \in 0..Len(file)
    BY <2>1, LastEnd
  <2> DEFINE k == CompleteLength(file)
  <2>3. 1 \in Int /\ k \in Int /\ \A i \in 1..k : file[i] \in Halves
    BY <2>1, <2>2
  <2>4. CutTail(file) \in Seq(Halves)
    <3> HIDE DEF k
    <3>1. SubSeq(file, 1, k) \in Seq(Halves)
      BY <2>3, SubSeqProperties
    <3>. QED BY <3>1 DEF CutTail, k
  <2>5. Parsed(file) \subseteq RecordIds
    <3>0. \A n \in DOMAIN file : file[n] \in Halves
      BY <2>1
    <3>1. \A n \in DOMAIN file : file[n].id \in RecordIds
      BY <3>0 DEF Halves
    <3>. QED BY <3>1 DEF Parsed, RecordEnds, LineEnds
  <2>. QED BY <2>1, <2>2, <2>4, <2>5
<1>2. CASE Open
  BY <1>1, <1>2 DEF Open, MayOpen
<1>3. CASE OpenExceedsLimit
  BY <1>1, <1>3 DEF OpenExceedsLimit, MayOpen
<1>4. CASE OpenFails
  <2>1. "open" \in FaultKinds /\ Fault("open")
    BY <1>4 DEF OpenFails, FaultKinds
  <2>. QED BY <1>1, <1>4, <2>1, FaultTyped DEF OpenFails
<1>5. CASE Enqueue
  <2>1. PICK b \in Batches : queue' = Append(queue, b)
    BY <1>5 DEF Enqueue
  <2>2. /\ queue' \in Seq(Batches) /\ Len(queue') = Len(queue) + 1 /\ queue' # <<>>
    BY <1>1, <2>1
  <2>3. Len(queue') <= MaxQueue
    BY <1>1, <1>5, <2>2, BoundAssumption DEF Enqueue
  <2>4. \A n \in DOMAIN queue' : queue'[n] \in Batches
    BY <1>0, <2>2
  <2>. QED BY <1>5, <2>2, <2>3, <2>4 DEF Enqueue
<1>6. CASE Close
  BY <1>6 DEF Close
<1>7. CASE Begin
  BY <1>7 DEF Begin, Waiting
<1>8. CASE RejectClosed
  <2>1. /\ Tail(queue) \in Seq(Batches) /\ Len(Tail(queue)) = Len(queue) - 1
        /\ queue' = Tail(queue) /\ begun' = FALSE
    BY <1>1, <1>8, HeadTailProperties DEF RejectClosed, Waiting, RejectCall
  <2>2. Len(queue') <= MaxQueue /\ \A n \in DOMAIN queue' : queue'[n] \in Batches
    BY <1>0, <1>1, <2>1, BoundAssumption
  <2>. QED BY <1>8, <2>1, <2>2 DEF RejectClosed, Waiting
<1>9. ASSUME begun, NextEntry \/ RejectCall, phase' = "idle"
      PROVE  /\ queue' \in Seq(Batches) /\ Len(queue') <= MaxQueue
             /\ \A n \in DOMAIN queue' : queue'[n] \in Batches
             /\ begun' \in BOOLEAN /\ (begun' => queue' # <<>>)
             /\ phase' \in {"writing", "recovering"} => begun'
             /\ Entry \in RecordIds
  <2>1. queue # <<>>
    BY <1>9
  <2>2. /\ queue' \in Seq(Batches) /\ Len(queue') <= MaxQueue
        /\ begun' \in BOOLEAN /\ (begun' => queue' # <<>>)
        /\ Entry \in RecordIds
    <3> HIDE DEF LInv, TypeOK
    <3>. QED BY <1>9, <2>1, QueueMovesOn
  <2>. QED BY <1>0, <1>9, <2>2
<1>10. CASE Duplicate
  <2>1. begun /\ NextEntry /\ phase' = "idle"
    BY <1>10 DEF Duplicate, AtEntry
  <2>. QED BY <1>9, <1>10, <2>1 DEF Duplicate
<1>11. CASE LimitExceeded
  <2>1. begun /\ RejectCall /\ phase' = "idle"
    BY <1>11 DEF LimitExceeded, AtEntry
  <2>. QED BY <1>9, <1>11, <2>1 DEF LimitExceeded
<1>12. CASE StartWrite
  BY <1>12 DEF StartWrite, AtEntry
<1>13. CASE WriteDone
  <2>1. begun /\ NextEntry /\ phase' = "idle"
    BY <1>13 DEF WriteDone
  <2>2. Entry \in RecordIds
    BY <1>9, <2>1
  <2>3. Line(Entry) \in Seq(Halves) /\ Len(Line(Entry)) = 2
    <3> HIDE DEF LInv, TypeOK
    <3>. QED BY <2>2, PartIs
  <2>4. file' \in Seq(Halves) /\ sizeBytes' \in Nat
    BY <1>1, <1>13, <2>3 DEF WriteDone
  <2>. QED BY <1>9, <1>13, <2>1, <2>2, <2>4 DEF WriteDone
<1>14. ASSUME phase = "writing", PartialWrite
       PROVE  file' \in Seq(Halves)
  <2>1. PICK n \in 0..2 : file' = file \o Part(Entry, n)
    <3> HIDE DEF LInv, TypeOK
    <3>. QED BY <1>14, PartialIs
  <2>2. Entry \in RecordIds
    <3>1. queue # <<>>
      BY <1>14
    <3> HIDE DEF LInv, TypeOK
    <3>. QED BY <3>1, FirstEntry
  <2>. QED BY <1>1, <2>1, <2>2, PartIs
<1>15. CASE WriteFails
  <2>1. "write" \in FaultKinds /\ Fault("write")
    BY <1>15 DEF WriteFails, FaultKinds
  <2>2. /\ faults' \in [FaultKinds -> Nat]
        /\ \A j \in FaultKinds : faults'[j] \in 0..MaxFaults[j]
    <3> HIDE DEF LInv, TypeOK
    <3>. QED BY <2>1, FaultTyped
  <2>3. file' \in Seq(Halves)
    BY <1>14, <1>15 DEF WriteFails
  <2>. QED BY <1>15, <2>2, <2>3 DEF WriteFails
<1>16. CASE CutDone
  <2>1. begun /\ RejectCall /\ phase' = "idle"
    BY <1>16 DEF CutDone
  <2>2. file' \in Seq(Halves)
    <3>1. file' = SubSeq(file, 1, sizeBytes) /\ sizeBytes \in Nat
      BY <1>16 DEF CutDone, CutOffset
    <3>2. sizeBytes <= Len(file)
      BY <1>16 DEF LengthKnown, CutDone, MayOpen
    <3>3. 1 \in Int /\ sizeBytes \in Int /\ \A i \in 1..sizeBytes : file[i] \in Halves
      BY <1>1, <3>1, <3>2
    <3>. QED BY <3>1, <3>3, SubSeqProperties
  <2>. QED BY <1>9, <1>16, <2>1, <2>2 DEF CutDone
<1>17. CASE CutFails
  <2>1. begun /\ RejectCall /\ phase' = "idle" /\ "recover" \in FaultKinds /\ Fault("recover")
    BY <1>17 DEF CutFails, FaultKinds
  <2>2. /\ faults' \in [FaultKinds -> Nat]
        /\ \A j \in FaultKinds : faults'[j] \in 0..MaxFaults[j]
    <3> HIDE DEF LInv, TypeOK
    <3>. QED BY <2>1, FaultTyped
  <2>. QED BY <1>9, <1>17, <2>1, <2>2 DEF CutFails
<1>18. CASE Stop
  <2>1. "stop" \in FaultKinds /\ Fault("stop")
    BY <1>18 DEF Stop, FaultKinds
  <2>2. /\ faults' \in [FaultKinds -> Nat]
        /\ \A j \in FaultKinds : faults'[j] \in 0..MaxFaults[j]
    <3> HIDE DEF LInv, TypeOK
    <3>. QED BY <2>1, FaultTyped
  <2>3. file' \in Seq(Halves)
    BY <1>1, <1>14, <1>18 DEF Stop
  <2>4. <<>> \in Seq(Batches) /\ Len(<<>>) <= MaxQueue
    BY BoundAssumption
  <2>. QED BY <1>0, <1>18, <2>2, <2>3, <2>4 DEF Stop
<1>. QED BY <1>2, <1>3, <1>4, <1>5, <1>6, <1>7, <1>8, <1>10, <1>11, <1>12, <1>13,
            <1>15, <1>16, <1>17, <1>18 DEF Next, Serve

LEMMA LengthStays ==
  ASSUME LInv, Next
  PROVE  LengthKnown'
<1>1. file \in Seq(Halves) /\ Len(file) \in Nat /\ sizeBytes \in Nat
  BY DEF LInv, TypeOK
<1>2. LengthKnown
  BY DEF LInv
<1>3. CASE Open
  <2> DEFINE k == CompleteLength(file)
  <2>1. k \in 0..Len(file)
    BY <1>1, LastEnd
  <2>2. Len(SubSeq(file, 1, k)) = k
    <3> HIDE DEF k
    <3>1. 1 \in Int /\ k \in Int /\ \A i \in 1..k : file[i] \in Halves
      BY <1>1, <2>1
    <3>2. Len(SubSeq(file, 1, k)) = IF 1 <= k THEN k - 1 + 1 ELSE 0
      BY <3>1, SubSeqProperties
    <3>. QED BY <2>1, <3>2
  <2>. QED BY <1>1, <1>3, <2>1, <2>2 DEF Open, CutTail, LengthKnown
<1>4. CASE OpenExceedsLimit \/ OpenFails
  BY <1>4 DEF OpenExceedsLimit, OpenFails, LengthKnown, MayOpen
<1>5. CASE Enqueue \/ Close \/ Begin \/ RejectClosed \/ Duplicate \/ LimitExceeded
           \/ StartWrite \/ CutFails
  <2>1. ~MayOpen /\ UNCHANGED <<file, sizeBytes>>
    BY <1>5 DEF Enqueue, Close, Begin, RejectClosed, Duplicate, LimitExceeded,
                StartWrite, CutFails, MayOpen, Waiting, AtEntry, LInv, TypeOK
  <2>. QED BY <1>2, <2>1 DEF LengthKnown
<1>6. ASSUME phase \in {"writing", "recovering"}
      PROVE  /\ ~MayOpen /\ sizeBytes <= Len(file)
             /\ Entry \in RecordIds
  <2>1. ~MayOpen
    BY <1>6 DEF MayOpen
  <2>2. queue # <<>>
    BY <1>6 DEF LInv, TypeOK
  <2>. QED BY <1>2, <2>1, <2>2, FirstEntry DEF LengthKnown
<1>7. CASE WriteDone
  <2>1. Entry \in RecordIds /\ sizeBytes <= Len(file)
    BY <1>6, <1>7 DEF WriteDone
  <2>2. Line(Entry) \in Seq(Halves) /\ Len(Line(Entry)) = 2
    BY <2>1, PartIs
  <2>3. file' = file \o Line(Entry) /\ sizeBytes' = sizeBytes + 2
    <3>1. file' = file \o Line(Entry) /\ sizeBytes' = sizeBytes + Len(Line(Entry))
      BY <1>7 DEF WriteDone
    <3>2. Len(Line(Entry)) = 2
      BY <2>2
    <3>. QED BY <3>1, <3>2, Zenon
  <2>4. Len(file') = Len(file) + 2
    <3>1. ASSUME NEW l \in Seq(Halves) PROVE Len(file \o l) = Len(file) + Len(l)
      BY <1>1
    <3>2. Len(file') = Len(file) + Len(Line(Entry))
      BY <2>2, <2>3, <3>1, Zenon
    <3>. QED BY <2>2, <3>2
  <2>. QED BY <1>1, <2>1, <2>3, <2>4 DEF LengthKnown
<1>8. CASE WriteFails
  <2>1. Entry \in RecordIds /\ sizeBytes <= Len(file) /\ sizeBytes' = sizeBytes
    BY <1>6, <1>8 DEF WriteFails
  <2>2. PICK n \in 0..2 : file' = file \o Part(Entry, n)
    BY <1>8, PartialIs DEF WriteFails
  <2>3. Part(Entry, n) \in Seq(Halves) /\ Len(Part(Entry, n)) = n
    BY <2>1, PartIs
  <2>4. Len(file') = Len(file) + n
    BY <1>1, <2>2, <2>3
  <2>. QED BY <1>1, <2>1, <2>4 DEF LengthKnown
<1>9. CASE CutDone
  <2>1. sizeBytes <= Len(file)
    BY <1>6, <1>9 DEF CutDone
  <2>2. 1 \in Int /\ sizeBytes \in Int /\ \A i \in 1..sizeBytes : file[i] \in Halves
    BY <1>1, <2>1
  <2>3. Len(SubSeq(file, 1, sizeBytes)) = IF 1 <= sizeBytes THEN sizeBytes - 1 + 1 ELSE 0
    BY <2>2, SubSeqProperties
  <2>4. file' = SubSeq(file, 1, sizeBytes) /\ sizeBytes' = sizeBytes
    BY <1>9 DEF CutDone, CutOffset
  <2>. QED BY <1>1, <2>3, <2>4 DEF LengthKnown
<1>10. CASE Stop
  BY <1>10 DEF Stop, LengthKnown, MayOpen
<1>. QED BY <1>3, <1>4, <1>5, <1>7, <1>8, <1>9, <1>10 DEF Next, Serve

-----------------------------------------------------------------------------
(***************************************************************************)
(* The file stays sound.                                                   *)
(***************************************************************************)
\* Only a recovery that fails ends the promise, and it never comes back.
LEMMA IntactStays ==
  ASSUME LInv, Next, Intact'
  PROVE  Intact /\ ~CutFails
<1>1. faults["recover"] \in Nat
  BY DEF LInv, FaultKinds
<1>2. ASSUME NEW k \in FaultKinds, Fault(k)
      PROVE  faults["recover"] = 0 /\ k # "recover"
  <2>1. "recover" \in FaultKinds
    BY DEF FaultKinds
  <2>. QED BY <1>1, <1>2, <2>1, FaultTyped DEF Intact
<1>3. {"open", "write", "recover", "stop"} \subseteq FaultKinds
  BY DEF FaultKinds
<1>4. CASE OpenFails
  BY <1>2, <1>3, <1>4 DEF OpenFails, Intact, CutFails, MayOpen
<1>5. CASE WriteFails
  BY <1>2, <1>3, <1>5 DEF WriteFails, Intact, CutFails
<1>6. CASE CutFails
  BY <1>2, <1>3, <1>6 DEF CutFails
<1>7. CASE Stop
  <2>1. faults["recover"] = 0
    BY <1>2, <1>3, <1>7 DEF Stop
  <2>2. ~CutFails
    BY <1>7 DEF Stop, CutFails
  <2>. QED BY <2>1, <2>2 DEF Intact
<1>8. CASE CutDone
  <2>1. ~CutFails
    <3>1. faults' = faults
      BY <1>8 DEF CutDone
    <3>. QED BY <1>2, <1>3, <3>1 DEF CutFails, Fault, Intact
  <2>. QED BY <1>8, <2>1 DEF CutDone, Intact
<1>9. CASE Open \/ OpenExceedsLimit
  BY <1>9 DEF Open, OpenExceedsLimit, MayOpen, CutFails, Intact
<1>10. CASE Enqueue \/ Close \/ Begin \/ RejectClosed \/ Duplicate \/ LimitExceeded
            \/ StartWrite \/ WriteDone
  <2>1. faults' = faults
    BY <1>10 DEF Enqueue, Close, Begin, RejectClosed, Duplicate, LimitExceeded,
                 StartWrite, WriteDone
  <2>2. ~CutFails
    BY <1>2, <1>3, <2>1 DEF CutFails, Fault, Intact
  <2>. QED BY <2>1, <2>2 DEF Intact
<1>. QED BY <1>4, <1>5, <1>6, <1>7, <1>8, <1>9, <1>10 DEF Next, Serve

\* Whatever part of the line is written, and the whole of it, is within the
\* limits and after the file as it was.
LEMMA WriteKeeps ==
  ASSUME LInv, Intact, phase = "writing", NEW n \in 0..2
  PROVE  LET g == file \o Part(Entry, n) IN
           /\ Entry \in RecordIds /\ Entry \notin Parsed(file)
           /\ SubSeq(g, 1, Len(file)) = file /\ Len(g) = Len(file) + n
           /\ Lines(g) /\ Once(g)
           /\ Len(g) <= MaxBytes /\ Cardinality(Parsed(g)) <= MaxRecords
           /\ Parsed(g) = IF n = 2 THEN Parsed(file) \cup {Entry} ELSE Parsed(file)
           /\ n = 2 => Whole(g)
<1> DEFINE g == file \o Part(Entry, n)
<1>1. /\ file \in Seq(Halves) /\ Len(file) \in Nat /\ queue # <<>>
      /\ MaxBytes \in Nat /\ MaxRecords \in Nat
  BY LimitAssumption DEF LInv, TypeOK
<1>2. FileSound /\ Indexed /\ Admitted
  BY DEF LInv, FileSound
<1>3. Entry \in RecordIds /\ Entry \notin Parsed(file)
  BY <1>1, <1>2, FirstEntry DEF Indexed, Admitted
<1>4. Lines(file) /\ Once(file) /\ Whole(file)
  BY <1>2 DEF FileSound, Indexed
<1>5. /\ g \in Seq(Halves) /\ Len(g) = Len(file) + n
      /\ SubSeq(g, 1, Len(file)) = file
      /\ Lines(g) /\ Once(g)
      /\ Parsed(g) = IF n = 2 THEN Parsed(file) \cup {Entry} ELSE Parsed(file)
      /\ n = 2 => Whole(g)
  <2> HIDE DEF LInv
  <2>. QED BY <1>1, <1>3, <1>4, PartAdds
<1>6. Len(g) <= MaxBytes
  <2>1. Len(Line(Entry)) = 2
    BY <1>3, PartIs
  <2>2. ~ (sizeBytes + Len(Line(Entry)) > MaxBytes) /\ sizeBytes = Len(file)
    BY <1>2 DEF Admitted, ExceedsLimit, Indexed
  <2>. QED BY <1>1, <1>5, <2>1, <2>2
<1>7. Cardinality(Parsed(g)) <= MaxRecords
  <2>1. ~ (Cardinality(byId) >= MaxRecords) /\ byId = Parsed(file)
    BY <1>2 DEF Admitted, ExceedsLimit, Indexed
  <2>2. IsFiniteSet(Parsed(file))
    BY <1>1, <1>4, OneRecordEach
  <2>3. Cardinality(Parsed(file)) \in Nat
    BY <2>2, FS_CardinalityType
  <2>4. Cardinality(Parsed(file) \cup {Entry}) = Cardinality(Parsed(file)) + 1
    BY <1>3, <2>2, FS_AddElement
  <2>. QED BY <1>1, <1>5, <2>1, <2>3, <2>4
<1>. QED BY <1>3, <1>5, <1>6, <1>7

\* Open: the tail is cut, the lines are indexed.
LEMMA OpenSound ==
  ASSUME LInv, Intact, Open \/ OpenExceedsLimit \/ OpenFails
  PROVE  FileSound' /\ Parsed(file)' = Parsed(file)
<1>1. FileSound /\ file \in Seq(Halves) /\ Lines(file) /\ Once(file)
  BY DEF LInv, TypeOK, FileSound
<1>2. /\ Len(CutTail(file)) = CompleteLength(file) /\ Len(CutTail(file)) <= Len(file)
      /\ CutTail(file) \in Seq(Halves)
      /\ Lines(CutTail(file)) /\ Once(CutTail(file)) /\ Whole(CutTail(file))
      /\ Parsed(CutTail(file)) = Parsed(file)
  <2> HIDE DEF LInv
  <2>. QED BY <1>1, CutKeeps
<1>3. Len(file) \in Nat /\ Len(CutTail(file)) \in Nat /\ MaxBytes \in Nat
  BY <1>1, <1>2, LimitAssumption
<1>4. CASE Open
  <2>1. /\ file' = CutTail(file) /\ phase' = "idle" /\ byId' = Parsed(file)
        /\ sizeBytes' = CompleteLength(file) /\ acked' = acked
    BY <1>4 DEF Open
  <2>2. Parsed(file') = Parsed(file) /\ Lines(file') /\ Once(file') /\ Whole(file')
    BY <1>2, <2>1
  <2>3. Len(file') <= MaxBytes /\ sizeBytes' = Len(file')
    BY <1>1, <1>2, <1>3, <2>1 DEF FileSound
  <2>. QED BY <1>1, <2>1, <2>2, <2>3 DEF FileSound, Indexed
<1>5. CASE OpenExceedsLimit
  <2>1. ~ OpenExceedsLimit
    <3>1. Readable(file) /\ ~ (Cardinality(Parsed(file)) > MaxRecords)
      <4>1. IsFiniteSet(Parsed(file))
        BY <1>1, OneRecordEach
      <4>2. Cardinality(Parsed(file)) \in Nat /\ MaxRecords \in Nat
        BY <4>1, FS_CardinalityType, LimitAssumption
      <4>. QED BY <1>1, <4>2 DEF FileSound, Readable
    <3>. QED BY <3>1 DEF OpenExceedsLimit
  <2>. QED BY <1>5, <2>1
<1>6. CASE OpenFails
  <2>1. file' = file /\ phase' = phase /\ phase \in {"down", "idle"} /\ byId' = byId
        /\ sizeBytes' = sizeBytes /\ acked' = acked
    BY <1>6 DEF OpenFails, MayOpen
  <2>. QED BY <1>1, <2>1 DEF FileSound, Indexed
<1>. QED BY <1>4, <1>5, <1>6

\* The calls that leave file and index alone.
LEMMA CallSound ==
  ASSUME LInv, Intact,
         \/ Enqueue \/ Close \/ Begin \/ RejectClosed \/ Duplicate
         \/ LimitExceeded \/ StartWrite
  PROVE  FileSound' /\ Parsed(file)' = Parsed(file)
<1>1. FileSound
  BY DEF LInv
<1>2. UNCHANGED <<file, byId, sizeBytes>>
  BY DEF Enqueue, Close, Begin, RejectClosed, Duplicate, LimitExceeded, StartWrite
<1>3. acked' \subseteq Parsed(file)
  <2>1. CASE Duplicate
    BY <1>1, <2>1 DEF Duplicate, AtEntry, FileSound, Indexed
  <2>2. CASE ~Duplicate
    <3>1. acked' = acked
      BY <2>2 DEF Enqueue, Close, Begin, RejectClosed, LimitExceeded, StartWrite
    <3>. QED BY <1>1, <3>1 DEF FileSound
  <2>. QED BY <2>1, <2>2
<1>4. CASE Enqueue \/ Close
  <2>1. phase' = phase /\ acked' = acked
    BY <1>4 DEF Enqueue, Close
  <2>2. ASSUME phase \in {"writing", "recovering"} PROVE Entry' = Entry
    <3>1. queue # <<>>
      BY <2>2 DEF LInv, TypeOK
    <3>2. Head(queue') = Head(queue)
      BY <1>4, <3>1, FirstEntry DEF Enqueue, Close
    <3>. QED BY <3>2 DEF Entry
  <2>3. phase = "writing" => Admitted'
    BY <1>1, <1>2, <2>2 DEF FileSound, Admitted, ExceedsLimit
  <2>4. phase = "recovering" => Torn'
    <3> SUFFICES ASSUME phase = "recovering" PROVE Torn'
      OBVIOUS
    <3>1. Torn /\ Entry' = Entry
      BY <1>1, <2>2 DEF FileSound
    <3>. QED BY <1>2, <2>1, <3>1 DEF Torn, Kept
  <2>. QED BY <1>1, <1>2, <2>1, <2>3, <2>4 DEF FileSound, Indexed
<1>5. CASE Begin \/ RejectClosed \/ Duplicate \/ LimitExceeded
  <2>1. phase = "idle" /\ phase' = "idle"
    BY <1>5 DEF Begin, RejectClosed, Duplicate, LimitExceeded, Waiting, AtEntry
  <2>. QED BY <1>1, <1>2, <1>3, <2>1 DEF FileSound, Indexed
<1>6. CASE StartWrite
  <2>1. phase = "idle" /\ phase' = "writing"
    BY <1>6 DEF StartWrite, AtEntry
  <2>2. Admitted'
    <3>1. Entry' = Entry /\ Entry \notin byId /\ ~ExceedsLimit
      BY <1>6 DEF StartWrite, Entry
    <3>. QED BY <1>2, <3>1 DEF Admitted, ExceedsLimit
  <2>. QED BY <1>1, <1>2, <1>3, <2>1, <2>2 DEF FileSound, Indexed
<1>. QED BY <1>2, <1>4, <1>5, <1>6

\* A write that is done is one whole line more, indexed and acknowledged.
LEMMA WriteDoneSound ==
  ASSUME LInv, Intact, WriteDone
  PROVE  /\ FileSound' /\ Entry \in RecordIds
         /\ Parsed(file)' = Parsed(file) \cup {Entry}
         /\ acked' = acked \cup {Entry}
<1>1. FileSound /\ Indexed /\ phase = "writing"
  BY DEF LInv, FileSound, WriteDone
<1> DEFINE g == file \o Part(Entry, 2)
<1>2. /\ Entry \in RecordIds /\ Len(g) = Len(file) + 2 /\ Lines(g) /\ Once(g) /\ Whole(g)
      /\ Len(g) <= MaxBytes /\ Cardinality(Parsed(g)) <= MaxRecords
      /\ Parsed(g) = Parsed(file) \cup {Entry}
  BY <1>1, WriteKeeps
<1>3. Line(Entry) = Part(Entry, 2) /\ Len(Line(Entry)) = 2
  BY <1>2, PartIs
<1>4. file' = g /\ sizeBytes' = sizeBytes + 2
  <2>1. file' = file \o Line(Entry) /\ sizeBytes' = sizeBytes + Len(Line(Entry))
    BY DEF WriteDone
  <2>2. Len(Line(Entry)) = 2 /\ Line(Entry) = Part(Entry, 2)
    BY <1>3
  <2>. QED BY <2>1, <2>2, Zenon
<1> HIDE DEF g
<1>5. byId' = byId \cup {Entry} /\ acked' = acked \cup {Entry} /\ phase' = "idle"
  BY DEF WriteDone
<1>6. Indexed'
  <2>1. sizeBytes' = Len(file')
    BY <1>1, <1>2, <1>4 DEF Indexed
  <2>2. byId' = Parsed(file') /\ Whole(file')
    BY <1>1, <1>2, <1>4, <1>5 DEF Indexed
  <2>. QED BY <2>1, <2>2 DEF Indexed
<1>7. acked' \subseteq Parsed(file')
  BY <1>1, <1>2, <1>4, <1>5 DEF FileSound
<1>. QED BY <1>2, <1>4, <1>5, <1>6, <1>7 DEF FileSound

\* A write that fails, or in which the process stops, leaves a file of lines,
\* with all or nothing of the record in it.
LEMMA PartialSound ==
  ASSUME LInv, Intact, phase = "writing", PartialWrite
  PROVE  /\ Entry \in RecordIds /\ Entry \notin Parsed(file)
         /\ Lines(file') /\ Once(file')
         /\ Len(file') <= MaxBytes /\ Cardinality(Parsed(file')) <= MaxRecords
         /\ Parsed(file') \in {Parsed(file), Parsed(file) \cup {Entry}}
         /\ sizeBytes <= Len(file') /\ SubSeq(file', 1, sizeBytes) = file
         /\ \E n \in 0..2 : file' = file \o Part(Entry, n)
<1>1. PICK n \in 0..2 : file' = file \o Part(Entry, n)
  BY PartialIs
<1>2. sizeBytes = Len(file) /\ Len(file) \in Nat
  BY DEF LInv, TypeOK, FileSound, Indexed
<1> DEFINE g == file \o Part(Entry, n)
<1>3. /\ Entry \in RecordIds /\ Entry \notin Parsed(file)
      /\ SubSeq(g, 1, Len(file)) = file /\ Len(g) = Len(file) + n
      /\ Lines(g) /\ Once(g)
      /\ Len(g) <= MaxBytes /\ Cardinality(Parsed(g)) <= MaxRecords
      /\ Parsed(g) = IF n = 2 THEN Parsed(file) \cup {Entry} ELSE Parsed(file)
  BY WriteKeeps
<1>4. file' = g
  BY <1>1
<1> HIDE DEF g
<1>5. sizeBytes <= Len(file') /\ SubSeq(file', 1, sizeBytes) = file
  BY <1>2, <1>3, <1>4
<1>6. Parsed(file') \in {Parsed(file), Parsed(file) \cup {Entry}}
  BY <1>3, <1>4
<1>. QED BY <1>1, <1>3, <1>4, <1>5, <1>6

LEMMA WriteFailsSound ==
  ASSUME LInv, Intact, WriteFails
  PROVE  FileSound'
<1>1. FileSound /\ Indexed /\ phase = "writing" /\ PartialWrite /\ phase' = "recovering"
      /\ UNCHANGED <<byId, sizeBytes, queue, acked>>
  BY DEF LInv, FileSound, WriteFails
<1>2. /\ Lines(file') /\ Once(file')
      /\ Len(file') <= MaxBytes /\ Cardinality(Parsed(file')) <= MaxRecords
      /\ Parsed(file') \in {Parsed(file), Parsed(file) \cup {Entry}}
      /\ sizeBytes <= Len(file') /\ SubSeq(file', 1, sizeBytes) = file
      /\ \E n \in 0..2 : file' = file \o Part(Entry, n)
  BY <1>1, PartialSound
<1>3. Kept' = file /\ Entry' = Entry
  BY <1>1, <1>2 DEF Kept, Entry
<1>4. acked' \subseteq byId' /\ byId' = Parsed(file) /\ Entry' \notin byId'
  BY <1>1, <1>3 DEF FileSound, Indexed, Admitted
<1>5. Torn'
  <2>1. Whole(file) /\ sizeBytes' <= Len(file')
    BY <1>1, <1>2 DEF Indexed
  <2>2. \E n \in 0..2 : file' = Kept' \o Part(Entry', n)
    BY <1>2, <1>3
  <2>. QED BY <1>3, <1>4, <2>1, <2>2 DEF Torn
<1>6. acked' \subseteq Parsed(file')
  BY <1>2, <1>4
<1>. QED BY <1>1, <1>2, <1>5, <1>6 DEF FileSound

\* Taking back a failed write loses that record at most.
LEMMA CutDoneSound ==
  ASSUME LInv, Intact, CutDone
  PROVE  /\ FileSound' /\ Entry \in RecordIds /\ Entry \notin acked
         /\ Parsed(file)' \in {Parsed(file), Parsed(file) \ {Entry}}
<1>1. /\ FileSound /\ Torn /\ file \in Seq(Halves) /\ Len(file) \in Nat
      /\ sizeBytes \in Nat /\ sizeBytes <= Len(file) /\ queue # <<>>
      /\ MaxBytes \in Nat /\ MaxRecords \in Nat
  <2>1. phase = "recovering" /\ FileSound /\ file \in Seq(Halves) /\ sizeBytes \in Nat
        /\ queue # <<>>
    BY DEF LInv, TypeOK, CutDone
  <2>2. Torn
    BY <2>1 DEF FileSound
  <2>3. sizeBytes <= Len(file)
    BY <2>2 DEF Torn
  <2>. QED BY <2>1, <2>2, <2>3, LimitAssumption
<1>2. /\ file' = Kept /\ phase' = "idle" /\ UNCHANGED <<byId, sizeBytes, acked>>
  BY DEF CutDone, CutOffset, Kept
<1>3. Lines(file) /\ Once(file) /\ sizeBytes \in 0..Len(file)
  BY <1>1 DEF FileSound
<1>4. /\ Kept \in Seq(Halves) /\ Len(Kept) = sizeBytes /\ Lines(Kept) /\ Once(Kept)
      /\ Parsed(Kept) = {file[n].id : n \in {m \in 1..sizeBytes : file[m].half = 2}}
  BY <1>1, <1>3, PrefixKeeps DEF Kept
<1>5. Parsed(file) = {file[n].id : n \in {m \in DOMAIN file : file[m].half = 2}}
  BY <1>1, <1>3, LinesParse
<1>6. Parsed(Kept) \subseteq Parsed(file)
  BY <1>1, <1>4, <1>5
<1>7. Cardinality(Parsed(Kept)) <= MaxRecords
  <2>1. IsFiniteSet(Parsed(file))
    BY <1>1, <1>3, OneRecordEach
  <2>2. /\ Cardinality(Parsed(Kept)) <= Cardinality(Parsed(file))
        /\ Cardinality(Parsed(Kept)) \in Nat /\ Cardinality(Parsed(file)) \in Nat
    BY <1>6, <2>1, FS_Subset, FS_CardinalityType
  <2>. QED BY <1>1, <2>2 DEF FileSound
<1>8. Entry \in RecordIds
  BY <1>1, FirstEntry
<1>9. Entry \notin acked /\ acked \subseteq byId /\ byId = Parsed(Kept) /\ Whole(Kept)
  BY <1>1 DEF Torn
<1>10. Parsed(file) \in {Parsed(Kept), Parsed(Kept) \cup {Entry}}
  <2>1. PICK n \in 0..2 : file = Kept \o Part(Entry, n)
    BY <1>1 DEF Torn
  <2>2. Entry \notin Parsed(Kept)
    BY <1>1 DEF Torn
  <2>3. Parsed(Kept \o Part(Entry, n)) =
          IF n = 2 THEN Parsed(Kept) \cup {Entry} ELSE Parsed(Kept)
    BY <1>4, <1>8, <1>9, <2>2, PartAdds
  <2>. QED BY <2>1, <2>3
<1>11. Indexed'
  BY <1>2, <1>4, <1>9 DEF Indexed
<1>12. FileSound'
  <2>1. Lines(file') /\ Once(file') /\ Len(file') <= MaxBytes
    BY <1>1, <1>2, <1>4 DEF FileSound
  <2>2. Cardinality(Parsed(file')) <= MaxRecords /\ acked' \subseteq Parsed(file')
    BY <1>2, <1>7, <1>9
  <2>. QED BY <1>2, <1>11, <2>1, <2>2 DEF FileSound
<1>13. Parsed(file') \in {Parsed(file), Parsed(file) \ {Entry}}
  <2>1. Entry \notin Parsed(Kept) /\ file' = Kept
    BY <1>1, <1>2 DEF Torn
  <2>. QED BY <1>10, <2>1
<1>. QED BY <1>8, <1>9, <1>12, <1>13

\* The process stops.
LEMMA StopSound ==
  ASSUME LInv, Intact, Stop
  PROVE  /\ FileSound' /\ acked' = acked
         /\ \/ Parsed(file)' = Parsed(file)
            \/ /\ Entry \in RecordIds /\ Entry \notin Parsed(file)
               /\ Parsed(file)' = Parsed(file) \cup {Entry}
<1>1. FileSound /\ phase' = "down" /\ acked' = acked
  BY DEF LInv, Stop
<1>2. CASE phase = "writing"
  <2>1. PartialWrite
    BY <1>2 DEF Stop
  <2>2. /\ Entry \in RecordIds /\ Entry \notin Parsed(file)
        /\ Lines(file') /\ Once(file')
        /\ Len(file') <= MaxBytes /\ Cardinality(Parsed(file')) <= MaxRecords
        /\ Parsed(file') \in {Parsed(file), Parsed(file) \cup {Entry}}
    BY <1>2, <2>1, PartialSound
  <2>3. acked' \subseteq Parsed(file')
    BY <1>1, <2>2 DEF FileSound
  <2>. QED BY <1>1, <2>2, <2>3 DEF FileSound
<1>3. CASE phase # "writing"
  <2>1. file' = file
    BY <1>3 DEF Stop
  <2>. QED BY <1>1, <2>1 DEF FileSound
<1>. QED BY <1>2, <1>3

-----------------------------------------------------------------------------
(***************************************************************************)
(* The theorems.                                                           *)
(***************************************************************************)
LEMMA LInvInit == Init => LInv
<1> SUFFICES ASSUME Init PROVE LInv
  OBVIOUS
<1>1. /\ file = <<>> /\ phase = "down" /\ queue = <<>> /\ acked = {} /\ byId = {}
      /\ sizeBytes = 0 /\ closed = FALSE /\ begun = FALSE
      /\ faults = [kind \in FaultKinds |-> 0]
  BY DEF Init
<1>2. /\ faults \in [FaultKinds -> Nat]
      /\ \A kind \in FaultKinds : faults[kind] \in 0..MaxFaults[kind]
  BY <1>1, BoundAssumption
<1>3. TypeOK
  <2>1. MaxQueue \in Nat /\ Len(<<>>) = 0
    BY BoundAssumption
  <2>2. Len(queue) <= MaxQueue /\ DOMAIN queue = {}
    BY <1>1, <2>1
  <2>3. file \in Seq(Halves)
    BY <1>1
  <2>. QED BY <1>1, <1>2, <2>2, <2>3 DEF TypeOK
<1>4. Lines(file) /\ Once(file) /\ Parsed(file) = {}
  BY <1>1 DEF Lines, Once, Parsed, RecordEnds, LineEnds
<1>5. FileSound
  <2>1. Len(file) <= MaxBytes /\ Cardinality(Parsed(file)) <= MaxRecords
    <3>1. MaxBytes \in Nat /\ MaxRecords \in Nat /\ Len(<<>>) = 0
      BY LimitAssumption
    <3>2. Cardinality({}) = 0
      BY FS_EmptySet
    <3>3. Len(file) = 0 /\ Cardinality(Parsed(file)) = 0
      <4>. HIDE DEF Init
      <4>. QED BY <1>1, <1>4, <3>1, <3>2, Zenon
    <3>. QED BY <3>1, <3>3
  <2>. QED BY <1>1, <1>4, <2>1 DEF FileSound
<1>6. LengthKnown
  BY <1>1 DEF LengthKnown, MayOpen
<1>7. queue \in Seq(Batches)
  BY <1>1
<1>. QED BY <1>2, <1>3, <1>5, <1>6, <1>7 DEF LInv

LEMMA LInvNext == LInv /\ [Next]_vars => LInv'
<1> SUFFICES ASSUME LInv, [Next]_vars PROVE LInv'
  OBVIOUS
<1>1. CASE Next
  <2>1. ASSUME Intact' PROVE FileSound'
    <3>1. Intact /\ ~CutFails
      BY <1>1, <2>1, IntactStays
    <3>2. CASE Open \/ OpenExceedsLimit \/ OpenFails
      BY <3>1, <3>2, OpenSound
    <3>3. CASE \/ Enqueue \/ Close \/ Begin \/ RejectClosed \/ Duplicate
               \/ LimitExceeded \/ StartWrite
      BY <3>1, <3>3, CallSound
    <3>4. CASE WriteDone
      BY <3>1, <3>4, WriteDoneSound
    <3>5. CASE WriteFails
      BY <3>1, <3>5, WriteFailsSound
    <3>6. CASE CutDone
      BY <3>1, <3>6, CutDoneSound
    <3>7. CASE Stop
      BY <3>1, <3>7, StopSound
    <3>. QED BY <1>1, <3>1, <3>2, <3>3, <3>4, <3>5, <3>6, <3>7 DEF Next, Serve
  <2>. QED BY <1>1, <2>1, TypesKept, LengthStays DEF LInv
<1>2. CASE UNCHANGED vars
  <2>1. UNCHANGED <<file, phase, closed, byId, sizeBytes, queue, begun, acked, faults>>
    BY <1>2 DEF vars
  <2>2. TypeOK' /\ LengthKnown'
    BY <2>1 DEF LInv, TypeOK, LengthKnown, MayOpen
  <2>3. FileSound' <=> FileSound
    BY <2>1 DEF FileSound, Indexed, Admitted, ExceedsLimit, Entry, Torn, Kept
  <2>. QED BY <2>1, <2>2, <2>3 DEF LInv, Intact
<1>. QED BY <1>1, <1>2

\* The types hold, and until a recovery fails the file is one of whole lines
\* and of a torn tail at most, within the limits, with every id once and every
\* acknowledged record in it.
THEOREM LedgerInvariant == Spec => []LInv
BY LInvInit, LInvNext, PTL DEF Spec

\* What the ledger holds in memory, what the file holds and what a next process
\* can open are the same records, after any number of calls, failed writes and
\* stops, with files and batches of any length.
THEOREM Sound == Spec => []LedgerSound
<1>1. LInv => LedgerSound
  <2> SUFFICES ASSUME LInv PROVE LedgerSound
    OBVIOUS
  <2>1. TypeOK
    BY DEF LInv
  <2>2. IndexMatchesFile
    <3> SUFFICES ASSUME Intact, phase = "idle"
                 PROVE  /\ byId = Parsed(file)
                        /\ sizeBytes = Len(file)
                        /\ Cardinality(RecordEnds(file)) = Cardinality(byId)
      BY DEF IndexMatchesFile
    <3>1. Indexed /\ Lines(file) /\ Once(file) /\ file \in Seq(Halves)
      BY DEF LInv, FileSound, TypeOK
    <3>2. Cardinality(RecordEnds(file)) = Cardinality(Parsed(file))
      BY <3>1, OneRecordEach
    <3>. QED BY <3>1, <3>2 DEF Indexed
  <2>3. ReopensWithinLimits
    BY DEF ReopensWithinLimits, LInv, FileSound, Readable
  <2>. QED BY <2>1, <2>2, <2>3 DEF LedgerSound
<1>. QED BY <1>1, LedgerInvariant, PTL

-----------------------------------------------------------------------------
(***************************************************************************)
(* The promise.  In terms of LedgerStore every step is the record's        *)
(* reaching the file, its being taken back, its being acknowledged, the    *)
(* end of the promise, or nothing.                                         *)
(***************************************************************************)
LEMMA StoreStep == LInv /\ [Next]_vars => [Store!Next]_(Store!vars)
<1> SUFFICES ASSUME LInv, [Next]_vars
             PROVE  Store!Next \/ UNCHANGED <<Parsed(file), acked, Intact>>
  BY DEF Store!vars
<1>0. LInv'
  BY LInvNext
<1>1. ASSUME NEW f \in Seq(Halves) PROVE Parsed(f) \subseteq RecordIds
  <2>1. \A n \in DOMAIN f : f[n] \in Halves
    BY <1>1
  <2>2. \A n \in DOMAIN f : f[n].id \in RecordIds
    BY <2>1 DEF Halves
  <2>. QED BY <2>2 DEF Parsed, RecordEnds, LineEnds
<1>2. CASE ~Intact'
  <2>1. Parsed(file') \subseteq RecordIds /\ acked' \subseteq RecordIds
    BY <1>0, <1>1 DEF LInv, TypeOK
  <2>2. Intact' = FALSE
    BY <1>2 DEF Intact
  <2>3. Store!Broken
    BY <2>1, <2>2 DEF Store!Broken
  <2>. QED BY <2>3 DEF Store!Next
<1>3. CASE Intact' /\ Next
  <2>1. Intact /\ ~CutFails
    BY <1>3, IntactStays
  <2>2. Intact' = TRUE /\ Intact = TRUE
    BY <1>3, <2>1 DEF Intact
  <2>3. CASE \/ Open \/ OpenExceedsLimit \/ OpenFails \/ Enqueue \/ Close \/ Begin
             \/ RejectClosed \/ LimitExceeded \/ StartWrite
    <3>1. Parsed(file') = Parsed(file)
      BY <2>1, <2>3, OpenSound, CallSound
    <3>2. acked' = acked
      BY <2>3 DEF Open, OpenExceedsLimit, OpenFails, Enqueue, Close, Begin,
                  RejectClosed, LimitExceeded, StartWrite
    <3>. QED BY <2>2, <3>1, <3>2
  <2>4. ASSUME NEW id \in RecordIds,
               Store!Persist(id) \/ Store!TakeBack(id) \/ Store!Acknowledge(id)
        PROVE  Store!Next
    BY <2>2, <2>4 DEF Store!Next, Store!Kept, Store!Intact
  <2>5. CASE Duplicate
    <3>1. Parsed(file') = Parsed(file)
      BY <2>1, <2>5, CallSound
    <3>2. Entry \in byId /\ byId = Parsed(file) /\ acked' = acked \cup {Entry}
          /\ Entry \in RecordIds
      BY <2>1, <2>5 DEF Duplicate, AtEntry, LInv, FileSound, Indexed, TypeOK
    <3>3. Store!Acknowledge(Entry)
      BY <3>1, <3>2 DEF Store!Acknowledge
    <3>. QED BY <2>4, <3>2, <3>3
  <2>6. CASE WriteDone
    <3>1. /\ Entry \in RecordIds /\ Parsed(file') = Parsed(file) \cup {Entry}
          /\ acked' = acked \cup {Entry}
      BY <2>1, <2>6, WriteDoneSound
    <3>2. Store!Acknowledge(Entry)
      BY <3>1 DEF Store!Acknowledge
    <3>. QED BY <2>4, <3>1, <3>2
  <2>7. CASE WriteFails \/ Stop
    <3>1. /\ acked' = acked
          /\ \/ Parsed(file') = Parsed(file)
             \/ /\ Entry \in RecordIds /\ Entry \notin Parsed(file)
                /\ Parsed(file') = Parsed(file) \cup {Entry}
      <4>1. CASE Stop
        BY <2>1, <4>1, StopSound
      <4>2. CASE WriteFails
        <5>1. phase = "writing" /\ PartialWrite /\ acked' = acked
          BY <4>2 DEF WriteFails
        <5>. QED BY <2>1, <5>1, PartialSound
      <4>. QED BY <2>7, <4>1, <4>2
    <3>2. CASE Parsed(file') = Parsed(file)
      BY <2>2, <3>1, <3>2
    <3>3. CASE /\ Entry \in RecordIds /\ Entry \notin Parsed(file)
               /\ Parsed(file') = Parsed(file) \cup {Entry}
      <4>1. Store!Persist(Entry)
        BY <3>1, <3>3 DEF Store!Persist
      <4>. QED BY <2>4, <3>3, <4>1
    <3>. QED BY <3>1, <3>2, <3>3
  <2>8. CASE CutDone
    <3>1. /\ Entry \in RecordIds /\ Entry \notin acked
          /\ Parsed(file') \in {Parsed(file), Parsed(file) \ {Entry}}
      BY <2>1, <2>8, CutDoneSound
    <3>2. acked' = acked
      BY <2>8 DEF CutDone
    <3>3. CASE Parsed(file') = Parsed(file)
      BY <2>2, <3>2, <3>3
    <3>4. CASE Parsed(file') # Parsed(file)
      <4>1. Store!TakeBack(Entry)
        BY <3>1, <3>2, <3>4 DEF Store!TakeBack
      <4>. QED BY <2>4, <3>1, <4>1
    <3>. QED BY <3>3, <3>4
  <2>. QED BY <1>3, <2>1, <2>3, <2>5, <2>6, <2>7, <2>8 DEF Next, Serve
<1>4. CASE UNCHANGED vars
  BY <1>4 DEF vars, Intact
<1>. QED BY <1>2, <1>3, <1>4

\* The ledger implements LedgerStore: what it acknowledged is in the file from
\* then on, and only what was not acknowledged is taken back, until a failed
\* write cannot be.
THEOREM Implements == Spec => KeepsItsPromise
<1>1. Init => Store!Init
  <2> SUFFICES ASSUME Init PROVE Store!Init
    OBVIOUS
  <2>1. file = <<>> /\ acked = {} /\ faults["recover"] = 0
    BY DEF Init, FaultKinds
  <2>2. Parsed(file) = {}
    BY <2>1 DEF Parsed, RecordEnds, LineEnds
  <2>. QED BY <2>1, <2>2 DEF Store!Init, Intact
<1>. QED BY <1>1, StoreStep, LedgerInvariant, PTL DEF Spec, KeepsItsPromise, Store!Spec
=============================================================================

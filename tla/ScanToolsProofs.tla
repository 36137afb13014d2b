-------------------------- MODULE ScanToolsProofs --------------------------
(***************************************************************************)
(* What shadow mode keeps through failing steps, killed jobs, lost pushes  *)
(* and a branch that is rewritten, and what an incremental scan reports,   *)
(* proved from the specification of ScanTools.                             *)
(***************************************************************************)
EXTENDS ScanTools, FiniteSetTheorems, SequenceTheorems, TLAPS

(***************************************************************************)
(* The inductive invariant.                                                *)
(***************************************************************************)
LandedCommit == [sha : Nat \ {0}, at : Nat, pr : BOOLEAN, undoes : Nat]
Outcome == [sha : Nat, at : Nat, label : {"missing_horizon", "undone", "survived"}]
Directory == [cursor : Nat, scores : Seq(LandedCommit), outcomes : Seq(Outcome)]
Run == [rows : Seq(LandedCommit), before : Nat, after : Nat]
Places == {"idle", "scoring", "appending", "stating", "labelling", "pushing"}

\* Commits have landed, and no two of the branch have one name.
BranchFits ==
  /\ branch \in Seq(LandedCommit) /\ landed \in Nat /\ clock \in Nat
  /\ \A i \in DOMAIN branch : branch[i].sha <= landed
  /\ \A i, j \in DOMAIN branch : branch[i].sha = branch[j].sha => i = j

\* What is on the branch up to a commit is among these, was given up, or is old.
Covered(sha, shas) ==
  \A i, k \in DOMAIN branch :
    branch[k].sha = sha /\ i <= k => branch[i].sha \in shas \cup givenUp \cup tooOld

\* A data directory: each row once, and its cursor passes over nothing.
Sound(d) ==
  /\ d \in Directory /\ d.cursor <= landed
  /\ Once(d.scores) /\ Once(d.outcomes)
  /\ Covered(d.cursor, ShaSet(d.scores))

\* What a run is about to append is new, and then its cursor may move.
RunFits ==
  /\ pending \in Run /\ pending.after <= landed /\ job \in Places
  /\ job \in {"appending", "stating"} => pending.before = data.cursor
  /\ job = "appending" =>
       /\ Once(pending.rows)
       /\ ShaSet(pending.rows) \cap ShaSet(data.scores) = {}
       /\ Covered(pending.after, ShaSet(data.scores) \cup ShaSet(pending.rows))
  /\ job = "stating" => Covered(pending.after, ShaSet(data.scores))

ShadowInv == BranchFits /\ Sound(published) /\ Sound(data) /\ RunFits

(***************************************************************************)
(* Sequences.                                                              *)
(***************************************************************************)
\* A finite set as a sequence: each of its elements stands in one place.
LEMMA SetToSeqIs ==
  ASSUME NEW S, IsFiniteSet(S)
  PROVE  /\ SetToSeq(S) \in Seq(S)
         /\ \A x \in S : \E k \in DOMAIN SetToSeq(S) : SetToSeq(S)[k] = x
         /\ \A k, l \in DOMAIN SetToSeq(S) : SetToSeq(S)[k] = SetToSeq(S)[l] => k = l
<1> DEFINE n == Cardinality(S)
           f == SetToSeq(S)
<1>1. n \in Nat /\ ExistsBijection(1..n, S)
  BY FS_CardinalityType
<1>2. PICK b : b \in Bijection(1..n, S)
  BY <1>1 DEF ExistsBijection
<1>3. b \in [1..n -> S] /\ IsInjective(b)
  BY <1>2 DEF Bijection, Injection, IsInjective
<1>4. f \in [1..n -> S] /\ IsInjective(f)
  BY <1>3 DEF SetToSeq
<1> HIDE DEF f
<1>5. f \in Injection(1..n, S)
  BY <1>4 DEF Injection, IsInjective
<1>6. Cardinality(1..n) = n
  <2>1. Cardinality(1..n) = IF 1 > n THEN 0 ELSE n - 1 + 1
    BY <1>1, FS_Interval
  <2> HIDE DEF n
  <2>. QED BY <1>1, <2>1
<1>7. f \in Surjection(1..n, S)
  BY <1>5, <1>6, FS_Injection
<1>8. \A x \in S : \E k \in 1..n : f[k] = x
  BY <1>7 DEF Surjection
<1>9. f \in Seq(S) /\ DOMAIN f = 1..n
  BY <1>1, <1>4
<1>. QED BY <1>4, <1>8, <1>9 DEF f, IsInjective

\* What the names of a sequence of rows are.
LEMMA ShaSetIs ==
  ASSUME NEW rows
  PROVE  ShaSet(rows) = {rows[i].sha : i \in DOMAIN rows}
BY DEF ShaSet, ToSet

\* Rows that are new and of different names are appended: each is still there once.
LEMMA AppendedOnce ==
  ASSUME NEW T, NEW old \in Seq(T), NEW new \in Seq(T), Once(old), Once(new),
         \A i \in DOMAIN old, j \in DOMAIN new : old[i].sha # new[j].sha
  PROVE  /\ old \o new \in Seq(T) /\ Once(old \o new)
         /\ ShaSet(old \o new) = ShaSet(old) \cup ShaSet(new)
<1> DEFINE all == old \o new
           m == Len(old)
           n == Len(new)
<1>1. /\ m \in Nat /\ n \in Nat /\ DOMAIN old = 1..m /\ DOMAIN new = 1..n
      /\ all \in Seq(T) /\ Len(all) = m + n /\ DOMAIN all = 1..(m + n)
      /\ \A i \in 1..(m + n) : all[i] = IF i <= m THEN old[i] ELSE new[i - m]
  BY ConcatProperties
<1> HIDE DEF all, m, n
<1>2. \A i \in 1..(m + n) : i <= m => i \in 1..m /\ all[i] = old[i]
  BY <1>1
<1>3. \A i \in 1..(m + n) : ~ i <= m => i - m \in 1..n /\ all[i] = new[i - m]
  BY <1>1
<1>4. ASSUME NEW i \in 1..(m + n), NEW j \in 1..(m + n), all[i].sha = all[j].sha
      PROVE  i = j
  <2>1. CASE i <= m /\ j <= m
    BY <1>1, <1>2, <1>4, <2>1 DEF Once
  <2>2. CASE ~ i <= m /\ ~ j <= m
    <3> DEFINE a == i - m
               b == j - m
    <3>1. a \in DOMAIN new /\ b \in DOMAIN new /\ all[i] = new[a] /\ all[j] = new[b]
      BY <1>1, <1>3, <2>2
    <3>2. a \in Int /\ b \in Int /\ (a = b => i = j)
      BY <1>1
    <3> HIDE DEF a, b
    <3>3. a = b
      BY <1>4, <3>1 DEF Once
    <3>. QED BY <3>2, <3>3
  <2>3. CASE i <= m /\ ~ j <= m
    <3>1. old[i].sha # new[j - m].sha
      BY <1>1, <1>2, <1>3, <2>3
    <3>. QED BY <1>2, <1>3, <1>4, <2>3, <3>1
  <2>4. CASE ~ i <= m /\ j <= m
    <3>1. old[j].sha # new[i - m].sha
      BY <1>1, <1>2, <1>3, <2>4
    <3>. QED BY <1>2, <1>3, <1>4, <2>4, <3>1
  <2>. QED BY <2>1, <2>2, <2>3, <2>4
<1>5. \A x : x \in ShaSet(all) <=> x \in ShaSet(old) \cup ShaSet(new)
  <2>1. ASSUME NEW x \in ShaSet(all) PROVE x \in ShaSet(old) \cup ShaSet(new)
    <3>1. PICK i \in 1..(m + n) : x = all[i].sha
      BY <1>1, <2>1, ShaSetIs
    <3>. QED BY <1>1, <1>2, <1>3, <3>1, ShaSetIs
  <2>2. ASSUME NEW i \in 1..m PROVE old[i].sha \in ShaSet(all)
    <3>1. i \in 1..(m + n) /\ all[i] = old[i]
      BY <1>1
    <3>. QED BY <1>1, <3>1, ShaSetIs
  <2>3. ASSUME NEW i \in 1..n PROVE new[i].sha \in ShaSet(all)
    <3>1. m + i \in 1..(m + n) /\ ~ m + i <= m /\ (m + i) - m = i
      BY <1>1
    <3>2. all[m + i] = new[i]
      BY <1>3, <3>1
    <3>. QED BY <1>1, <3>1, <3>2, ShaSetIs
  <2>4. ShaSet(old) \subseteq ShaSet(all)
    BY <1>1, <2>2, ShaSetIs
  <2>5. ShaSet(new) \subseteq ShaSet(all)
    BY <1>1, <2>3, ShaSetIs
  <2>. QED BY <2>1, <2>4, <2>5
<1>6. Once(all)
  BY <1>1, <1>4 DEF Once
<1>. QED BY <1>1, <1>5, <1>6 DEF all

(***************************************************************************)
(* The branch moves.                                                       *)
(***************************************************************************)
\* Up to a commit that had landed, the branch is what it was.
Moved ==
  /\ landed <= landed'
  /\ \A k \in DOMAIN branch' : branch'[k].sha <= landed =>
       /\ k \in DOMAIN branch
       /\ \A i \in DOMAIN branch' : i <= k => i \in DOMAIN branch /\ branch'[i] = branch[i]

LEMMA HistoryMoves ==
  ASSUME BranchFits, HistoryNext
  PROVE  BranchFits' /\ Moved
<1>1. /\ branch \in Seq(LandedCommit) /\ landed \in Nat /\ clock \in Nat
      /\ Len(branch) \in Nat /\ DOMAIN branch = 1..Len(branch)
      /\ \A i \in DOMAIN branch : branch[i] \in LandedCommit /\ branch[i].sha <= landed
  BY DEF BranchFits
<1>2. ASSUME NEW pr \in BOOLEAN, NEW undone \in Shas \cup {0}, Land(pr, undone)
      PROVE  BranchFits' /\ Moved
  <2> DEFINE new == [sha |-> landed', at |-> clock', pr |-> pr, undoes |-> undone]
             n == Len(branch)
  <2>1. landed' = landed + 1 /\ clock' = clock + 1 /\ branch' = Append(branch, new)
    BY <1>2 DEF Land
  <2>2. undone \in Nat
    BY <1>1 DEF Shas, Commits, ToSet, LandedCommit
  <2>3. new \in LandedCommit /\ new.sha = landed + 1
    BY <1>1, <2>1, <2>2 DEF LandedCommit
  <2> HIDE DEF new
  <2>4. /\ branch' \in Seq(LandedCommit) /\ DOMAIN branch' = 1..(n + 1)
        /\ \A i \in 1..n : branch'[i] = branch[i]
        /\ branch'[n + 1] = new
    BY <1>1, <2>1, <2>3
  <2>5. \A i \in DOMAIN branch' : i \in DOMAIN branch \/ i = n + 1
    BY <1>1, <2>4
  <2>6. \A i \in DOMAIN branch' : i \in DOMAIN branch => branch'[i] = branch[i]
    BY <1>1, <2>4
  <2>7. \A i \in DOMAIN branch : branch[i].sha \in Nat /\ branch[i].sha <= landed
    BY <1>1 DEF LandedCommit
  <2>8. BranchFits'
    BY <1>1, <2>1, <2>3, <2>4, <2>5, <2>6, <2>7 DEF BranchFits
  <2>9. ASSUME NEW k \in DOMAIN branch', branch'[k].sha <= landed
        PROVE  k \in DOMAIN branch
    BY <1>1, <2>3, <2>4, <2>5, <2>9
  <2>10. ASSUME NEW k \in DOMAIN branch, NEW i \in DOMAIN branch', i <= k
         PROVE  i \in DOMAIN branch /\ branch'[i] = branch[i]
    BY <1>1, <2>4, <2>10
  <2>. QED BY <1>1, <2>1, <2>8, <2>9, <2>10 DEF Moved
<1>3. ASSUME NEW n \in 0 .. Len(branch) - 1, branch' = SubSeq(branch, 1, n),
             UNCHANGED <<landed, clock>>
      PROVE  BranchFits' /\ Moved
  <2>1. /\ branch' \in Seq(LandedCommit) /\ DOMAIN branch' = 1..n
        /\ \A i \in 1..n : i \in DOMAIN branch /\ branch'[i] = branch[i]
    BY <1>1, <1>3
  <2>. QED BY <1>1, <1>3, <2>1 DEF BranchFits, Moved
<1>4. CASE Pass
  BY <1>1, <1>4 DEF Pass, BranchFits, Moved
<1>. QED BY <1>2, <1>3, <1>4 DEF HistoryNext, Rewrite

\* What was covered is covered: names that land later are new.
LEMMA CoveredStays ==
  ASSUME BranchFits, HistoryNext, UNCHANGED <<givenUp, tooOld>>,
         NEW sha \in Nat, sha <= landed, NEW shas, Covered(sha, shas)
  PROVE  Covered(sha, shas)'
<1>1. Moved
  BY HistoryMoves
<1>2. SUFFICES ASSUME NEW i \in DOMAIN branch', NEW k \in DOMAIN branch',
                      branch'[k].sha = sha, i <= k
               PROVE  branch'[i].sha \in shas \cup givenUp \cup tooOld
  BY DEF Covered
<1>3. /\ k \in DOMAIN branch /\ i \in DOMAIN branch /\ branch'[i] = branch[i]
      /\ k <= k => branch'[k] = branch[k]
  BY <1>1, <1>2 DEF Moved
<1>4. branch'[k] = branch[k]
  BY <1>3 DEF BranchFits
<1>. QED BY <1>2, <1>3, <1>4 DEF Covered

LEMMA HistoryKeeps ==
  ASSUME ShadowInv, HistoryNext, UNCHANGED shadowVars
  PROVE  ShadowInv'
<1>1. BranchFits' /\ landed <= landed' /\ landed \in Nat /\ landed' \in Nat
  BY HistoryMoves DEF Moved, ShadowInv, BranchFits
<1>2. UNCHANGED <<published, data, job, pending, givenUp, tooOld>>
  BY DEF shadowVars
<1>3. ASSUME NEW d, Sound(d)
      PROVE  /\ d \in Directory /\ d.cursor <= landed' /\ Once(d.scores) /\ Once(d.outcomes)
             /\ Covered(d.cursor, ShaSet(d.scores))'
  <2>1. d.cursor \in Nat /\ d.cursor <= landed
    BY <1>3 DEF Sound, Directory
  <2>. QED BY <1>1, <1>2, <1>3, <2>1, CoveredStays DEF Sound, ShadowInv
<1>4. Sound(published)' /\ Sound(data)'
  <2>1. published' = published /\ data' = data
    BY <1>2
  <2>2. Sound(published) /\ Sound(data)
    BY DEF ShadowInv
  <2>3. Sound(published)'
    BY <1>3, <2>1, <2>2 DEF Sound
  <2>4. Sound(data)'
    BY <1>3, <2>1, <2>2 DEF Sound
  <2>. QED BY <2>3, <2>4
<1>5. RunFits'
  <2>1. pending.after \in Nat /\ pending.after <= landed
    BY DEF ShadowInv, RunFits, Run
  <2>2. \A shas : Covered(pending.after, shas) => Covered(pending.after, shas)'
    BY <1>2, <2>1, CoveredStays DEF ShadowInv
  <2>. QED BY <1>1, <1>2, <2>1, <2>2 DEF RunFits, ShadowInv, Once, ShaSet, ToSet
<1>. QED BY <1>1, <1>4, <1>5 DEF ShadowInv

(***************************************************************************)
(* A run scores.                                                           *)
(***************************************************************************)
\* A set of places on the branch has a last one.
LEMMA LastOf ==
  ASSUME NEW n \in Nat, NEW S \in SUBSET (1..n), S # {}
  PROVE  \E i \in S : \A j \in S : j <= i
<1> DEFINE T    == {k \in Nat : n - k \in S}
           Less == OpToRel(<, Nat)
<1>1. T \subseteq Nat /\ T # {}
  <2>1. PICK i : i \in S
    OBVIOUS
  <2>2. n - i \in Nat /\ n - (n - i) = i
    BY <2>1
  <2>. QED BY <2>1, <2>2
<1>2. IsWellFoundedOn(Less, Nat)
  BY NatLessThanWellFounded
<1>3. \E m \in T : \A k \in T : ~ (<<k, m>> \in Less)
  <2> HIDE DEF T, Less
  <2>. QED BY <1>1, <1>2, WFMin
<1>4. \A k, m \in Nat : k < m => <<k, m>> \in Less
  BY DEF OpToRel
<1>5. PICK m \in T : \A k \in T : ~ (k < m)
  BY <1>1, <1>3, <1>4
<1>6. ASSUME NEW j \in S PROVE j <= n - m
  <2>1. n - j \in Nat /\ n - (n - j) = j
    OBVIOUS
  <2>2. ~ (n - j < m)
    BY <1>5, <2>1
  <2>. QED BY <1>5, <2>1, <2>2
<1>. QED BY <1>5, <1>6

LEMMA DiscoveredIs ==
  ASSUME BranchFits
  PROVE  /\ IsFiniteSet(NotScored)
         /\ Discovered # {} =>
              /\ NewestDiscovered \in Discovered /\ NewestDiscovered \in DOMAIN branch
              /\ \A i \in Candidates : i <= NewestDiscovered => i \in Discovered
<1> DEFINE n == Len(branch)
           Until(i) == {j \in Candidates : j <= i}
<1>1. n \in Nat /\ DOMAIN branch = 1..n /\ IsFiniteSet(1..n)
  BY FS_Interval DEF BranchFits
<1>2. Candidates \subseteq 1..n /\ Discovered \subseteq Candidates
  BY <1>1 DEF Candidates, Discovered
<1>3. IsFiniteSet(Discovered)
  <2>1. Discovered \in SUBSET (1..n)
    BY <1>2
  <2>. QED BY <1>1, <2>1, FS_Subset
<1>4. \A i : IsFiniteSet(Until(i))
  <2>1. \A i : Until(i) \in SUBSET (1..n)
    BY <1>2
  <2>. QED BY <1>1, <2>1, FS_Subset
<1>5. \A i, k \in 1..n : i <= k => Cardinality(Until(i)) <= Cardinality(Until(k))
  <2>1. ASSUME NEW i \in 1..n, NEW k \in 1..n, i <= k
        PROVE  Until(i) \in SUBSET Until(k)
    <3>1. \A j \in 1..n : j <= i => j <= k
      BY <1>1, <2>1
    <3>. QED BY <1>2, <3>1
  <2> HIDE DEF Until
  <2>. QED BY <1>4, <2>1, FS_Subset
<1>6. \A i : Cardinality(Until(i)) \in Nat
  BY <1>4, FS_CardinalityType
<1>7. IsFiniteSet(NotScored)
  <2> DEFINE All == {branch[i] : i \in Discovered}
             f   == [i \in Discovered |-> branch[i]]
  <2>1. f \in Surjection(Discovered, All)
    BY DEF Surjection
  <2>2. IsFiniteSet(All)
    BY <1>3, <2>1, FS_Surjection
  <2>3. NotScored \in SUBSET All
    BY DEF NotScored
  <2> HIDE DEF All
  <2>. QED BY <2>2, <2>3, FS_Subset
<1>8. ASSUME Discovered # {}
      PROVE  /\ NewestDiscovered \in Discovered /\ NewestDiscovered \in DOMAIN branch
             /\ \A i \in Candidates : i <= NewestDiscovered => i \in Discovered
  <2>1. \E i \in Discovered : \A j \in Discovered : j <= i
    BY <1>1, <1>2, <1>8, LastOf
  <2>2. NewestDiscovered \in Discovered
    BY <2>1 DEF NewestDiscovered
  <2> DEFINE k == NewestDiscovered
  <2> HIDE DEF k
  <2>3. k \in 1..n /\ Cardinality(Until(k)) <= MaxPerRun
    BY <1>2, <2>2 DEF Discovered, k
  <2>4. ASSUME NEW i \in Candidates, i <= k PROVE i \in Discovered
    <3>1. i \in 1..n
      BY <1>2
    <3>2. Cardinality(Until(i)) <= Cardinality(Until(k))
      BY <1>5, <2>3, <2>4, <3>1
    <3> DEFINE a == Cardinality(Until(i))
               b == Cardinality(Until(k))
    <3>3. a \in Nat /\ b \in Nat /\ MaxPerRun \in Nat
      BY <1>6, ShadowAssumption
    <3>4. a <= MaxPerRun
      <4> HIDE DEF a, b
      <4>. QED BY <2>3, <3>2, <3>3 DEF a, b
    <3>. QED BY <3>4 DEF Discovered
  <2>. QED BY <1>1, <2>2, <2>3, <2>4 DEF k
<1>. QED BY <1>7, <1>8

\* Once what was found is scored, given up or too old, the cursor may move to it.
LEMMA ScoreCovers ==
  ASSUME ShadowInv, Discovered # {}, NEW failed \in SUBSET NotScored, NEW shas,
         NEW old, old = ShaSet(data.scores), NEW sha, sha = branch[NewestDiscovered].sha,
         \A m \in NotScored \ failed : m.sha \in shas,
         givenUp' = givenUp \cup {m.sha : m \in failed},
         tooOld' = IF Bootstraps
                   THEN tooOld \cup {m.sha : m \in {n \in Commits : ~ Recent(n)}}
                   ELSE tooOld,
         UNCHANGED branch
  PROVE  Covered(sha, old \cup shas)'
<1> DEFINE last == NewestDiscovered
<1>1. /\ last \in Discovered /\ last \in DOMAIN branch /\ sha = branch[last].sha
      /\ \A i \in Candidates : i <= last => i \in Discovered
  BY DiscoveredIs DEF ShadowInv
<1> HIDE DEF last
<1>2. DOMAIN branch \subseteq Nat
  BY DEF ShadowInv, BranchFits
<1>3. ASSUME NEW i \in DOMAIN branch, i <= last
      PROVE  branch[i].sha \in old \cup shas \cup givenUp' \cup tooOld'
  <2>1. CASE i \in Candidates
    <3>1. branch[i] \in {branch[j] : j \in Discovered}
      BY <1>1, <1>3, <2>1
    <3>2. branch[i] \in NotScored \/ branch[i].sha \in old
      BY <3>1 DEF NotScored, ScoredBefore
    <3>. QED BY <3>2
  <2>2. CASE i \notin Candidates /\ Bootstraps
    <3>1. ~ Recent(branch[i]) /\ branch[i] \in Commits
      BY <2>2 DEF Candidates, Commits, ToSet
    <3>. QED BY <2>2, <3>1
  <2>3. CASE i \notin Candidates /\ ~ Bootstraps
    <3> DEFINE at == PositionOf(data.cursor)
    <3>1. \E j \in DOMAIN branch : branch[j].sha = data.cursor
      BY <2>3 DEF Bootstraps, IsAncestor, Shas, Commits, ToSet
    <3>2. at \in DOMAIN branch /\ branch[at].sha = data.cursor
      BY <3>1 DEF PositionOf
    <3>3. ~ i > at
      BY <2>3 DEF Candidates
    <3> HIDE DEF at
    <3>4. i <= at
      BY <1>2, <3>2, <3>3
    <3>5. Covered(data.cursor, old)
      BY DEF ShadowInv, Sound
    <3>6. branch[i].sha \in old \cup givenUp \cup tooOld
      BY <3>2, <3>4, <3>5 DEF Covered
    <3>. QED BY <3>6
  <2>. QED BY <2>1, <2>2, <2>3
<1>4. ASSUME NEW i \in DOMAIN branch, NEW k \in DOMAIN branch,
             branch[k].sha = sha, i <= k
      PROVE  branch[i].sha \in old \cup shas \cup givenUp' \cup tooOld'
  <2>1. k = last
    BY <1>1, <1>4 DEF ShadowInv, BranchFits
  <2>. QED BY <1>3, <1>4, <2>1
<1>5. ASSUME NEW i \in DOMAIN branch', NEW k \in DOMAIN branch',
             branch'[k].sha = sha, i <= k
      PROVE  branch'[i].sha \in old \cup shas \cup givenUp' \cup tooOld'
  BY <1>4, <1>5
<1>. QED BY <1>5 DEF Covered

\* What is covered stays so while the branch does and more is scored or given up.
LEMMA CoveredGrows ==
  ASSUME NEW sha, NEW shas, NEW more, Covered(sha, shas), shas \subseteq more,
         UNCHANGED branch, givenUp \subseteq givenUp', tooOld \subseteq tooOld'
  PROVE  Covered(sha, more)'
<1>1. ASSUME NEW i \in DOMAIN branch', NEW k \in DOMAIN branch', branch'[k].sha = sha, i <= k
      PROVE  branch'[i].sha \in more \cup givenUp' \cup tooOld'
  <2>1. branch[i].sha \in shas \cup givenUp \cup tooOld
    BY <1>1 DEF Covered
  <2>. QED BY <2>1
<1>. QED BY <1>1 DEF Covered

\* A directory that a step leaves alone stays sound.
LEMMA SoundStays ==
  ASSUME NEW d, Sound(d), UNCHANGED <<branch, landed>>,
         givenUp \subseteq givenUp', tooOld \subseteq tooOld'
  PROVE  /\ d \in Directory /\ d.cursor <= landed' /\ Once(d.scores) /\ Once(d.outcomes)
         /\ Covered(d.cursor, ShaSet(d.scores))'
BY CoveredGrows DEF Sound

LEMMA DirectoriesStay ==
  ASSUME ShadowInv, UNCHANGED <<branch, landed, published, data>>,
         givenUp \subseteq givenUp', tooOld \subseteq tooOld'
  PROVE  Sound(published)' /\ Sound(data)'
<1>1. Sound(published) /\ Sound(data) /\ published' = published /\ data' = data
  BY DEF ShadowInv
<1>2. Sound(published)'
  BY <1>1, SoundStays DEF Sound
<1>3. Sound(data)'
  BY <1>1, SoundStays DEF Sound
<1>. QED BY <1>2, <1>3

LEMMA ScoreKeeps ==
  ASSUME ShadowInv, Score, UNCHANGED historyVars
  PROVE  ShadowInv'
<1> DEFINE after == IF Discovered = {} THEN data.cursor ELSE branch[NewestDiscovered].sha
           old   == ShaSet(data.scores)
<1>1. PICK failed \in SUBSET NotScored :
        /\ pending' = [rows |-> SetToSeq(NotScored \ failed), before |-> data.cursor,
                       after |-> after]
        /\ givenUp' = givenUp \cup {m.sha : m \in failed}
        /\ job' = IF SetToSeq(NotScored \ failed) = <<>> THEN "stating" ELSE "appending"
  BY DEF Score
<1>2. /\ tooOld' = IF Bootstraps
                   THEN tooOld \cup {m.sha : m \in {n \in Commits : ~ Recent(n)}} ELSE tooOld
      /\ UNCHANGED <<published, data>> /\ UNCHANGED <<branch, landed, clock>>
  BY DEF Score, historyVars
<1> DEFINE kept == NotScored \ failed
           rows == SetToSeq(kept)
<1>3. /\ \A m \in NotScored : m \in LandedCommit /\ m.sha \notin old /\ m \in Commits
      /\ IsFiniteSet(kept)
  <2>1. Discovered \subseteq DOMAIN branch
    BY DEF Discovered, Candidates
  <2>2. \A i \in DOMAIN branch : branch[i] \in LandedCommit
    BY DEF ShadowInv, BranchFits
  <2>3. IsFiniteSet(kept)
    <3>1. kept \in SUBSET NotScored
      OBVIOUS
    <3>. QED BY <3>1, DiscoveredIs, FS_Subset DEF ShadowInv
  <2>. QED BY <2>1, <2>2, <2>3 DEF NotScored, ScoredBefore, Commits, ToSet
<1> HIDE DEF kept
<1>4. /\ rows \in Seq(kept)
      /\ \A x \in kept : \E k \in DOMAIN rows : rows[k] = x
      /\ \A k, l \in DOMAIN rows : rows[k] = rows[l] => k = l
  BY <1>3, SetToSeqIs
<1> HIDE DEF rows
<1>5. kept \subseteq NotScored /\ \A k \in DOMAIN rows : rows[k] \in kept
  BY <1>4 DEF kept
<1>6. ShaSet(rows) = {m.sha : m \in kept}
  BY <1>4, <1>5, ShaSetIs
<1>7. Once(rows)
  <2>1. \A m, n \in Commits : m.sha = n.sha => m = n
    BY DEF ShadowInv, BranchFits, Commits, ToSet
  <2>. QED BY <1>3, <1>4, <1>5, <2>1 DEF Once
<1>8. rows \in Seq(LandedCommit) /\ ShaSet(rows) \cap old = {}
  <2>1. kept \subseteq LandedCommit
    BY <1>3, <1>5
  <2>2. rows \in Seq(LandedCommit)
    BY <1>4, <2>1
  <2>. QED BY <1>3, <1>5, <1>6, <2>2
<1>9. after \in Nat /\ after <= landed /\ data.cursor \in Nat
  <2>1. data.cursor \in Nat /\ data.cursor <= landed
    BY DEF ShadowInv, Sound, Directory
  <2>2. Discovered # {} => NewestDiscovered \in DOMAIN branch
    BY DiscoveredIs DEF ShadowInv
  <2>3. \A i \in DOMAIN branch : branch[i].sha \in Nat /\ branch[i].sha <= landed
    <3>1. \A i \in DOMAIN branch : branch[i] \in LandedCommit
      BY DEF ShadowInv, BranchFits
    <3>. QED BY <3>1 DEF ShadowInv, BranchFits, LandedCommit
  <2>. QED BY <2>1, <2>2, <2>3
<1>10. givenUp \subseteq givenUp' /\ tooOld \subseteq tooOld'
  BY <1>1, <1>2
<1> HIDE DEF after
<1>11. ASSUME NEW o, o = old, NEW a, a = after, NEW s, s = ShaSet(rows)
       PROVE  Covered(a, o \cup s)'
  <2>1. CASE Discovered = {}
    <3>1. Covered(a, o)
      BY <1>11, <2>1 DEF after, ShadowInv, Sound
    <3>. QED BY <1>2, <1>10, <3>1, CoveredGrows
  <2>2. CASE Discovered # {}
    <3>1. a = branch[NewestDiscovered].sha
      BY <1>11, <2>2 DEF after
    <3>2. \A m \in NotScored \ failed : m.sha \in s
      BY <1>6, <1>11 DEF kept
    <3>. QED BY <1>1, <1>2, <1>11, <2>2, <3>1, <3>2, ScoreCovers
  <2>. QED BY <2>1, <2>2
<1>12. /\ pending'.rows = rows /\ pending'.before = data.cursor /\ pending'.after = after
       /\ data' = data /\ landed' = landed
       /\ job' = IF rows = <<>> THEN "stating" ELSE "appending"
  BY <1>1, <1>2 DEF rows, kept
<1>13. pending' \in Run
  <2>1. pending' = [rows |-> rows, before |-> data.cursor, after |-> after]
    BY <1>1 DEF rows, kept
  <2>. QED BY <1>8, <1>9, <2>1 DEF Run
<1>14. Covered(pending.after, ShaSet(data.scores) \cup ShaSet(pending.rows))'
  BY <1>11, <1>12
<1>15. rows = <<>> => ShaSet(rows) = {}
  BY ShaSetIs
<1>16. rows = <<>> => Covered(pending.after, ShaSet(data.scores))'
  <2>1. SUFFICES ASSUME rows = <<>> PROVE Covered(pending.after, ShaSet(data.scores))'
    OBVIOUS
  <2>2. old \cup ShaSet(rows) = old
    BY <1>15, <2>1
  <2>. QED BY <1>11, <1>12, <2>2
<1>17. RunFits'
  BY <1>7, <1>8, <1>9, <1>12, <1>13, <1>14, <1>16 DEF RunFits, Places
<1>18. BranchFits'
  BY <1>2 DEF ShadowInv, BranchFits
<1>. QED BY <1>2, <1>10, <1>17, <1>18, DirectoriesStay DEF ShadowInv

(***************************************************************************)
(* The other steps of a job.                                               *)
(***************************************************************************)
\* A directory with nothing in it, and one that another took over.
LEMMA EmptyIsSound ==
  ASSUME BranchFits
  PROVE  /\ EmptyData \in Directory /\ EmptyData.cursor <= landed
         /\ Once(EmptyData.scores) /\ Once(EmptyData.outcomes)
         /\ EmptyData.cursor = 0 /\ \A i \in DOMAIN branch : branch[i].sha # 0
<1>1. \A i \in DOMAIN branch : branch[i] \in LandedCommit
  BY DEF BranchFits
<1>. QED BY <1>1 DEF BranchFits, EmptyData, Directory, Once, LandedCommit

\* A step that appends nothing and leaves the cursor is of no concern.
LEMMA QuietStep ==
  ASSUME ShadowInv, UNCHANGED <<branch, landed, clock, published, data, givenUp, tooOld>>,
         job' \in Places \ {"appending"}, pending' \in Run, pending'.after <= landed,
         job' = "stating" =>
           pending' = [rows |-> <<>>, before |-> data.cursor, after |-> data.cursor]
  PROVE  ShadowInv'
<1>1. BranchFits'
  BY DEF ShadowInv, BranchFits
<1>2. Sound(published)' /\ Sound(data)'
  BY DirectoriesStay DEF ShadowInv
<1>3. job' = "stating" => Covered(pending.after, ShaSet(data.scores))'
  BY <1>2 DEF Sound
<1>4. RunFits'
  BY <1>3 DEF RunFits, Places
<1>. QED BY <1>1, <1>2, <1>4 DEF ShadowInv

LEMMA NoRowsIsRun == NoRows \in Run /\ NoRows.after = 0
BY DEF NoRows, Run

LEMMA PrepareKeeps ==
  ASSUME ShadowInv, Prepare, UNCHANGED historyVars
  PROVE  ShadowInv'
<1>1. /\ UNCHANGED <<branch, landed, clock, published, givenUp, tooOld, pending>>
      /\ data' \in {published, EmptyData} /\ job' = "scoring"
  BY DEF Prepare, historyVars
<1>2. BranchFits'
  BY <1>1 DEF ShadowInv, BranchFits
<1>3. Sound(published)'
  BY <1>1, SoundStays DEF ShadowInv, Sound
<1>4. Sound(data)'
  <2>1. CASE data' = published
    BY <1>1, <1>3, <2>1 DEF Sound
  <2>2. CASE data' = EmptyData
    <3>1. /\ EmptyData \in Directory /\ EmptyData.cursor <= landed
          /\ Once(EmptyData.scores) /\ Once(EmptyData.outcomes)
          /\ EmptyData.cursor = 0 /\ \A i \in DOMAIN branch : branch[i].sha # 0
      BY EmptyIsSound DEF ShadowInv
    <3>2. Covered(EmptyData.cursor, ShaSet(EmptyData.scores))'
      BY <1>1, <3>1 DEF Covered
    <3>. QED BY <1>1, <2>2, <3>1, <3>2 DEF Sound
  <2>. QED BY <1>1, <2>1, <2>2
<1>5. RunFits'
  BY <1>1 DEF ShadowInv, RunFits, Places
<1>. QED BY <1>2, <1>3, <1>4, <1>5 DEF ShadowInv

LEMMA AppendKeeps ==
  ASSUME ShadowInv, AppendRows, UNCHANGED historyVars
  PROVE  ShadowInv'
<1>1. /\ job = "appending" /\ job' = "stating"
      /\ UNCHANGED <<branch, landed, clock, published, givenUp, tooOld>>
  BY DEF AppendRows, historyVars
<1>2. /\ pending \in Run /\ pending.after <= landed /\ pending.before = data.cursor
      /\ Once(pending.rows) /\ ShaSet(pending.rows) \cap ShaSet(data.scores) = {}
      /\ Covered(pending.after, ShaSet(data.scores) \cup ShaSet(pending.rows))
  BY <1>1 DEF ShadowInv, RunFits
<1>3. data \in Directory /\ Sound(data) /\ data.cursor <= landed
  BY DEF ShadowInv, Sound
<1>4. BranchFits' /\ Sound(published)'
  BY <1>1, SoundStays DEF ShadowInv, BranchFits, Sound
<1>5. CASE data' = [data EXCEPT !.scores = @ \o pending.rows] /\ UNCHANGED pending
  <2> DEFINE all == data.scores \o pending.rows
  <2>1. data.scores \in Seq(LandedCommit) /\ pending.rows \in Seq(LandedCommit)
    BY <1>2, <1>3 DEF Directory, Run
  <2>2. \A i \in DOMAIN data.scores, j \in DOMAIN pending.rows :
          data.scores[i].sha # pending.rows[j].sha
    BY <1>2, ShaSetIs
  <2>3. /\ all \in Seq(LandedCommit) /\ Once(all)
        /\ ShaSet(all) = ShaSet(data.scores) \cup ShaSet(pending.rows)
    BY <1>2, <1>3, <2>1, <2>2, AppendedOnce DEF Sound
  <2>4. data' = [data EXCEPT !.scores = all]
    BY <1>5
  <2> HIDE DEF all
  <2>5. /\ data' \in Directory /\ data'.cursor = data.cursor /\ data'.scores = all
        /\ data'.outcomes = data.outcomes
    BY <1>3, <2>3, <2>4 DEF Directory
  <2>6. ASSUME NEW a, NEW s, NEW b, Covered(a, s), s \subseteq b PROVE Covered(a, b)'
    BY <1>1, <2>6, CoveredGrows
  <2>7. Sound(data)'
    <3>1. Covered(data.cursor, ShaSet(data.scores))
      BY <1>3 DEF Sound
    <3>2. Covered(data.cursor, ShaSet(data.scores))'
      BY <2>3, <2>5, <2>6, <3>1
    <3>. QED BY <1>1, <1>3, <2>3, <2>5, <3>2 DEF Sound
  <2>8. Covered(pending.after, ShaSet(data.scores))'
    BY <1>2, <1>5, <2>3, <2>5, <2>6
  <2>9. RunFits'
    BY <1>1, <1>2, <1>5, <2>5, <2>8 DEF RunFits, Places
  <2>. QED BY <1>4, <2>7, <2>9 DEF ShadowInv
<1>6. CASE pending' = [pending EXCEPT !.after = pending.before] /\ UNCHANGED data
  <2>1. pending' \in Run /\ pending'.after = data.cursor /\ pending'.before = data.cursor
    BY <1>2, <1>6 DEF Run
  <2>2. Sound(data)'
    BY <1>1, <1>3, <1>6, SoundStays DEF Sound
  <2>3. Covered(pending.after, ShaSet(data.scores))'
    BY <1>6, <2>1, <2>2 DEF Sound
  <2>4. RunFits'
    BY <1>1, <1>3, <1>6, <2>1, <2>3 DEF RunFits, Places
  <2>. QED BY <1>4, <2>2, <2>4 DEF ShadowInv
<1>. QED BY <1>5, <1>6 DEF AppendRows

LEMMA WriteStateKeeps ==
  ASSUME ShadowInv, WriteState, UNCHANGED historyVars
  PROVE  ShadowInv'
<1>1. /\ job = "stating" /\ job' = "labelling" /\ pending' = NoRows
      /\ UNCHANGED <<branch, landed, clock, published, givenUp, tooOld>>
      /\ data' = data \/ data' = [data EXCEPT !.cursor = pending.after]
  BY DEF WriteState, historyVars
<1>2. /\ pending \in Run /\ pending.after <= landed /\ Covered(pending.after, ShaSet(data.scores))
  BY <1>1 DEF ShadowInv, RunFits
<1>3. data \in Directory /\ Sound(data) /\ landed \in Nat
  BY DEF ShadowInv, Sound, BranchFits
<1>4. BranchFits' /\ Sound(published)'
  BY <1>1, SoundStays DEF ShadowInv, BranchFits, Sound
<1>5. Sound(data)'
  <2>1. CASE data' = data
    BY <1>1, <1>3, <2>1, SoundStays DEF Sound
  <2>2. CASE data' = [data EXCEPT !.cursor = pending.after]
    <3>1. /\ data' \in Directory /\ data'.cursor = pending.after /\ data'.scores = data.scores
          /\ data'.outcomes = data.outcomes
      BY <1>2, <1>3, <2>2 DEF Directory, Run
    <3>2. Covered(data.cursor, ShaSet(data.scores))'
      <4>1. ASSUME NEW a, NEW s, Covered(a, s) PROVE Covered(a, s)'
        BY <1>1, <4>1, CoveredGrows
      <4>. QED BY <1>2, <3>1, <4>1
    <3>. QED BY <1>1, <1>2, <1>3, <3>1, <3>2 DEF Sound
  <2>. QED BY <1>1, <2>1, <2>2
<1>6. RunFits'
  BY <1>1, <1>3, NoRowsIsRun DEF RunFits, Places
<1>. QED BY <1>4, <1>5, <1>6 DEF ShadowInv

LEMMA BackfillKeeps ==
  ASSUME ShadowInv, Backfill, UNCHANGED historyVars
  PROVE  ShadowInv'
<1> DEFINE of(m) == [sha |-> m.sha, at |-> clock, label |-> LabelAt(m, HorizonDays, clock)]
<1>1. PICK failed \in SUBSET Unlabelled :
        data' = [data EXCEPT !.outcomes =
          data.outcomes \o [k \in DOMAIN SetToSeq(Unlabelled \ failed) |->
            of(data.scores[SetToSeq(Unlabelled \ failed)[k]])]]
  BY DEF Backfill
<1>2. /\ job = "labelling" /\ job' = "pushing"
      /\ UNCHANGED <<branch, landed, clock, published, pending, givenUp, tooOld>>
  BY DEF Backfill, historyVars
<1>3. /\ data \in Directory /\ Sound(data) /\ clock \in Nat
      /\ data.scores \in Seq(LandedCommit) /\ data.outcomes \in Seq(Outcome)
  BY DEF ShadowInv, Sound, BranchFits, Directory
<1> DEFINE kept == Unlabelled \ failed
           labelled == SetToSeq(kept)
           rows == [k \in DOMAIN labelled |-> of(data.scores[labelled[k]])]
<1>4. /\ IsFiniteSet(kept)
      /\ \A i \in kept : /\ i \in DOMAIN data.scores /\ data.scores[i] \in LandedCommit
                         /\ data.scores[i].sha \notin ShaSet(data.outcomes)
  <2>1. IsFiniteSet(DOMAIN data.scores)
    <3>1. Len(data.scores) \in Nat /\ DOMAIN data.scores = 1..Len(data.scores)
      BY <1>3
    <3>. QED BY <3>1, FS_Interval
  <2>2. kept \in SUBSET (DOMAIN data.scores)
    BY DEF Unlabelled
  <2>. QED BY <1>3, <2>1, <2>2, FS_Subset DEF Unlabelled
<1> HIDE DEF kept
<1>5. /\ labelled \in Seq(kept)
      /\ \A k, l \in DOMAIN labelled : labelled[k] = labelled[l] => k = l
  BY <1>4, SetToSeqIs
<1> HIDE DEF labelled
<1>6. \A k \in DOMAIN labelled : labelled[k] \in kept
  BY <1>5
<1>7. \A m \in LandedCommit : of(m) \in Outcome /\ of(m).sha = m.sha
  BY <1>3 DEF Outcome, LandedCommit, LabelAt
<1> HIDE DEF of
<1>8. /\ rows \in Seq(Outcome) /\ DOMAIN rows = DOMAIN labelled
      /\ \A k \in DOMAIN rows : rows[k].sha = data.scores[labelled[k]].sha
  <2>1. DOMAIN labelled = 1..Len(labelled) /\ Len(labelled) \in Nat
    BY <1>5
  <2>2. \A k \in DOMAIN labelled : of(data.scores[labelled[k]]) \in Outcome
    BY <1>4, <1>6, <1>7
  <2>. QED BY <1>4, <1>6, <1>7, <2>1, <2>2
<1> HIDE DEF rows
<1>9. Once(rows)
  <2>1. SUFFICES ASSUME NEW k \in DOMAIN rows, NEW l \in DOMAIN rows, rows[k].sha = rows[l].sha
                 PROVE  k = l
    BY DEF Once
  <2>2. labelled[k] \in DOMAIN data.scores /\ labelled[l] \in DOMAIN data.scores
    BY <1>4, <1>6, <1>8
  <2>3. data.scores[labelled[k]].sha = data.scores[labelled[l]].sha
    BY <1>8, <2>1
  <2>4. labelled[k] = labelled[l]
    BY <1>3, <2>2, <2>3 DEF Sound, Once
  <2>. QED BY <1>5, <1>8, <2>4
<1>10. \A i \in DOMAIN data.outcomes, j \in DOMAIN rows : data.outcomes[i].sha # rows[j].sha
  BY <1>4, <1>6, <1>8, ShaSetIs
<1> DEFINE all == data.outcomes \o rows
<1>11. all \in Seq(Outcome) /\ Once(all)
  BY <1>3, <1>8, <1>9, <1>10, AppendedOnce DEF Sound
<1>12. data' = [data EXCEPT !.outcomes = all]
  BY <1>1 DEF rows, labelled, kept
<1> HIDE DEF all
<1>13. /\ data' \in Directory /\ data'.cursor = data.cursor /\ data'.scores = data.scores
       /\ data'.outcomes = all
  BY <1>3, <1>11, <1>12 DEF Directory
<1>14. Sound(data)'
  <2>1. ASSUME NEW a, NEW s, Covered(a, s) PROVE Covered(a, s)'
    BY <1>2, <2>1, CoveredGrows
  <2>2. Covered(data.cursor, ShaSet(data.scores))'
    BY <1>3, <1>13, <2>1 DEF Sound
  <2>. QED BY <1>2, <1>3, <1>11, <1>13, <2>2 DEF Sound
<1>15. BranchFits' /\ Sound(published)'
  BY <1>2, SoundStays DEF ShadowInv, BranchFits, Sound
<1>16. RunFits'
  BY <1>2 DEF ShadowInv, RunFits, Places
<1>. QED BY <1>14, <1>15, <1>16 DEF ShadowInv

LEMMA PushKeeps ==
  ASSUME ShadowInv, Push, UNCHANGED historyVars
  PROVE  ShadowInv'
<1>1. /\ job' = "idle" /\ published' \in {published, data}
      /\ UNCHANGED <<branch, landed, clock, data, pending, givenUp, tooOld>>
  BY DEF Push, historyVars
<1>2. Sound(data)'
  BY <1>1, SoundStays DEF ShadowInv, Sound
<1>3. Sound(published)'
  <2>1. CASE published' = published
    BY <1>1, <2>1, SoundStays DEF ShadowInv, Sound
  <2>2. CASE published' = data
    BY <1>1, <1>2, <2>2 DEF Sound
  <2>. QED BY <1>1, <2>1, <2>2
<1>4. BranchFits' /\ RunFits'
  BY <1>1 DEF ShadowInv, BranchFits, RunFits, Places
<1>. QED BY <1>2, <1>3, <1>4 DEF ShadowInv

LEMMA ShadowKeeps ==
  ASSUME ShadowInv, ShadowNext, UNCHANGED historyVars
  PROVE  ShadowInv'
<1>1. landed \in Nat /\ data.cursor \in Nat /\ data.cursor <= landed
      /\ pending \in Run /\ pending.after <= landed
  BY DEF ShadowInv, BranchFits, Sound, Directory, RunFits
<1>2. CASE ScoreFails
  <2>1. /\ pending' = [rows |-> <<>>, before |-> data.cursor, after |-> data.cursor]
        /\ job' = "stating" /\ UNCHANGED <<published, data, givenUp, tooOld, branch, landed, clock>>
    BY <1>2 DEF ScoreFails, historyVars
  <2>2. pending' \in Run /\ pending'.after <= landed
    BY <1>1, <2>1 DEF Run
  <2>. QED BY <2>1, <2>2, QuietStep DEF Places
<1>3. CASE SkipBackfill
  BY <1>1, <1>3, QuietStep DEF SkipBackfill, Places, historyVars
<1>4. CASE StepKilled
  BY <1>1, <1>4, QuietStep, NoRowsIsRun DEF StepKilled, Places, historyVars
<1>5. CASE JobKilled
  BY <1>1, <1>5, QuietStep, NoRowsIsRun DEF JobKilled, Places, historyVars
<1>. QED BY <1>2, <1>3, <1>4, <1>5, PrepareKeeps, ScoreKeeps, AppendKeeps, WriteStateKeeps,
            BackfillKeeps, PushKeeps DEF ShadowNext, JobStep

(***************************************************************************)
(* The theorems.                                                           *)
(***************************************************************************)
LEMMA ShadowInvInit == Init => ShadowInv
BY DEF Init, HistoryInit, ShadowInit, ShadowInv, BranchFits, Sound, RunFits, Directory, Run,
       EmptyData, NoRows, Once, Covered, Places

LEMMA ShadowInvNext == ShadowInv /\ [Next]_vars => ShadowInv'
<1> SUFFICES ASSUME ShadowInv, [Next]_vars PROVE ShadowInv'
  OBVIOUS
<1>1. CASE HistoryNext /\ UNCHANGED shadowVars
  BY <1>1, HistoryKeeps
<1>2. CASE UNCHANGED <<historyVars, shadowVars>>
  <2>1. UNCHANGED <<branch, landed, clock, published, data, job, pending, givenUp, tooOld>>
    BY <1>2 DEF historyVars, shadowVars
  <2>2. BranchFits' /\ Sound(published)' /\ Sound(data)'
    BY <2>1, DirectoriesStay DEF ShadowInv, BranchFits
  <2>3. ASSUME NEW a, NEW s, Covered(a, s) PROVE Covered(a, s)'
    BY <2>1, <2>3, CoveredGrows
  <2>4. RunFits'
    BY <2>1, <2>3 DEF ShadowInv, RunFits
  <2>. QED BY <2>2, <2>4 DEF ShadowInv
<1>3. CASE ShadowNext /\ UNCHANGED historyVars
  BY <1>3, ShadowKeeps
<1>. QED BY <1>1, <1>2, <1>3 DEF Next, vars, historyVars, shadowVars

\* In every state the data directory and the data branch are sound: rows once, and
\* no commit behind a cursor that is not accounted for (runShadowScore,
\* runShadowBackfill and the workflow around them).
THEOREM ShadowInvariant == Spec => []ShadowInv
<1>1. Init => ShadowInv
  BY ShadowInvInit
<1>2. ShadowInv /\ [Next]_vars => ShadowInv'
  BY ShadowInvNext
<1>. QED BY <1>1, <1>2, PTL DEF Spec

\* No commit is scored or labelled twice in what is kept or published, however
\* often a run is killed between its rows and its cursor (score.ts: existingMergeShas,
\* backfill.ts: existingOutcomes).
THEOREM ScoredAtMostOnce == Spec => []ScoredOnce
<1>1. ShadowInv => ScoredOnce
  BY DEF ShadowInv, Sound, ScoredOnce
<1>. QED BY <1>1, ShadowInvariant, PTL

\* A cursor passes no commit that is not scored, given up, or older than the window
\* of a run without a cursor, whatever fails and however the branch is rewritten
\* (discoverMerges, and the cursor that an append that failed puts back).
THEOREM NothingIsPassedOver == Spec => []NothingPassedOver
<1>1. ShadowInv => NothingPassedOver
  <2> SUFFICES ASSUME ShadowInv, NEW d \in {published, data}, IsAncestor(d.cursor),
                      NEW i \in 1 .. PositionOf(d.cursor)
               PROVE  branch[i].sha \in ShaSet(d.scores) \cup givenUp \cup tooOld
    BY DEF NothingPassedOver
  <2> DEFINE at == PositionOf(d.cursor)
  <2>1. \E j \in DOMAIN branch : branch[j].sha = d.cursor
    BY DEF IsAncestor, Shas, Commits, ToSet
  <2>2. at \in DOMAIN branch /\ branch[at].sha = d.cursor
    BY <2>1 DEF PositionOf
  <2> HIDE DEF at
  <2>3. DOMAIN branch = 1..Len(branch) /\ Len(branch) \in Nat
    BY DEF ShadowInv, BranchFits
  <2>4. i \in 1..at
    BY DEF at
  <2>5. i \in DOMAIN branch /\ i <= at
    BY <2>2, <2>3, <2>4
  <2>6. Covered(d.cursor, ShaSet(d.scores))
    BY DEF ShadowInv, Sound
  <2>. QED BY <2>2, <2>5, <2>6 DEF Covered
<1>. QED BY <1>1, ShadowInvariant, PTL

(***************************************************************************)
(* The scanner: what its two files say of the branch, when one process     *)
(* scans with the state directory, as of now, with one lookback.  The      *)
(* configuration that is compared says nothing of the lookback.            *)
(***************************************************************************)
ScansAlike ==
  /\ \A s, t \in Scanners : s = t
  /\ \E l \in Nat : Lookbacks = {l}
  /\ AsOfs = {0}

Lookback == CHOOSE l \in Nat : Lookbacks = {l}

TimesGrow ==
  \A i, j \in DOMAIN branch :
    branch[i].at <= clock /\ (i <= j => branch[i].at <= branch[j].at)

\* Up to here, what a window may still show has a row, or was missed.
Covers(k, rows) ==
  \A i \in 1..k :
    branch[i].pr /\ branch[i].at >= clock - Lookback /\ k - i < MaxPrs /\ branch[i].sha \notin missed =>
      \E row \in rows : row.sha = branch[i].sha

\* A label that will be kept: no commit after here can change it.
Right(row, m, k) ==
  \A h \in Horizons : row.labels[h] # "missing_horizon" =>
    /\ Matured(m, h, clock) /\ row.labels[h] = LabelAt(m, h, clock)
    /\ \A j \in DOMAIN branch : j > k => branch[j].at > m.at + h

Belongs(row, config, k) ==
  row.config = config
    /\ \E i \in 1..k : branch[i].sha = row.sha /\ branch[i].pr /\ Right(row, branch[i], k)

Answers(k, config, rows) ==
  Covers(k, rows) /\ \A row \in rows : row.sha \notin missed => Belongs(row, config, k)

\* Rows speak for the branch as long as their cursor is on it.
Speaks(d) ==
  /\ d.config \in Configs /\ d.cursor \in Nat /\ d.cursor <= landed /\ d.rows \subseteq Row
  /\ d.cursor = 0 => d.rows = {}
  /\ \A k \in DOMAIN branch : branch[k].sha = d.cursor => Answers(k, d.config, d.rows)

\* As long as the older of two cursors is on the branch, the newer one is not before it.
Behind(older, newer) ==
  \A k \in DOMAIN branch : branch[k].sha = older =>
    newer # 0 /\ \A l \in DOMAIN branch : branch[l].sha = newer => k <= l

FilesFit ==
  /\ rowsFile # Nothing => Speaks(rowsFile)
  /\ headerFile # Nothing =>
       /\ rowsFile # Nothing /\ headerFile.cursor \in Nat /\ headerFile.cursor <= landed
       /\ Behind(headerFile.cursor, rowsFile.cursor)

ScanFits(s) ==
  /\ scan[s].at \in {"idle", "emitting", "saving", "rows_saved"}
  /\ scan[s].at = "idle" => scan[s] = Idle
  /\ scan[s].at # "idle" =>
       /\ Speaks(scan[s])
       /\ headerFile # Nothing => Behind(headerFile.cursor, scan[s].cursor)
  /\ scan[s].at = "rows_saved" =>
       /\ rowsFile # Nothing
       /\ rowsFile.config = scan[s].config /\ rowsFile.cursor = scan[s].cursor

ReportInv ==
  /\ BranchFits /\ TimesGrow /\ misled \in BOOLEAN
  /\ DOMAIN scan = Scanners
  /\ ~ misled => FilesFit /\ \A s \in Scanners : ScanFits(s)

(***************************************************************************)
(* The branch moves under the scanner.                                     *)
(***************************************************************************)
LEMMA BranchIs ==
  ASSUME BranchFits
  PROVE  /\ landed \in Nat /\ clock \in Nat /\ Len(branch) \in Nat
         /\ DOMAIN branch = 1..Len(branch)
         /\ \A i \in DOMAIN branch :
              /\ branch[i] \in LandedCommit /\ branch[i].at \in Nat /\ branch[i].sha \in Nat \ {0}
              /\ branch[i].pr \in BOOLEAN /\ branch[i].sha <= landed
<1>1. /\ branch \in Seq(LandedCommit) /\ landed \in Nat /\ clock \in Nat
      /\ Len(branch) \in Nat /\ DOMAIN branch = 1..Len(branch)
      /\ \A i \in DOMAIN branch : branch[i] \in LandedCommit /\ branch[i].sha <= landed
  BY DEF BranchFits
<1>2. \A m \in LandedCommit : m.at \in Nat /\ m.sha \in Nat \ {0} /\ m.pr \in BOOLEAN
  BY DEF LandedCommit
<1>. QED BY <1>1, <1>2

LEMMA TimesMove ==
  ASSUME BranchFits, TimesGrow, HistoryNext
  PROVE  /\ TimesGrow' /\ clock <= clock'
         /\ \A j \in DOMAIN branch' : branch'[j].sha <= landed \/ branch'[j].at > clock
<1>1. /\ branch \in Seq(LandedCommit) /\ landed \in Nat /\ clock \in Nat
      /\ Len(branch) \in Nat /\ DOMAIN branch = 1..Len(branch)
      /\ \A i \in DOMAIN branch : branch[i].at \in Nat /\ branch[i].sha <= landed
  BY BranchIs DEF BranchFits
<1>2. ASSUME NEW pr \in BOOLEAN, NEW undone \in Shas \cup {0}, Land(pr, undone)
      PROVE  TimesGrow' /\ clock <= clock'
             /\ \A j \in DOMAIN branch' : branch'[j].sha <= landed \/ branch'[j].at > clock
  <2> DEFINE new == [sha |-> landed', at |-> clock', pr |-> pr, undoes |-> undone]
             n == Len(branch)
  <2>1. clock' = clock + 1 /\ branch' = Append(branch, new) /\ new.at = clock + 1
    BY <1>2 DEF Land
  <2> HIDE DEF new
  <2>2. /\ DOMAIN branch' = 1..(n + 1) /\ branch'[n + 1] = new
        /\ \A i \in 1..n : branch'[i] = branch[i]
    BY <1>1, <2>1
  <2>3. \A i \in DOMAIN branch' : \/ i \in DOMAIN branch /\ branch'[i] = branch[i]
                                  \/ i = n + 1 /\ branch'[i].at = clock + 1
    BY <1>1, <2>1, <2>2
  <2>4. ASSUME NEW i \in DOMAIN branch', NEW j \in DOMAIN branch'
        PROVE  branch'[i].at <= clock' /\ (i <= j => branch'[i].at <= branch'[j].at)
    BY <1>1, <2>1, <2>3 DEF TimesGrow
  <2>. QED BY <1>1, <2>1, <2>3, <2>4 DEF TimesGrow
<1>3. CASE Rewrite
  <2>1. PICK n \in 0 .. Len(branch) - 1 : branch' = SubSeq(branch, 1, n)
    BY <1>3 DEF Rewrite
  <2>2. DOMAIN branch' = 1..n /\ \A i \in 1..n : i \in DOMAIN branch /\ branch'[i] = branch[i]
    BY <1>1, <2>1
  <2>3. clock' = clock
    BY <1>3 DEF Rewrite
  <2>4. TimesGrow'
    BY <2>2, <2>3 DEF TimesGrow
  <2>. QED BY <1>1, <2>2, <2>3, <2>4
<1>4. CASE Pass
  <2>1. clock' = clock + 1 /\ branch' = branch
    BY <1>4 DEF Pass
  <2>2. \A i \in DOMAIN branch : branch[i].at <= clock /\ branch[i].at <= clock + 1
    BY <1>1 DEF TimesGrow
  <2>3. TimesGrow'
    BY <2>1, <2>2 DEF TimesGrow
  <2>. QED BY <1>1, <2>1, <2>3
<1>. QED BY <1>2, <1>3, <1>4 DEF HistoryNext

\* A label that matured stays what it is while nothing before it is taken away.
LEMMA LabelStays ==
  ASSUME BranchFits, TimesGrow, HistoryNext, NEW k \in DOMAIN branch', branch'[k].sha <= landed,
         NEW m \in LandedCommit, NEW h \in Nat, Matured(m, h, clock),
         \A j \in DOMAIN branch : j > k => branch[j].at > m.at + h
  PROVE  /\ Matured(m, h, clock') /\ LabelAt(m, h, clock)' = LabelAt(m, h, clock)
         /\ \A j \in DOMAIN branch' : j > k => branch'[j].at > m.at + h
<1>1. /\ BranchFits' /\ Moved /\ clock <= clock'
      /\ \A j \in DOMAIN branch' : branch'[j].sha <= landed \/ branch'[j].at > clock
  BY HistoryMoves, TimesMove
<1>2. /\ clock \in Nat /\ clock' \in Nat /\ m.at + h \in Nat /\ m.at + h <= clock
      /\ k \in DOMAIN branch
      /\ DOMAIN branch = 1..Len(branch) /\ DOMAIN branch' = 1..Len(branch')
      /\ Len(branch) \in Nat /\ Len(branch') \in Nat
      /\ \A j \in DOMAIN branch : branch[j].at \in Nat
      /\ \A j \in DOMAIN branch' : branch'[j].at \in Nat
  <2>1. m.at \in Nat
    BY DEF LandedCommit
  <2>2. /\ clock' \in Nat /\ DOMAIN branch' = 1..Len(branch') /\ Len(branch') \in Nat
        /\ \A j \in DOMAIN branch' : branch'[j] \in LandedCommit
    BY <1>1 DEF BranchFits
  <2>3. k \in DOMAIN branch
    BY <1>1 DEF Moved
  <2>4. \A j \in DOMAIN branch' : branch'[j].at \in Nat
    BY <2>2 DEF LandedCommit
  <2>. QED BY <2>1, <2>2, <2>3, <2>4, BranchIs DEF Matured
<1>3. \A j \in DOMAIN branch' : branch'[j].at <= m.at + h => j \in DOMAIN branch /\ branch'[j] = branch[j]
  <2> SUFFICES ASSUME NEW j \in DOMAIN branch', branch'[j].at <= m.at + h
               PROVE  j \in DOMAIN branch /\ branch'[j] = branch[j]
    OBVIOUS
  <2>1. branch'[j].sha <= landed
    BY <1>1, <1>2
  <2>. QED BY <1>1, <1>2, <2>1 DEF Moved
<1>4. \A j \in DOMAIN branch : branch[j].at <= m.at + h => j \in DOMAIN branch' /\ branch'[j] = branch[j]
  <2> SUFFICES ASSUME NEW j \in DOMAIN branch, branch[j].at <= m.at + h
               PROVE  j \in DOMAIN branch' /\ branch'[j] = branch[j]
    OBVIOUS
  <2>1. j <= k
    BY <1>2
  <2>2. j \in DOMAIN branch'
    BY <1>2, <2>1
  <2>. QED BY <1>1, <2>1, <2>2 DEF Moved
<1>5. (\E n \in Commits : n.undoes = m.sha /\ n.at <= m.at + h)
        <=> \E j \in DOMAIN branch : branch[j].undoes = m.sha /\ branch[j].at <= m.at + h
  BY DEF Commits, ToSet
<1>6. (\E n \in Commits' : n.undoes = m.sha /\ n.at <= m.at + h)
        <=> \E j \in DOMAIN branch' : branch'[j].undoes = m.sha /\ branch'[j].at <= m.at + h
  BY DEF Commits, ToSet
<1>7. Matured(m, h, clock')
  BY <1>1, <1>2 DEF Matured
<1>8. LabelAt(m, h, clock)' = LabelAt(m, h, clock)
  BY <1>3, <1>4, <1>5, <1>6, <1>7 DEF LabelAt
<1>9. ASSUME NEW j \in DOMAIN branch', j > k PROVE branch'[j].at > m.at + h
  <2>1. CASE branch'[j].at <= m.at + h
    BY <1>2, <1>3, <1>9, <2>1
  <2>. QED BY <1>2, <2>1
<1>. QED BY <1>7, <1>8, <1>9

LEMMA LookbackIs ==
  ASSUME ScansAlike
  PROVE  Lookback \in Nat /\ Lookbacks = {Lookback}
BY DEF ScansAlike, Lookback

LEMMA AnswersStay ==
  ASSUME ScansAlike, BranchFits, TimesGrow, HistoryNext, UNCHANGED missed,
         NEW k \in DOMAIN branch', branch'[k].sha <= landed, NEW config, NEW rows,
         Answers(k, config, rows)
  PROVE  Answers(k, config, rows)'
<1>1. /\ Moved /\ clock <= clock' /\ clock \in Nat /\ clock' \in Nat /\ Lookback \in Nat
      /\ DOMAIN branch' = 1..Len(branch') /\ Len(branch') \in Nat
  <2>1. Moved /\ clock <= clock' /\ clock' \in Nat /\ branch' \in Seq(LandedCommit)
    BY HistoryMoves, TimesMove DEF BranchFits
  <2>. QED BY <2>1, BranchIs, LookbackIs
<1>2. \A i \in 1..k : i \in DOMAIN branch /\ branch'[i] = branch[i]
  <2>1. k \in 1..Len(branch')
    BY <1>1
  <2>2. \A i \in 1..k : i \in DOMAIN branch' /\ i <= k
    BY <1>1, <2>1
  <2>. QED BY <1>1, <2>2 DEF Moved
<1>3. Covers(k, rows)'
  <2> SUFFICES ASSUME NEW i \in 1..k, branch'[i].pr, branch'[i].at >= clock' - Lookback,
                      k - i < MaxPrs, branch'[i].sha \notin missed'
               PROVE  \E row \in rows : row.sha = branch'[i].sha
    BY DEF Covers
  <2>1. i \in DOMAIN branch /\ branch'[i] = branch[i] /\ missed' = missed
    BY <1>2
  <2>2. branch[i].at \in Nat
    BY <2>1, BranchIs
  <2>3. branch[i].at >= clock - Lookback
    <3>1. \A a, b, l, t \in Nat : a <= b /\ t >= b - l => t >= a - l
      OBVIOUS
    <3>2. branch[i].at >= clock' - Lookback
      BY <2>1
    <3>. QED BY <1>1, <2>2, <3>1, <3>2
  <2>. QED BY <2>1, <2>3 DEF Answers, Covers
<1>4. ASSUME NEW row \in rows, row.sha \notin missed PROVE Belongs(row, config, k)'
  <2>1. PICK i \in 1..k : /\ row.config = config /\ branch[i].sha = row.sha /\ branch[i].pr
                          /\ Right(row, branch[i], k)
    BY <1>4 DEF Answers, Belongs
  <2> DEFINE m == branch[i]
  <2>2. m \in LandedCommit /\ branch'[i] = m
    BY <1>2, BranchIs
  <2>3. Right(row, m, k)
    BY <2>1
  <2>4. ASSUME NEW l, l = m PROVE Right(row, l, k)'
    <3> SUFFICES ASSUME NEW h \in Horizons, row.labels[h] # "missing_horizon"
                 PROVE  /\ Matured(l, h, clock') /\ row.labels[h] = LabelAt(l, h, clock)'
                        /\ \A j \in DOMAIN branch' : j > k => branch'[j].at > l.at + h
      BY DEF Right, Matured
    <3>1. /\ Matured(l, h, clock) /\ row.labels[h] = LabelAt(l, h, clock)
          /\ \A j \in DOMAIN branch : j > k => branch[j].at > l.at + h
      BY <2>3, <2>4 DEF Right
    <3>2. h \in Nat /\ l \in LandedCommit
      BY <2>2, <2>4, ScanAssumption
    <3> HIDE DEF m
    <3>. QED BY <3>1, <3>2, LabelStays
  <2>5. Right(row, m, k)'
    <3>1. m' = m
      BY <1>2
    <3>. QED BY <2>4, <3>1 DEF Right
  <2>. QED BY <1>2, <2>1, <2>2, <2>5 DEF Belongs
<1>. QED BY <1>3, <1>4 DEF Answers

LEMMA SpeaksStays ==
  ASSUME ScansAlike, BranchFits, TimesGrow, HistoryNext, UNCHANGED missed, NEW d, Speaks(d)
  PROVE  Speaks(d)'
<1>1. Moved /\ landed \in Nat /\ landed' \in Nat /\ landed <= landed'
  BY HistoryMoves DEF BranchFits, Moved
<1>2. /\ d.config \in Configs /\ d.cursor \in Nat /\ d.cursor <= landed /\ d.rows \subseteq Row
      /\ d.cursor = 0 => d.rows = {}
  BY DEF Speaks
<1>3. ASSUME NEW k \in DOMAIN branch', branch'[k].sha = d.cursor
      PROVE  Answers(k, d.config, d.rows)'
  <2>1. k \in DOMAIN branch /\ branch'[k] = branch[k]
    <3>1. branch'[k].sha <= landed
      BY <1>2, <1>3
    <3>2. k <= k
      <4>1. branch' \in Seq(LandedCommit)
        BY HistoryMoves DEF BranchFits
      <4>. QED BY <4>1
    <3>. QED BY <1>1, <3>1, <3>2 DEF Moved
  <2>2. Answers(k, d.config, d.rows)
    BY <1>3, <2>1 DEF Speaks
  <2>. QED BY <1>2, <1>3, <2>2, AnswersStay
<1>4. d.cursor <= landed'
  BY <1>1, <1>2
<1>. QED BY <1>2, <1>3, <1>4 DEF Speaks

LEMMA BehindStays ==
  ASSUME BranchFits, HistoryNext, NEW a \in Nat, NEW b \in Nat, a <= landed, b <= landed, Behind(a, b)
  PROVE  Behind(a, b)'
<1>1. /\ Moved /\ branch' \in Seq(LandedCommit)
  BY HistoryMoves DEF BranchFits
<1>2. \A k \in DOMAIN branch' : branch'[k].sha <= landed => k \in DOMAIN branch /\ branch'[k] = branch[k]
  <2>1. \A k \in DOMAIN branch' : k <= k
    BY <1>1
  <2>. QED BY <1>1, <2>1 DEF Moved
<1>. QED BY <1>2 DEF Behind

LEMMA HistoryKeepsReport ==
  ASSUME ScansAlike, ReportInv, HistoryNext, UNCHANGED scanVars
  PROVE  ReportInv'
<1>1. /\ BranchFits /\ TimesGrow /\ BranchFits' /\ TimesGrow' /\ landed \in Nat
  BY HistoryMoves, TimesMove DEF ReportInv, BranchFits
<1>2. UNCHANGED <<rowsFile, headerFile, scan, missed, misled>>
  BY DEF scanVars
<1>3. ASSUME NEW d, Speaks(d) PROVE Speaks(d)'
  BY <1>1, <1>2, <1>3, SpeaksStays
<1>4. ASSUME NEW a \in Nat, NEW b \in Nat, a <= landed, b <= landed, Behind(a, b)
      PROVE  Behind(a, b)'
  BY <1>1, <1>4, BehindStays
<1>5. \A d : Speaks(d) => d.cursor \in Nat /\ d.cursor <= landed
  BY DEF Speaks
<1>6. ASSUME ~ misled PROVE FilesFit'
  <2>1. FilesFit
    BY <1>6 DEF ReportInv
  <2>2. rowsFile # Nothing => Speaks(rowsFile)'
    BY <1>2, <1>3, <2>1 DEF FilesFit, Speaks
  <2>3. landed <= landed' /\ landed' \in Nat
    BY <1>1, HistoryMoves DEF Moved, BranchFits
  <2>4. headerFile # Nothing =>
          /\ rowsFile # Nothing /\ headerFile.cursor \in Nat /\ headerFile.cursor <= landed'
          /\ Behind(headerFile.cursor, rowsFile.cursor)'
    BY <1>1, <1>2, <1>4, <1>5, <2>1, <2>3 DEF FilesFit, Behind
  <2>. QED BY <1>2, <2>2, <2>4 DEF FilesFit
<1>7. ASSUME ~ misled, NEW s \in Scanners PROVE ScanFits(s)'
  <2>1. FilesFit /\ ScanFits(s)
    BY <1>7 DEF ReportInv
  <2>2. scan[s].at # "idle" => Speaks(scan[s])'
    BY <1>2, <1>3, <2>1 DEF ScanFits, Speaks
  <2>3. scan[s].at # "idle" /\ headerFile # Nothing => Behind(headerFile.cursor, scan[s].cursor)'
    BY <1>2, <1>4, <1>5, <2>1 DEF FilesFit, ScanFits, Behind
  <2>. QED BY <1>2, <2>1, <2>2, <2>3 DEF ScanFits
<1>. QED BY <1>1, <1>2, <1>6, <1>7 DEF ReportInv

(***************************************************************************)
(* A scan reads the state and the branch.                                  *)
(***************************************************************************)
\* The newest commits of a window are the newest of the branch that lie in it.
LEMMA WindowIs ==
  ASSUME BranchFits, TimesGrow, NEW from \in Int, NEW c \in Nat, NEW S,
         S = {i \in DOMAIN branch : branch[i].at >= from /\ i > c}
  PROVE  NewestOf(S, MaxPrs) = {i \in S : Len(branch) - i < MaxPrs}
<1> DEFINE n == Len(branch)
<1>1. /\ n \in Nat /\ DOMAIN branch = 1..n
      /\ \A i \in 1..n : branch[i].at \in Nat
      /\ \A i, j \in 1..n : i <= j => branch[i].at <= branch[j].at
  BY BranchIs DEF TimesGrow
<1> HIDE DEF n
<1>2. ASSUME NEW i \in S PROVE Cardinality({j \in S : j >= i}) = n - i + 1
  <2>1. i \in 1..n /\ branch[i].at >= from /\ i > c
    BY <1>1
  <2>2. ASSUME NEW j \in i..n PROVE j \in S
    <3>1. j \in 1..n /\ i <= j /\ j > c
      BY <1>1, <2>1
    <3>2. branch[j].at >= branch[i].at /\ branch[i].at \in Nat /\ branch[j].at \in Nat
      BY <1>1, <2>1, <3>1
    <3>3. branch[j].at >= from
      BY <2>1, <3>2
    <3>. QED BY <1>1, <3>1, <3>3
  <2>3. {j \in S : j >= i} = i..n
    <3>1. \A j \in S : j \in 1..n
      BY <1>1
    <3>. QED BY <1>1, <2>1, <2>2, <3>1
  <2>4. Cardinality(i..n) = n - i + 1
    BY <1>1, <2>1, FS_Interval
  <2>. QED BY <2>3, <2>4
<1>3. \A i \in S : n - i + 1 <= MaxPrs <=> n - i < MaxPrs
  BY <1>1, ScanAssumption
<1>. QED BY <1>2, <1>3 DEF NewestOf, n

LEMMA PositionIs ==
  ASSUME BranchFits
  PROVE  /\ \A k \in DOMAIN branch : /\ IsAncestor(branch[k].sha) /\ branch[k].sha # 0
                                     /\ PositionOf(branch[k].sha) = k
         /\ \A sha : IsAncestor(sha) => \E k \in DOMAIN branch : branch[k].sha = sha
<1>1. \A k \in DOMAIN branch : IsAncestor(branch[k].sha)
  BY DEF IsAncestor, Shas, Commits, ToSet
<1>2. \A k \in DOMAIN branch : branch[k].sha # 0
  BY BranchIs
<1>3. \A i, j \in DOMAIN branch : branch[i].sha = branch[j].sha => i = j
  BY DEF BranchFits
<1>4. \A sha : IsAncestor(sha) => \E k \in DOMAIN branch : branch[k].sha = sha
  BY DEF IsAncestor, Shas, Commits, ToSet
<1>. QED BY <1>1, <1>2, <1>3, <1>4 DEF PositionOf

\* What a scan takes from the state answers for the branch up to a commit that is not
\* before the cursor from which it enumerates.
LEMMA CacheIs ==
  ASSUME ReportInv, ~ misled, NEW config \in Configs, Cached(config) => CacheIsWhole
  PROVE  \E c \in 0..Len(branch) : \E first \in 0..c :
           /\ Since(Cursor(config)) = {i \in DOMAIN branch : i > first}
           /\ CachedRows(config) \subseteq Row /\ (c = 0 => CachedRows(config) = {})
           /\ Answers(c, config, CachedRows(config))
<1> DEFINE n == Len(branch)
<1>1. BranchFits /\ FilesFit
  BY DEF ReportInv
<1>2. n \in Nat /\ DOMAIN branch = 1..n /\ 0 \in 0..n
  BY <1>1, BranchIs
<1>3. Since(0) = {i \in DOMAIN branch : i > 0}
  <2>1. ~ IsAncestor(0)
    BY <1>1, PositionIs
  <2>2. \A i \in DOMAIN branch : i > 0
    BY <1>2
  <2>. QED BY <2>1, <2>2 DEF Since
<1>4. Answers(0, config, {})
  BY DEF Answers, Covers
<1>5. CASE ~ Cached(config)
  <2>1. Cursor(config) = 0 /\ CachedRows(config) = {}
    BY <1>5 DEF Cursor, CachedRows
  <2>2. 0 \in 0..0
    OBVIOUS
  <2>. QED BY <1>2, <1>3, <1>4, <2>1, <2>2
<1>6. CASE Cached(config)
  <2>1. /\ headerFile # Nothing /\ headerFile.config = config
        /\ headerFile.cursor # 0 => IsAncestor(headerFile.cursor)
        /\ rowsFile # Nothing
        /\ rowsFile.config = config
        /\ rowsFile.cursor # 0 => IsAncestor(rowsFile.cursor)
    BY <1>1, <1>6 DEF Cached, CacheIsWhole, FilesFit
  <2>2. Speaks(rowsFile) /\ Behind(headerFile.cursor, rowsFile.cursor)
    BY <1>1, <2>1 DEF FilesFit
  <2>3. Cursor(config) = headerFile.cursor /\ CachedRows(config) = rowsFile.rows
    BY <1>6, <2>1 DEF Cursor, CachedRows
  <2>4. CASE rowsFile.cursor = 0
    <3>1. headerFile.cursor = 0
      BY <1>1, <2>1, <2>2, <2>4, PositionIs DEF Behind
    <3>2. CachedRows(config) = {}
      BY <2>2, <2>3, <2>4 DEF Speaks
    <3>3. 0 \in 0..0
      OBVIOUS
    <3>. QED BY <1>2, <1>3, <1>4, <2>3, <3>1, <3>2, <3>3
  <2>5. CASE rowsFile.cursor # 0
    <3>1. PICK c \in DOMAIN branch : branch[c].sha = rowsFile.cursor
      BY <1>1, <2>1, <2>5, PositionIs
    <3>2. c \in 0..n /\ c # 0
      BY <1>2
    <3>3. rowsFile.rows \subseteq Row /\ Answers(c, config, rowsFile.rows)
      BY <2>1, <2>2, <3>1 DEF Speaks
    <3>4. CASE headerFile.cursor = 0
      <4>1. 0 \in 0..c
        BY <3>2
      <4>. QED BY <1>3, <2>3, <3>2, <3>3, <3>4, <4>1
    <3>5. CASE headerFile.cursor # 0
      <4>1. PICK k \in DOMAIN branch : branch[k].sha = headerFile.cursor
        BY <1>1, <2>1, <3>5, PositionIs
      <4>2. k <= c
        BY <2>2, <3>1, <4>1 DEF Behind
      <4>3. k \in 0..c
        BY <1>2, <3>2, <4>2
      <4>4. Since(headerFile.cursor) = {i \in DOMAIN branch : i > k}
        BY <1>1, <4>1, PositionIs DEF Since
      <4>. QED BY <2>3, <3>2, <3>3, <4>3, <4>4
    <3>. QED BY <3>4, <3>5
  <2>. QED BY <2>4, <2>5
<1>. QED BY <1>5, <1>6

\* A row that is labelled now is a row, and may be kept.
LEMMA LabelledIs ==
  ASSUME BranchFits, NEW config \in Configs, NEW i \in DOMAIN branch, branch[i].pr,
         NEW row, row = Labelled(branch[i], config, clock)
  PROVE  row \in Row /\ row.sha = branch[i].sha /\ Belongs(row, config, Len(branch))
<1>1. \A h \in Horizons : LabelAt(branch[i], h, clock) \in {"missing_horizon", "undone", "survived"}
  BY DEF LabelAt
<1>2. /\ row.sha = branch[i].sha /\ row.config = config
      /\ row.labels = [h \in Horizons |-> LabelAt(branch[i], h, clock)]
  BY DEF Labelled
<1>3. row \in Row
  <2>1. branch[i].sha \in Nat
    BY BranchIs
  <2>. QED BY <1>1, <2>1 DEF Row, Labelled
<1>4. i \in 1..Len(branch) /\ \A j \in DOMAIN branch : ~ (j > Len(branch))
  BY BranchIs
<1>5. Right(row, branch[i], Len(branch))
  <2>1. \A h \in Horizons : row.labels[h] = LabelAt(branch[i], h, clock)
    BY <1>2
  <2>2. \A h \in Horizons : LabelAt(branch[i], h, clock) # "missing_horizon" => Matured(branch[i], h, clock)
    BY DEF LabelAt
  <2>. QED BY <1>4, <2>1, <2>2 DEF Right
<1>. QED BY <1>2, <1>3, <1>4, <1>5 DEF Belongs

\* A row is refreshed to what a scan would find that labels it now.
LEMMA RefreshedIs ==
  ASSUME NEW config, NEW row \in Row, NEW m, NEW k,
         row.sha = m.sha, row.config = config, Right(row, m, k)
  PROVE  Refreshed(row, m, clock) = Labelled(m, config, clock)
<1>1. /\ row = [sha |-> row.sha, config |-> row.config, labels |-> row.labels]
      /\ DOMAIN row.labels = Horizons
  BY DEF Row
<1>2. \A h \in Horizons :
        (IF Matured(m, h, clock) /\ row.labels[h] # "missing_horizon" THEN row.labels[h]
         ELSE LabelAt(m, h, clock)) = LabelAt(m, h, clock)
  BY DEF Right
<1>3. Refreshed(row, m, clock) = [row EXCEPT !.labels = [h \in Horizons |-> LabelAt(m, h, clock)]]
  BY <1>2 DEF Refreshed
<1>4. [row EXCEPT !.labels = [h \in Horizons |-> LabelAt(m, h, clock)]]
        = [sha |-> row.sha, config |-> row.config, labels |-> [h \in Horizons |-> LabelAt(m, h, clock)]]
  BY <1>1 DEF Row
<1>. QED BY <1>3, <1>4 DEF Labelled

LEMMA StillBelongs ==
  ASSUME BranchFits, NEW config, NEW row, NEW c \in 0..Len(branch), Belongs(row, config, c)
  PROVE  Belongs(row, config, Len(branch))
<1>1. PICK i \in 1..c : /\ row.config = config /\ branch[i].sha = row.sha /\ branch[i].pr
                        /\ Right(row, branch[i], c)
  BY DEF Belongs
<1>2. i \in 1..Len(branch) /\ \A j \in DOMAIN branch : ~ (j > Len(branch))
  BY BranchIs
<1>3. Right(row, branch[i], Len(branch))
  BY <1>1, <1>2 DEF Right
<1>. QED BY <1>1, <1>2, <1>3 DEF Belongs

\* The rows of a scan: what was cached and is not in the window, or was lost; what was
\* cached and is refreshed; and what was fetched.
LEMMA RowsAre ==
  ASSUME NEW config, NEW now, NEW found, NEW window, NEW lost, NEW rows,
         rows = RowsAfter(config, now, found, window, lost)
  PROVE  /\ \A row \in rows :
              \/ /\ row \in CachedRows(config)
                 /\ row.sha \in lost \/ ~ \E m \in window : m.sha = row.sha
              \/ \E old \in CachedRows(config) :
                   old.sha \notin lost /\ row = Refreshed(old, CommitOf(old.sha), now)
                     /\ \E m \in window : m.sha = old.sha
              \/ \E m \in found : m.pr /\ m.sha \notin lost /\ row = Labelled(m, config, now)
         /\ \A old \in CachedRows(config) :
              \/ old \in rows
              \/ Refreshed(old, CommitOf(old.sha), now) \in rows
                   /\ \E m \in window : m.sha = old.sha
         /\ \A m \in found :
              \/ ~ m.pr \/ m.sha \in lost
              \/ \E old \in CachedRows(config) : old.sha = m.sha
              \/ Labelled(m, config, now) \in rows
<1> DEFINE cache == CachedRows(config)
           Fresh(row) == row.sha \in {m.sha : m \in window} /\ row.sha \notin lost
           Kept(row) == IF Fresh(row) THEN Refreshed(row, CommitOf(row.sha), now) ELSE row
           unseen == {m \in found : m.pr /\ m.sha \notin lost /\ ~ \E row \in cache : row.sha = m.sha}
<1>1. rows = {Kept(row) : row \in cache} \cup {Labelled(m, config, now) : m \in unseen}
  BY DEF RowsAfter
<1>2. \A row : Fresh(row) <=> row.sha \notin lost /\ \E m \in window : m.sha = row.sha
  OBVIOUS
<1>3. \A row : /\ Fresh(row) => Kept(row) = Refreshed(row, CommitOf(row.sha), now)
               /\ ~ Fresh(row) => Kept(row) = row
  OBVIOUS
<1>4. \A m : m \in unseen <=>
        m \in found /\ m.pr /\ m.sha \notin lost /\ ~ \E row \in cache : row.sha = m.sha
  OBVIOUS
<1> HIDE DEF cache, Fresh, Kept, unseen
<1>5. \A row \in rows : (\E old \in cache : row = Kept(old)) \/ \E m \in unseen : row = Labelled(m, config, now)
  BY <1>1
<1>6. (\A old \in cache : Kept(old) \in rows) /\ \A m \in unseen : Labelled(m, config, now) \in rows
  BY <1>1
<1>7. \A row \in rows :
        \/ row \in cache /\ ~ Fresh(row)
        \/ \E old \in cache : Fresh(old) /\ row = Refreshed(old, CommitOf(old.sha), now)
        \/ \E m \in found : m.pr /\ m.sha \notin lost /\ row = Labelled(m, config, now)
  BY <1>3, <1>4, <1>5
<1>8. ASSUME NEW old \in cache
      PROVE  old \in rows \/ (Fresh(old) /\ Refreshed(old, CommitOf(old.sha), now) \in rows)
  <2>1. Kept(old) \in rows
    BY <1>6
  <2>2. CASE Fresh(old)
    <3>1. Kept(old) = Refreshed(old, CommitOf(old.sha), now)
      BY <1>3, <2>2
    <3>. QED BY <2>1, <2>2, <3>1
  <2>3. CASE ~ Fresh(old)
    <3>1. Kept(old) = old
      BY <1>3, <2>3
    <3>2. old \in rows
      BY <2>1, <3>1
    <3>. QED BY <3>2
  <2>. QED BY <2>2, <2>3
<1>9. \A m \in found : \/ ~ m.pr \/ m.sha \in lost
                       \/ \E old \in cache : old.sha = m.sha
                       \/ Labelled(m, config, now) \in rows
  BY <1>4, <1>6
<1>. QED BY <1>2, <1>7, <1>8, <1>9 DEF cache

\* What a scan finds answers for the whole branch, and what it reports is what a scan
\* without a state would.
LEMMA ScanAnswers ==
  ASSUME ScansAlike, BranchFits, TimesGrow, UNCHANGED historyVars,
         NEW config \in Configs, NEW lost, missed' = missed \cup lost,
         NEW from, from = clock - Lookback,
         NEW c \in 0..Len(branch), NEW first \in 0..c,
         Since(Cursor(config)) = {i \in DOMAIN branch : i > first},
         CachedRows(config) \subseteq Row, Answers(c, config, CachedRows(config)),
         NEW window, window = ReportWindow(from, clock),
         NEW rows, rows = RowsAfter(config, clock, EnumerateFrom(config, from, clock), window, lost)
  PROVE  /\ rows \subseteq Row /\ Answers(Len(branch), config, rows)'
         /\ Len(branch) = 0 /\ CachedRows(config) = {} => rows = {}
         /\ Found(Within(rows, window)) = Found(FullReport(config, from, clock))
<1> DEFINE n == Len(branch)
           cache == CachedRows(config)
           W == {i \in DOMAIN branch : branch[i].at >= from /\ n - i < MaxPrs}
           found == EnumerateFrom(config, from, clock)
<1>1. /\ n \in Nat /\ DOMAIN branch = 1..n /\ clock \in Nat /\ from \in Int /\ c \in Nat /\ first \in Nat
      /\ \A i \in DOMAIN branch : branch[i].at \in Nat /\ branch[i].at <= clock
      /\ \A i \in DOMAIN branch : branch[i].pr \in BOOLEAN
  BY BranchIs, LookbackIs DEF TimesGrow
<1>2. window = {branch[i] : i \in W}
  <2> DEFINE S == {i \in DOMAIN branch : branch[i].at >= from /\ i > 0}
  <2>1. InWindow(from, clock) = S
    BY <1>1 DEF InWindow
  <2>2. NewestOf(S, MaxPrs) = {i \in S : n - i < MaxPrs}
    <3> HIDE DEF S
    <3>. QED BY <1>1, WindowIs DEF S
  <2>3. {i \in S : n - i < MaxPrs} = W
    BY <1>1
  <2>. QED BY <2>1, <2>2, <2>3 DEF ReportWindow, CommitsAt
<1>3. found = {branch[i] : i \in {j \in W : j > first}}
  <2> DEFINE S == {i \in DOMAIN branch : branch[i].at >= from /\ i > first}
  <2>1. InWindow(from, clock) \cap Since(Cursor(config)) = S
    BY <1>1 DEF InWindow
  <2>2. NewestOf(S, MaxPrs) = {i \in S : n - i < MaxPrs}
    <3> HIDE DEF S
    <3>. QED BY <1>1, WindowIs DEF S
  <2>3. {i \in S : n - i < MaxPrs} = {j \in W : j > first}
    BY <1>1
  <2>. QED BY <2>1, <2>2, <2>3 DEF EnumerateFrom, CommitsAt
<1>4. /\ \A i \in W : i \in DOMAIN branch /\ branch[i].at >= from /\ n - i < MaxPrs
      /\ \A i \in DOMAIN branch : branch[i].at >= from /\ n - i < MaxPrs => i \in W
  OBVIOUS
<1>5. /\ (\A m \in window : \E i \in W : m = branch[i]) /\ \A i \in W : branch[i] \in window
      /\ \A m \in found : \E i \in W : m = branch[i]
      /\ \A i \in W : i > first => branch[i] \in found
  BY <1>2, <1>3
<1> HIDE DEF W, found, cache, n
<1>6. /\ \A row \in rows :
           \/ row \in cache /\ (row.sha \in lost \/ ~ \E m \in window : m.sha = row.sha)
           \/ \E old \in cache :
                old.sha \notin lost /\ row = Refreshed(old, CommitOf(old.sha), clock)
                  /\ \E m \in window : m.sha = old.sha
           \/ \E m \in found : m.pr /\ m.sha \notin lost /\ row = Labelled(m, config, clock)
      /\ \A old \in cache :
           \/ old \in rows
           \/ Refreshed(old, CommitOf(old.sha), clock) \in rows /\ \E m \in window : m.sha = old.sha
      /\ \A m \in found :
           \/ ~ m.pr \/ m.sha \in lost
           \/ \E old \in cache : old.sha = m.sha
           \/ Labelled(m, config, clock) \in rows
  BY RowsAre DEF cache, found
<1>7. ASSUME NEW old \in cache, old.sha \notin missed'
      PROVE  /\ Belongs(old, config, n)
             /\ \E i \in DOMAIN branch :
                  /\ branch[i].sha = old.sha /\ branch[i].pr
                  /\ Refreshed(old, CommitOf(old.sha), clock) = Labelled(branch[i], config, clock)
  <2>1. Belongs(old, config, c) /\ old \in Row
    BY <1>7 DEF Answers, cache
  <2>2. PICK i \in 1..c : /\ old.config = config /\ branch[i].sha = old.sha /\ branch[i].pr
                          /\ Right(old, branch[i], c)
    BY <2>1 DEF Belongs
  <2>3. i \in DOMAIN branch
    BY <1>1, <2>2 DEF n
  <2>4. CommitOf(old.sha) = branch[i]
    <3>1. Commits = {branch[j] : j \in DOMAIN branch}
      BY DEF Commits, ToSet
    <3>2. \A m \in Commits : m.sha = old.sha => m = branch[i]
      BY <2>2, <2>3, <3>1 DEF BranchFits
    <3>3. branch[i] \in Commits
      BY <2>3, <3>1
    <3>. QED BY <2>2, <3>2, <3>3 DEF CommitOf
  <2>5. Refreshed(old, branch[i], clock) = Labelled(branch[i], config, clock)
    BY <2>1, <2>2, RefreshedIs
  <2>6. Belongs(old, config, n)
    BY <2>1, StillBelongs DEF n
  <2>. QED BY <2>2, <2>3, <2>4, <2>5, <2>6
<1>8. \A i \in DOMAIN branch : branch[i].pr =>
        LET row == Labelled(branch[i], config, clock)
        IN row \in Row /\ row.sha = branch[i].sha /\ Belongs(row, config, n)
  BY LabelledIs DEF n
<1>9. \A m : \A old \in cache : /\ Refreshed(old, m, clock) \in Row
                                /\ Refreshed(old, m, clock).sha = old.sha
  <2> SUFFICES ASSUME NEW m, NEW old \in cache
               PROVE  /\ Refreshed(old, m, clock) \in Row
                      /\ Refreshed(old, m, clock).sha = old.sha
    OBVIOUS
  <2> DEFINE labels == [h \in Horizons |->
                         IF Matured(m, h, clock) /\ old.labels[h] # "missing_horizon" THEN old.labels[h]
                         ELSE LabelAt(m, h, clock)]
  <2>1. old \in Row
    BY DEF cache
  <2>2. labels \in [Horizons -> {"missing_horizon", "undone", "survived"}]
    BY <2>1 DEF Row, LabelAt
  <2>3. Refreshed(old, m, clock) = [old EXCEPT !.labels = labels]
    BY DEF Refreshed
  <2> HIDE DEF labels
  <2>. QED BY <2>1, <2>2, <2>3 DEF Row
<1>10. \A row \in rows : row \in Row /\ (row.sha \notin missed' => Belongs(row, config, n))
  <2> SUFFICES ASSUME NEW row \in rows
               PROVE  row \in Row /\ (row.sha \notin missed' => Belongs(row, config, n))
    OBVIOUS
  <2>1. CASE row \in cache
    BY <1>7, <2>1 DEF cache
  <2>2. ASSUME NEW old \in cache, row = Refreshed(old, CommitOf(old.sha), clock)
        PROVE  row \in Row /\ (row.sha \notin missed' => Belongs(row, config, n))
    BY <1>7, <1>8, <1>9, <2>2
  <2>3. ASSUME NEW m \in found, m.pr, row = Labelled(m, config, clock)
        PROVE  row \in Row /\ (row.sha \notin missed' => Belongs(row, config, n))
    BY <1>4, <1>5, <1>8, <2>3
  <2>. QED BY <1>6, <2>1, <2>2, <2>3
<1>11. \A old \in cache : \E row \in rows : row.sha = old.sha
  BY <1>6, <1>9
<1>12. ASSUME NEW i \in W, branch[i].pr, branch[i].sha \notin missed'
       PROVE  \E row \in rows : row.sha = branch[i].sha
  <2>1. i \in DOMAIN branch /\ branch[i].at >= from /\ n - i < MaxPrs /\ branch[i].sha \notin missed
    BY <1>4, <1>12
  <2>2. CASE i <= c
    <3>1. i \in 1..c /\ c - i < MaxPrs
      BY <1>1, <2>1, <2>2, ScanAssumption DEF n
    <3>2. \E old \in cache : old.sha = branch[i].sha
      BY <1>12, <2>1, <3>1 DEF Answers, Covers, cache
    <3>. QED BY <1>11, <3>2
  <2>3. CASE i > c
    <3>1. branch[i] \in found
      BY <1>1, <1>5, <2>1, <2>3
    <3>2. branch[i].sha \notin lost
      BY <1>12
    <3>. QED BY <1>6, <1>8, <1>11, <1>12, <2>1, <3>1, <3>2
  <2>. QED BY <1>1, <2>1, <2>2, <2>3
<1>13. ASSUME NEW row \in rows, row.sha \notin missed', NEW m \in window, m.sha = row.sha
       PROVE  m.pr /\ row = Labelled(m, config, clock)
  <2>1. ASSUME NEW i \in DOMAIN branch, branch[i].sha = row.sha PROVE m = branch[i]
    BY <1>4, <1>5, <1>13, <2>1 DEF BranchFits
  <2>2. row.sha \notin lost
    BY <1>13
  <2>3. ASSUME NEW old \in cache, row = Refreshed(old, CommitOf(old.sha), clock)
        PROVE  m.pr /\ row = Labelled(m, config, clock)
    <3>1. row.sha = old.sha
      BY <1>9, <2>3
    <3>. QED BY <1>7, <1>13, <2>1, <2>3, <3>1
  <2>4. ASSUME NEW k \in found, k.pr, row = Labelled(k, config, clock)
        PROVE  m.pr /\ row = Labelled(m, config, clock)
    BY <1>4, <1>5, <1>8, <2>1, <2>4
  <2>. QED BY <1>6, <1>13, <2>2, <2>3, <2>4
<1>14. Answers(n, config, rows)'
  <2>1. n' = n /\ branch' = branch /\ clock' = clock
    BY DEF n, historyVars
  <2>2. \A i \in 1..n : branch[i].pr /\ branch[i].at >= clock - Lookback /\ n - i < MaxPrs
                           /\ branch[i].sha \notin missed' => \E row \in rows : row.sha = branch[i].sha
    BY <1>1, <1>4, <1>12
  <2>3. Covers(n, rows)'
    BY <2>1, <2>2 DEF Covers
  <2>4. \A row \in rows : row.sha \notin missed' => Belongs(row, config, n)'
    BY <1>10, <2>1 DEF Belongs, Right, LabelAt, Commits
  <2>. QED BY <2>3, <2>4 DEF Answers
<1>15. n = 0 /\ cache = {} => rows = {}
  BY <1>1, <1>4, <1>5, <1>6
<1>16. Found(Within(rows, window)) = Found(FullReport(config, from, clock))
  <2>1. ASSUME NEW row \in Found(Within(rows, window))
        PROVE  row \in Found(FullReport(config, from, clock))
    BY <1>13, <2>1 DEF Found, Within, FullReport
  <2>2. ASSUME NEW row \in Found(FullReport(config, from, clock))
        PROVE  row \in Found(Within(rows, window))
    <3>1. PICK m \in window : m.pr /\ row = Labelled(m, config, clock) /\ row.sha \notin missed'
      BY <2>2 DEF Found, FullReport
    <3>2. PICK i \in W : m = branch[i]
      BY <1>5
    <3>3. row.sha = m.sha
      BY <1>4, <1>8, <3>1, <3>2
    <3>4. PICK other \in rows : other.sha = m.sha
      BY <1>12, <3>1, <3>2, <3>3
    <3>5. other = row
      BY <1>13, <3>1, <3>3, <3>4
    <3>. QED BY <3>1, <3>3, <3>4, <3>5 DEF Found, Within
  <2>3. Found(Within(rows, window)) \subseteq Found(FullReport(config, from, clock))
    BY <2>1
  <2>4. Found(FullReport(config, from, clock)) \subseteq Found(Within(rows, window))
    BY <2>2
  <2>. QED BY <2>3, <2>4
<1>. QED BY <1>10, <1>14, <1>15, <1>16 DEF n, cache

\* Nothing a scan misses makes older rows wrong.
LEMMA SpeaksOfLess ==
  ASSUME NEW d, Speaks(d), UNCHANGED historyVars, missed \subseteq missed'
  PROVE  Speaks(d)'
<1>1. UNCHANGED <<branch, landed, clock>>
  BY DEF historyVars
<1>2. ASSUME NEW k, NEW config, NEW rows, Answers(k, config, rows)
      PROVE  Answers(k, config, rows)'
  <2>1. Covers(k, rows)'
    BY <1>1, <1>2 DEF Answers, Covers
  <2>2. ASSUME NEW row \in rows, row.sha \notin missed' PROVE Belongs(row, config, k)'
    BY <1>1, <1>2, <2>2 DEF Answers, Belongs, Right, LabelAt, Matured, Commits
  <2>. QED BY <2>1, <2>2 DEF Answers
<1>. QED BY <1>1, <1>2 DEF Speaks

LEMMA LastSeenIs ==
  ASSUME BranchFits, TimesGrow
  PROVE  /\ Len(branch) = 0 => LastSeen(clock) = 0
         /\ Len(branch) # 0 => Len(branch) \in DOMAIN branch /\ LastSeen(clock) = branch[Len(branch)].sha
<1> DEFINE n == Len(branch)
           all == InWindow(0, clock)
<1>1. n \in Nat /\ DOMAIN branch = 1..n
      /\ \A i \in DOMAIN branch : branch[i].at \in Nat /\ branch[i].at <= clock
  BY BranchIs DEF TimesGrow
<1>2. all = 1..n
  BY <1>1 DEF InWindow
<1> HIDE DEF n, all
<1>3. n # 0 => n \in all /\ \A i \in all : (\A j \in all : j <= i) <=> i = n
  BY <1>1, <1>2
<1>4. n # 0 => (CHOOSE i \in all : \A j \in all : j <= i) = n
  BY <1>3
<1>5. n = 0 <=> all = {}
  BY <1>1, <1>2
<1>6. LastSeen(clock) = IF all = {} THEN 0 ELSE branch[CHOOSE i \in all : \A j \in all : j <= i].sha
  BY DEF LastSeen, all
<1>7. /\ n = 0 => LastSeen(clock) = 0
      /\ n # 0 => n \in DOMAIN branch /\ LastSeen(clock) = branch[n].sha
  <2>1. n # 0 => n \in DOMAIN branch
    BY <1>1
  <2>2. n # 0 => LastSeen(clock) = branch[n].sha
    BY <1>4, <1>5, <1>6
  <2>3. n = 0 => LastSeen(clock) = 0
    BY <1>5, <1>6
  <2>. QED BY <2>1, <2>2, <2>3
<1>. QED BY <1>7 DEF n

LEMMA RunScanKeeps ==
  ASSUME ScansAlike, ReportInv, NEW s \in Scanners, NEW config \in Configs,
         NEW lookback \in Lookbacks, NEW ago \in AsOfs, NEW absent, NEW failed,
         RunScan(s, config, lookback, ago, absent, failed), UNCHANGED historyVars
  PROVE  /\ ReportInv'
         /\ ~ misled' => Found(scan'[s].report)
                           = Found(FullReport(scan'[s].config, scan'[s].from, scan'[s].now))
<1> DEFINE lost == absent \cup failed
           n    == Len(branch)
<1>a. PICK from : from = clock - Lookback
  OBVIOUS
<1>b. PICK window : window = ReportWindow(from, clock)
  OBVIOUS
<1>c. PICK rows : rows = RowsAfter(config, clock, EnumerateFrom(config, from, clock), window, lost)
  OBVIOUS
<1>d. PICK cursor : cursor = LastSeen(clock)
  OBVIOUS
<1> DEFINE new == [at |-> "emitting", config |-> config, from |-> from, now |-> clock,
                   rows |-> rows, report |-> Within(rows, window), cursor |-> cursor]
<1>1. /\ BranchFits /\ TimesGrow /\ misled \in BOOLEAN /\ DOMAIN scan = Scanners
      /\ n \in Nat /\ DOMAIN branch = 1..n /\ clock \in Nat
  BY BranchIs DEF ReportInv
<1>2. lookback = Lookback /\ (IF ago > clock THEN 0 ELSE clock - ago) = clock
  <2>1. lookback = Lookback /\ ago = 0
    BY LookbackIs DEF ScansAlike
  <2>2. ~ (0 > clock) /\ clock - 0 = clock
    BY <1>1
  <2>. QED BY <2>1, <2>2
<1>3. /\ scan[s] = Idle /\ scan' = [scan EXCEPT ![s] = new]
      /\ missed' = missed \cup lost
      /\ misled' = (misled \/ (Cached(config) /\ ~ CacheIsWhole))
      /\ UNCHANGED <<rowsFile, headerFile, branch, landed, clock>>
  BY <1>2, <1>a, <1>b, <1>c, <1>d DEF RunScan, historyVars
<1>4. BranchFits' /\ TimesGrow' /\ misled' \in BOOLEAN /\ DOMAIN scan' = Scanners /\ scan'[s] = new
  <2> HIDE DEF new
  <2>. QED BY <1>1, <1>3 DEF BranchFits, TimesGrow, LandedCommit, Cached, CacheIsWhole
<1>5. CASE misled'
  BY <1>4, <1>5 DEF ReportInv
<1>6. CASE ~ misled'
  <2>1. ~ misled /\ (Cached(config) => CacheIsWhole) /\ FilesFit
    BY <1>3, <1>6 DEF ReportInv
  <2>2. PICK c \in 0..n : \E first \in 0..c :
          /\ Since(Cursor(config)) = {i \in DOMAIN branch : i > first}
          /\ CachedRows(config) \subseteq Row /\ (c = 0 => CachedRows(config) = {})
          /\ Answers(c, config, CachedRows(config))
    BY <2>1, CacheIs
  <2>3. PICK first \in 0..c :
          /\ Since(Cursor(config)) = {i \in DOMAIN branch : i > first}
          /\ CachedRows(config) \subseteq Row /\ (c = 0 => CachedRows(config) = {})
          /\ Answers(c, config, CachedRows(config))
    BY <2>2
  <2>4. /\ rows \subseteq Row /\ Answers(n, config, rows)'
        /\ n = 0 /\ CachedRows(config) = {} => rows = {}
        /\ Found(Within(rows, window)) = Found(FullReport(config, from, clock))
    <3> HIDE DEF lost
    <3>. QED BY <1>1, <1>3, <1>a, <1>b, <1>c, <2>3, ScanAnswers
  <2>5. n = 0 => rows = {}
    <3>1. n = 0 => c = 0
      OBVIOUS
    <3>. QED BY <2>3, <2>4, <3>1
  <2>6. /\ n = 0 => cursor = 0
        /\ n # 0 => n \in DOMAIN branch /\ cursor = branch[n].sha
    BY <1>1, <1>d, LastSeenIs
  <2>7. \A i \in DOMAIN branch : branch[i].sha \in Nat \ {0} /\ branch[i].sha <= landed
    BY <1>1, BranchIs
  <2>8. \A k \in DOMAIN branch : branch[k].sha = cursor => k = n
    BY <1>1, <2>6, <2>7 DEF BranchFits
  <2>9. cursor \in Nat /\ cursor <= landed /\ (cursor = 0 => rows = {})
    BY <1>1, <2>5, <2>6, <2>7 DEF BranchFits
  <2>10. new.at = "emitting" /\ new.config = config /\ new.rows = rows /\ new.cursor = cursor
         /\ new.report = Within(rows, window) /\ new.from = from /\ new.now = clock
    OBVIOUS
  <2> HIDE DEF new
  <2>11. Speaks(scan[s])'
    <3>1. \A k \in DOMAIN branch' : branch'[k].sha = cursor => Answers(k, config, rows)'
      <4>1. Len(branch)' = n /\ branch' = branch
        BY <1>3
      <4>. QED BY <2>4, <2>8, <4>1
    <3>. QED BY <1>3, <1>4, <2>4, <2>9, <2>10, <3>1 DEF Speaks
  <2>12. FilesFit'
    <3>1. rowsFile # Nothing => Speaks(rowsFile)'
      <4>1. ASSUME NEW d, Speaks(d) PROVE Speaks(d)'
        BY <1>3, <4>1, SpeaksOfLess
      <4>. QED BY <1>3, <2>1, <4>1 DEF FilesFit, Speaks
    <3>. QED BY <1>3, <2>1, <3>1 DEF FilesFit, Behind
  <2>13. headerFile # Nothing => Behind(headerFile.cursor, scan[s].cursor)'
    <3>1. ASSUME NEW k \in DOMAIN branch PROVE cursor # 0 /\ k <= n
      BY <1>1, <2>6, <2>7
    <3>2. \A k, l \in DOMAIN branch : branch[l].sha = cursor => k <= l
      BY <2>8, <3>1
    <3>. QED BY <1>3, <1>4, <2>10, <3>1, <3>2 DEF Behind
  <2>14. ScanFits(s)'
    BY <1>3, <1>4, <2>10, <2>11, <2>13 DEF ScanFits
  <2>15. \A t \in Scanners : ScanFits(t)'
    BY <2>14 DEF ScansAlike
  <2>16. ReportInv'
    BY <1>4, <2>12, <2>15 DEF ReportInv
  <2>17. Found(scan'[s].report) = Found(FullReport(scan'[s].config, scan'[s].from, scan'[s].now))
    BY <1>4, <2>4, <2>10
  <2>. QED BY <2>16, <2>17
<1>. QED BY <1>4, <1>5, <1>6

(***************************************************************************)
(* A scan emits and saves.                                                 *)
(***************************************************************************)
LEMMA StopsKeep ==
  ASSUME ScansAlike, ReportInv, NEW s \in Scanners, UNCHANGED historyVars,
         EmitReport(s) \/ StopScan(s)
  PROVE  ReportInv'
<1>1. /\ UNCHANGED <<rowsFile, headerFile, missed, misled, branch, landed, clock>>
      /\ BranchFits /\ TimesGrow /\ misled \in BOOLEAN /\ DOMAIN scan = Scanners
  BY DEF ReportInv, historyVars, EmitReport, StopScan
<1>2. BranchFits' /\ TimesGrow' /\ misled' \in BOOLEAN /\ DOMAIN scan' = Scanners
  <2>1. DOMAIN scan' = Scanners
    BY <1>1 DEF EmitReport, StopScan
  <2>. QED BY <1>1, <2>1 DEF BranchFits, TimesGrow
<1>3. ASSUME NEW d, Speaks(d) PROVE Speaks(d)'
  BY <1>1, <1>3, SpeaksOfLess
<1>4. ASSUME ~ misled PROVE FilesFit' /\ ScanFits(s)'
  <2>1. FilesFit /\ ScanFits(s)
    BY <1>4 DEF ReportInv
  <2>2. FilesFit'
    <3>1. rowsFile # Nothing => Speaks(rowsFile)'
      BY <1>1, <1>3, <2>1 DEF FilesFit, Speaks
    <3>. QED BY <1>1, <2>1, <3>1 DEF FilesFit, Behind
  <2>3. CASE EmitReport(s)
    <3>1. /\ scan[s].at = "emitting" /\ scan'[s].at = "saving" /\ scan'[s].config = scan[s].config
          /\ scan'[s].rows = scan[s].rows /\ scan'[s].cursor = scan[s].cursor
      BY <1>1, <2>3 DEF EmitReport
    <3>2. Speaks(scan[s]) /\ (headerFile # Nothing => Behind(headerFile.cursor, scan[s].cursor))
      BY <2>1, <3>1 DEF ScanFits
    <3>3. Speaks(scan[s])'
      <4>1. PICK d : d = scan[s]
        OBVIOUS
      <4>2. Speaks(d)'
        BY <1>3, <3>2, <4>1
      <4>. QED BY <1>1, <3>1, <4>1, <4>2 DEF Speaks
    <3>4. headerFile # Nothing => Behind(headerFile.cursor, scan[s].cursor)'
      BY <1>1, <3>1, <3>2 DEF Behind
    <3>5. ScanFits(s)'
      BY <1>1, <3>1, <3>3, <3>4 DEF ScanFits
    <3>. QED BY <2>2, <3>5
  <2>4. CASE StopScan(s)
    <3>1. scan'[s] = Idle
      BY <1>1, <2>4 DEF StopScan
    <3>. QED BY <2>2, <3>1 DEF ScanFits, Idle
  <2>. QED BY <2>2, <2>3, <2>4
<1>5. ~ misled' => FilesFit' /\ \A t \in Scanners : ScanFits(t)'
  BY <1>1, <1>4 DEF ScansAlike
<1>. QED BY <1>2, <1>5 DEF ReportInv

LEMMA SaveRowsKeeps ==
  ASSUME ScansAlike, ReportInv, NEW s \in Scanners, UNCHANGED historyVars, SaveRows(s)
  PROVE  ReportInv'
<1>1. /\ UNCHANGED <<headerFile, missed, misled, branch, landed, clock>>
      /\ BranchFits /\ TimesGrow /\ misled \in BOOLEAN /\ DOMAIN scan = Scanners
      /\ scan[s].at = "saving" /\ scan' = [scan EXCEPT ![s].at = "rows_saved"]
      /\ rowsFile' = [config |-> scan[s].config, cursor |-> scan[s].cursor, rows |-> scan[s].rows]
  BY DEF ReportInv, historyVars, SaveRows
<1>2. BranchFits' /\ TimesGrow' /\ misled' \in BOOLEAN /\ DOMAIN scan' = Scanners
  BY <1>1 DEF BranchFits, TimesGrow
<1>3. ASSUME ~ misled PROVE FilesFit' /\ ScanFits(s)'
  <2>1. /\ FilesFit /\ Speaks(scan[s])
        /\ headerFile # Nothing => Behind(headerFile.cursor, scan[s].cursor)
    BY <1>1, <1>3 DEF ReportInv, ScanFits
  <2>2. /\ scan'[s].at = "rows_saved" /\ scan'[s].config = scan[s].config
        /\ scan'[s].rows = scan[s].rows /\ scan'[s].cursor = scan[s].cursor
        /\ rowsFile'.config = scan[s].config /\ rowsFile'.cursor = scan[s].cursor
        /\ rowsFile'.rows = scan[s].rows
    BY <1>1
  <2>3. rowsFile' # Nothing
    <3>1. rowsFile' \in Checkpoint
      BY <1>1, <2>1 DEF Speaks, Checkpoint
    <3>. QED BY <3>1, ScanAssumption
  <2>4. Speaks(rowsFile)' /\ Speaks(scan[s])'
    <3>1. PICK d : d = scan[s]
      OBVIOUS
    <3>2. Speaks(d)'
      BY <1>1, <2>1, <3>1, SpeaksOfLess DEF historyVars
    <3>. QED BY <1>1, <2>2, <3>1, <3>2 DEF Speaks
  <2>5. headerFile # Nothing => Behind(headerFile.cursor, scan[s].cursor)'
    BY <1>1, <2>1, <2>2 DEF Behind
  <2>6. FilesFit'
    BY <1>1, <2>1, <2>2, <2>3, <2>4, <2>5 DEF FilesFit, Behind
  <2>7. ScanFits(s)'
    BY <1>1, <2>2, <2>3, <2>4, <2>5 DEF ScanFits
  <2>. QED BY <2>6, <2>7
<1>4. ~ misled' => FilesFit' /\ \A t \in Scanners : ScanFits(t)'
  BY <1>1, <1>3 DEF ScansAlike
<1>. QED BY <1>2, <1>4 DEF ReportInv

LEMMA SaveHeaderKeeps ==
  ASSUME ScansAlike, ReportInv, NEW s \in Scanners, UNCHANGED historyVars, SaveHeader(s)
  PROVE  ReportInv'
<1>1. /\ UNCHANGED <<rowsFile, missed, misled, branch, landed, clock>>
      /\ BranchFits /\ TimesGrow /\ misled \in BOOLEAN /\ DOMAIN scan = Scanners
      /\ scan[s].at = "rows_saved" /\ scan' = [scan EXCEPT ![s] = Idle]
      /\ headerFile' = [config |-> scan[s].config, cursor |-> scan[s].cursor]
  BY DEF ReportInv, historyVars, SaveHeader
<1>2. BranchFits' /\ TimesGrow' /\ misled' \in BOOLEAN /\ DOMAIN scan' = Scanners
  BY <1>1 DEF BranchFits, TimesGrow
<1>3. ASSUME ~ misled PROVE FilesFit' /\ ScanFits(s)'
  <2>1. /\ FilesFit /\ Speaks(scan[s])
        /\ rowsFile # Nothing /\ rowsFile.cursor = scan[s].cursor
    BY <1>1, <1>3 DEF ReportInv, ScanFits
  <2>2. Speaks(rowsFile) /\ rowsFile.cursor \in Nat /\ rowsFile.cursor <= landed
    BY <2>1 DEF FilesFit, Speaks
  <2>3. Speaks(rowsFile)'
    <3>1. ASSUME NEW d, Speaks(d) PROVE Speaks(d)'
      BY <1>1, <3>1, SpeaksOfLess DEF historyVars
    <3>. QED BY <1>1, <2>2, <3>1 DEF Speaks
  <2>4. Behind(rowsFile.cursor, rowsFile.cursor)
    <3>1. DOMAIN branch \subseteq Nat /\ \A k \in DOMAIN branch : branch[k].sha # 0
      BY <1>1, BranchIs
    <3>2. \A k, l \in DOMAIN branch : branch[k].sha = branch[l].sha => k = l
      BY <1>1 DEF BranchFits
    <3>3. \A k \in DOMAIN branch : k <= k
      BY <3>1
    <3>. QED BY <3>1, <3>2, <3>3 DEF Behind
  <2>5. FilesFit'
    BY <1>1, <2>1, <2>2, <2>3, <2>4 DEF FilesFit, Behind
  <2>6. scan'[s] = Idle
    BY <1>1
  <2>. QED BY <2>5, <2>6 DEF ScanFits, Idle
<1>4. ~ misled' => FilesFit' /\ \A t \in Scanners : ScanFits(t)'
  BY <1>1, <1>3 DEF ScansAlike
<1>. QED BY <1>2, <1>4 DEF ReportInv

(***************************************************************************)
(* The scanner's theorem.                                                  *)
(***************************************************************************)
LEMMA ReportInvInit == Init => ReportInv
<1> SUFFICES ASSUME Init PROVE ReportInv
  OBVIOUS
<1>1. /\ branch = <<>> /\ landed = 0 /\ clock = 0 /\ rowsFile = Nothing /\ headerFile = Nothing
      /\ scan = [s \in Scanners |-> Idle] /\ misled = FALSE
  BY DEF Init, HistoryInit, ScanInit
<1>2. BranchFits /\ TimesGrow
  BY <1>1 DEF BranchFits, TimesGrow
<1>. QED BY <1>1, <1>2 DEF ReportInv, FilesFit, ScanFits, Idle

LEMMA ReportInvNext ==
  ASSUME ScansAlike, ReportInv, [Next]_vars
  PROVE  ReportInv'
<1>1. CASE HistoryNext /\ UNCHANGED scanVars
  BY <1>1, HistoryKeepsReport
<1>2. CASE UNCHANGED <<historyVars, scanVars>>
  <2>1. UNCHANGED <<branch, landed, clock, rowsFile, headerFile, scan, missed, misled>>
    BY <1>2 DEF historyVars, scanVars
  <2>2. ASSUME NEW d, Speaks(d) PROVE Speaks(d)'
    BY <1>2, <2>1, <2>2, SpeaksOfLess
  <2>3. BranchFits' /\ TimesGrow' /\ misled' \in BOOLEAN /\ DOMAIN scan' = Scanners
    BY <2>1 DEF ReportInv, BranchFits, TimesGrow
  <2>4. ASSUME FilesFit PROVE FilesFit'
    <3>1. rowsFile # Nothing => Speaks(rowsFile)'
      BY <2>1, <2>2, <2>4 DEF FilesFit, Speaks
    <3>. QED BY <2>1, <2>4, <3>1 DEF FilesFit, Behind
  <2>5. ASSUME NEW s \in Scanners, ScanFits(s) PROVE ScanFits(s)'
    <3>1. scan[s].at # "idle" => Speaks(scan[s])'
      BY <2>1, <2>2, <2>5 DEF ScanFits, Speaks
    <3>. QED BY <2>1, <2>5, <3>1 DEF ScanFits, Behind
  <2>. QED BY <2>1, <2>3, <2>4, <2>5 DEF ReportInv
<1>3. ASSUME NEW s \in Scanners, UNCHANGED historyVars,
             \/ \E config \in Configs, lookback \in Lookbacks, ago \in AsOfs, absent, failed \in SUBSET Shas :
                  RunScan(s, config, lookback, ago, absent, failed)
             \/ EmitReport(s) \/ SaveRows(s) \/ SaveHeader(s) \/ StopScan(s)
      PROVE  ReportInv'
  BY <1>3, RunScanKeeps, StopsKeep, SaveRowsKeeps, SaveHeaderKeeps
<1>. QED BY <1>1, <1>2, <1>3 DEF Next, ScanNext, vars

\* An incremental scan reports what a full scan would, save for what was missed, for
\* any history, configurations, horizons and limit of pull requests, wherever earlier
\* scans stopped (runReportScan, writeScanState), when one process scans with the state
\* directory as of now and with one lookback.
THEOREM IncrementalReports ==
  ASSUME ScansAlike
  PROVE  Spec => IncrementalIsFull
<1>1. Init => ReportInv
  BY ReportInvInit
<1>2. ReportInv /\ [Next]_vars => ReportInv'
  BY ReportInvNext
<1>3. ASSUME ReportInv, [Next]_vars
      PROVE  [\A s \in Scanners : Scanned(s) /\ ~ misled' =>
                 Found(scan'[s].report)
                   = Found(FullReport(scan'[s].config, scan'[s].from, scan'[s].now))]_scan
  <2> SUFFICES ASSUME scan' # scan, NEW s \in Scanners, Scanned(s), ~ misled'
               PROVE  Found(scan'[s].report)
                        = Found(FullReport(scan'[s].config, scan'[s].from, scan'[s].now))
    OBVIOUS
  <2>1. ScanNext /\ UNCHANGED historyVars
    BY <1>3 DEF Next, vars, scanVars
  <2>2. scan[s].at = "idle" /\ scan'[s].at = "emitting"
    BY DEF Scanned, Idle
  <2>3. PICK t \in Scanners :
          \/ \E config \in Configs, lookback \in Lookbacks, ago \in AsOfs, absent, failed \in SUBSET Shas :
               RunScan(t, config, lookback, ago, absent, failed)
          \/ EmitReport(t) \/ SaveRows(t) \/ SaveHeader(t) \/ StopScan(t)
    BY <2>1 DEF ScanNext
  <2>4. t = s
    BY DEF ScansAlike
  <2>5. DOMAIN scan = Scanners
    BY <1>3 DEF ReportInv
  <2>6. ~ (EmitReport(s) \/ SaveRows(s) \/ SaveHeader(s) \/ StopScan(s))
    BY <2>2, <2>5 DEF EmitReport, SaveRows, SaveHeader, StopScan, Idle
  <2>7. PICK config \in Configs, lookback \in Lookbacks, ago \in AsOfs, absent, failed \in SUBSET Shas :
          RunScan(s, config, lookback, ago, absent, failed)
    BY <2>3, <2>4, <2>6
  <2>. QED BY <1>3, <2>1, <2>7, RunScanKeeps
<1>. QED BY <1>1, <1>2, <1>3, PTL DEF Spec, IncrementalIsFull

=============================================================================

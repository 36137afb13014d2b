-------------------------- MODULE DerivationProofs --------------------------
(***************************************************************************)
(* What the derivations MCDerivations runs are worth for any trees, rows   *)
(* and clocks: the survival label, the report, the row of a run, and the   *)
(* cost of a task.                                                         *)
(***************************************************************************)
EXTENDS MCDerivations, FiniteSetTheorems, SequenceTheorems, WellFoundedInduction, TLAPS

(***************************************************************************)
(* Sums over finite sets.  The recursion of Folds is worth the number of   *)
(* pairs of an element and a number up to its value: that the recursion    *)
(* has a solution, and what it is, are both read off the pairs.            *)
(***************************************************************************)
SumIter(g, S) ==
  CHOOSE iter : iter = [s \in SUBSET S |-> IF s = {} THEN 0
     ELSE LET x == CHOOSE y \in s : TRUE IN g[x] + iter[s \ {x}]]

Pairs(g, s) == {p \in s \X Nat : p[2] \in 1..g[p[1]]}

\* The pairs of a finite set are finitely many.
LEMMA PairsFinite ==
  ASSUME NEW S, IsFiniteSet(S), NEW g, \A x \in S : g[x] \in Nat
  PROVE IsFiniteSet(Pairs(g, S))
<1> DEFINE Column(x) == {x} \X (1..g[x])
<1> DEFINE Columns == {Column(x) : x \in S}
<1> DEFINE f == [x \in S |-> Column(x)]
<1>1. f \in Surjection(S, Columns)
  BY DEF Surjection
<1>2. IsFiniteSet(Columns)
  <2> HIDE DEF f, Columns
  <2>. QED BY <1>1, FS_Surjection
<1>3. \A x \in S : IsFiniteSet(Column(x))
  <2> TAKE x \in S
  <2>1. IsFiniteSet(1..g[x]) /\ IsFiniteSet({x})
    <3>1. g[x] \in Nat
      OBVIOUS
    <3>2. IsFiniteSet(1..g[x])
      BY <3>1, FS_Interval
    <3>. QED BY <3>2, FS_Singleton
  <2>. QED BY <2>1, FS_Product
<1>4. IsFiniteSet(UNION Columns)
  BY <1>2, <1>3, FS_UNION
<1>5. Pairs(g, S) = UNION Columns
  <2>1. ASSUME NEW p \in Pairs(g, S) PROVE p \in UNION Columns
    <3>1. p = <<p[1], p[2]>> /\ p[1] \in S /\ p[2] \in 1..g[p[1]]
      BY DEF Pairs
    <3>2. p \in Column(p[1])
      BY <3>1
    <3>. QED BY <3>1, <3>2
  <2>2. ASSUME NEW p \in UNION Columns PROVE p \in Pairs(g, S)
    <3>1. PICK x \in S : p \in Column(x)
      OBVIOUS
    <3>2. p = <<x, p[2]>> /\ p[2] \in 1..g[x] /\ g[x] \in Nat
      BY <3>1
    <3>. QED BY <3>2 DEF Pairs
  <2>. QED BY <2>1, <2>2
<1>. QED BY <1>4, <1>5

\* Taking an element out takes out as many pairs as its value says.
LEMMA PairsStep ==
  ASSUME NEW S, IsFiniteSet(S), NEW g, \A x \in S : g[x] \in Nat, NEW x \in S
  PROVE Cardinality(Pairs(g, S)) = g[x] + Cardinality(Pairs(g, S \ {x}))
<1> DEFINE rest == S \ {x}
<1> DEFINE column == {x} \X (1..g[x])
<1>0. g[x] \in Nat
  OBVIOUS
<1>1. IsFiniteSet(1..g[x]) /\ Cardinality(1..g[x]) = g[x]
  BY <1>0, FS_Interval, SMTT(20)
<1>2. IsFiniteSet(column) /\ Cardinality(column) = g[x]
  <2>1. IsFiniteSet({x}) /\ Cardinality({x}) = 1
    BY FS_Singleton
  <2>2. /\ IsFiniteSet(column)
        /\ Cardinality(column) = Cardinality({x}) * Cardinality(1..g[x])
    BY <1>1, <2>1, FS_Product
  <2>. QED BY <1>0, <1>1, <2>1, <2>2
<1>3. IsFiniteSet(Pairs(g, rest))
  <2>1. IsFiniteSet(rest)
    BY FS_Subset
  <2>. QED BY <2>1, PairsFinite
<1>4. Pairs(g, S) = column \cup Pairs(g, rest)
  <2>1. ASSUME NEW p \in Pairs(g, S) PROVE p \in column \cup Pairs(g, rest)
    <3>1. p = <<p[1], p[2]>> /\ p[1] \in S /\ p[2] \in 1..g[p[1]] /\ p[2] \in Nat
      BY DEF Pairs
    <3>2. CASE p[1] = x
      BY <3>1, <3>2
    <3>3. CASE p[1] # x
      BY <3>1, <3>3 DEF Pairs
    <3>. QED BY <3>2, <3>3
  <2>2. ASSUME NEW p \in column PROVE p \in Pairs(g, S)
    <3>1. p = <<x, p[2]>> /\ p[2] \in 1..g[x] /\ p[2] \in Nat
      BY <1>0, <2>2
    <3>. QED BY <3>1 DEF Pairs
  <2>3. Pairs(g, rest) \subseteq Pairs(g, S)
    BY DEF Pairs
  <2>. QED BY <2>1, <2>2, <2>3
<1>5. column \cap Pairs(g, rest) = {}
  BY DEF Pairs
<1>6. Cardinality(Pairs(g, rest)) \in Nat
  BY <1>3, FS_CardinalityType
<1>7. Cardinality(column \cap Pairs(g, rest)) = 0
  BY <1>5, FS_EmptySet
<1>8. Cardinality(column \cup Pairs(g, rest))
        = Cardinality(column) + Cardinality(Pairs(g, rest)) - Cardinality(column \cap Pairs(g, rest))
  <2> HIDE DEF column, rest
  <2>. QED BY <1>2, <1>3, FS_Union
<1>. QED BY <1>0, <1>2, <1>4, <1>6, <1>7, <1>8

\* A sum is the number of its pairs.
LEMMA SumIs ==
  ASSUME NEW S, IsFiniteSet(S), NEW g, \A x \in S : g[x] \in Nat
  PROVE SumIter(g, S)[S] = Cardinality(Pairs(g, S))
<1> DEFINE picked(s) == CHOOSE y \in s : TRUE
<1> DEFINE Solves(iter) == iter = [s \in SUBSET S |-> IF s = {} THEN 0
     ELSE LET x == CHOOSE y \in s : TRUE IN g[x] + iter[s \ {x}]]
<1> DEFINE count == [s \in SUBSET S |-> Cardinality(Pairs(g, s))]
<1>1. ASSUME NEW s \in SUBSET S, s # {}
      PROVE /\ picked(s) \in s
            /\ Cardinality(Pairs(g, s)) = g[picked(s)] + Cardinality(Pairs(g, s \ {picked(s)}))
  <2>1. PICK x \in s : x = picked(s)
    BY <1>1
  <2>2. IsFiniteSet(s)
    BY FS_Subset
  <2>3. Cardinality(Pairs(g, s)) = g[x] + Cardinality(Pairs(g, s \ {x}))
    BY <2>2, PairsStep
  <2>. QED BY <2>1, <2>3
<1>2. Cardinality(Pairs(g, {})) = 0
  <2>1. Pairs(g, {}) = {}
    BY DEF Pairs
  <2>. QED BY <2>1, FS_EmptySet
<1>3. Solves(count)
  <2>1. ASSUME NEW s \in SUBSET S
        PROVE count[s] = IF s = {} THEN 0
                ELSE LET x == CHOOSE y \in s : TRUE IN g[x] + count[s \ {x}]
    <3>1. CASE s = {}
      BY <1>2, <3>1
    <3>2. CASE s # {}
      <4>1. s \ {picked(s)} \in SUBSET S
        OBVIOUS
      <4>. QED BY <1>1, <3>2, <4>1
    <3>. QED BY <3>1, <3>2
  <2> DEFINE G(iter) == [s \in SUBSET S |-> IF s = {} THEN 0
        ELSE LET x == CHOOSE y \in s : TRUE IN g[x] + iter[s \ {x}]]
  <2>2. \A s \in SUBSET S : count[s] = G(count)[s]
    BY <2>1
  <2>3. count = [s \in SUBSET S |-> count[s]]
    OBVIOUS
  <2>4. G(count) = [s \in SUBSET S |-> G(count)[s]]
    OBVIOUS
  <2>. QED BY <2>2, <2>3, <2>4
<1> DEFINE sum == SumIter(g, S)
<1>4. Solves(sum)
  <2>1. \E iter : Solves(iter)
    BY <1>3
  <2>. QED BY <2>1 DEF SumIter
<1>5. sum[{}] = 0
  BY <1>4
<1>6. ASSUME NEW s \in SUBSET S, s # {} PROVE sum[s] = g[picked(s)] + sum[s \ {picked(s)}]
  BY <1>4, <1>6
<1> HIDE DEF sum, Solves
<1> DEFINE wrong == {s \in SUBSET S : sum[s] # count[s]}
<1>7. wrong = {}
  <2> SUFFICES ASSUME wrong # {} PROVE FALSE
    OBVIOUS
  <2>1. IsWellFoundedOn(StrictSubsetOrdering(S), SUBSET S)
    BY FS_StrictSubsetOrderingWellFounded, FS_FiniteSubsetsOfFinite
  <2>2. \E s \in wrong : \A t \in wrong : ~ (<<t, s>> \in StrictSubsetOrdering(S))
    <3>1. wrong \subseteq SUBSET S
      OBVIOUS
    <3> HIDE DEF wrong
    <3>. QED BY <2>1, <3>1, WFMin
  <2>3. PICK s \in wrong : \A t \in wrong : ~ (<<t, s>> \in StrictSubsetOrdering(S))
    BY <2>2
  <2>4. s # {}
    BY <1>2, <1>5
  <2>5. PICK x \in s : /\ x = picked(s)
                       /\ Cardinality(Pairs(g, s)) = g[x] + Cardinality(Pairs(g, s \ {x}))
                       /\ sum[s] = g[x] + sum[s \ {x}]
    BY <1>1, <1>6, <2>4
  <2>6. s \ {x} \notin wrong
    <3>1. <<s \ {x}, s>> \in StrictSubsetOrdering(S)
      BY <2>5 DEF StrictSubsetOrdering
    <3>. QED BY <2>3, <3>1
  <2>7. sum[s \ {x}] = Cardinality(Pairs(g, s \ {x}))
    BY <2>6
  <2>. QED BY <2>3, <2>5, <2>7
<1>. QED BY <1>7 DEF sum

\* A sum of natural numbers is one.
LEMMA SumIsNat ==
  ASSUME NEW S, IsFiniteSet(S), NEW g, \A x \in S : g[x] \in Nat
  PROVE SumIter(g, S)[S] \in Nat
BY SumIs, PairsFinite, FS_CardinalityType

\* A sum of smaller numbers is no larger.
LEMMA SumIsMonotone ==
  ASSUME NEW S, IsFiniteSet(S), NEW g, NEW h,
         \A x \in S : g[x] \in Nat /\ h[x] \in Nat /\ g[x] <= h[x]
  PROVE SumIter(g, S)[S] <= SumIter(h, S)[S]
<1>1. Pairs(g, S) \subseteq Pairs(h, S)
  BY DEF Pairs
<1>2. IsFiniteSet(Pairs(h, S))
  BY PairsFinite
<1>. QED BY <1>1, <1>2, SumIs, FS_Subset

-----------------------------------------------------------------------------
(***************************************************************************)
(* The report.                                                             *)
(***************************************************************************)
ReportInv == prs \in [PullRequests -> Nat]

\* How many rows of some kinds a report holds is a natural number.
LEMMA CountIsNat ==
  ASSUME ReportInv, IsFiniteSet(PullRequests), NEW kinds \in SUBSET PullRequests
  PROVE Count(kinds) \in Nat
<1>1. IsFiniteSet(kinds)
  BY FS_Subset
<1>2. \A pr \in kinds : prs[pr] \in Nat
  BY DEF ReportInv
<1>3. Count(kinds) = SumIter(prs, kinds)[kinds]
  BY DEF Count, FoldFunctionOnSet, MapThenFoldSet, SumIter
<1>. QED BY <1>1, <1>2, <1>3, SumIsNat

\* A cell as it is built.
IsBuilt(cell) == \E about, statistic : \E n \in Nat : cell = Cell(about, statistic, n)

\* What hiding makes of a cell.
LEMMA HiddenIs ==
  ASSUME NEW about, NEW statistic, NEW n, NEW v, NEW s, NEW q, NEW r
  PROVE Hidden([about |-> about, statistic |-> statistic, n |-> n, valued |-> v,
                suppressed |-> s, reasons |-> q], r)
          = [about |-> about, statistic |-> statistic, n |-> n, valued |-> FALSE,
             suppressed |-> TRUE, reasons |-> q \cup r]
<1>1. PICK c : c = [about |-> about, statistic |-> statistic, n |-> n, valued |-> v,
                    suppressed |-> s, reasons |-> q]
  OBVIOUS
<1>2. PICK no, yes, all : no = FALSE /\ yes = TRUE /\ all = q \cup r
  OBVIOUS
<1>3. Hidden(c, r) = [about |-> about, statistic |-> statistic, n |-> n, valued |-> FALSE,
                      suppressed |-> TRUE, reasons |-> q \cup r]
  <2>1. [c EXCEPT !.valued = no, !.suppressed = yes, !.reasons = all]
          = [about |-> about, statistic |-> statistic, n |-> n, valued |-> no,
             suppressed |-> yes, reasons |-> all]
    <3>1. PICK d : d = [c EXCEPT !.valued = no]
      OBVIOUS
    <3>2. d = [about |-> about, statistic |-> statistic, n |-> n, valued |-> no,
               suppressed |-> s, reasons |-> q]
      BY <1>1, <3>1
    <3>3. PICK e : e = [d EXCEPT !.suppressed = yes]
      OBVIOUS
    <3>4. e = [about |-> about, statistic |-> statistic, n |-> n, valued |-> no,
               suppressed |-> yes, reasons |-> q]
      BY <3>2, <3>3
    <3>5. [e EXCEPT !.reasons = all] = [about |-> about, statistic |-> statistic, n |-> n,
               valued |-> no, suppressed |-> yes, reasons |-> all]
      BY <3>4
    <3>. QED BY <3>1, <3>3, <3>5
  <2>2. c.reasons = q
    BY <1>1
  <2>3. Hidden(c, r) = [c EXCEPT !.valued = no, !.suppressed = yes, !.reasons = all]
    BY <1>2, <2>2 DEF Hidden
  <2>. QED BY <1>2, <2>1, <2>3
<1>. QED BY <1>1, <1>3

\* Suppression leaves a sound cell, hidden where there is a reason to, that
\* suppression leaves as it is.
LEMMA CellIsSettled ==
  ASSUME MinCell \in Nat \ {0}, NEW cell, IsBuilt(cell), NEW reasons
  PROVE /\ CellIsSound(SuppressCell(cell, reasons))
        /\ reasons # {} => SuppressCell(cell, reasons).suppressed
        /\ SuppressCell(SuppressCell(cell, reasons), reasons) = SuppressCell(cell, reasons)
<1>1. PICK about, statistic : \E n \in Nat : cell = Cell(about, statistic, n)
  BY DEF IsBuilt
<1>2. PICK n \in Nat : cell = Cell(about, statistic, n)
  BY <1>1
<1> DEFINE all == reasons \cup (IF n < MinCell THEN {"n_below_floor"} ELSE {})
<1> DEFINE hidden == [about |-> about, statistic |-> statistic, n |-> n, valued |-> FALSE,
                      suppressed |-> TRUE, reasons |-> all]
<1>3. SuppressCell(cell, reasons) = IF all = {} THEN cell ELSE hidden
  <2>1. SuppressCell(cell, reasons) = IF all = {} THEN cell ELSE Hidden(cell, all)
    BY <1>2 DEF SuppressCell, Cell
  <2>2. \A r : Hidden(Cell(about, statistic, n), r)
                = [about |-> about, statistic |-> statistic, n |-> n, valued |-> FALSE,
                   suppressed |-> TRUE, reasons |-> {} \cup r]
    BY HiddenIs DEF Cell
  <2>3. {} \cup all = all
    OBVIOUS
  <2> HIDE DEF all
  <2>. QED BY <1>2, <2>1, <2>2, <2>3
<1>4. SuppressCell(hidden, reasons) = hidden
  <2>1. SuppressCell(hidden, reasons) = IF all = {} THEN hidden ELSE Hidden(hidden, all)
    BY DEF SuppressCell
  <2>2. \A r, q : Hidden([about |-> about, statistic |-> statistic, n |-> n, valued |-> FALSE,
                          suppressed |-> TRUE, reasons |-> q], r)
                = [about |-> about, statistic |-> statistic, n |-> n, valued |-> FALSE,
                   suppressed |-> TRUE, reasons |-> q \cup r]
    BY HiddenIs
  <2>3. all \cup all = all
    OBVIOUS
  <2> HIDE DEF all
  <2>. QED BY <2>1, <2>2, <2>3
<1>5. CASE all = {}
  <2>1. n > 0
    BY <1>5
  <2>2. SuppressCell(cell, reasons) = cell /\ reasons = {}
    BY <1>3, <1>5
  <2>3. CellIsSound(cell)
    BY <1>2, <2>1 DEF CellIsSound, Cell
  <2>. QED BY <2>2, <2>3
<1>6. CASE all # {}
  BY <1>3, <1>4, <1>6 DEF CellIsSound
<1>. QED BY <1>5, <1>6

\* Suppression leaves a sound section, hidden where there is a reason to, that
\* suppression leaves as it is.
LEMMA SectionIsSettled ==
  ASSUME MinCell \in Nat \ {0}, NEW cells, \A cell \in cells : IsBuilt(cell), NEW reasons
  PROVE LET section == SuppressSection(Section(cells), reasons)
        IN /\ SectionIsSound(section)
           /\ reasons # {} => section.status # "shown"
           /\ SuppressSection(section, reasons) = section
<1> DEFINE after == {SuppressCell(cell, reasons) : cell \in cells}
<1> DEFINE again == {SuppressCell(cell, reasons) : cell \in after}
<1> DEFINE closed == reasons # {} \/ \A cell \in after : cell.suppressed
<1> DEFINE few == IF after = {} THEN {"n_below_floor"} ELSE {}
<1> DEFINE told == reasons \cup (UNION {cell.reasons : cell \in after}) \cup few
<1> DEFINE section == SuppressSection(Section(cells), reasons)
<1>1. \A cell \in after : CellIsSound(cell) /\ (reasons # {} => cell.suppressed)
  BY CellIsSettled
<1>2. again = after
  BY CellIsSettled
<1>3. section = IF closed THEN [status |-> "suppressed", cells |-> after, reasons |-> told]
                ELSE [status |-> "shown", cells |-> after, reasons |-> {}]
  <2>1. {} \cup reasons \cup (UNION {cell.reasons : cell \in after})
          \cup (IF after = {} THEN {"n_below_floor"} ELSE {}) = told
    OBVIOUS
  <2>. QED BY <2>1 DEF SuppressSection, Section
<1>4. CASE closed
  <2>1. told # {}
    <3>1. CASE after = {}
      <4>1. "n_below_floor" \in few
        BY <3>1
      <4>2. few \subseteq told
        <5> HIDE DEF few, after
        <5>. QED BY DEF told
      <4> HIDE DEF few, told
      <4>. QED BY <4>1, <4>2
    <3>2. CASE reasons # {}
      BY <3>2
    <3>3. CASE after # {} /\ reasons = {}
      <4>1. PICK cell \in after : TRUE
        BY <3>3
      <4>2. cell.suppressed /\ cell.reasons # {}
        BY <1>1, <1>4, <3>3, <4>1 DEF CellIsSound
      <4>. QED BY <4>1, <4>2
    <3>. QED BY <3>1, <3>2, <3>3
  <2>2. SectionIsSound(section)
    BY <1>1, <1>3, <1>4, <2>1 DEF SectionIsSound
  <2>3. told \cup reasons \cup (UNION {cell.reasons : cell \in after})
          \cup (IF after = {} THEN {"n_below_floor"} ELSE {}) = told
    OBVIOUS
  <2>4. section = [status |-> "suppressed", cells |-> after, reasons |-> told]
    BY <1>3, <1>4
  <2>5. SuppressSection([status |-> "suppressed", cells |-> after, reasons |-> told], reasons)
          = [status |-> "suppressed", cells |-> again,
             reasons |-> told \cup reasons \cup (UNION {cell.reasons : cell \in again})
                           \cup (IF again = {} THEN {"n_below_floor"} ELSE {})]
    <3> HIDE DEF told
    <3>1. reasons # {} \/ \A cell \in again : cell.suppressed
      BY <1>2, <1>4
    <3> HIDE DEF after
    <3>. QED BY <3>1 DEF SuppressSection
  <2>6. SuppressSection(section, reasons) = section
    <3> HIDE DEF told, section, after, again
    <3>1. again = after
      BY <1>2
    <3>. QED BY <2>3, <2>4, <2>5, <3>1
  <2>7. section.status # "shown"
    BY <2>4
  <2> HIDE DEF told, closed, after, again
  <2>. QED BY <2>2, <2>6, <2>7
<1>5. CASE ~closed
  <2>1. section = [status |-> "shown", cells |-> after, reasons |-> {}]
    BY <1>3, <1>5
  <2>2. SectionIsSound(section)
    BY <1>1, <2>1 DEF SectionIsSound
  <2>3. SuppressSection([status |-> "shown", cells |-> after, reasons |-> {}], reasons)
          = [status |-> "shown", cells |-> again, reasons |-> {}]
    <3>1. ~ (reasons # {} \/ \A cell \in again : cell.suppressed)
      BY <1>2, <1>5
    <3> HIDE DEF after
    <3>. QED BY <3>1 DEF SuppressSection
  <2>. QED BY <1>2, <1>5, <2>1, <2>2, <2>3
<1>. QED BY <1>4, <1>5

\* Every cell of the draft counts rows.
LEMMA DraftIsBuilt ==
  ASSUME ReportInv
  PROVE /\ \A cell \in ByOutcome \cup Risks \cup By("model") \cup By("harness") : IsBuilt(cell)
        /\ Draft = [survival_by_horizon |-> Section(ByOutcome), risk_ratios |-> Section(Risks),
                    survival_by_model |-> Section(By("model")),
                    survival_by_harness |-> Section(By("harness")),
                    cost_adjusted_survival_by_model |-> Section({})]
<1>0. /\ PullRequests \subseteq Row /\ IsFiniteSet(PullRequests)
      /\ \A kinds \in SUBSET PullRequests : Count(kinds) \in Nat
  BY ReportAssumption, CountIsNat
<1>1. ASSUME NEW cell \in ByOutcome PROVE IsBuilt(cell)
  <2>1. PICK h \in Periods, outcome \in Outcomes :
          cell = Cell(<<h, outcome>>, "cell", Count(Labelled(h)))
    BY <1>1 DEF ByOutcome
  <2>2. Count(Labelled(h)) \in Nat
    BY <1>0 DEF Labelled
  <2>. QED BY <2>1, <2>2 DEF IsBuilt
<1>2. ASSUME NEW cell \in Risks PROVE IsBuilt(cell)
  <2>1. PICK h \in Periods, bucket \in {"b1", "b2"} : cell \in Risk(h, bucket)
    BY <1>2 DEF Risks
  <2> DEFINE group == Count({pr \in Labelled(h) : pr.bucket = bucket})
  <2> DEFINE outside == Count({pr \in Labelled(h) : pr.bucket \notin {"none", bucket}})
  <2>2. group \in Nat /\ outside \in Nat
    BY <1>0 DEF Labelled
  <2>3. Min({group, outside}) \in Nat
    <3> HIDE DEF group, outside
    <3>1. \E x \in {group, outside} : \A y \in {group, outside} : x <= y
      BY <2>2
    <3>. QED BY <2>2, <3>1 DEF Min
  <2>4. \/ cell = Cell(<<h, bucket>>, "rework_rate", group)
        \/ cell = Cell(<<h, bucket>>, "baseline_rate", outside)
        \/ cell = Cell(<<h, bucket>>, "ratio", Min({group, outside}))
    BY <2>1 DEF Risk
  <2> HIDE DEF group, outside
  <2>. QED BY <2>2, <2>3, <2>4 DEF IsBuilt
<1>3. ASSUME NEW id, NEW cell \in By(id) PROVE IsBuilt(cell)
  <2> DEFINE present(h) == {pr \in Labelled(h) : prs[pr] > 0 /\ pr[id] # "none"}
  <2>1. PICK h \in Periods :
          cell \in {Cell(<<h, one>>, "cell", Count({pr \in present(h) : pr[id] = one})) :
                      one \in {pr[id] : pr \in present(h)}}
    BY <1>3 DEF By
  <2>2. PICK one : cell = Cell(<<h, one>>, "cell", Count({pr \in present(h) : pr[id] = one}))
    BY <2>1
  <2>3. Count({pr \in present(h) : pr[id] = one}) \in Nat
    BY <1>0 DEF Labelled
  <2> HIDE DEF present
  <2>. QED BY <2>2, <2>3 DEF IsBuilt
<1>. QED BY <1>1, <1>2, <1>3 DEF Draft

\* Where rows are counted by natural numbers, the report is valid.
LEMMA CountsMakeReports ==
  ASSUME ReportInv PROVE ReportIsValid
<1>0. MinCell \in Nat \ {0}
  BY ReportAssumption
<1> DEFINE horizon == SuppressSection(Section(ByOutcome), {})
<1> DEFINE risk == SuppressSection(Section(Risks), {})
<1> DEFINE model == SuppressSection(Section(By("model")), ModelReasons)
<1> DEFINE host == SuppressSection(Section(By("harness")), HarnessReasons)
<1> DEFINE cost == SuppressSection(Section({}), CostReasons)
<1> DEFINE report == [survival_by_horizon |-> horizon, risk_ratios |-> risk,
      survival_by_model |-> model, survival_by_harness |-> host,
      cost_adjusted_survival_by_model |-> cost]
<1>1. Suppressed(Draft) = report
  BY DraftIsBuilt DEF Suppressed
<1>2. SectionIsSound(horizon) /\ SuppressSection(horizon, {}) = horizon
  BY <1>0, DraftIsBuilt, SectionIsSettled
<1>3. SectionIsSound(risk) /\ SuppressSection(risk, {}) = risk
  BY <1>0, DraftIsBuilt, SectionIsSettled
<1>4. /\ SectionIsSound(model) /\ SuppressSection(model, ModelReasons) = model
      /\ ModelReasons # {} => model.status # "shown"
  BY <1>0, DraftIsBuilt, SectionIsSettled
<1>5. /\ SectionIsSound(host) /\ SuppressSection(host, HarnessReasons) = host
      /\ HarnessReasons # {} => host.status # "shown"
  BY <1>0, DraftIsBuilt, SectionIsSettled
<1>6. /\ SectionIsSound(cost) /\ SuppressSection(cost, CostReasons) = cost
      /\ CostReasons # {} => cost.status # "shown"
  BY <1>0, SectionIsSettled
<1>7. /\ ~ExactTable => ModelReasons # {}
      /\ ~HarnessTable => HarnessReasons # {}
      /\ CostReasons # {}
  BY DEF ModelReasons, HarnessReasons, CostReasons
<1> HIDE DEF horizon, risk, model, host, cost
<1>8. Suppressed(report) = report
  BY <1>2, <1>3, <1>4, <1>5, <1>6 DEF Suppressed
<1>9. \A name \in DOMAIN report : SectionIsSound(report[name])
  BY <1>2, <1>3, <1>4, <1>5, <1>6
<1>10. EligibilityIsSound(Eligibility(report), report)
  BY <1>4, <1>5, <1>6, <1>7 DEF EligibilityIsSound, Eligibility
<1> HIDE DEF report
<1>. QED BY <1>1, <1>8, <1>9, <1>10 DEF ReportIsValid, IsReport

\* Every row that is added is one more of its kind.
LEMMA RowsAreCounted ==
  DerivationsSpec => []ReportInv
<1>1. DerivationsInit => ReportInv
  BY DEF DerivationsInit, ReportInit, ReportInv
<1>2. ReportInv /\ [DerivationsNext]_derivationVars => ReportInv'
  <2> SUFFICES ASSUME ReportInv, [DerivationsNext]_derivationVars PROVE ReportInv'
    OBVIOUS
  <2>1. CASE UNCHANGED prs
    BY <2>1 DEF ReportInv
  <2>2. CASE ReportNext
    <3>1. PICK pr \in PullRequests : prs' = [prs EXCEPT ![pr] = @ + 1]
      BY <2>2 DEF ReportNext, AddRow
    <3>. QED BY <3>1 DEF ReportInv
  <2>3. UNCHANGED prs \/ ReportNext
    BY DEF DerivationsNext, derivationVars
  <2>. QED BY <2>1, <2>2, <2>3
<1>. QED BY <1>1, <1>2, PTL DEF DerivationsSpec

\* Whatever rows a report holds, and however many of each, it passes its own
\* validation, as far as IsReport models it, and suppressing it again leaves it as
\* it is: no cell, section or eligibility of a report makes emitReport throw.
THEOREM ReportsAreAlwaysValid ==
  DerivationsSpec => []ReportsAreValid
<1>1. ReportInv => ReportsAreValid
  BY CountsMakeReports DEF ReportsAreValid
<1>. QED BY <1>1, RowsAreCounted, PTL

-----------------------------------------------------------------------------
(***************************************************************************)
(* The search for the horizon's tree.                                      *)
(***************************************************************************)
\* A set of natural numbers has a least one.
LEMMA LeastExists ==
  ASSUME NEW T \in SUBSET Nat, T # {}
  PROVE Min(T) \in T /\ \A y \in T : Min(T) <= y
<1> DEFINE Less == OpToRel(<, Nat)
<1>1. \E x \in T : \A y \in T : ~ (<<y, x>> \in Less)
  <2>1. IsWellFoundedOn(Less, Nat)
    BY NatLessThanWellFounded
  <2> HIDE DEF Less
  <2>. QED BY <2>1, WFMin
<1>2. \A x, y \in Nat : y < x => <<y, x>> \in Less
  BY DEF OpToRel
<1>3. PICK x \in T : \A y \in T : ~ (y < x)
  BY <1>1, <1>2
<1>4. \A y \in T : x <= y
  BY <1>3
<1>. QED BY <1>4 DEF Min

\* A bounded set of numbers has a greatest one.
LEMMA GreatestExists ==
  ASSUME NEW n \in Nat, NEW T \in SUBSET (1..n), T # {}
  PROVE Max(T) \in T /\ \A y \in T : Max(T) >= y
<1> DEFINE mirror == {n - x : x \in T}
<1>1. mirror \in SUBSET Nat /\ mirror # {}
  <2>1. \A x \in T : n - x \in Nat
    OBVIOUS
  <2>. QED BY <2>1
<1>2. PICK m \in mirror : \A y \in mirror : m <= y
  <2> HIDE DEF mirror
  <2>. QED BY <1>1, LeastExists
<1>3. PICK x \in T : m = n - x
  OBVIOUS
<1>4. \A y \in T : x >= y
  <2> TAKE y \in T
  <2>1. n - x <= n - y
    BY <1>2, <1>3
  <2>2. x \in 1..n /\ y \in 1..n
    OBVIOUS
  <2>. QED BY <2>1, <2>2
<1>. QED BY <1>4 DEF Max

\* The binary search of Lookup.
Halving(size, mins, cutoff) ==
  CHOOSE Search : Search = [w \in (1..size + 1) \X (1..size + 1) |->
    LET lo == w[1]  hi == w[2]  mid == (lo + hi) \div 2
    IN IF lo >= hi THEN lo
       ELSE IF mins[mid] <= cutoff THEN Search[<<lo, mid>>] ELSE Search[<<mid + 1, hi>>]]

\* Where the values in time are those from some position on, the search finds it.
LEMMA HalvingFinds ==
  ASSUME NEW size \in Nat, NEW mins, NEW cutoff, NEW from \in 1..size + 1,
         \A p \in 1..size : mins[p] <= cutoff <=> p >= from
  PROVE Halving(size, mins, cutoff)[<<1, size + 1>>] = from
<1> DEFINE Ends == 1..size + 1
<1> DEFINE Body(f, l, h) ==
      LET lo == l  hi == h  mid == (lo + hi) \div 2
      IN IF lo >= hi THEN lo
         ELSE IF mins[mid] <= cutoff THEN f[<<lo, mid>>] ELSE f[<<mid + 1, hi>>]
<1> DEFINE Solves(f) == f = [w \in Ends \X Ends |-> Body(f, w[1], w[2])]
<1> DEFINE Clamped(lo, hi) ==
      IF lo >= hi \/ from <= lo THEN lo ELSE IF from >= hi THEN hi ELSE from
<1> DEFINE clamp == [w \in Ends \X Ends |-> Clamped(w[1], w[2])]
<1>1. ASSUME NEW lo \in Ends, NEW hi \in Ends, lo < hi
      PROVE LET mid == (lo + hi) \div 2
            IN mid \in 1..size /\ lo <= mid /\ mid < hi
  BY <1>1
<1>2. ASSUME NEW lo \in Ends, NEW hi \in Ends PROVE clamp[<<lo, hi>>] = Body(clamp, lo, hi)
  <2>1. CASE lo >= hi
    BY <2>1
  <2>2. CASE lo < hi
    <3>1. PICK mid : mid = (lo + hi) \div 2
      OBVIOUS
    <3>2. mid \in 1..size /\ lo <= mid /\ mid < hi
      BY <1>1, <2>2, <3>1
    <3>3. mid \in Ends /\ mid + 1 \in Ends
      BY <3>2
    <3>4. CASE mins[mid] <= cutoff
      <4>1. from <= mid
        BY <3>2, <3>4
      <4>2. Clamped(lo, hi) = Clamped(lo, mid)
        BY <2>2, <3>2, <4>1
      <4>3. clamp[<<lo, hi>>] = Clamped(lo, hi) /\ clamp[<<lo, mid>>] = Clamped(lo, mid)
        BY <3>3
      <4>4. Body(clamp, lo, hi) = clamp[<<lo, mid>>]
        <5> HIDE DEF clamp
        <5>. QED BY <2>2, <3>1, <3>4
      <4> HIDE DEF clamp, Clamped, Body
      <4>. QED BY <4>2, <4>3, <4>4
    <3>5. CASE ~ (mins[mid] <= cutoff)
      <4>1. from > mid
        BY <3>2, <3>5
      <4>2. Clamped(lo, hi) = Clamped(mid + 1, hi)
        BY <2>2, <3>2, <4>1
      <4>3. clamp[<<lo, hi>>] = Clamped(lo, hi) /\ clamp[<<mid + 1, hi>>] = Clamped(mid + 1, hi)
        BY <3>3
      <4>4. Body(clamp, lo, hi) = clamp[<<mid + 1, hi>>]
        <5> HIDE DEF clamp
        <5>. QED BY <2>2, <3>1, <3>5
      <4> HIDE DEF clamp, Clamped, Body
      <4>. QED BY <4>2, <4>3, <4>4
    <3>. QED BY <3>4, <3>5
  <2>. QED BY <2>1, <2>2
<1>3. Solves(clamp)
  <2> DEFINE other == [w \in Ends \X Ends |-> Body(clamp, w[1], w[2])]
  <2>1. clamp = [e \in Ends \X Ends |-> clamp[e]] /\ other = [e \in Ends \X Ends |-> other[e]]
    OBVIOUS
  <2>2. \A e \in Ends \X Ends : clamp[e] = other[e]
    <3> TAKE e \in Ends \X Ends
    <3>1. PICK lo \in Ends, hi \in Ends : e = <<lo, hi>>
      OBVIOUS
    <3>2. other[<<lo, hi>>] = Body(clamp, lo, hi)
      <4> HIDE DEF clamp
      <4>. QED OBVIOUS
    <3>3. clamp[<<lo, hi>>] = other[<<lo, hi>>]
      <4> HIDE DEF clamp, other, Body
      <4>. QED BY <1>2, <3>2
    <3> HIDE DEF clamp, other
    <3>. QED BY <3>1, <3>3
  <2>3. clamp = other
    <3> HIDE DEF clamp, other
    <3>. QED BY <2>1, <2>2
  <2>. QED BY <2>3
<1> DEFINE found == Halving(size, mins, cutoff)
<1>4. Solves(found)
  <2>1. \E f : Solves(f)
    <3> HIDE DEF Solves, clamp
    <3>. QED BY <1>3
  <2>. QED BY <2>1 DEF Halving
<1>5. ASSUME NEW lo \in Ends, NEW hi \in Ends PROVE found[<<lo, hi>>] = Body(found, lo, hi)
  <2> HIDE DEF found
  <2>. QED BY <1>4
<1> DEFINE wrong == {d \in 0..size : \E lo, hi \in Ends :
                       lo <= hi /\ hi - lo = d /\ found[<<lo, hi>>] # Clamped(lo, hi)}
<1> HIDE DEF found, Solves, clamp
<1>6. wrong = {}
  <2> SUFFICES ASSUME wrong # {} PROVE FALSE
    OBVIOUS
  <2>1. wrong \in SUBSET Nat
    OBVIOUS
  <2>2. PICK d \in wrong : \A e \in wrong : d <= e
    <3> HIDE DEF wrong
    <3>. QED BY <2>1, LeastExists
  <2>3. PICK lo \in Ends, hi \in Ends : lo <= hi /\ hi - lo = d /\ found[<<lo, hi>>] # Clamped(lo, hi)
    OBVIOUS
  <2>4. \A l, k \in Ends : l <= k /\ k - l < hi - lo => found[<<l, k>>] = Clamped(l, k)
    <3> SUFFICES ASSUME NEW l \in Ends, NEW k \in Ends, l <= k, k - l < hi - lo,
                        found[<<l, k>>] # Clamped(l, k)
                 PROVE FALSE
      OBVIOUS
    <3>1. k - l \in 0..size
      OBVIOUS
    <3>2. k - l \in wrong
      <4> HIDE DEF Clamped
      <4>. QED BY <3>1
    <3>3. d <= k - l
      BY <2>2, <3>2
    <3>. QED BY <2>3, <3>3
  <2>5. CASE lo >= hi
    BY <1>5, <2>3, <2>5
  <2>6. CASE lo < hi
    <3>1. PICK mid : mid = (lo + hi) \div 2
      OBVIOUS
    <3>2. mid \in 1..size /\ lo <= mid /\ mid < hi
      BY <1>1, <2>6, <3>1
    <3>3. mid \in Ends /\ mid + 1 \in Ends
      BY <3>2
    <3>4. found[<<lo, mid>>] = Clamped(lo, mid) /\ found[<<mid + 1, hi>>] = Clamped(mid + 1, hi)
      <4> HIDE DEF Clamped
      <4>1. mid - lo < hi - lo /\ hi - (mid + 1) < hi - lo /\ mid + 1 <= hi
        BY <3>2
      <4>. QED BY <2>4, <3>2, <3>3, <4>1
    <3>5. found[<<lo, hi>>] = IF mins[mid] <= cutoff THEN found[<<lo, mid>>] ELSE found[<<mid + 1, hi>>]
      BY <1>5, <2>6, <3>1
    <3>6. CASE mins[mid] <= cutoff
      <4>0. from <= mid
        BY <3>2, <3>6
      <4>1. Clamped(lo, hi) = Clamped(lo, mid)
        BY <2>6, <3>2, <4>0
      <4> HIDE DEF Clamped
      <4>. QED BY <2>3, <3>4, <3>5, <3>6, <4>1
    <3>7. CASE ~ (mins[mid] <= cutoff)
      <4>0. from > mid
        BY <3>2, <3>7
      <4>1. Clamped(lo, hi) = Clamped(mid + 1, hi)
        BY <2>6, <3>2, <4>0
      <4> HIDE DEF Clamped
      <4>. QED BY <2>3, <3>4, <3>5, <3>7, <4>1
    <3>. QED BY <3>6, <3>7
  <2>. QED BY <2>5, <2>6
<1>7. found[<<1, size + 1>>] = Clamped(1, size + 1)
  <2> HIDE DEF Clamped
  <2>1. 1 \in Ends /\ size + 1 \in Ends /\ (size + 1) - 1 \in 0..size /\ 1 <= size + 1
    OBVIOUS
  <2>. QED BY <1>6, <2>1
<1>. QED BY <1>7 DEF found

-----------------------------------------------------------------------------
(***************************************************************************)
(* The survival label.                                                     *)
(***************************************************************************)
Commits == [time : Nat, tree : [Files -> Blob],
            actor : {"human", "agent", "automation"}, touched : Files \cup {Unknown},
            sameTask : BOOLEAN]

\* The types of what a label reads; the branch starts with the merge.
LabelInv ==
  /\ parent \in [Files -> Blob]
  /\ branch \in Seq(Commits) /\ branch # <<>>
  /\ now \in Nat /\ linkedAt \subseteq Nat /\ edited \in BOOLEAN

\* The initial states and the steps of the labeller keep the types.
LEMMA LabelStarts ==
  ASSUME LabelInit PROVE LabelInv
<1>1. PICK tree \in Merges : branch = <<Commit(0, tree, "agent", Unknown, FALSE)>>
  BY DEF LabelInit
<1>2. tree \in [Files -> Blob] /\ parent \in [Files -> Blob]
  BY <1>1, LabelAssumption DEF LabelInit
<1>3. Commit(0, tree, "agent", Unknown, FALSE) \in Commits
  BY <1>2 DEF Commit, Commits
<1>4. PICK c \in Commits : branch = <<c>>
  BY <1>1, <1>3
<1>5. branch \in Seq(Commits) /\ branch # <<>>
  BY <1>4
<1>. QED BY <1>2, <1>5 DEF LabelInit, LabelInv

\* Every step of a label keeps them.
LEMMA LabelKeepsTypes ==
  ASSUME LabelInv, [LabelNext]_labelVars PROVE LabelInv'
<1>1. CASE UNCHANGED labelVars
  BY <1>1 DEF LabelInv, labelVars
<1>2. CASE Refer
  BY <1>2 DEF LabelInv, Refer
<1>3. CASE Wait
  BY <1>3 DEF LabelInv, Wait
<1>4. CASE Land
  <2>1. PICK f \in Files, landing \in Landings, lag \in Lags :
          /\ branch' = Append(branch,
               Commit(Max({0, now - lag}), [branch[Len(branch)].tree EXCEPT ![f] = landing.blob],
                   landing.actor,
                   IF landing.blob = branch[Len(branch)].tree[f] THEN Unknown ELSE f,
                   landing.sameTask))
          /\ UNCHANGED <<parent, now, linkedAt, edited>>
    BY <1>4 DEF Land
  <2>2. Len(branch) \in DOMAIN branch
    BY DEF LabelInv
  <2>3. branch[Len(branch)] \in Commits
    BY <2>2 DEF LabelInv
  <2>4. landing \in Landing /\ lag \in Nat
    BY LabelAssumption
  <2>5. Max({0, now - lag}) \in Nat
    <3>1. now - lag \in Int
      BY <2>4 DEF LabelInv
    <3>2. PICK d \in Int : d = now - lag
      BY <3>1
    <3>3. \E x \in {0, d} : \A y \in {0, d} : x >= y
      BY <3>2
    <3>4. Max({0, d}) \in {0, d} /\ Max({0, d}) >= 0
      BY <3>3 DEF Max
    <3>. QED BY <3>2, <3>4
  <2>6. [branch[Len(branch)].tree EXCEPT ![f] = landing.blob] \in [Files -> Blob]
    BY <2>3, <2>4 DEF Commits, Landing
  <2>7. PICK c : c = Commit(Max({0, now - lag}),
                   [branch[Len(branch)].tree EXCEPT ![f] = landing.blob], landing.actor,
                   IF landing.blob = branch[Len(branch)].tree[f] THEN Unknown ELSE f,
                   landing.sameTask)
    OBVIOUS
  <2>8. c \in Commits
    BY <2>4, <2>5, <2>6, <2>7 DEF Commits, Commit, Landing
  <2>9. branch' = Append(branch, c)
    BY <2>1, <2>7
  <2>. QED BY <2>1, <2>8, <2>9 DEF LabelInv
<1>. QED BY <1>1, <1>2, <1>3, <1>4 DEF LabelNext

\* The walk and its minima, of any branch.
WalkOf(b) == [i \in DOMAIN b |-> b[Len(b) + 1 - i]]
MinsOf(b) == [i \in DOMAIN WalkOf(b) |-> Min({WalkOf(b)[j].time : j \in 1..i})]
InTimeOf(b, cutoff) == {i \in DOMAIN b : b[i].time <= cutoff}

\* Whatever the order of the committer times, the search of the walk ends on the
\* last commit in time.
LEMMA SearchFindsLast ==
  ASSUME NEW b \in Seq(Commits), b # <<>>, NEW cutoff \in Nat, b[1].time <= cutoff
  PROVE /\ Len(b) + 1 - Halving(Len(b), MinsOf(b), cutoff)[<<1, Len(b) + 1>>]
             = Max(InTimeOf(b, cutoff))
        /\ Max(InTimeOf(b, cutoff)) \in InTimeOf(b, cutoff)
        /\ \A i \in InTimeOf(b, cutoff) : i <= Max(InTimeOf(b, cutoff))
<1> DEFINE n == Len(b)
<1> DEFINE T == InTimeOf(b, cutoff)
<1>1. n \in Nat /\ n > 0 /\ DOMAIN b = 1..n /\ \A i \in 1..n : b[i].time \in Nat
  <2>1. n \in Nat /\ DOMAIN b = 1..n
    OBVIOUS
  <2>2. n # 0
    OBVIOUS
  <2>3. \A i \in 1..n : b[i] \in Commits
    OBVIOUS
  <2>. QED BY <2>1, <2>2, <2>3 DEF Commits
<1>2. T \in SUBSET (1..n) /\ T # {}
  BY <1>1 DEF InTimeOf
<1>3. PICK m \in T : m = Max(T) /\ \A i \in T : i <= m
  <2>1. Max(T) \in T /\ \A y \in T : Max(T) >= y
    <3> HIDE DEF T
    <3>. QED BY <1>1, <1>2, GreatestExists
  <2>. QED BY <1>1, <1>2, <2>1
<1>4. m \in 1..n
  BY <1>2, <1>3
<1>5. \A p \in 1..n : MinsOf(b)[p] <= cutoff <=> p >= n + 1 - m
  <2> TAKE p \in 1..n
  <2> DEFINE S == {WalkOf(b)[j].time : j \in 1..p}
  <2>1. \A j \in 1..n : n + 1 - j \in 1..n /\ WalkOf(b)[j] = b[n + 1 - j]
    BY <1>1 DEF WalkOf
  <2>2. MinsOf(b)[p] = Min(S)
    BY <1>1 DEF MinsOf, WalkOf
  <2>3. \A j \in 1..p : j \in 1..n
    BY <1>1
  <2>4. S \in SUBSET Nat /\ S # {}
    <3>1. \A j \in 1..p : WalkOf(b)[j].time \in Nat
      BY <1>1, <2>1, <2>3
    <3>2. 1 \in 1..p
      BY <1>1
    <3>. QED BY <3>1, <3>2
  <2>5. Min(S) \in S /\ \A y \in S : Min(S) <= y
    <3> HIDE DEF S
    <3>. QED BY <2>4, LeastExists
  <2>6. ASSUME p >= n + 1 - m PROVE Min(S) <= cutoff
    <3>1. n + 1 - m \in 1..p
      BY <1>1, <1>4, <2>6
    <3>2. WalkOf(b)[n + 1 - m] = b[m]
      <4>1. n + 1 - (n + 1 - m) = m
        BY <1>1, <1>4
      <4>. QED BY <2>1, <2>3, <3>1, <4>1
    <3>3. b[m].time \in S
      BY <3>1, <3>2
    <3>4. b[m].time <= cutoff /\ b[m].time \in Nat
      BY <1>1, <1>3, <1>4 DEF InTimeOf
    <3>5. PICK least \in Nat : least = Min(S)
      <4> HIDE DEF S
      <4>. QED BY <2>4, <2>5
    <3>6. least <= b[m].time
      <4> HIDE DEF S
      <4>. QED BY <2>5, <3>3, <3>5
    <3>. QED BY <3>4, <3>5, <3>6
  <2>7. ASSUME Min(S) <= cutoff PROVE p >= n + 1 - m
    <3>1. PICK j \in 1..p : Min(S) = WalkOf(b)[j].time
      BY <2>5
    <3>2. j \in 1..n /\ n + 1 - j \in 1..n
      BY <2>1, <2>3
    <3>3. n + 1 - j \in T
      <4>1. b[n + 1 - j].time <= cutoff
        BY <2>1, <2>7, <3>1, <3>2
      <4>. QED BY <1>1, <3>2, <4>1 DEF InTimeOf
    <3>4. n + 1 - j <= m
      BY <1>3, <3>3
    <3>. QED BY <1>1, <1>4, <3>1, <3>2, <3>4
  <2> HIDE DEF S
  <2>. QED BY <2>2, <2>6, <2>7
<1>6. Halving(n, MinsOf(b), cutoff)[<<1, n + 1>>] = n + 1 - m
  <2>1. n + 1 - m \in 1..n + 1
    BY <1>1, <1>4
  <2> HIDE DEF n, T
  <2>. QED BY <1>1, <1>5, <2>1, HalvingFinds
<1>7. n + 1 - (n + 1 - m) = m
  BY <1>1, <1>4
<1>. QED BY <1>3, <1>6, <1>7

\* The lookup of a label is that search.
LEMMA LookupIs ==
  ASSUME NEW cutoff
  PROVE Lookup(cutoff) = Halving(Len(branch), MinsOf(branch), cutoff)[<<1, Len(branch) + 1>>]
<1>1. Walk = WalkOf(branch)
  BY DEF Walk, WalkOf
<1>2. PrefixMin = MinsOf(branch)
  BY <1>1 DEF PrefixMin, MinsOf
<1>. QED BY <1>2 DEF Lookup, Halving

\* The merge commit is in time for every horizon, the last commit in time is found,
\* and git would answer the same.
LEMMA TerminalIsLast ==
  ASSUME LabelInv, NEW h \in Horizons
  PROVE /\ Terminal(h) = GitTerminal(h)
        /\ Terminal(h) \in InTimeOf(branch, Cutoff(h))
        /\ \A i \in InTimeOf(branch, Cutoff(h)) : i <= Terminal(h)
<1>1. branch[1] \in Commits /\ h \in Nat
  BY LabelAssumption DEF LabelInv
<1>2. Cutoff(h) \in Nat /\ branch[1].time <= Cutoff(h)
  BY <1>1 DEF Cutoff, Commits
<1>3. PICK b \in Seq(Commits) : b = branch /\ b # <<>>
  BY DEF LabelInv
<1>4. PICK c \in Nat : c = Cutoff(h)
  BY <1>2
<1>5. /\ Len(b) + 1 - Halving(Len(b), MinsOf(b), c)[<<1, Len(b) + 1>>] = Max(InTimeOf(b, c))
      /\ Max(InTimeOf(b, c)) \in InTimeOf(b, c)
      /\ \A i \in InTimeOf(b, c) : i <= Max(InTimeOf(b, c))
  BY <1>2, <1>3, <1>4, SearchFindsLast
<1>6. Terminal(h) = Max(InTimeOf(b, c))
  BY <1>3, <1>4, <1>5, LookupIs DEF Terminal
<1>7. GitTerminal(h) = Max(InTimeOf(b, c))
  BY <1>3, <1>4 DEF GitTerminal, InTimeOf
<1>. QED BY <1>3, <1>4, <1>5, <1>6, <1>7

\* The files the pull request touched have lines that count, and as many of them
\* survive at most; if no line is undone, all do.
LEMMA SurvivorsCount ==
  ASSUME LabelInv, NEW tree
  PROVE /\ IsFiniteSet(Substrate)
        /\ \A f \in Substrate :
             /\ Weight(f) \in Nat \ {0}
             /\ Surviving(f, tree) \in Nat /\ Surviving(f, tree) <= Weight(f)
             /\ ~RangeFollowup(tree) => Surviving(f, tree) = Weight(f)
<1>1. IsFiniteSet(Substrate)
  BY LabelAssumption, FS_Subset DEF Substrate
<1>2. ASSUME NEW f \in Substrate
      PROVE /\ Weight(f) \in Nat \ {0}
            /\ Surviving(f, tree) \in Nat /\ Surviving(f, tree) <= Weight(f)
            /\ ~RangeFollowup(tree) => Surviving(f, tree) = Weight(f)
  <2>1. f \in Files /\ Added(f) \cup Deleted(f) # {}
    BY DEF Substrate
  <2>2. merged[f].lines \in SUBSET Lines /\ parent[f].lines \in SUBSET Lines
    <3>1. branch[1] \in Commits
      BY DEF LabelInv
    <3>2. merged[f] \in Blob /\ parent[f] \in Blob
      BY <2>1, <3>1 DEF LabelInv, Commits, merged
    <3>. QED BY <3>2 DEF Blob
  <2>3. ASSUME NEW L \in SUBSET Lines
        PROVE IsFiniteSet(L) /\ Cardinality(L) \in Nat /\ (L # {} => Cardinality(L) # 0)
    <3>1. IsFiniteSet(L)
      BY LabelAssumption, FS_Subset
    <3>. QED BY <3>1, FS_CardinalityType, FS_EmptySet
  <2>4. Added(f) \in SUBSET Lines /\ Deleted(f) \in SUBSET Lines
    BY <2>2 DEF Added, Deleted
  <2>5. Weight(f) \in Nat \ {0}
    <3>1. Cardinality(Added(f)) \in Nat /\ (Added(f) # {} => Cardinality(Added(f)) # 0)
      BY <2>3, <2>4
    <3>2. Cardinality(Deleted(f)) \in Nat /\ (Deleted(f) # {} => Cardinality(Deleted(f)) # 0)
      BY <2>3, <2>4
    <3>. QED BY <2>1, <3>1, <3>2 DEF Weight
  <2>6. CASE Added(f) # {}
    <3>1. Undone(f, tree) \in SUBSET Added(f)
      BY DEF Undone
    <3>2. PICK K \in SUBSET Added(f) : K = Undone(f, tree)
      BY <3>1
    <3>3. Cardinality(K) \in Nat /\ Cardinality(K) <= Cardinality(Added(f))
      <4>1. IsFiniteSet(Added(f))
        BY <2>3, <2>4
      <4>2. IsFiniteSet(K) /\ Cardinality(K) <= Cardinality(Added(f))
        BY <4>1, FS_Subset
      <4>. QED BY <4>2, FS_CardinalityType
    <3>4. Weight(f) = Cardinality(Added(f)) /\ Surviving(f, tree) = Weight(f) - Cardinality(K)
      BY <2>6, <3>2 DEF Weight, Surviving
    <3>5. ~RangeFollowup(tree) => K = {}
      BY <3>2 DEF RangeFollowup
    <3>6. Cardinality({}) = 0
      BY FS_EmptySet
    <3>. QED BY <2>5, <3>3, <3>4, <3>5, <3>6
  <2>7. CASE Added(f) = {}
    <3>1. Surviving(f, tree) = IF FileReverted(f, tree) THEN 0 ELSE Weight(f)
      BY <2>7 DEF Surviving
    <3>2. ~RangeFollowup(tree) => ~FileReverted(f, tree)
      BY <2>7 DEF RangeFollowup
    <3>. QED BY <2>5, <3>1, <3>2
  <2>. QED BY <2>5, <2>6, <2>7
<1>. QED BY <1>1, <1>2

\* The lines of the change that a tree still has.
SurvivingLines(tree) == MapThenSumSet(LAMBDA f : Surviving(f, tree), Substrate)

\* The totals of a label.
LEMMA TotalsFit ==
  ASSUME LabelInv, NEW tree
  PROVE /\ TotalLines \in Nat /\ SurvivingLines(tree) \in Nat
        /\ SurvivingLines(tree) <= TotalLines
        /\ ~RangeFollowup(tree) => SurvivingLines(tree) = TotalLines
        /\ Substrate = {} => TotalLines = 0
<1> DEFINE weight == [f \in Substrate |-> Weight(f)]
<1> DEFINE left == [f \in Substrate |-> Surviving(f, tree)]
<1> DEFINE surviving == SurvivingLines(tree)
<1>1. TotalLines = SumIter(weight, Substrate)[Substrate]
  BY DEF TotalLines, MapThenSumSet, MapThenFoldSet, SumIter
<1>2. surviving = SumIter(left, Substrate)[Substrate]
  BY DEF SurvivingLines, MapThenSumSet, MapThenFoldSet, SumIter
<1>3. /\ IsFiniteSet(Substrate)
      /\ \A f \in Substrate : weight[f] \in Nat /\ left[f] \in Nat /\ left[f] <= weight[f]
      /\ ~RangeFollowup(tree) => \A f \in Substrate : left[f] = weight[f]
  BY SurvivorsCount
<1>4. ~RangeFollowup(tree) => left = weight
  BY <1>3
<1>5. Substrate = {} => TotalLines = 0
  <2> SUFFICES ASSUME Substrate = {} PROVE TotalLines = 0
    OBVIOUS
  <2>1. Pairs(weight, Substrate) = {}
    BY DEF Pairs
  <2>2. TotalLines = Cardinality(Pairs(weight, Substrate))
    <3> HIDE DEF weight
    <3>. QED BY <1>1, <1>3, SumIs
  <2>. QED BY <2>1, <2>2, FS_EmptySet
<1> HIDE DEF weight, left, surviving
<1>6. TotalLines \in Nat /\ surviving \in Nat /\ surviving <= TotalLines
  BY <1>1, <1>2, <1>3, SumIsNat, SumIsMonotone
<1>7. ~RangeFollowup(tree) => surviving = TotalLines
  BY <1>1, <1>2, <1>4
<1>. QED BY <1>5, <1>6, <1>7 DEF surviving

\* An analysis is made of what was found: lines, and five kinds of evidence.
Analysis(total, surviving, reverted, range, linked, again, mended, by) ==
  LET followup == range \/ linked \/ again \/ mended
  IN [survived |-> ~(reverted \/ followup), surviving |-> surviving,
      total |-> total, reverted |-> reverted, followup |-> followup, undoneBy |-> by,
      codes |-> ReasonCodes(
        [exact_revert |-> reverted, line_range_followup |-> range,
         linked_issue_or_pr |-> linked, pre_merge_human_edit |-> mended,
         task_redispatch |-> again,
         substantial_rewrite |-> ~reverted /\ 2 * surviving < total]),
      reportOutcome |-> ReportOutcome(reverted, surviving, total, followup)]

\* What is analysed is that, of the tree of its terminal commit.
LEMMA AnalysedIs ==
  ASSUME NEW h
  PROVE LET tree == branch[Terminal(h)].tree
        IN Analysed(h) =
             Analysis(TotalLines, SurvivingLines(tree),
                      AllReverted(tree), RangeFollowup(tree), Linked(h), Redispatched(h), edited,
                      UndoneBy(h, RangeFollowup(tree) \/ AllReverted(tree)))
BY DEF Analysed, Analysis, SurvivingLines

\* What the reasons of an analysis say.
LEMMA ReasonsAre ==
  ASSUME NEW a \in BOOLEAN, NEW b \in BOOLEAN, NEW c \in BOOLEAN, NEW d \in BOOLEAN,
         NEW e \in BOOLEAN, NEW g \in BOOLEAN
  PROVE LET codes == ReasonCodes([exact_revert |-> a, line_range_followup |-> b,
                       linked_issue_or_pr |-> c, pre_merge_human_edit |-> d,
                       task_redispatch |-> e, substantial_rewrite |-> g])
        IN /\ "exact_revert" \in codes <=> a
           /\ "substantial_rewrite" \in codes <=> g
           /\ codes = {"no_evidence"} <=> ~(a \/ b \/ c \/ d \/ e \/ g)
<1> DEFINE evidence == [exact_revert |-> a, line_range_followup |-> b, linked_issue_or_pr |-> c,
                        pre_merge_human_edit |-> d, task_redispatch |-> e,
                        substantial_rewrite |-> g]
<1> DEFINE found == {code \in DOMAIN evidence : evidence[code]}
<1>1. /\ DOMAIN evidence = {"exact_revert", "line_range_followup", "linked_issue_or_pr",
                            "pre_merge_human_edit", "task_redispatch", "substantial_rewrite"}
      /\ evidence["exact_revert"] = a /\ evidence["line_range_followup"] = b
      /\ evidence["linked_issue_or_pr"] = c /\ evidence["pre_merge_human_edit"] = d
      /\ evidence["task_redispatch"] = e /\ evidence["substantial_rewrite"] = g
  OBVIOUS
<1>2. ReasonCodes(evidence) = IF found = {} THEN {"no_evidence"} ELSE found
  BY DEF ReasonCodes
<1> HIDE DEF evidence
<1>3. found = {} <=> ~(a \/ b \/ c \/ d \/ e \/ g)
  BY <1>1
<1>4. "no_evidence" \notin found /\ ("exact_revert" \in found <=> a)
        /\ ("substantial_rewrite" \in found <=> g)
  BY <1>1
<1> HIDE DEF found
<1>. QED BY <1>2, <1>3, <1>4 DEF evidence

\* A computed label the contract allows, and what it is said to rest on.
Fits(label, range, reverted) ==
  /\ label.reportOutcome # Unknown
  /\ label.surviving \in 0..label.total
  /\ label.survived <=> label.reportOutcome = "survived"
  /\ label.reverted <=> label.reportOutcome = "reverted"
  /\ label.reverted <=> "exact_revert" \in label.codes
  /\ label.reportOutcome = "substantially_rewritten" <=>
       "substantial_rewrite" \in label.codes
  /\ label.reportOutcome = "followup" => label.followup
  /\ label.survived <=> label.codes = {"no_evidence"}
  /\ label.undoneBy # Unknown => ~label.survived
  /\ label.survived => ~range
  /\ label.reverted = reverted

\* An analysis is one the contract allows, where lines only fall out with evidence.
LEMMA AnalysisIsValid ==
  ASSUME NEW total \in Nat, NEW surviving \in Nat, surviving <= total,
         NEW reverted \in BOOLEAN, NEW range \in BOOLEAN, NEW linked \in BOOLEAN,
         NEW again \in BOOLEAN, NEW mended \in BOOLEAN, NEW by,
         ~range => surviving = total,
         ~(range \/ reverted \/ mended) => by = Unknown,
         NEW label, label = Analysis(total, surviving, reverted, range, linked, again, mended, by)
  PROVE Fits(label, range, reverted)
<1> DEFINE followup == range \/ linked \/ again \/ mended
<1> DEFINE less == ~reverted /\ 2 * surviving < total
<1> DEFINE codes == ReasonCodes([exact_revert |-> reverted, line_range_followup |-> range,
                      linked_issue_or_pr |-> linked, pre_merge_human_edit |-> mended,
                      task_redispatch |-> again, substantial_rewrite |-> less])
<1> DEFINE outcome == ReportOutcome(reverted, surviving, total, followup)
<1>1. /\ label.survived = ~(reverted \/ followup) /\ label.surviving = surviving
      /\ label.total = total /\ label.reverted = reverted /\ label.followup = followup
      /\ label.undoneBy = by /\ label.codes = codes /\ label.reportOutcome = outcome
  BY DEF Analysis
<1>2. /\ "exact_revert" \in codes <=> reverted
      /\ "substantial_rewrite" \in codes <=> less
      /\ codes = {"no_evidence"} <=> ~(reverted \/ range \/ linked \/ mended \/ again \/ less)
  <2>1. PICK g \in BOOLEAN : g = less
    OBVIOUS
  <2> HIDE DEF less
  <2>. QED BY <2>1, ReasonsAre
<1>3. /\ outcome = "reverted" <=> reverted
      /\ outcome = "substantially_rewritten" <=> less
      /\ outcome = "followup" => followup
      /\ outcome = "survived" <=> ~reverted /\ ~less /\ ~followup
      /\ outcome \in {"survived", "followup", "substantially_rewritten", "reverted"}
  <2>1. CASE reverted
    BY <2>1 DEF ReportOutcome
  <2>2. CASE ~reverted /\ 2 * surviving < total
    BY <2>2 DEF ReportOutcome
  <2>3. CASE ~reverted /\ 2 * surviving >= total /\ followup
    BY <2>3 DEF ReportOutcome
  <2>4. CASE ~reverted /\ 2 * surviving >= total /\ ~followup
    BY <2>4 DEF ReportOutcome
  <2>. QED BY <2>1, <2>2, <2>3, <2>4
<1>4. ~range => ~less
  OBVIOUS
<1>5. outcome # Unknown
  BY <1>3, LabelAssumption
<1>6. label.survived \in BOOLEAN /\ label.reverted \in BOOLEAN /\ label.followup \in BOOLEAN
  BY <1>1
<1> HIDE DEF codes, outcome, less
<1>7. label.survived <=> ~reverted /\ ~followup
  BY <1>1, <1>6
<1>8. label.reverted <=> reverted
  BY <1>1, <1>6
<1>9. label.followup <=> followup
  BY <1>1, <1>6
<1>10. /\ label.reportOutcome # Unknown
       /\ label.surviving \in 0..label.total
  BY <1>1, <1>5
<1>11. label.survived <=> label.reportOutcome = "survived"
  BY <1>1, <1>3, <1>4, <1>7
<1>12. /\ label.reverted <=> label.reportOutcome = "reverted"
       /\ label.reverted <=> "exact_revert" \in label.codes
       /\ label.reportOutcome = "substantially_rewritten" <=> "substantial_rewrite" \in label.codes
  BY <1>1, <1>2, <1>3, <1>8
<1>13. label.reportOutcome = "followup" => label.followup
  BY <1>1, <1>3, <1>9
<1>14. label.survived <=> label.codes = {"no_evidence"}
  BY <1>1, <1>2, <1>4, <1>7
<1>15. label.undoneBy # Unknown => ~label.survived
  <2>1. label.survived => ~(range \/ reverted \/ mended)
    BY <1>7
  <2>. QED BY <1>1, <2>1
<1>16. label.survived => ~range
  BY <1>7
<1>17. label.reverted = reverted
  BY <1>1
<1> HIDE DEF followup
<1>. QED BY <1>10, <1>11, <1>12, <1>13, <1>14, <1>15, <1>16, <1>17 DEF Fits

\* Which files count, and that somebody to blame takes a reason.
LEMMA ReversionIs ==
  ASSUME NEW tree, Substrate # {}
  PROVE AllReverted(tree) <=> \A f \in Substrate : tree[f] = parent[f]
<1>1. \A f \in Substrate : parent[f] # merged[f]
  BY DEF Substrate, Added, Deleted
<1>. QED BY <1>1 DEF AllReverted, FileReverted

\* Where nothing is undone and nobody edited, nobody is blamed.
LEMMA NobodyIsBlamed ==
  ASSUME NEW h, ~edited
  PROVE UndoneBy(h, FALSE) = Unknown
<1>1. Cardinality({}) = 0
  BY FS_EmptySet
<1>2. PICK none : none = {} /\ Cardinality(none) # 1
  BY <1>1
<1>3. UndoneBy(h, FALSE) = IF Cardinality(none) = 1 THEN CHOOSE v \in none : TRUE ELSE Unknown
  BY <1>2 DEF UndoneBy
<1>. QED BY <1>2, <1>3

\* What the label of a horizon can be: missing for one cause, or the analysis of a
\* change that has lines.
LEMMA LabelCases ==
  ASSUME LabelInv, NEW h \in Horizons, NEW failing
  PROVE \/ \E reason \in {"missing_horizon", "inaccessible_history",
                          "insufficient_line_range_substrate"} :
             LabelOf(h, failing) = Missing(reason)
        \/ Substrate # {} /\ LabelOf(h, failing) = Analysed(h)
<1>1. Cutoff(h) \in Int /\ now \in Int /\ TotalLines \in Nat /\ (Substrate = {} => TotalLines = 0)
  <2>1. branch[1] \in Commits /\ h \in Nat
    BY LabelAssumption DEF LabelInv
  <2>2. Cutoff(h) \in Int
    BY <2>1 DEF Cutoff, Commits
  <2>3. TotalLines \in Nat /\ (Substrate = {} => TotalLines = 0)
    BY TotalsFit
  <2>. QED BY <2>2, <2>3 DEF LabelInv
<1>2. CASE Cutoff(h) > now
  BY <1>1, <1>2 DEF LabelOf
<1>3. CASE Cutoff(h) <= now /\ failing = "substrate"
  BY <1>1, <1>3 DEF LabelOf
<1>4. CASE Cutoff(h) <= now /\ failing # "substrate" /\ TotalLines = 0
  BY <1>1, <1>4 DEF LabelOf
<1>5. CASE Cutoff(h) <= now /\ failing \in {"walk", "analysis"} /\ TotalLines > 0
  BY <1>1, <1>5 DEF LabelOf
<1>6. CASE Cutoff(h) <= now /\ failing \notin {"substrate", "walk", "analysis"} /\ TotalLines > 0
  <2>1. LabelOf(h, failing) = Analysed(h)
    BY <1>1, <1>6 DEF LabelOf
  <2>. QED BY <1>1, <1>6, <2>1
<1>. QED BY <1>1, <1>2, <1>3, <1>4, <1>5, <1>6

\* The analysis is one the contract allows, and of the tree at the horizon.
LEMMA AnalysedIsValid ==
  ASSUME LabelInv, NEW h \in Horizons, Substrate # {}
  PROVE LET label == Analysed(h)
            tree == branch[GitTerminal(h)].tree
        IN /\ label.reportOutcome # Unknown
           /\ label.surviving \in 0..label.total
           /\ label.survived <=> label.reportOutcome = "survived"
           /\ label.reverted <=> label.reportOutcome = "reverted"
           /\ label.reverted <=> "exact_revert" \in label.codes
           /\ label.reportOutcome = "substantially_rewritten" <=>
                "substantial_rewrite" \in label.codes
           /\ label.reportOutcome = "followup" => label.followup
           /\ label.survived <=> label.codes = {"no_evidence"}
           /\ label.undoneBy # Unknown => ~label.survived
           /\ label.survived =>
                \A f \in Substrate : Added(f) # {} => tree[f].here /\ Added(f) \subseteq tree[f].lines
           /\ label.reverted <=> \A f \in Substrate : tree[f] = parent[f]
<1>0. PICK tree : tree = branch[GitTerminal(h)].tree
  OBVIOUS
<1>1. Terminal(h) = GitTerminal(h)
  BY TerminalIsLast
<1>2. PICK total, surviving : total = TotalLines /\ surviving = SurvivingLines(tree)
  OBVIOUS
<1>3. PICK reverted \in BOOLEAN : reverted = AllReverted(tree)
  BY DEF AllReverted
<1>4. PICK range \in BOOLEAN : range = RangeFollowup(tree)
  BY DEF RangeFollowup
<1>5. PICK linked \in BOOLEAN : linked = Linked(h)
  BY DEF Linked
<1>6. PICK again \in BOOLEAN : again = Redispatched(h)
  BY DEF Redispatched
<1>7. PICK by : by = UndoneBy(h, range \/ reverted)
  OBVIOUS
<1>8. Analysed(h) = Analysis(total, surviving, reverted, range, linked, again, edited, by)
  BY <1>0, <1>1, <1>2, <1>3, <1>4, <1>5, <1>6, <1>7, AnalysedIs
<1>9. /\ total \in Nat /\ surviving \in Nat /\ surviving <= total
      /\ ~range => surviving = total
  BY <1>2, <1>4, TotalsFit
<1>10. ~(range \/ reverted \/ edited) => by = Unknown
  <2> SUFFICES ASSUME ~(range \/ reverted \/ edited) PROVE by = Unknown
    OBVIOUS
  <2>1. (range \/ reverted) = FALSE
    OBVIOUS
  <2>2. by = UndoneBy(h, FALSE)
    BY <1>7, <2>1
  <2>. QED BY <2>2, NobodyIsBlamed
<1>11. edited \in BOOLEAN
  BY DEF LabelInv
<1>12. ~range => \A f \in Substrate : Added(f) # {} => tree[f].here /\ Added(f) \subseteq tree[f].lines
  BY <1>4 DEF RangeFollowup, Undone
<1>13. reverted <=> \A f \in Substrate : tree[f] = parent[f]
  BY <1>3, ReversionIs
<1>14. PICK label : label = Analysis(total, surviving, reverted, range, linked, again, edited, by)
  OBVIOUS
<1>15. Fits(label, range, reverted)
  BY <1>9, <1>10, <1>11, <1>14, AnalysisIsValid
<1>16. label.survived =>
         \A f \in Substrate : Added(f) # {} => tree[f].here /\ Added(f) \subseteq tree[f].lines
  BY <1>12, <1>15 DEF Fits
<1>17. label.reverted <=> \A f \in Substrate : tree[f] = parent[f]
  BY <1>13, <1>15 DEF Fits
<1>. QED BY <1>0, <1>8, <1>14, <1>15, <1>16, <1>17 DEF Fits

\* In every state of the types, whatever git read fails, the label is sound.
LEMMA LabelsFollow ==
  ASSUME LabelInv PROVE LabelIsSound
<1>1. ASSUME NEW h \in Horizons, NEW failing \in {"none", "substrate", "walk", "analysis"}
      PROVE LET label == LabelOf(h, failing)
            IN IF label.reportOutcome = Unknown
               THEN \E reason \in {"missing_horizon", "inaccessible_history",
                                   "insufficient_line_range_substrate"} : label = Missing(reason)
               ELSE /\ label.surviving \in 0..label.total
                    /\ label.survived <=> label.reportOutcome = "survived"
                    /\ label.reverted <=> label.reportOutcome = "reverted"
                    /\ label.reverted <=> "exact_revert" \in label.codes
                    /\ label.reportOutcome = "substantially_rewritten" <=>
                         "substantial_rewrite" \in label.codes
                    /\ label.reportOutcome = "followup" => label.followup
                    /\ label.survived <=> label.codes = {"no_evidence"}
                    /\ label.undoneBy # Unknown => ~label.survived
  <2>1. CASE \E reason \in {"missing_horizon", "inaccessible_history",
                            "insufficient_line_range_substrate"} :
               LabelOf(h, failing) = Missing(reason)
    <3>1. \A reason : Missing(reason).reportOutcome = Unknown
      BY DEF Missing
    <3>. QED BY <2>1, <3>1
  <2>2. CASE Substrate # {} /\ LabelOf(h, failing) = Analysed(h)
    BY <2>2, AnalysedIsValid
  <2>. QED BY <2>1, <2>2, LabelCases
<1>2. LabelIsValid
  BY <1>1 DEF LabelIsValid
<1>3. ASSUME NEW h \in Horizons
      PROVE LET label == LabelOf(h, "none")
                tree == branch[GitTerminal(h)].tree
            IN label.reportOutcome # Unknown =>
                 /\ label.survived =>
                      \A f \in Substrate :
                        Added(f) # {} => tree[f].here /\ Added(f) \subseteq tree[f].lines
                 /\ label.reverted <=> \A f \in Substrate : tree[f] = parent[f]
  <2>1. CASE \E reason \in {"missing_horizon", "inaccessible_history",
                            "insufficient_line_range_substrate"} :
               LabelOf(h, "none") = Missing(reason)
    <3>1. \A reason : Missing(reason).reportOutcome = Unknown
      BY DEF Missing
    <3>. QED BY <2>1, <3>1
  <2>2. CASE Substrate # {} /\ LabelOf(h, "none") = Analysed(h)
    BY <2>2, AnalysedIsValid
  <2>. QED BY <2>1, <2>2, LabelCases
<1>4. LabelSpeaksOfItsTree
  BY <1>3, TerminalIsLast DEF LabelSpeaksOfItsTree
<1>. QED BY <1>2, <1>4 DEF LabelIsSound

\* Every label the labeller can compute is one the contract allows, of the tree the
\* branch had at the horizon, for every branch, order of clocks and failing read.
THEOREM LabelsStaySound == LabelSpec => []LabelIsSound
<1>1. LabelSpec => []LabelInv
  BY LabelStarts, LabelKeepsTypes, PTL DEF LabelSpec
<1>. QED BY <1>1, LabelsFollow, PTL

\* A branch that grew by commits after the cutoff only has the same ones in time.
LEMMA LateCommitsAreOut ==
  ASSUME NEW b \in Seq(Commits), NEW c \in Seq(Commits), NEW cutoff \in Nat,
         Len(b) <= Len(c), \A i \in 1..Len(b) : c[i] = b[i],
         \A i \in 1..Len(c) : i > Len(b) => c[i].time > cutoff
  PROVE InTimeOf(c, cutoff) = InTimeOf(b, cutoff)
<1>1. \A i \in 1..Len(c) : c[i].time \in Nat
  <2>1. \A i \in 1..Len(c) : c[i] \in Commits
    OBVIOUS
  <2>. QED BY <2>1 DEF Commits
<1>2. \A i \in 1..Len(b) : i \in 1..Len(c) /\ c[i].time = b[i].time
  OBVIOUS
<1>3. \A i \in 1..Len(c) : c[i].time <= cutoff => i \in 1..Len(b)
  <2>1. \A i \in 1..Len(c) : i > Len(b) \/ i \in 1..Len(b)
    OBVIOUS
  <2>. QED BY <1>1, <2>1
<1>4. DOMAIN b = 1..Len(b) /\ DOMAIN c = 1..Len(c)
  OBVIOUS
<1>. QED BY <1>2, <1>3, <1>4 DEF InTimeOf

\* Totals as sums, before and after a step.
LEMMA TotalLinesAre ==
  /\ TotalLines = SumIter([f \in Substrate |-> Weight(f)], Substrate)[Substrate]
  /\ TotalLines' = SumIter([f \in Substrate' |-> Weight(f)'], Substrate')[Substrate']
BY ZenonT(30) DEF TotalLines, MapThenSumSet, MapThenFoldSet, SumIter

\* The lines that survive, too.
LEMMA SurvivingLinesAre ==
  ASSUME NEW tree
  PROVE /\ SurvivingLines(tree)
             = SumIter([f \in Substrate |-> Surviving(f, tree)], Substrate)[Substrate]
        /\ SurvivingLines(tree)'
             = SumIter([f \in Substrate' |-> Surviving(f, tree)'], Substrate')[Substrate']
BY ZenonT(30) DEF SurvivingLines, MapThenSumSet, MapThenFoldSet, SumIter

\* Whom a label blames, of the authors since the merge.
Blamed(authors, undone, mended) ==
  LET votes == (IF undone THEN authors \ {"automation"} ELSE {})
               \cup (IF mended THEN {"human"} ELSE {})
  IN IF Cardinality(votes) = 1 THEN CHOOSE v \in votes : TRUE ELSE Unknown

\* A label blames them, before and after a step.
LEMMA BlameIs ==
  ASSUME NEW h, NEW undone
  PROVE /\ UndoneBy(h, undone) = Blamed(
             {branch[i].actor : i \in {j \in 2..Terminal(h) : branch[j].touched \in Substrate}},
             undone, edited)
        /\ UndoneBy(h, undone)' = Blamed(
             {branch[i].actor : i \in {j \in 2..Terminal(h) : branch[j].touched \in Substrate}}',
             undone, edited')
BY DEF UndoneBy, Blamed

\* What happens after a horizon, and lands with a later clock, leaves the label as it is.
LEMMA LabelStays ==
  ASSUME LabelInv, LabelInv', NEW h \in Horizons, parent' = parent, edited' = edited,
         now > Cutoff(h), now' >= now,
         Len(branch) <= Len(branch'), \A i \in 1..Len(branch) : branch'[i] = branch[i],
         \A i \in 1..Len(branch') : i > Len(branch) => branch'[i].time > Cutoff(h),
         linkedAt \subseteq linkedAt', \A t \in linkedAt' \ linkedAt : t > Cutoff(h)
  PROVE LabelOf(h, "none")' = LabelOf(h, "none")
<1>1. PICK b \in Seq(Commits) : b = branch /\ b # <<>>
  BY DEF LabelInv
<1>2. PICK c \in Seq(Commits) : c = branch' /\ c # <<>>
  BY DEF LabelInv
<1>3. /\ Len(b) \in Nat \ {0} /\ Len(c) \in Nat /\ Len(b) <= Len(c)
      /\ \A i \in 1..Len(b) : c[i] = b[i] /\ b[i] \in Commits
      /\ b[1] \in Commits /\ c[1] = b[1]
  <2>1. Len(b) \in Nat \ {0} /\ Len(c) \in Nat /\ Len(b) <= Len(c)
    BY <1>1, <1>2
  <2>2. \A i \in 1..Len(b) : c[i] = b[i] /\ b[i] \in Commits
    BY <1>1, <1>2
  <2>. QED BY <2>1, <2>2
<1>4. PICK cutoff \in Nat : cutoff = Cutoff(h) /\ cutoff = Cutoff(h)' /\ b[1].time <= cutoff
  <2>1. h \in Nat
    BY LabelAssumption
  <2>2. Cutoff(h) = b[1].time + h /\ Cutoff(h)' = b[1].time + h
    BY <1>1, <1>2, <1>3 DEF Cutoff
  <2>. QED BY <1>3, <2>1, <2>2 DEF Commits
<1>5. InTimeOf(c, cutoff) = InTimeOf(b, cutoff)
  BY <1>1, <1>2, <1>3, <1>4, LateCommitsAreOut
<1>6. PICK last : last = Terminal(h) /\ last = Terminal(h)' /\ last \in InTimeOf(b, cutoff)
  <2>1. /\ Len(b) + 1 - Halving(Len(b), MinsOf(b), cutoff)[<<1, Len(b) + 1>>]
             = Max(InTimeOf(b, cutoff))
        /\ Max(InTimeOf(b, cutoff)) \in InTimeOf(b, cutoff)
    BY <1>1, <1>4, SearchFindsLast
  <2>2. Len(c) + 1 - Halving(Len(c), MinsOf(c), cutoff)[<<1, Len(c) + 1>>]
          = Max(InTimeOf(c, cutoff))
    BY <1>2, <1>3, <1>4, SearchFindsLast
  <2>3. Terminal(h) = Len(b) + 1 - Halving(Len(b), MinsOf(b), cutoff)[<<1, Len(b) + 1>>]
    BY <1>1, <1>4, LookupIs DEF Terminal
  <2>4. Terminal(h)' = Len(c) + 1 - Halving(Len(c), MinsOf(c), cutoff)[<<1, Len(c) + 1>>]
    <3>1. Walk' = WalkOf(c)
      BY <1>2 DEF Walk, WalkOf
    <3>2. PrefixMin' = MinsOf(c)
      BY <3>1 DEF PrefixMin, MinsOf
    <3>3. Lookup(Cutoff(h))' = Halving(Len(c), MinsOf(c), cutoff)[<<1, Len(c) + 1>>]
      BY <1>2, <1>4, <3>2 DEF Lookup, Halving
    <3>. QED BY <1>2, <3>3 DEF Terminal
  <2>. QED BY <1>5, <2>1, <2>2, <2>3, <2>4
<1>7. PICK tree : tree = branch[Terminal(h)].tree /\ tree = (branch[Terminal(h)].tree)'
  BY <1>1, <1>2, <1>3, <1>6 DEF InTimeOf
<1>8. merged' = merged
  BY <1>1, <1>2, <1>3 DEF merged
<1>9. \A f : Added(f)' = Added(f) /\ Deleted(f)' = Deleted(f)
  BY <1>8 DEF Added, Deleted
<1>10. Substrate' = Substrate
  BY <1>9 DEF Substrate
<1>11. \A f : /\ Weight(f)' = Weight(f) /\ Undone(f, tree)' = Undone(f, tree)
              /\ FileReverted(f, tree)' <=> FileReverted(f, tree)
  BY <1>8, <1>9 DEF Weight, Undone, FileReverted
<1>12. \A f : Surviving(f, tree)' = Surviving(f, tree)
  BY <1>9, <1>11 DEF Surviving
<1>13. TotalLines' = TotalLines /\ TotalLines \in Nat
  <2>1. [f \in Substrate' |-> Weight(f)'] = [f \in Substrate |-> Weight(f)]
    BY <1>10, <1>11
  <2>. QED BY <1>10, <2>1, TotalLinesAre, TotalsFit
<1>14. SurvivingLines(tree)' = SurvivingLines(tree)
  <2>1. [f \in Substrate' |-> Surviving(f, tree)'] = [f \in Substrate |-> Surviving(f, tree)]
    BY <1>10, <1>12
  <2>2. SurvivingLines(tree)
          = SumIter([f \in Substrate |-> Surviving(f, tree)], Substrate)[Substrate]
    BY SurvivingLinesAre
  <2>3. SurvivingLines(tree)'
          = SumIter([f \in Substrate' |-> Surviving(f, tree)'], Substrate')[Substrate']
    BY SurvivingLinesAre
  <2>. QED BY <1>10, <2>1, <2>2, <2>3
<1>15. AllReverted(tree)' = AllReverted(tree) /\ RangeFollowup(tree)' = RangeFollowup(tree)
  BY <1>9, <1>10, <1>11 DEF AllReverted, RangeFollowup
<1>16. Linked(h)' = Linked(h)
  <2>1. \A t \in linkedAt' : t > b[1].time /\ t <= cutoff <=> t \in linkedAt /\ t > b[1].time /\ t <= cutoff
    BY <1>4 DEF LabelInv
  <2>2. Linked(h) <=> \E t \in linkedAt : t > b[1].time /\ t <= cutoff
    BY <1>1, <1>4 DEF Linked
  <2>3. Linked(h)' <=> \E t \in linkedAt' : t > b[1].time /\ t <= cutoff
    BY <1>2, <1>3, <1>4 DEF Linked
  <2>4. Linked(h)' <=> Linked(h)
    BY <2>1, <2>2, <2>3
  <2>. QED BY <2>4 DEF Linked
<1>17. Redispatched(h)' = Redispatched(h)
  <2>1. Redispatched(h) <=> \E i \in InTimeOf(b, cutoff) : b[i].sameTask /\ b[i].time > b[1].time
    BY <1>1, <1>4 DEF Redispatched, InTimeOf
  <2>2. Redispatched(h)' <=> \E i \in InTimeOf(c, cutoff) : c[i].sameTask /\ c[i].time > c[1].time
    BY <1>2, <1>4 DEF Redispatched, InTimeOf
  <2>3. \A i \in InTimeOf(b, cutoff) : c[i] = b[i]
    BY <1>1, <1>3 DEF InTimeOf
  <2>4. Redispatched(h)' <=> Redispatched(h)
    BY <1>3, <1>5, <2>1, <2>2, <2>3
  <2>. QED BY <2>4 DEF Redispatched
<1>18. PICK undone : undone = (RangeFollowup(tree) \/ AllReverted(tree))
  OBVIOUS
<1>19. UndoneBy(h, undone)' = UndoneBy(h, undone)
  <2>1. last \in Nat /\ last <= Len(b)
    BY <1>3, <1>6 DEF InTimeOf
  <2>2. \A i \in 2..last : c[i] = b[i]
    BY <1>3, <2>1
  <2>3. {branch[i].actor : i \in {j \in 2..Terminal(h) : branch[j].touched \in Substrate}}'
          = {branch[i].actor : i \in {j \in 2..Terminal(h) : branch[j].touched \in Substrate}}
    BY <1>1, <1>2, <1>6, <1>10, <2>2
  <2>4. PICK authors :
          /\ authors = {branch[i].actor : i \in {j \in 2..Terminal(h) : branch[j].touched \in Substrate}}
          /\ authors = {branch[i].actor : i \in {j \in 2..Terminal(h) : branch[j].touched \in Substrate}}'
    BY <2>3
  <2>5. UndoneBy(h, undone) = Blamed(authors, undone, edited)
    BY <2>4, BlameIs
  <2>6. UndoneBy(h, undone)' = Blamed(authors, undone, edited')
    BY <2>4, BlameIs
  <2>. QED BY <2>5, <2>6
<1>20. Analysed(h)' = Analysed(h)
  <2>1. Analysed(h) = Analysis(TotalLines, SurvivingLines(tree), AllReverted(tree),
                        RangeFollowup(tree), Linked(h), Redispatched(h), edited,
                        UndoneBy(h, undone))
    BY <1>7, <1>18, AnalysedIs
  <2>2. Analysed(h)' = Analysis(TotalLines', SurvivingLines(tree)', AllReverted(tree)',
                         RangeFollowup(tree)', Linked(h)', Redispatched(h)', edited',
                         UndoneBy(h, undone)')
    BY <1>7, <1>15, <1>18 DEF Analysed, Analysis, SurvivingLines
  <2>. QED BY <1>13, <1>14, <1>15, <1>16, <1>17, <1>19, <2>1, <2>2
<1>21. now \in Nat /\ now' \in Nat /\ cutoff <= now /\ cutoff <= now'
  BY <1>4 DEF LabelInv
<1>22. CASE TotalLines = 0
  BY <1>4, <1>13, <1>21, <1>22 DEF LabelOf, Missing
<1>23. CASE TotalLines > 0
  BY <1>4, <1>13, <1>20, <1>21, <1>23 DEF LabelOf
<1>. QED BY <1>13, <1>22, <1>23

\* A step of the labeller's world is one that leaves a label of the past as it is.
LEMMA LabelStepSettles ==
  ASSUME LabelInv, [LabelNext]_labelVars, NEW h \in Horizons,
         now > Cutoff(h), branch'[Len(branch')].time > Cutoff(h)
  PROVE LabelOf(h, "none")' = LabelOf(h, "none")
<1>1. LabelInv'
  BY LabelKeepsTypes
<1>2. /\ branch \in Seq(Commits) /\ branch # <<>> /\ now \in Nat /\ linkedAt \subseteq Nat
      /\ branch' \in Seq(Commits)
  BY <1>1 DEF LabelInv
<1>3. CASE UNCHANGED labelVars
  BY <1>1, <1>2, <1>3, LabelStays DEF labelVars
<1>4. CASE Wait
  BY <1>1, <1>2, <1>4, LabelStays DEF Wait
<1>5. CASE Refer
  BY <1>1, <1>2, <1>5, LabelStays DEF Refer
<1>6. CASE Land
  <2>1. PICK c : branch' = Append(branch, c)
    BY <1>6 DEF Land
  <2>2. UNCHANGED <<parent, now, linkedAt, edited>>
    BY <1>6 DEF Land
  <2>3. Len(branch') = Len(branch) + 1 /\ \A i \in 1..Len(branch) : branch'[i] = branch[i]
    BY <1>2, <2>1
  <2>. QED BY <1>1, <1>2, <2>2, <2>3, LabelStays
<1>. QED BY <1>3, <1>4, <1>5, <1>6 DEF LabelNext

\* A label computed after its horizon is final, unless a commit is dated back into it.
THEOREM LabelsSettle == LabelSpec => LabelSettles
<1>1. LabelSpec => []LabelInv
  BY LabelStarts, LabelKeepsTypes, PTL DEF LabelSpec
<1>2. LabelInv /\ [LabelNext]_labelVars
        => [\A h \in Horizons :
              now > Cutoff(h) /\ branch'[Len(branch')].time > Cutoff(h)
                => LabelOf(h, "none")' = LabelOf(h, "none")]_labelVars
  BY LabelStepSettles
<1>. QED BY <1>1, <1>2, PTL DEF LabelSpec, LabelSettles

\* The same of a behaviour that derives one thing or another.
LabelsInv == subject = "labels" => LabelInv

\* A step is of the labels, or leaves them.
LEMMA StepOfTheLabels ==
  ASSUME [DerivationsNext]_derivationVars
  PROVE /\ subject' = subject
        /\ IF subject = "labels" THEN [LabelNext]_labelVars ELSE UNCHANGED labelVars
<1>1. CASE UNCHANGED derivationVars
  BY <1>1 DEF derivationVars
<1>2. CASE DerivationsNext
  BY <1>2 DEF DerivationsNext
<1>. QED BY <1>1, <1>2

\* Their invariant holds in such a behaviour.
LEMMA LabelsAreKept == DerivationsSpec => []LabelsInv
<1>1. DerivationsInit => LabelsInv
  BY LabelStarts DEF DerivationsInit, LabelsInv
<1>2. ASSUME LabelsInv, [DerivationsNext]_derivationVars PROVE LabelsInv'
  BY <1>2, StepOfTheLabels, LabelKeepsTypes DEF LabelsInv
<1>. QED BY <1>1, <1>2, PTL DEF DerivationsSpec

\* A label a behaviour computes is one the contract allows, whatever else is derived.
THEOREM LabelsAreAlwaysSound == DerivationsSpec => []LabelsAreSound
<1>1. LabelsInv => LabelsAreSound
  BY LabelsFollow DEF LabelsInv, LabelsAreSound
<1>. QED BY <1>1, LabelsAreKept, PTL

\* And it is final once its horizon is past.
THEOREM LabelsSettleInDerivations == DerivationsSpec => LabelSettles
<1>1. LabelsInv /\ [DerivationsNext]_derivationVars
        => [\A h \in Horizons :
              now > Cutoff(h) /\ branch'[Len(branch')].time > Cutoff(h)
                => LabelOf(h, "none")' = LabelOf(h, "none")]_labelVars
  BY StepOfTheLabels, LabelStepSettles DEF LabelsInv
<1>. QED BY <1>1, LabelsAreKept, PTL DEF DerivationsSpec, LabelSettles

-----------------------------------------------------------------------------
(***************************************************************************)
(* The row of a run.                                                       *)
(***************************************************************************)

\* A list of one.
LEMMA ListOfOne ==
  ASSUME NEW x
  PROVE <<x>>[1] = x /\ DOMAIN <<x>> = {1} /\ <<x>> # <<>>
<1>1. <<x>>[1] = x /\ Len(<<x>>) = 1 /\ <<x>> # <<>>
  OBVIOUS
<1>2. <<x>> \in Seq({x})
  OBVIOUS
<1>3. DOMAIN <<x>> = 1..Len(<<x>>)
  BY <1>2
<1>4. 1..1 = {1}
  OBVIOUS
<1>. QED BY <1>1, <1>3, <1>4

\* The sum of one stage is its total.
LEMMA SumOfOne ==
  ASSUME NEW total \in Nat, NEW s, s = <<total>>
  PROVE SumIter(s, DOMAIN s)[DOMAIN s] = total
<1>1. DOMAIN s = {1} /\ s[1] = total
  BY ListOfOne
<1>2. IsFiniteSet({1})
  BY FS_Singleton
<1>3. SumIter(s, {1})[{1}] = Cardinality(Pairs(s, {1}))
  BY <1>1, <1>2, SumIs
<1>4. Cardinality(Pairs(s, {1})) = s[1] + Cardinality(Pairs(s, {1} \ {1}))
  BY <1>1, <1>2, PairsStep
<1>5. Cardinality(Pairs(s, {1} \ {1})) = 0
  <2>1. Pairs(s, {1} \ {1}) = {}
    BY DEF Pairs
  <2>. QED BY <2>1, FS_EmptySet
<1>6. SumIter(s, {1})[{1}] = total + 0
  BY <1>1, <1>3, <1>4, <1>5
<1>. QED BY <1>1, <1>6

\* The sum of the stages of a claim is such a sum.
LEMMA SumOfIs ==
  ASSUME NEW stages
  PROVE LET totals == [n \in DOMAIN stages |-> Known(stages[n].measured[1].total, 0)]
        IN SumOf(stages) =
             IF \E n \in DOMAIN stages : stages[n].measured[1].total = Nothing THEN Nothing
             ELSE SumIter(totals, DOMAIN totals)[DOMAIN totals]
BY DEF SumOf, FoldSeq, FoldFunction, FoldFunctionOnSet, MapThenFoldSet, SumIter

\* What every writer of the SDK claims: one coding stage, by one model for all roles.
OneStage(routed, overrides, model, measured, evidence, success, budget, cost, fills, compliant) ==
  [routed |-> routed, overrides |-> overrides, selected |-> [role \in Roles |-> model],
   success |-> success,
   stages |-> <<[role |-> "coder", model |-> model, measured |-> measured,
                 evidence |-> evidence]>>,
   budget |-> budget, cost |-> cost, fills |-> fills, compliant |-> compliant]

\* A stage that measured nothing measured what is unavailable.
CostsOf(measured) == IF measured = <<>> THEN <<Unavailable>> ELSE measured

\* The row of a run of one stage.
RowOfOne(routed, overrides, model, measured, evidence, success, budget, cost, fills, compliant) ==
  LET paid == IF fills THEN Known(cost, FirstTotal(measured)) ELSE cost
  IN [routed |-> routed, overrides |-> overrides, selected |-> [role \in Roles |-> model],
      stages |-> <<[role |-> "coder", model |-> model, measured |-> CostsOf(measured),
                    evidence |-> evidence]>>,
      cost |-> paid, success |-> success, under_budget |-> success /\ compliant,
      label |-> BudgetLabel(paid, budget)]

\* What the builder makes of such a claim.
LEMMA OneStageIsBuilt ==
  ASSUME NEW routed, NEW overrides, NEW model, NEW measured \in Seq(MeasuredCost), NEW evidence,
         NEW success, NEW budget, NEW cost, NEW fills \in BOOLEAN, NEW compliant
  PROVE Build(OneStage(routed, overrides, model, measured, evidence, success, budget, cost, fills,
                       compliant))
          = RowOfOne(routed, overrides, model, measured, evidence, success, budget, cost, fills,
                     compliant)
<1> DEFINE claim == OneStage(routed, overrides, model, measured, evidence, success, budget,
                             cost, fills, compliant)
<1> DEFINE stage == [role |-> "coder", model |-> model, measured |-> measured,
                     evidence |-> evidence]
<1> DEFINE done == [role |-> "coder", model |-> model, measured |-> CostsOf(measured),
                    evidence |-> evidence]
<1> DEFINE stages == [n \in DOMAIN claim.stages |-> Summarised(claim.stages[n])]
<1>1. claim.stages = <<stage>>
  BY DEF OneStage
<1>2. Summarised(stage) = done
  <2>1. PICK none : none = <<Unavailable>>
    OBVIOUS
  <2>2. [stage EXCEPT !.measured = none]
          = [role |-> "coder", model |-> model, measured |-> none, evidence |-> evidence]
    OBVIOUS
  <2>3. CASE measured = <<>>
    BY <2>1, <2>2, <2>3 DEF Summarised, CostsOf
  <2>4. CASE measured # <<>>
    BY <2>4 DEF Summarised, CostsOf
  <2>. QED BY <2>3, <2>4
<1>3. stages = <<done>>
  <2>1. PICK one : one = stage
    OBVIOUS
  <2>2. claim.stages = <<one>>
    BY <1>1, <2>1
  <2>3. PICK two : two = done /\ two = Summarised(one)
    BY <1>2, <2>1
  <2> HIDE DEF claim, stage, done
  <2>4. stages = <<Summarised(one)>>
    BY <2>2
  <2>. QED BY <2>3, <2>4
<1>4. done.measured[1].total = FirstTotal(measured)
  BY DEF CostsOf, FirstTotal, Unavailable
<1>5. SumOf(<<done>>) = FirstTotal(measured)
  <2>1. PICK total : total = FirstTotal(measured)
    OBVIOUS
  <2>2. PICK two : two = done /\ two.measured[1].total = total
    BY <1>4, <2>1
  <2>3. PICK list : list = <<two>> /\ DOMAIN list = {1} /\ list[1] = two
    BY ListOfOne
  <2>4. total \in Nat \cup {Nothing}
    <3>1. CASE measured = <<>>
      BY <2>1, <3>1 DEF FirstTotal
    <3>2. CASE measured # <<>>
      <4>1. measured[1] \in MeasuredCost
        BY <3>2
      <4>. QED BY <2>1, <3>2, <4>1 DEF FirstTotal, MeasuredCost
    <3>. QED BY <3>1, <3>2
  <2> DEFINE totals == [n \in DOMAIN list |-> Known(list[n].measured[1].total, 0)]
  <2>5. SumOf(list) = IF \E n \in DOMAIN list : list[n].measured[1].total = Nothing THEN Nothing
                      ELSE SumIter(totals, DOMAIN totals)[DOMAIN totals]
    BY SumOfIs
  <2>6. CASE total = Nothing
    <3> HIDE DEF totals
    <3>. QED BY <2>1, <2>2, <2>3, <2>5, <2>6
  <2>7. CASE total # Nothing
    <3>1. total \in Nat
      BY <2>4, <2>7
    <3>2. totals = <<total>>
      BY <2>2, <2>3, <2>7 DEF Known
    <3> HIDE DEF totals
    <3>3. ~ \E n \in DOMAIN list : list[n].measured[1].total = Nothing
      BY <2>2, <2>3, <2>7
    <3>4. SumOf(list) = SumIter(totals, DOMAIN totals)[DOMAIN totals]
      BY <2>5, <3>3
    <3>. QED BY <2>1, <2>2, <2>3, <3>1, <3>2, <3>4, SumOfOne
  <2>. QED BY <2>6, <2>7
<1>6. /\ claim.routed = routed /\ claim.overrides = overrides
      /\ claim.selected = [role \in Roles |-> model] /\ claim.success = success
      /\ claim.budget = budget /\ claim.cost = cost /\ claim.fills = fills
      /\ claim.compliant = compliant
  BY DEF OneStage
<1> HIDE DEF claim, done, stages
<1>7. Build(claim) =
        [routed |-> claim.routed, overrides |-> claim.overrides, selected |-> claim.selected,
         stages |-> stages,
         cost |-> IF claim.fills THEN Known(claim.cost, SumOf(stages)) ELSE claim.cost,
         success |-> claim.success, under_budget |-> claim.success /\ claim.compliant,
         label |-> BudgetLabel(IF claim.fills THEN Known(claim.cost, SumOf(stages)) ELSE claim.cost,
                               claim.budget)]
  BY DEF Build, stages
<1>8. SumOf(stages) = FirstTotal(measured)
  BY <1>3, <1>5
<1>. QED BY <1>3, <1>6, <1>7, <1>8 DEF claim, done, RowOfOne

\* What is told of a run, and what every claim of it comes to.
Told == [success : BOOLEAN, withheld : BOOLEAN, measured : Measures, figure : Prices,
         budget : Budgets, evidence : {"session_telemetry", "requested_only"}]

\* The cost of a row that fills in for a missing one.
Paid(fills, cost, measured) == IF fills THEN Known(cost, FirstTotal(measured)) ELSE cost

\* What a claim tells of a run.
Tells(told, overrides, model, measured, evidence, cost, fills, compliant) ==
  /\ measured \in {<<>>, told.measured} /\ fills \in BOOLEAN /\ compliant \in BOOLEAN
  /\ run.writer # "codex" => model = run.model
  /\ model \in Names \cup {run.model}
  /\ overrides = IF run.writer = "external" THEN Nothing
                 ELSE IF run.writer \in Loops \/ model = run.recommended THEN <<>>
                 ELSE Overriding(model)
  /\ run.writer \in {"plugin", "codex"} => evidence = Evidence(model, measured)
  /\ cost \in Nat \cup {Nothing}
  /\ told.withheld /\ run.writer = "kit" => cost = Nothing /\ measured = <<>>
  /\ told.figure = Nothing => cost \in {Nothing, FirstTotal(measured)}
  /\ compliant => Affordable(Paid(fills, cost, measured), told.budget)

\* A run the SDK routed.
Routed == run.writer # "external"

\* A claim of one stage, costed.
Costed(model, overrides, measured, evidence, told, cost, reported) ==
  OneStage(Routed, overrides, model, measured, evidence, told.success,
           told.budget, cost, TRUE, Affordable(reported, told.budget))

\* Costing a claim of one stage makes that.
LEMMA CostingIs ==
  ASSUME NEW overrides, NEW model, NEW measured, NEW evidence, NEW told, NEW cost, NEW reported
  PROVE Costing(Claim(model, overrides, measured, evidence, told), cost, reported)
          = Costed(model, overrides, measured, evidence, told, cost, reported)
<1>0. PICK routed \in BOOLEAN, able \in BOOLEAN :
        routed = Routed /\ able = Affordable(reported, told.budget)
  BY DEF Affordable, Routed
<1>1. PICK stages : stages = <<[role |-> "coder", model |-> model, measured |-> measured,
                                evidence |-> evidence]>>
  OBVIOUS
<1>2. PICK selected : selected = [role \in Roles |-> model]
  OBVIOUS
<1>3. PICK yes, no, none : yes = TRUE /\ no = FALSE /\ none = Nothing
  OBVIOUS
<1>4. PICK budget, success : budget = told.budget /\ success = told.success
  OBVIOUS
<1> DEFINE Fields(c, a) ==
      [routed |-> routed, overrides |-> overrides, selected |-> selected, success |-> success,
       stages |-> stages, budget |-> budget, cost |-> c, fills |-> yes, compliant |-> a]
<1>5. PICK claim : claim = Fields(none, no)
  OBVIOUS
<1>6. claim = Claim(model, overrides, measured, evidence, told)
  BY <1>0, <1>1, <1>2, <1>3, <1>4, <1>5 DEF Claim, Routed
<1>7. PICK costed : costed = [claim EXCEPT !.cost = cost]
  OBVIOUS
<1>8. costed = Fields(cost, no)
  BY <1>5, <1>7
<1>9. [costed EXCEPT !.compliant = able] = Fields(cost, able)
  BY <1>8
<1>10. [claim EXCEPT !.cost = cost, !.compliant = able] = [costed EXCEPT !.compliant = able]
  BY <1>7
<1>11. claim.budget = budget
  BY <1>5
<1>12. Costing(claim, cost, reported) = [claim EXCEPT !.cost = cost, !.compliant = able]
  BY <1>0, <1>4, <1>11 DEF Costing
<1>13. OneStage(routed, overrides, model, measured, evidence, success, budget, cost, TRUE, able)
         = Fields(cost, able)
  BY <1>1, <1>2, <1>3 DEF OneStage
<1> HIDE DEF Fields
<1>. QED BY <1>0, <1>4, <1>6, <1>9, <1>10, <1>12, <1>13 DEF Costed

\* The claim of every writer is of that form.
LEMMA ClaimTells ==
  ASSUME NEW told \in Told, run.writer \in Loops \cup Reporters,
         told.withheld => run.writer = "kit"
  PROVE \E overrides, model, measured, evidence, cost, fills, compliant :
          /\ Tells(told, overrides, model, measured, evidence, cost, fills, compliant)
          /\ ClaimOf(told) = OneStage(Routed, overrides, model, measured, evidence,
                               told.success, told.budget, cost, fills, compliant)
<1>1. told.measured \in Seq(MeasuredCost) /\ told.figure \in Nat \cup {Nothing}
  BY RowAssumption DEF Told
<1>2. ASSUME NEW measured \in Seq(MeasuredCost)
      PROVE FirstTotal(measured) \in Nat \cup {Nothing}
  <2>1. CASE measured = <<>>
    BY <2>1 DEF FirstTotal
  <2>2. CASE measured # <<>>
    <3>1. measured[1] \in MeasuredCost
      BY <2>2
    <3>. QED BY <2>2, <3>1 DEF FirstTotal, MeasuredCost
  <2>. QED BY <2>1, <2>2
<1>3. \A a, b : Affordable(a, b) \in BOOLEAN
  BY DEF Affordable
<1>4. CASE run.writer = "kit"
  <2>1. PICK measured : measured = IF told.withheld THEN <<>> ELSE told.measured
    OBVIOUS
  <2>2. PICK cost : cost = IF told.withheld THEN Nothing ELSE Known(FirstTotal(measured), told.figure)
    OBVIOUS
  <2>3. ClaimOf(told) = Costing(Claim(run.model, <<>>, measured, told.evidence, told), cost, cost)
    BY <1>4, <2>1, <2>2 DEF ClaimOf, KitClaim
  <2>4. PICK compliant \in BOOLEAN : compliant = Affordable(cost, told.budget)
    BY <1>3
  <2>5. cost \in Nat \cup {Nothing}
    BY <1>1, <1>2, <2>1, <2>2 DEF Known
  <2>6. compliant => Affordable(Paid(TRUE, cost, measured), told.budget)
    BY <2>4 DEF Affordable, Paid, Known
  <2>7. Tells(told, <<>>, run.model, measured, told.evidence, cost, TRUE, compliant)
    BY <1>4, <2>1, <2>2, <2>5, <2>6 DEF Tells, Known, Loops
  <2>8. ClaimOf(told) = OneStage(Routed, <<>>, run.model, measured, told.evidence,
                               told.success, told.budget, cost, TRUE, compliant)
    <3>1. Costing(Claim(run.model, <<>>, measured, told.evidence, told), cost, cost)
            = Costed(run.model, <<>>, measured, told.evidence, told, cost, cost)
      BY CostingIs
    <3>. QED BY <2>3, <2>4, <3>1 DEF Costed
  <2> WITNESS <<>>, run.model, measured, told.evidence, cost, TRUE, compliant
  <2>. QED BY <2>7, <2>8
<1>5. CASE run.writer = "aider"
  <2>1. PICK cost : cost = IF told.success THEN told.figure ELSE Nothing
    OBVIOUS
  <2>2. PICK compliant \in BOOLEAN : compliant = Affordable(cost, told.budget)
    BY <1>3
  <2>3. PICK fills \in BOOLEAN : fills = told.success
    BY DEF Told
  <2>4. PICK claim : claim = OneStage(Routed, <<>>, run.model, told.measured,
                         told.evidence, told.success, told.budget, cost, TRUE, compliant)
    OBVIOUS
  <2>5. claim = Costing(Claim(run.model, <<>>, told.measured, told.evidence, told), cost, cost)
    <3>1. Costing(Claim(run.model, <<>>, told.measured, told.evidence, told), cost, cost)
            = Costed(run.model, <<>>, told.measured, told.evidence, told, cost, cost)
      BY CostingIs
    <3>. QED BY <2>2, <2>4, <3>1 DEF Costed
  <2>6. ClaimOf(told) = [claim EXCEPT !.fills = fills]
    BY <1>5, <2>1, <2>3, <2>5 DEF ClaimOf, AiderClaim
  <2>7. [claim EXCEPT !.fills = fills] =
          OneStage(Routed, <<>>, run.model, told.measured, told.evidence,
                   told.success, told.budget, cost, fills, compliant)
    BY <2>4 DEF OneStage
  <2>8. cost \in Nat \cup {Nothing}
    BY <1>1, <2>1
  <2>9. compliant => Affordable(Paid(fills, cost, told.measured), told.budget)
    BY <2>2 DEF Affordable, Paid, Known
  <2>10. Tells(told, <<>>, run.model, told.measured, told.evidence, cost, fills, compliant)
    BY <1>5, <2>1, <2>8, <2>9 DEF Tells, Loops
  <2> WITNESS <<>>, run.model, told.measured, told.evidence, cost, fills, compliant
  <2>. QED BY <2>6, <2>7, <2>10
<1>6. CASE run.writer \in Reporters
  <2>1. PICK model : model = Executed(told)
    OBVIOUS
  <2>2. PICK overrides : overrides = Overrides(model)
    OBVIOUS
  <2>3. PICK evidence : evidence = IF run.writer \in {"router", "external"} THEN told.evidence
                                   ELSE Evidence(model, told.measured)
    OBVIOUS
  <2>4. PICK reported : reported = Known(told.figure, FirstTotal(told.measured))
    OBVIOUS
  <2>5. PICK compliant \in BOOLEAN : compliant = Affordable(reported, told.budget)
    BY <1>3
  <2>6. ClaimOf(told) = Costing(Claim(model, overrides, told.measured, evidence, told),
                                told.figure, reported)
    BY <1>6, <2>1, <2>2, <2>3, <2>4 DEF ClaimOf, ReportClaim, Reporters
  <2>7. ClaimOf(told) = OneStage(Routed, overrides, model, told.measured, evidence,
                               told.success, told.budget, told.figure, TRUE, compliant)
    <3>1. Costing(Claim(model, overrides, told.measured, evidence, told), told.figure, reported)
            = Costed(model, overrides, told.measured, evidence, told, told.figure, reported)
      BY CostingIs
    <3>. QED BY <2>5, <2>6, <3>1 DEF Costed
  <2>8. model \in Names \cup {run.model} /\ (run.writer # "codex" => model = run.model)
    <3>1. CASE told.measured = <<>>
      BY <2>1, <3>1 DEF Executed
    <3>2. CASE told.measured # <<>>
      <4>1. told.measured[1] \in MeasuredCost
        BY <1>1, <3>2
      <4>2. PICK observed \in Names \cup {Nothing} : observed = told.measured[1].main
        BY <4>1 DEF MeasuredCost
      <4>. QED BY <2>1, <3>2, <4>2 DEF Executed
    <3>. QED BY <3>1, <3>2
  <2>9. overrides = IF run.writer = "external" THEN Nothing
                    ELSE IF run.writer \in Loops \/ model = run.recommended THEN <<>>
                    ELSE Overriding(model)
    BY <1>6, <2>2 DEF Overrides, Reporters, Loops
  <2>10. compliant => Affordable(Paid(TRUE, told.figure, told.measured), told.budget)
    BY <2>4, <2>5 DEF Paid
  <2>11. ~ (told.withheld /\ run.writer = "kit")
    BY <1>6 DEF Reporters
  <2>12. run.writer \in {"plugin", "codex"} => evidence = Evidence(model, told.measured)
    BY <2>3
  <2>13. Tells(told, overrides, model, told.measured, evidence, told.figure, TRUE, compliant)
    BY <1>1, <2>8, <2>9, <2>10, <2>11, <2>12 DEF Tells
  <2> WITNESS overrides, model, told.measured, evidence, told.figure, TRUE, compliant
  <2>. QED BY <2>7, <2>13
<1>. QED BY <1>4, <1>5, <1>6 DEF Loops

\* What the rules of a row say of its overrides: they lead to what ran.
LEMMA OverridesLeadOn ==
  ASSUME NEW built, RoutingHolds(built), built.routed,
         built.overrides \in Seq(RouteOverride) \cup {Nothing}
  PROVE \A role \in Roles :
          LET steps == {n \in DOMAIN built.overrides : built.overrides[n].role = role}
          IN \A n \in steps :
               /\ \A m \in steps :
                    n < m /\ (\A k \in steps : k <= n \/ m <= k)
                      => built.overrides[n].to = built.overrides[m].from
               /\ (\A k \in steps : k <= n) => built.overrides[n].to = built.selected[role]
<1>1. PICK seq \in Seq(RouteOverride) : seq = built.overrides
  BY DEF RoutingHolds
<1>2. Chained(seq) /\ \A role \in Roles : \A n \in LastOf(seq, role) : seq[n].to = built.selected[role]
  BY <1>1 DEF RoutingHolds
<1>3. DOMAIN seq = 1..Len(seq) /\ Len(seq) \in Nat
  OBVIOUS
<1> SUFFICES ASSUME NEW role \in Roles,
                    NEW n \in {i \in DOMAIN seq : seq[i].role = role}
             PROVE /\ \A m \in {i \in DOMAIN seq : seq[i].role = role} :
                        n < m /\ (\A k \in {i \in DOMAIN seq : seq[i].role = role} : k <= n \/ m <= k)
                          => seq[n].to = seq[m].from
                   /\ (\A k \in {i \in DOMAIN seq : seq[i].role = role} : k <= n)
                        => seq[n].to = built.selected[role]
  BY <1>1
<1>4. ASSUME NEW m \in {i \in DOMAIN seq : seq[i].role = role}, n < m,
             \A k \in {i \in DOMAIN seq : seq[i].role = role} : k <= n \/ m <= k
      PROVE seq[n].to = seq[m].from
  <2>0. m \in 1..Len(seq) /\ n \in 1..Len(seq) /\ m - 1 \in 0..Len(seq) /\ n \in 1..(m - 1)
    BY <1>3, <1>4
  <2>1. PICK head \in Seq(RouteOverride) : head = SubSeq(seq, 1, m - 1)
    <3>1. \A i \in 1..(m - 1) : seq[i] \in RouteOverride
      BY <2>0
    <3>2. SubSeq(seq, 1, m - 1) \in Seq(RouteOverride)
      BY <2>0, <3>1
    <3>. QED BY <3>2
  <2>2. DOMAIN head = 1..(m - 1) /\ \A i \in 1..(m - 1) : head[i] = seq[i]
    BY <1>3, <2>1
  <2>3. \A k \in 1..(m - 1) : k > n => seq[k].role # role
    BY <1>3, <1>4
  <2>4. n \in LastOf(head, role)
    <3>1. n \in DOMAIN head /\ head[n].role = role
      BY <2>0, <2>2
    <3>2. \A k \in DOMAIN head : k > n => head[k].role # role
      BY <2>2, <2>3
    <3>. QED BY <3>1, <3>2 DEF LastOf
  <2>5. seq[m].role = role /\ m \in DOMAIN seq
    OBVIOUS
  <2>. QED BY <1>2, <2>1, <2>4, <2>5 DEF Chained
<1>5. ASSUME \A k \in {i \in DOMAIN seq : seq[i].role = role} : k <= n
      PROVE seq[n].to = built.selected[role]
  <2>1. \A k \in DOMAIN seq : k > n => seq[k].role # role
    BY <1>3, <1>5
  <2>2. n \in LastOf(seq, role)
    BY <2>1 DEF LastOf
  <2>. QED BY <1>2, <2>2
<1>. QED BY <1>4, <1>5

\* A report's two overrides keep the rules.
LEMMA ReportsOverride ==
  ASSUME NEW model \in Names, run.recommended \in Names, model # run.recommended
  PROVE /\ Overriding(model) \in Seq(RouteOverride) /\ Overriding(model) # Nothing
        /\ Overriding(model) # <<>> /\ Chained(Overriding(model))
        /\ \A n \in DOMAIN Overriding(model) : Overriding(model)[n].to = model
<1>1. PICK first : first = [role |-> "coder", from |-> run.recommended, to |-> model]
  OBVIOUS
<1>2. PICK second : second = [role |-> "reviewer", from |-> run.recommended, to |-> model]
  OBVIOUS
<1>3. first \in RouteOverride /\ second \in RouteOverride
  BY <1>1, <1>2 DEF RouteOverride, Roles
<1>4. PICK seq : seq = <<first, second>>
  OBVIOUS
<1>5. seq = Overriding(model)
  <2>1. \A n \in 1..2 : seq[n] = [role |-> <<"coder", "reviewer">>[n], from |-> run.recommended,
                                  to |-> model]
    <3>1. seq[1] = first /\ seq[2] = second
      BY <1>4
    <3>2. <<"coder", "reviewer">>[1] = "coder" /\ <<"coder", "reviewer">>[2] = "reviewer"
      OBVIOUS
    <3>3. \A n \in 1..2 : n = 1 \/ n = 2
      OBVIOUS
    <3>. QED BY <1>1, <1>2, <3>1, <3>2, <3>3
  <2>2. seq = [n \in 1..2 |-> seq[n]]
    BY <1>4
  <2>. QED BY <2>1, <2>2 DEF Overriding
<1>6. seq \in Seq(RouteOverride) /\ seq # <<>> /\ DOMAIN seq = {1, 2} /\ seq[1] = first /\ seq[2] = second
  <2>1. seq \in Seq(RouteOverride) /\ seq # <<>> /\ Len(seq) = 2 /\ seq[1] = first /\ seq[2] = second
    BY <1>3, <1>4
  <2>2. DOMAIN seq = 1..2
    BY <2>1
  <2>. QED BY <2>1, <2>2
<1>7. seq # Nothing
  BY <1>6, RowAssumption
<1>8. Chained(seq)
  <2>1. ASSUME NEW n \in DOMAIN seq, NEW m \in LastOf(SubSeq(seq, 1, n - 1), seq[n].role)
        PROVE FALSE
    <3>1. CASE n = 1
      <4>1. SubSeq(seq, 1, 0) = <<>>
        BY <1>6
      <4>. QED BY <3>1, <4>1 DEF LastOf
    <3>2. CASE n = 2
      <4>1. PICK head : head = SubSeq(seq, 1, 1)
        OBVIOUS
      <4>2. Len(head) = 1 /\ head[1] = first /\ head \in Seq(RouteOverride)
        BY <1>6, <4>1
      <4>3. DOMAIN head = 1..1
        BY <4>2
      <4>4. seq[n].role = "reviewer" /\ first.role = "coder"
        BY <1>1, <1>2, <1>6, <3>2
      <4>5. m \in DOMAIN head /\ head[m].role = "reviewer"
        BY <2>1, <3>2, <4>1, <4>4 DEF LastOf
      <4>. QED BY <4>2, <4>3, <4>4, <4>5
    <3>. QED BY <1>6, <3>1, <3>2
  <2>2. \A n \in DOMAIN seq : seq[n].from # seq[n].to
    BY <1>1, <1>2, <1>6
  <2>. QED BY <2>1, <2>2 DEF Chained
<1>9. \A n \in DOMAIN seq : seq[n].to = model
  BY <1>1, <1>2, <1>6
<1>. QED BY <1>5, <1>6, <1>7, <1>8, <1>9

\* The inductive invariant: what is routed can be told truly, and a row is filed once.
Routable ==
  \/ /\ run.writer \in Loops
     /\ Nothing \notin {run.recommended, run.model} => Same(run.model, run.recommended)
  \/ /\ run.writer \in Reporters /\ run.model \in Names
     /\ run.recommended \in Names \cup {Nothing}
     /\ run.writer = "external" <=> run.recommended = Nothing

\* With it, what a run is, has been told and has filed at each stage.
RowInv ==
  /\ RowTellsTheRun
  /\ run = [writer |-> run.writer, stage |-> run.stage, pool |-> run.pool,
            recommended |-> run.recommended, model |-> run.model, told |-> run.told]
  /\ run.stage \in {"start", "discovered", "routed", "failed"} => row = Nothing /\ run.told = Nothing
  /\ run.stage = "discovered" =>
       run.writer \in Loops /\ run.pool \in Pools /\ Registrable(run.pool)
  /\ run.stage = "routed" => Routable

\* It holds before a run starts.
LEMMA RowStarts ==
  ASSUME ContributionInit PROVE RowInv
BY DEF ContributionInit, RowInv, RowTellsTheRun, NotLost

\* A step that files nothing.
LEMMA NothingIsFiled ==
  ASSUME row' = Nothing, run'.stage # "refused" PROVE RowTellsTheRun'
BY DEF RowTellsTheRun, NotLost

\* A pool is discovered only when it can be registered.
LEMMA DiscoverKeeps ==
  ASSUME RowInv, Discover PROVE RowInv'
<1>1. PICK loop \in Loops, pool \in Pools :
        run' = [run EXCEPT !.writer = loop, !.pool = pool,
                 !.stage = IF pool # <<>> /\ Registrable(pool) THEN "discovered" ELSE "failed"]
  BY DEF Discover
<1>2. PICK stage : stage = IF pool # <<>> /\ Registrable(pool) THEN "discovered" ELSE "failed"
  OBVIOUS
<1>3. row = Nothing /\ run.told = Nothing /\ row' = row
  BY DEF RowInv, Discover
<1>4. run' = [writer |-> loop, stage |-> stage, pool |-> pool, recommended |-> run.recommended,
              model |-> run.model, told |-> run.told]
  BY <1>1, <1>2 DEF RowInv
<1>5. RowTellsTheRun'
  BY <1>2, <1>3, <1>4, NothingIsFiled
<1>. QED BY <1>2, <1>3, <1>4, <1>5 DEF RowInv

\* A name resolved is a spelling of the model it resolves to.
LEMMA ResolveKeepsTheModel ==
  ASSUME NEW pool \in Pools, Registrable(pool), NEW name \in Names, Resolve(pool, name) # Nothing
  PROVE Same(Resolve(pool, name), name)
<1>1. Entries(pool, name) # {}
  BY DEF Resolve
<1>2. PICK n : n = CHOOSE k \in Entries(pool, name) : TRUE
  OBVIOUS
<1>3. n \in Entries(pool, name) /\ Resolve(pool, name) = pool[n].id
  BY <1>1, <1>2 DEF Resolve
<1>4. n \in DOMAIN pool /\ (name = pool[n].id \/ name \in pool[n].aliases)
  BY <1>3 DEF Entries
<1>5. pool[n] \in ModelDefinition
  BY <1>4, RowAssumption
<1>6. pool[n].id \in Names
  BY <1>5 DEF ModelDefinition
<1>7. CASE name = pool[n].id
  BY <1>3, <1>6, <1>7 DEF Same
<1>8. CASE name \in pool[n].aliases
  BY <1>3, <1>4, <1>8, RowAssumption
<1>. QED BY <1>4, <1>7, <1>8

\* A loop routes to a model of its pool, or to its alias.
LEMMA RouteLoopKeeps ==
  ASSUME RowInv, RouteLoop PROVE RowInv'
<1>1. /\ row = Nothing /\ run.told = Nothing /\ run.writer \in Loops /\ run.pool \in Pools
      /\ Registrable(run.pool) /\ row' = row
  BY DEF RowInv, RouteLoop, Goto
<1>2. CASE \E name \in Names \cup {Nothing} : \E dispatched :
             run' = [run EXCEPT !.recommended = name, !.stage = "routed",
                       !.model = Resolve(run.pool, Known(name, dispatched))]
  <2>0. PICK name \in Names \cup {Nothing} : \E dispatched :
             run' = [run EXCEPT !.recommended = name, !.stage = "routed",
                       !.model = Resolve(run.pool, Known(name, dispatched))]
    BY <1>2
  <2>1. PICK dispatched : run' = [run EXCEPT !.recommended = name, !.stage = "routed",
                                    !.model = Resolve(run.pool, Known(name, dispatched))]
    BY <2>0
  <2>2. PICK model, stage : model = Resolve(run.pool, Known(name, dispatched)) /\ stage = "routed"
    OBVIOUS
  <2>3. run' = [writer |-> run.writer, stage |-> stage, pool |-> run.pool, recommended |-> name,
                model |-> model, told |-> run.told]
    BY <2>1, <2>2 DEF RowInv
  <2>4. Nothing \notin {name, model} => Same(model, name)
    BY <1>1, <2>2, ResolveKeepsTheModel DEF Known
  <2>5. RowTellsTheRun'
    BY <1>1, <2>2, <2>3, NothingIsFiled
  <2>6. Routable'
    BY <1>1, <2>3, <2>4 DEF Routable
  <2>. QED BY <1>1, <2>2, <2>3, <2>5, <2>6 DEF RowInv
<1>3. CASE Goto("failed")
  <2>1. PICK stage : stage = "failed"
    OBVIOUS
  <2>2. run' = [writer |-> run.writer, stage |-> stage, pool |-> run.pool,
                recommended |-> run.recommended, model |-> run.model, told |-> run.told]
    BY <1>3, <2>1 DEF RowInv, Goto
  <2>3. RowTellsTheRun'
    BY <1>1, <2>1, <2>2, NothingIsFiled
  <2>. QED BY <1>1, <2>1, <2>2, <2>3 DEF RowInv
<1>. QED BY <1>2, <1>3 DEF RouteLoop

\* A reporter routes to a model it names.
LEMMA RouteReportedKeeps ==
  ASSUME RowInv, RouteReported PROVE RowInv'
<1>1. PICK reporter \in Reporters, name \in Names \cup {Nothing}, model \in Names :
        /\ reporter = "external" => name = Nothing
        /\ run' = [run EXCEPT !.writer = reporter, !.recommended = name, !.model = model,
                     !.stage = IF reporter # "external" /\ name = Nothing THEN "failed"
                             ELSE "routed"]
  BY DEF RouteReported
<1>2. PICK stage : stage = IF reporter # "external" /\ name = Nothing THEN "failed" ELSE "routed"
  OBVIOUS
<1>3. row = Nothing /\ run.told = Nothing /\ row' = row
  BY DEF RowInv, RouteReported
<1>4. run' = [writer |-> reporter, stage |-> stage, pool |-> run.pool, recommended |-> name,
              model |-> model, told |-> run.told]
  BY <1>1, <1>2 DEF RowInv
<1>5. RowTellsTheRun'
  BY <1>2, <1>3, <1>4, NothingIsFiled
<1>6. stage = "routed" => Routable'
  BY <1>1, <1>2, <1>4 DEF Routable
<1>. QED BY <1>2, <1>3, <1>4, <1>5, <1>6 DEF RowInv

\* A run is abandoned.
LEMMA AbandonKeeps ==
  ASSUME RowInv, Abandon PROVE RowInv'
<1>1. row = Nothing /\ run.told = Nothing /\ row' = row
  BY DEF RowInv, Abandon, Goto
<1>2. PICK stage : stage = "failed"
  OBVIOUS
<1>3. run' = [writer |-> run.writer, stage |-> stage, pool |-> run.pool,
              recommended |-> run.recommended, model |-> run.model, told |-> run.told]
  BY <1>2 DEF RowInv, Abandon, Goto
<1>4. RowTellsTheRun'
  BY <1>1, <1>2, <1>3, NothingIsFiled
<1>. QED BY <1>1, <1>2, <1>3, <1>4 DEF RowInv

\* A host's own claim is held to the rules only.
LEMMA ExportKeeps ==
  ASSUME RowInv, Export PROVE RowInv'
<1>1. PICK claim \in Exports :
        /\ run' = [run EXCEPT !.writer = "export",
                     !.stage = IF Buildable(claim) THEN "filed" ELSE "refused"]
        /\ row' = IF Buildable(claim) THEN Build(claim) ELSE Nothing
  BY DEF Export
<1>2. PICK stage, writer : /\ stage = IF Buildable(claim) THEN "filed" ELSE "refused"
                           /\ writer = "export"
  OBVIOUS
<1>3. run.told = Nothing
  BY DEF RowInv, Export
<1>4. run' = [writer |-> writer, stage |-> stage, pool |-> run.pool,
              recommended |-> run.recommended, model |-> run.model, told |-> run.told]
  BY <1>1, <1>2 DEF RowInv
<1>5. run'.writer = "export" /\ run'.told = Nothing /\ run'.stage = stage
  BY <1>2, <1>3, <1>4
<1>6. row' # Nothing => OverridesLead'
  <2> SUFFICES ASSUME row' # Nothing PROVE OverridesLead'
    OBVIOUS
  <2>1. PICK built : built = Build(claim)
    OBVIOUS
  <2>2. row' = built /\ RoutingHolds(built)
    BY <1>1, <2>1 DEF Buildable
  <2>3. built.overrides \in Seq(RouteOverride) \cup {Nothing}
    BY <2>1, RowAssumption DEF Build
  <2>. QED BY <2>2, <2>3, OverridesLeadOn DEF OverridesLead
<1>7. RowTellsTheRun'
  BY <1>5, <1>6 DEF RowTellsTheRun, NotLost, NoFalseFollow, BudgetClaimHolds, CostAgrees,
                    EvidenceHolds
<1>. QED BY <1>2, <1>4, <1>5, <1>7 DEF RowInv

\* What was measured of the row's own task, and once, is not lost to the rules.
LEMMA ClaimsPass ==
  ASSUME NEW routed \in BOOLEAN, NEW overrides, NEW model, NEW measured \in Seq(MeasuredCost),
         NEW evidence, NEW success, NEW budget, NEW cost, NEW fills \in BOOLEAN, NEW compliant,
         Len(measured) <= 1, \A n \in DOMAIN measured : measured[n].ours,
         routed <=> overrides # Nothing,
         routed => /\ Chained(overrides)
                   /\ \A n \in DOMAIN overrides : overrides[n].to = model
  PROVE Buildable(OneStage(routed, overrides, model, measured, evidence, success, budget, cost,
                           fills, compliant))
<1>1. PICK claim : claim = OneStage(routed, overrides, model, measured, evidence, success, budget,
                                    cost, fills, compliant)
  OBVIOUS
<1>2. PICK stage : stage = [role |-> "coder", model |-> model, measured |-> measured,
                            evidence |-> evidence]
  OBVIOUS
<1>3. PICK done : done = [role |-> "coder", model |-> model, measured |-> CostsOf(measured),
                          evidence |-> evidence]
  OBVIOUS
<1>4. claim.stages = <<stage>>
  BY <1>1, <1>2 DEF OneStage
<1>5. PICK built : built = Build(claim)
  OBVIOUS
<1>6. PICK made : made = [role \in Roles |-> model]
  OBVIOUS
<1>7. /\ built.overrides = overrides /\ built.selected = made /\ built.stages = <<done>>
      /\ built.routed = routed
  <2>1. built = RowOfOne(routed, overrides, model, measured, evidence, success, budget, cost, fills,
                         compliant)
    BY <1>1, <1>5, OneStageIsBuilt
  <2>. QED BY <1>3, <1>6, <2>1 DEF RowOfOne
<1>8. \A n \in DOMAIN claim.stages : Len(claim.stages[n].measured) <= 1
  <2>1. stage.measured = measured
    BY <1>2
  <2>. QED BY <1>4, <2>1, ListOfOne
<1>9. RoutingHolds(built)
  BY <1>6, <1>7 DEF RoutingHolds, LastOf
<1>10. StagesHold(built)
  <2>1. done.model = model /\ done.measured[1].ours
    <3>1. CASE measured = <<>>
      BY <1>3, <3>1 DEF CostsOf, Unavailable
    <3>2. CASE measured # <<>>
      <4>1. 1 \in DOMAIN measured
        BY <3>2
      <4>. QED BY <1>3, <3>2, <4>1 DEF CostsOf
    <3>. QED BY <3>1, <3>2
  <2>2. built.stages # <<>> /\ DOMAIN built.stages = {1} /\ built.stages[1] = done
    BY <1>7, ListOfOne
  <2>3. \A role \in Roles : built.selected[role] = model
    BY <1>6, <1>7
  <2>. QED BY <2>1, <2>2, <2>3 DEF StagesHold, LastOf
<1>. QED BY <1>1, <1>5, <1>8, <1>9, <1>10 DEF Buildable

\* The row of a run that was told of.
LEMMA FileRowKeeps ==
  ASSUME RowInv, FileRow PROVE RowInv'
<1>1. PICK told \in Told :
        /\ told.withheld => run.writer = "kit"
        /\ run' = [run EXCEPT !.told = told,
                     !.stage = IF Buildable(ClaimOf(told)) THEN "filed" ELSE "refused"]
        /\ row' = IF Buildable(ClaimOf(told)) THEN Build(ClaimOf(told)) ELSE Nothing
  <2>1. PICK success, withheld \in BOOLEAN, measured \in Measures, figure \in Prices,
             budget \in Budgets, evidence \in {"session_telemetry", "requested_only"} :
          LET told == [success |-> success, withheld |-> withheld, measured |-> measured,
                       figure |-> figure, budget |-> budget, evidence |-> evidence]
              claim == ClaimOf(told)
          IN /\ withheld => run.writer = "kit"
             /\ run.writer \in {"plugin", "codex"} => evidence = "requested_only"
             /\ run' = [run EXCEPT !.told = told,
                          !.stage = IF Buildable(claim) THEN "filed" ELSE "refused"]
             /\ row' = IF Buildable(claim) THEN Build(claim) ELSE Nothing
    BY DEF FileRow
  <2>2. PICK told : told = [success |-> success, withheld |-> withheld, measured |-> measured,
                            figure |-> figure, budget |-> budget, evidence |-> evidence]
    OBVIOUS
  <2>3. told \in Told /\ told.withheld = withheld
    BY <2>2 DEF Told
  <2>. QED BY <2>1, <2>2, <2>3
<1>2. Routable /\ run.model # Nothing
  BY DEF RowInv, FileRow
<1>3. run.writer \in Loops \cup Reporters
  BY <1>2 DEF Routable
<1>4. PICK overrides, model, measured, evidence, cost, fills, compliant :
        /\ Tells(told, overrides, model, measured, evidence, cost, fills, compliant)
        /\ ClaimOf(told) = OneStage(Routed, overrides, model, measured, evidence,
                             told.success, told.budget, cost, fills, compliant)
  BY <1>1, <1>3, ClaimTells
<1>5. PICK routed \in BOOLEAN : routed = Routed
  BY DEF Routed
<1>6. PICK claim : /\ claim = ClaimOf(told)
                   /\ claim = OneStage(routed, overrides, model, measured, evidence,
                                       told.success, told.budget, cost, fills, compliant)
  BY <1>4, <1>5
<1>7. PICK stage : stage = IF Buildable(claim) THEN "filed" ELSE "refused"
  OBVIOUS
<1>8. run' = [writer |-> run.writer, stage |-> stage, pool |-> run.pool,
              recommended |-> run.recommended, model |-> run.model, told |-> told]
  BY <1>1, <1>6, <1>7 DEF RowInv
<1>9. row' = IF Buildable(claim) THEN Build(claim) ELSE Nothing
  BY <1>1, <1>6
<1>10. /\ measured \in Seq(MeasuredCost) /\ measured \in {<<>>, told.measured}
       /\ fills \in BOOLEAN /\ compliant \in BOOLEAN
       /\ told.success \in BOOLEAN /\ told.budget \in Nat \cup {Nothing}
       /\ cost \in Nat \cup {Nothing}
  <2>1. measured \in {<<>>, told.measured} /\ fills \in BOOLEAN /\ compliant \in BOOLEAN
    BY <1>4 DEF Tells
  <2>2. cost \in Nat \cup {Nothing}
    BY <1>4 DEF Tells
  <2>3. told.measured \in Seq(MeasuredCost)
    BY RowAssumption DEF Told
  <2>4. told.success \in BOOLEAN /\ told.budget \in Nat \cup {Nothing}
    BY RowAssumption DEF Told
  <2>5. <<>> \in Seq(MeasuredCost)
    OBVIOUS
  <2>. QED BY <2>1, <2>2, <2>3, <2>4, <2>5
<1>11. /\ routed <=> overrides # Nothing
       /\ routed => /\ Chained(overrides) /\ overrides \in Seq(RouteOverride)
                    /\ \A n \in DOMAIN overrides : overrides[n].to = model
       /\ routed /\ overrides = <<>> => run.writer \in Loops \/ model = run.recommended
  <2>1. CASE run.writer = "external"
    BY <1>4, <1>5, <2>1 DEF Tells, Routed
  <2>2. CASE run.writer # "external" /\ (run.writer \in Loops \/ model = run.recommended)
    <3>1. routed /\ overrides = <<>>
      BY <1>4, <1>5, <2>2 DEF Tells, Routed
    <3>2. <<>> # Nothing /\ Chained(<<>>) /\ <<>> \in Seq(RouteOverride)
      <4>1. <<>> \in Seq(RouteOverride)
        OBVIOUS
      <4>2. DOMAIN <<>> = {}
        OBVIOUS
      <4>3. Chained(<<>>)
        BY <4>2 DEF Chained
      <4>. QED BY <4>1, <4>3, RowAssumption
    <3>. QED BY <2>2, <3>1, <3>2
  <2>3. CASE run.writer # "external" /\ ~ (run.writer \in Loops \/ model = run.recommended)
    <3>1. routed /\ overrides = Overriding(model)
      BY <1>4, <1>5, <2>3 DEF Tells, Routed
    <3>2. model \in Names /\ run.recommended \in Names
      BY <1>2, <1>4, <2>3 DEF Routable, Tells
    <3>. QED BY <2>3, <3>1, <3>2, ReportsOverride
  <2>. QED BY <2>1, <2>2, <2>3
<1>12. NotLost'
  <2> SUFFICES ASSUME Len(told.measured) <= 1, \A n \in DOMAIN told.measured : told.measured[n].ours
               PROVE stage # "refused"
    <3>1. Len(told.measured) \in Nat
      BY RowAssumption DEF Told
    <3>2. run'.stage = stage /\ run'.told = told
      BY <1>8
    <3>. QED BY <3>1, <3>2 DEF NotLost
  <2>1. Len(measured) <= 1 /\ \A n \in DOMAIN measured : measured[n].ours
    BY <1>10
  <2>2. Buildable(claim)
    BY <1>6, <1>10, <1>11, <2>1, ClaimsPass
  <2>. QED BY <1>7, <2>2
<1> DEFINE paid == IF fills THEN Known(cost, FirstTotal(measured)) ELSE cost
<1>13. ASSUME Buildable(claim)
       PROVE NoFalseFollow' /\ OverridesLead' /\ BudgetClaimHolds' /\ CostAgrees' /\ EvidenceHolds'
  <2>1. PICK built : built = Build(claim) /\ row' = built
    BY <1>9, <1>13
  <2>2. PICK made : made = [role \in Roles |-> model]
    OBVIOUS
  <2>3. PICK done : done = [role |-> "coder", model |-> model, measured |-> CostsOf(measured),
                            evidence |-> evidence]
    OBVIOUS
  <2>4. PICK able \in BOOLEAN : able = (told.success /\ compliant)
    OBVIOUS
  <2>5. built = [routed |-> routed, overrides |-> overrides, selected |-> made,
                 stages |-> <<done>>, cost |-> paid, success |-> told.success,
                 under_budget |-> able, label |-> BudgetLabel(paid, told.budget)]
    <3>1. built = RowOfOne(routed, overrides, model, measured, evidence, told.success, told.budget,
                           cost, fills, compliant)
      BY <1>6, <1>10, <2>1, OneStageIsBuilt
    <3>. QED BY <2>2, <2>3, <2>4, <3>1 DEF RowOfOne
  <2> HIDE DEF paid
  <2>6. /\ run'.writer = run.writer /\ run'.recommended = run.recommended /\ run'.model = run.model
        /\ run'.told = told
    BY <1>8
  <2>7. NoFalseFollow'
    <3> SUFFICES ASSUME built.routed, built.overrides = <<>>, run.recommended # Nothing
                 PROVE Same(built.selected.coder, run.recommended)
      BY <2>1, <2>6 DEF NoFalseFollow, Followed
    <3>1. built.selected.coder = model
      BY <2>2, <2>5 DEF Roles
    <3>2. run.writer \in Loops \/ model = run.recommended
      BY <1>11, <2>5
    <3>3. CASE run.writer \in Loops
      <4>1. model = run.model
        BY <1>4, <3>3 DEF Tells, Loops
      <4>2. ~ (run.writer \in Reporters)
        BY <3>3 DEF Loops, Reporters
      <4>. QED BY <1>2, <3>1, <4>1, <4>2 DEF Routable
    <3>4. CASE run.writer \notin Loops /\ model = run.recommended
      BY <1>2, <3>1, <3>4 DEF Routable, Same
    <3>. QED BY <3>2, <3>3, <3>4
  <2>8. OverridesLead'
    <3> SUFFICES ASSUME built.routed
                 PROVE /\ RoutingHolds(built) /\ built.routed
                       /\ built.overrides \in Seq(RouteOverride) \cup {Nothing}
      BY <2>1, OverridesLeadOn DEF OverridesLead
    <3>. QED BY <1>11, <1>13, <2>1, <2>5 DEF Buildable
  <2>9. BudgetClaimHolds'
    <3> SUFFICES ASSUME built.under_budget
                 PROVE built.success /\ built.label = "under_budget"
      BY <2>1 DEF BudgetClaimHolds
    <3>1. told.success /\ compliant
      BY <2>4, <2>5
    <3>2. Affordable(paid, told.budget)
      BY <1>4, <3>1 DEF Tells, Paid, paid
    <3>. QED BY <2>5, <3>1, <3>2 DEF Affordable, BudgetLabel
  <2>10. CostAgrees'
    <3>1. built.stages[1].measured[1].total = FirstTotal(measured) /\ built.cost = paid
      <4>1. done.measured[1].total = FirstTotal(measured)
        BY <2>3 DEF CostsOf, FirstTotal, Unavailable
      <4>2. built.stages[1] = done
        BY <2>5, ListOfOne
      <4>. QED BY <2>5, <4>1, <4>2
    <3>2. told.withheld => paid = Nothing /\ FirstTotal(measured) = Nothing
      BY <1>1, <1>4 DEF Tells, paid, Known, FirstTotal
    <3>3. told.figure = Nothing /\ paid # Nothing => paid = FirstTotal(measured)
      BY <1>4 DEF Tells, paid, Known
    <3>. QED BY <2>1, <2>6, <3>1, <3>2, <3>3 DEF CostAgrees
  <2>11. EvidenceHolds'
    <3> SUFFICES ASSUME run.writer \in {"plugin", "codex"}, evidence = "session_telemetry"
                 PROVE \E name \in CostsOf(measured)[1].models : Same(name, model)
      <4>1. DOMAIN built.stages = {1} /\ built.stages[1] = done
        BY <2>5, ListOfOne
      <4>. QED BY <2>1, <2>3, <2>6, <4>1 DEF EvidenceHolds
    <3>1. evidence = Evidence(model, measured)
      BY <1>4 DEF Tells
    <3>. QED BY <3>1 DEF Evidence, CostsOf
  <2>. QED BY <2>7, <2>8, <2>9, <2>10, <2>11
<1>14. RowTellsTheRun'
  <2>1. CASE Buildable(claim)
    BY <1>12, <1>13, <2>1 DEF RowTellsTheRun
  <2>2. CASE ~Buildable(claim)
    BY <1>9, <1>12, <2>2 DEF RowTellsTheRun
  <2>. QED BY <2>1, <2>2
<1>. QED BY <1>7, <1>8, <1>14 DEF RowInv

\* Every row says what happened, and no run is lost to the rules of its own row.
RowsInv == subject = "rows" => RowInv

\* Every step keeps it.
LEMMA RowKeeps ==
  ASSUME RowInv, [ContributionNext]_contributionVars PROVE RowInv'
<1>1. CASE UNCHANGED contributionVars
  BY <1>1 DEF contributionVars, RowInv, RowTellsTheRun, NotLost, NoFalseFollow, Followed,
              OverridesLead, BudgetClaimHolds, CostAgrees, EvidenceHolds, Routable
<1>. QED BY <1>1, DiscoverKeeps, RouteLoopKeeps, RouteReportedKeeps, AbandonKeeps, FileRowKeeps,
            ExportKeeps DEF ContributionNext

\* A row tells the run it is of, for all names, pools, prices and measures.
THEOREM RowsAlwaysTellTheRun == DerivationsSpec => []RowsTellTheRun
<1>1. DerivationsInit => RowsInv
  BY RowStarts DEF DerivationsInit, RowsInv
<1>2. ASSUME RowsInv, [DerivationsNext]_derivationVars PROVE RowsInv'
  <2>1. /\ subject' = subject
        /\ subject = "rows" => [ContributionNext]_contributionVars
    BY <1>2 DEF DerivationsNext, derivationVars, contributionVars
  <2>. QED BY <1>2, <2>1, RowKeeps DEF RowsInv
<1>3. RowsInv => RowsTellTheRun
  BY DEF RowsInv, RowInv, RowsTellTheRun
<1>. QED BY <1>1, <1>2, <1>3, PTL DEF DerivationsSpec

-----------------------------------------------------------------------------
(***************************************************************************)
(* Ranks.  In a finite set that an order sorts, an element has as many     *)
(* below it as its place says, and each place is some element's.           *)
(***************************************************************************)
Below(S, R, x) == {y \in S : <<y, x>> \in R}
Rank(S, R, x) == Cardinality(Below(S, R, x))
AtPlace(S, R, n) == CHOOSE x \in S : Rank(S, R, x) = n - 1

Sorts(R, S) ==
  /\ \A x \in S : <<x, x>> \notin R
  /\ \A x, y, z \in S : <<x, y>> \in R /\ <<y, z>> \in R => <<x, z>> \in R
  /\ \A x, y \in S : x = y \/ <<x, y>> \in R \/ <<y, x>> \in R

\* What comes later has more below it.
LEMMA RanksGrow ==
  ASSUME NEW S, IsFiniteSet(S), NEW R, Sorts(R, S), NEW x \in S, NEW y \in S, <<x, y>> \in R
  PROVE Rank(S, R, x) \in Nat /\ Rank(S, R, y) \in Nat /\ Rank(S, R, x) < Rank(S, R, y)
<1>1. IsFiniteSet(Below(S, R, x)) /\ IsFiniteSet(Below(S, R, y))
  BY FS_Subset DEF Below
<1>2. Below(S, R, x) \in SUBSET Below(S, R, y)
  BY DEF Below, Sorts
<1>3. Below(S, R, x) # Below(S, R, y)
  <2>1. x \in Below(S, R, y) /\ x \notin Below(S, R, x)
    BY DEF Below, Sorts
  <2>. QED BY <2>1
<1>. QED BY <1>1, <1>2, <1>3, FS_Subset, FS_CardinalityType DEF Rank

\* The ranks of a set are the numbers below its size, each once.
LEMMA RanksFill ==
  ASSUME NEW S, IsFiniteSet(S), NEW R, Sorts(R, S)
  PROVE /\ \A x \in S : Rank(S, R, x) \in 0 .. Cardinality(S) - 1
        /\ \A x, y \in S : Rank(S, R, x) = Rank(S, R, y) => x = y
        /\ \A n \in 1 .. Cardinality(S) : \E x \in S : Rank(S, R, x) = n - 1
<1>0. Cardinality(S) \in Nat
  BY FS_CardinalityType
<1>1. ASSUME NEW x \in S PROVE Rank(S, R, x) \in 0 .. Cardinality(S) - 1
  <2>1. Below(S, R, x) \in SUBSET S /\ Below(S, R, x) # S
    BY DEF Below, Sorts
  <2>2. IsFiniteSet(Below(S, R, x)) /\ Cardinality(Below(S, R, x)) <= Cardinality(S)
        /\ Cardinality(Below(S, R, x)) # Cardinality(S)
    BY <2>1, FS_Subset
  <2>3. Cardinality(Below(S, R, x)) \in Nat
    BY <2>2, FS_CardinalityType
  <2>. QED BY <1>0, <2>2, <2>3 DEF Rank
<1>2. ASSUME NEW x \in S, NEW y \in S, Rank(S, R, x) = Rank(S, R, y) PROVE x = y
  <2>1. ASSUME <<x, y>> \in R PROVE FALSE
    BY <1>2, <2>1, RanksGrow
  <2>2. ASSUME <<y, x>> \in R PROVE FALSE
    BY <1>2, <2>2, RanksGrow
  <2>. QED BY <2>1, <2>2 DEF Sorts
<1>3. ASSUME NEW n \in 1 .. Cardinality(S) PROVE \E x \in S : Rank(S, R, x) = n - 1
  <2> DEFINE places == 1 .. Cardinality(S)
  <2> DEFINE place == [x \in S |-> Rank(S, R, x) + 1]
  <2>1. place \in [S -> places]
    BY <1>0, <1>1
  <2>2. \A x, y \in S : place[x] = place[y] => x = y
    <3> TAKE x \in S, y \in S
    <3> HAVE place[x] = place[y]
    <3>1. Rank(S, R, x) \in Int /\ Rank(S, R, y) \in Int
      BY <1>0, <1>1
    <3>2. Rank(S, R, x) = Rank(S, R, y)
      BY <3>1
    <3>. QED BY <1>2, <3>2
  <2>3. IsFiniteSet(places) /\ Cardinality(places) = Cardinality(S)
    BY <1>0, FS_Interval
  <2>4. place \in Surjection(S, places)
    <3>1. place \in Injection(S, places)
      <4> HIDE DEF place, places
      <4>. QED BY <2>1, <2>2 DEF Injection, IsInjective
    <3> HIDE DEF place, places
    <3>. QED BY <2>3, <3>1, FS_Injection
  <2>5. \E x \in S : place[x] = n
    <3> HIDE DEF place
    <3>. QED BY <1>3, <2>4 DEF Surjection
  <2>6. PICK x \in S : Rank(S, R, x) + 1 = n
    BY <2>5
  <2>7. Rank(S, R, x) \in Int
    BY <1>0, <1>1
  <2>. QED BY <2>6, <2>7
<1>. QED BY <1>1, <1>2, <1>3

\* Each place is taken by the element of its rank.
LEMMA PlacesAre ==
  ASSUME NEW S, IsFiniteSet(S), NEW R, Sorts(R, S)
  PROVE /\ \A n \in 1 .. Cardinality(S) : AtPlace(S, R, n) \in S /\ Rank(S, R, AtPlace(S, R, n)) = n - 1
        /\ \A x \in S : Rank(S, R, x) + 1 \in 1 .. Cardinality(S) /\ AtPlace(S, R, Rank(S, R, x) + 1) = x
        /\ \A m, n \in 1 .. Cardinality(S) : m < n <=> <<AtPlace(S, R, m), AtPlace(S, R, n)>> \in R
<1>0. Cardinality(S) \in Nat
  BY FS_CardinalityType
<1>1. ASSUME NEW n \in 1 .. Cardinality(S)
      PROVE AtPlace(S, R, n) \in S /\ Rank(S, R, AtPlace(S, R, n)) = n - 1
  BY RanksFill DEF AtPlace
<1>2. ASSUME NEW x \in S
      PROVE Rank(S, R, x) + 1 \in 1 .. Cardinality(S) /\ AtPlace(S, R, Rank(S, R, x) + 1) = x
  <2>1. Rank(S, R, x) \in 0 .. Cardinality(S) - 1
    BY RanksFill
  <2>2. PICK n : n = Rank(S, R, x) + 1
    OBVIOUS
  <2>3. n \in 1 .. Cardinality(S) /\ n - 1 = Rank(S, R, x)
    BY <1>0, <2>1, <2>2
  <2>4. AtPlace(S, R, n) \in S /\ Rank(S, R, AtPlace(S, R, n)) = Rank(S, R, x)
    BY <1>1, <2>3
  <2>. QED BY <2>2, <2>3, <2>4, RanksFill
<1>3. ASSUME NEW m \in 1 .. Cardinality(S), NEW n \in 1 .. Cardinality(S)
      PROVE m < n <=> <<AtPlace(S, R, m), AtPlace(S, R, n)>> \in R
  <2>1. PICK x \in S : x = AtPlace(S, R, m) /\ Rank(S, R, x) = m - 1
    BY <1>1
  <2>2. PICK y \in S : y = AtPlace(S, R, n) /\ Rank(S, R, y) = n - 1
    BY <1>1
  <2>3. ASSUME <<x, y>> \in R PROVE m < n
    <3>1. Rank(S, R, x) < Rank(S, R, y)
      BY <2>3, RanksGrow
    <3>. QED BY <1>0, <2>1, <2>2, <3>1
  <2>4. ASSUME m < n PROVE <<x, y>> \in R
    <3>1. x # y
      BY <1>0, <2>1, <2>2, <2>4
    <3>2. ASSUME <<y, x>> \in R PROVE FALSE
      <4>1. Rank(S, R, y) < Rank(S, R, x)
        BY <3>2, RanksGrow
      <4>. QED BY <1>0, <2>1, <2>2, <2>4, <4>1
    <3>. QED BY <3>1, <3>2 DEF Sorts
  <2>. QED BY <2>1, <2>2, <2>3, <2>4
<1>. QED BY <1>1, <1>2, <1>3

(***************************************************************************)
(* Parts of sequences, in order.                                           *)
(***************************************************************************)
Less(P) == {p \in P \X P : p[1] < p[2]}

\* Numbers are sorted by size.
LEMMA NthIs ==
  ASSUME NEW N \in Nat, NEW P \in SUBSET (1 .. N)
  PROVE /\ IsFiniteSet(P) /\ Cardinality(P) \in Nat
        /\ \A n \in 1 .. Cardinality(P) : Nth(P, n) \in P
        /\ \A m, n \in 1 .. Cardinality(P) : m < n <=> Nth(P, m) < Nth(P, n)
        /\ \A i \in P : \E n \in 1 .. Cardinality(P) : Nth(P, n) = i
<1>1. IsFiniteSet(P) /\ Cardinality(P) \in Nat
  <2>1. IsFiniteSet(1 .. N)
    BY FS_Interval
  <2>2. IsFiniteSet(P)
    BY <2>1, FS_Subset
  <2>. QED BY <2>2, FS_CardinalityType
<1>2. Sorts(Less(P), P)
  BY DEF Sorts, Less
<1>3. \A i \in P : {j \in P : j < i} = Below(P, Less(P), i)
  BY DEF Below, Less
<1>4. \A n : Nth(P, n) = AtPlace(P, Less(P), n)
  BY <1>3 DEF Nth, AtPlace, Rank
<1>5. /\ \A n \in 1 .. Cardinality(P) : AtPlace(P, Less(P), n) \in P
      /\ \A x \in P : \E n \in 1 .. Cardinality(P) : AtPlace(P, Less(P), n) = x
      /\ \A m, n \in 1 .. Cardinality(P) :
           m < n <=> <<AtPlace(P, Less(P), m), AtPlace(P, Less(P), n)>> \in Less(P)
  BY <1>1, <1>2, PlacesAre
<1>6. ASSUME NEW m \in 1 .. Cardinality(P), NEW n \in 1 .. Cardinality(P)
      PROVE m < n <=> Nth(P, m) < Nth(P, n)
  <2>1. m < n <=> <<Nth(P, m), Nth(P, n)>> \in Less(P)
    BY <1>4, <1>5
  <2>2. Nth(P, m) \in P /\ Nth(P, n) \in P
    BY <1>4, <1>5
  <2>. QED BY <2>1, <2>2 DEF Less
<1>. QED BY <1>1, <1>4, <1>5, <1>6

\* To list a sequence once is to list it.
LEMMA ListedIs ==
  ASSUME NEW S, NEW seq \in Seq(S)
  PROVE Listed(seq) = seq
BY ConcatEmptySeq DEF Listed

\* What stands at some positions.
Parts(seq, P) == {seq[i] : i \in P}

\* What is kept is what stands at the positions, in their order.
LEMMA KeptIs ==
  ASSUME NEW N \in Nat, NEW P \in SUBSET (1 .. N), NEW seq
  PROVE /\ Kept(seq, P) = [n \in 1 .. Cardinality(P) |-> seq[Nth(P, n)]]
        /\ Kept(seq, P) \in Seq(Parts(seq, P)) /\ Len(Kept(seq, P)) = Cardinality(P)
        /\ ToSet(Kept(seq, P)) = Parts(seq, P)
<1> DEFINE kept == [n \in 1 .. Cardinality(P) |-> seq[Nth(P, n)]]
<1> DEFINE S == {seq[i] : i \in P}
<1>1. /\ Cardinality(P) \in Nat /\ \A n \in 1 .. Cardinality(P) : Nth(P, n) \in P
      /\ \A i \in P : \E n \in 1 .. Cardinality(P) : Nth(P, n) = i
  BY NthIs
<1>2. kept \in Seq(S) /\ Len(kept) = Cardinality(P)
  <2>1. kept \in [1 .. Cardinality(P) -> S]
    BY <1>1
  <2> HIDE DEF kept, S
  <2>. QED BY <1>1, <2>1
<1>3. Kept(seq, P) = kept
  <2>1. Kept(seq, P) = Listed(kept)
    BY DEF Kept
  <2> HIDE DEF kept, S
  <2>. QED BY <1>2, <2>1, ListedIs
<1>4. ToSet(kept) = S
  BY <1>1 DEF ToSet
<1>. QED BY <1>2, <1>3, <1>4 DEF Parts

\* A sequence lists a set when it has each element once.
Lists(seq, K) ==
  /\ seq \in Seq(K)
  /\ \A i, j \in DOMAIN seq : seq[i] = seq[j] => i = j
  /\ \A x \in K : \E i \in DOMAIN seq : seq[i] = x

\* Such a sequence is as long as the set is large.
LEMMA ListsSize ==
  ASSUME NEW K, NEW seq, Lists(seq, K)
  PROVE IsFiniteSet(K) /\ Len(seq) = Cardinality(K) /\ DOMAIN seq = 1 .. Cardinality(K) /\ ToSet(seq) = K
<1>1. Len(seq) \in Nat /\ DOMAIN seq = 1 .. Len(seq) /\ seq \in [1 .. Len(seq) -> K]
  BY DEF Lists
<1>2. seq \in Surjection(1 .. Len(seq), K) /\ seq \in Injection(1 .. Len(seq), K)
  BY <1>1 DEF Lists, Surjection, Injection, IsInjective
<1>3. IsFiniteSet(1 .. Len(seq)) /\ Cardinality(1 .. Len(seq)) = Len(seq)
  <2>1. PICK n \in Nat : n = Len(seq)
    BY <1>1
  <2>2. IsFiniteSet(1 .. n) /\ Cardinality(1 .. n) = n
    BY FS_Interval, SMTT(20)
  <2>. QED BY <2>1, <2>2
<1>4. IsFiniteSet(K) /\ Cardinality(K) = Len(seq)
  BY <1>2, <1>3, FS_Surjection
<1>5. ToSet(seq) = K
  BY <1>1 DEF ToSet, Lists
<1>. QED BY <1>1, <1>4, <1>5

\* What is sorted by an order on what a sequence lists stands by its rank.
LEMMA SortedByRank ==
  ASSUME NEW K, NEW seq, Lists(seq, K), NEW R, Sorts(R, K),
         NEW n \in 1 .. Cardinality(K)
  PROVE seq[CHOOSE i \in DOMAIN seq : Cardinality({j \in DOMAIN seq : <<seq[j], seq[i]>> \in R}) = n - 1]
          = AtPlace(K, R, n)
<1>0. IsFiniteSet(K) /\ DOMAIN seq = 1 .. Cardinality(K) /\ Cardinality(K) \in Nat
  BY ListsSize, FS_CardinalityType
<1> DEFINE before(i) == {j \in DOMAIN seq : <<seq[j], seq[i]>> \in R}
<1>1. ASSUME NEW i \in DOMAIN seq PROVE Cardinality(before(i)) = Rank(K, R, seq[i])
  <2> DEFINE f == [j \in before(i) |-> seq[j]]
  <2>1. f \in Surjection(before(i), Below(K, R, seq[i])) /\ f \in Injection(before(i), Below(K, R, seq[i]))
    <3>1. f \in [before(i) -> Below(K, R, seq[i])]
      BY DEF Lists, Below
    <3>2. \A x \in Below(K, R, seq[i]) : \E j \in before(i) : f[j] = x
      BY DEF Lists, Below
    <3>3. \A a, b \in before(i) : f[a] = f[b] => a = b
      BY DEF Lists
    <3> HIDE DEF f, before
    <3>. QED BY <3>1, <3>2, <3>3 DEF Surjection, Injection, IsInjective
  <2>2. IsFiniteSet(before(i))
    <3>1. IsFiniteSet(1 .. Cardinality(K))
      BY <1>0, FS_Interval
    <3>2. before(i) \in SUBSET (1 .. Cardinality(K))
      BY <1>0
    <3> HIDE DEF before
    <3>. QED BY <3>1, <3>2, FS_Subset
  <2> HIDE DEF f, before
  <2>. QED BY <2>1, <2>2, FS_Surjection DEF Rank
<1>2. AtPlace(K, R, n) \in K /\ Rank(K, R, AtPlace(K, R, n)) = n - 1
  BY <1>0, PlacesAre
<1>3. PICK i \in DOMAIN seq : seq[i] = AtPlace(K, R, n)
  BY <1>2 DEF Lists
<1>4. \A k \in DOMAIN seq : Cardinality(before(k)) = n - 1 => seq[k] = AtPlace(K, R, n)
  <2> TAKE k \in DOMAIN seq
  <2>1. seq[k] \in K
    BY DEF Lists
  <2>. QED BY <1>0, <1>1, <1>2, <2>1, RanksFill
<1>5. Cardinality(before(i)) = n - 1
  BY <1>1, <1>2, <1>3
<1>6. PICK k : k = CHOOSE h \in DOMAIN seq : Cardinality(before(h)) = n - 1
  OBVIOUS
<1>7. k \in DOMAIN seq /\ Cardinality(before(k)) = n - 1
  <2> HIDE DEF before
  <2>. QED BY <1>5, <1>6
<1>. QED BY <1>4, <1>6, <1>7

\* By rank, a set is listed.
ByRank(K, R) == [n \in 1 .. Cardinality(K) |-> AtPlace(K, R, n)]

\* What it lists is sorted.
LEMMA ByRankLists ==
  ASSUME NEW K, IsFiniteSet(K), NEW R, Sorts(R, K)
  PROVE /\ Lists(ByRank(K, R), K) /\ Len(ByRank(K, R)) = Cardinality(K)
        /\ \A m, n \in 1 .. Cardinality(K) : m < n <=> <<ByRank(K, R)[m], ByRank(K, R)[n]>> \in R
<1>1. Cardinality(K) \in Nat
  BY FS_CardinalityType
<1>2. /\ \A n \in 1 .. Cardinality(K) : AtPlace(K, R, n) \in K /\ Rank(K, R, AtPlace(K, R, n)) = n - 1
      /\ \A x \in K : Rank(K, R, x) + 1 \in 1 .. Cardinality(K) /\ AtPlace(K, R, Rank(K, R, x) + 1) = x
      /\ \A m, n \in 1 .. Cardinality(K) : m < n <=> <<AtPlace(K, R, m), AtPlace(K, R, n)>> \in R
  BY PlacesAre
<1>3. ByRank(K, R) \in [1 .. Cardinality(K) -> K]
  BY <1>2 DEF ByRank
<1>4. ByRank(K, R) \in Seq(K) /\ Len(ByRank(K, R)) = Cardinality(K)
      /\ DOMAIN ByRank(K, R) = 1 .. Cardinality(K)
  BY <1>1, <1>3
<1>5. \A i, j \in 1 .. Cardinality(K) : ByRank(K, R)[i] = ByRank(K, R)[j] => i = j
  <2> TAKE i, j \in 1 .. Cardinality(K)
  <2> HAVE ByRank(K, R)[i] = ByRank(K, R)[j]
  <2>1. i - 1 = j - 1
    BY <1>2 DEF ByRank
  <2>. QED BY <1>1, <2>1
<1>6. \A x \in K : \E i \in 1 .. Cardinality(K) : ByRank(K, R)[i] = x
  BY <1>2 DEF ByRank
<1>. QED BY <1>2, <1>4, <1>5, <1>6 DEF Lists, ByRank

(***************************************************************************)
(* Events.                                                                 *)
(***************************************************************************)
CostEvents ==
  [id: Nat \ {0}, session: Nat, turn: Nat, seq: Nat, at: Nat, kind: {"delta", "cumulative"},
   model: DOMAIN Rates, basis: STRING, replayOf: Nat, input: Amounts, output: Amounts,
   actual: Amounts, estimated: Amounts]

IdsDiffer(K) == \A a, b \in K : a.id = b.id => a = b

EventOrder(K) == {p \in K \X K : CompareEvents(p[1], p[2])}
SnapshotOrder(K) == {p \in K \X K : InSession(p[1], p[2])}
IdOrder(K) == {p \in K \X K : p[1].id < p[2].id}

\* Events of different ids have one order.
LEMMA EventsSort ==
  ASSUME NEW K \in SUBSET CostEvents, IdsDiffer(K)
  PROVE Sorts(EventOrder(K), K) /\ Sorts(SnapshotOrder(K), K) /\ Sorts(IdOrder(K), K)
<1>1. \A e \in K : e.id \in Nat /\ e.session \in Nat /\ e.seq \in Nat /\ e.at \in Nat
  BY DEF CostEvents
<1>2. \A a, b \in K : a = b \/ a.id # b.id
  BY DEF IdsDiffer
<1>3. Sorts(IdOrder(K), K)
  BY <1>1, <1>2 DEF Sorts, IdOrder
<1>4. Sorts(SnapshotOrder(K), K)
  BY <1>1, <1>2 DEF Sorts, SnapshotOrder, InSession
<1>5. Sorts(EventOrder(K), K)
  BY <1>1, <1>2 DEF Sorts, EventOrder, CompareEvents, InSession
<1>. QED BY <1>3, <1>4, <1>5

\* What is sorted has the order of its set, however it came.
LEMMA SortedIs ==
  ASSUME NEW K \in SUBSET CostEvents, IdsDiffer(K), NEW seq, Lists(seq, K)
  PROVE /\ Sorted(seq, CompareEvents) = ByRank(K, EventOrder(K))
        /\ Sorted(seq, InSession) = ByRank(K, SnapshotOrder(K))
        /\ Sorted(seq, LAMBDA a, b : a.id < b.id) = ByRank(K, IdOrder(K))
<1>0. IsFiniteSet(K) /\ DOMAIN seq = 1 .. Cardinality(K) /\ Cardinality(K) \in Nat
  BY ListsSize, FS_CardinalityType
<1>1. Sorts(EventOrder(K), K) /\ Sorts(SnapshotOrder(K), K) /\ Sorts(IdOrder(K), K)
  BY EventsSort
<1>2. \A i \in DOMAIN seq : seq[i] \in K
  BY DEF Lists
<1>3. ASSUME NEW R, Sorts(R, K)
      PROVE Listed([n \in DOMAIN seq |->
              seq[CHOOSE i \in DOMAIN seq : Cardinality({j \in DOMAIN seq : <<seq[j], seq[i]>> \in R}) = n - 1]])
              = ByRank(K, R)
  <2>1. \A n \in 1 .. Cardinality(K) :
          seq[CHOOSE i \in DOMAIN seq : Cardinality({j \in DOMAIN seq : <<seq[j], seq[i]>> \in R}) = n - 1]
            = AtPlace(K, R, n)
    BY <1>3, SortedByRank
  <2>2. [n \in DOMAIN seq |->
           seq[CHOOSE i \in DOMAIN seq : Cardinality({j \in DOMAIN seq : <<seq[j], seq[i]>> \in R}) = n - 1]]
          = ByRank(K, R)
    BY <1>0, <2>1 DEF ByRank
  <2>3. ByRank(K, R) \in Seq(K)
    BY <1>0, <1>3, ByRankLists DEF Lists
  <2>. QED BY <2>2, <2>3, ListedIs
<1>4. ASSUME NEW i \in DOMAIN seq, NEW j \in DOMAIN seq
      PROVE /\ (CompareEvents(seq[j], seq[i]) \/ (j < i /\ ~CompareEvents(seq[i], seq[j])))
                 <=> <<seq[j], seq[i]>> \in EventOrder(K)
            /\ (InSession(seq[j], seq[i]) \/ (j < i /\ ~InSession(seq[i], seq[j])))
                 <=> <<seq[j], seq[i]>> \in SnapshotOrder(K)
            /\ (seq[j].id < seq[i].id \/ (j < i /\ ~(seq[i].id < seq[j].id)))
                 <=> <<seq[j], seq[i]>> \in IdOrder(K)
  <2>1. seq[i] \in K /\ seq[j] \in K
    BY <1>2
  <2>2. /\ CompareEvents(seq[j], seq[i]) <=> <<seq[j], seq[i]>> \in EventOrder(K)
        /\ CompareEvents(seq[i], seq[j]) <=> <<seq[i], seq[j]>> \in EventOrder(K)
        /\ InSession(seq[j], seq[i]) <=> <<seq[j], seq[i]>> \in SnapshotOrder(K)
        /\ InSession(seq[i], seq[j]) <=> <<seq[i], seq[j]>> \in SnapshotOrder(K)
        /\ seq[j].id < seq[i].id <=> <<seq[j], seq[i]>> \in IdOrder(K)
        /\ seq[i].id < seq[j].id <=> <<seq[i], seq[j]>> \in IdOrder(K)
    BY <2>1 DEF EventOrder, SnapshotOrder, IdOrder
  <2>3. j < i => seq[i] # seq[j]
    BY <1>0 DEF Lists
  <2>4. j < i => \A R : Sorts(R, K) => (<<seq[j], seq[i]>> \in R \/ <<seq[i], seq[j]>> \in R)
    BY <2>1, <2>3 DEF Sorts
  <2>. QED BY <1>1, <2>2, <2>4
<1>5. Sorted(seq, CompareEvents) = ByRank(K, EventOrder(K))
  <2>1. Sorted(seq, CompareEvents) = Listed([n \in DOMAIN seq |-> seq[CHOOSE i \in DOMAIN seq :
           Cardinality({j \in DOMAIN seq : <<seq[j], seq[i]>> \in EventOrder(K)}) = n - 1]])
    <3> DEFINE earlier(i) == {j \in DOMAIN seq : CompareEvents(seq[j], seq[i]) \/ (j < i /\ ~(CompareEvents(seq[i], seq[j])))}
               below(i) == {j \in DOMAIN seq : <<seq[j], seq[i]>> \in EventOrder(K)}
               one(n) == CHOOSE i \in DOMAIN seq : Cardinality(earlier(i)) = n - 1
               other(n) == CHOOSE i \in DOMAIN seq : Cardinality(below(i)) = n - 1
    <3>1. \A i \in DOMAIN seq : earlier(i) = below(i)
      BY <1>4
    <3>2. \A n : one(n) = other(n)
      <4> HIDE DEF earlier, below
      <4>. QED BY <3>1
    <3>3. [n \in DOMAIN seq |-> seq[one(n)]] = [n \in DOMAIN seq |-> seq[other(n)]]
      <4> HIDE DEF one, other
      <4>. QED BY <3>2
    <3>4. Sorted(seq, CompareEvents) = Listed([n \in DOMAIN seq |-> seq[one(n)]])
      BY DEF Sorted
    <3>. QED BY <3>3, <3>4
  <2>. QED BY <1>1, <1>3, <2>1
<1>6. Sorted(seq, InSession) = ByRank(K, SnapshotOrder(K))
  <2>1. Sorted(seq, InSession) = Listed([n \in DOMAIN seq |-> seq[CHOOSE i \in DOMAIN seq :
           Cardinality({j \in DOMAIN seq : <<seq[j], seq[i]>> \in SnapshotOrder(K)}) = n - 1]])
    <3> DEFINE earlier(i) == {j \in DOMAIN seq : InSession(seq[j], seq[i]) \/ (j < i /\ ~(InSession(seq[i], seq[j])))}
               below(i) == {j \in DOMAIN seq : <<seq[j], seq[i]>> \in SnapshotOrder(K)}
               one(n) == CHOOSE i \in DOMAIN seq : Cardinality(earlier(i)) = n - 1
               other(n) == CHOOSE i \in DOMAIN seq : Cardinality(below(i)) = n - 1
    <3>1. \A i \in DOMAIN seq : earlier(i) = below(i)
      BY <1>4
    <3>2. \A n : one(n) = other(n)
      <4> HIDE DEF earlier, below
      <4>. QED BY <3>1
    <3>3. [n \in DOMAIN seq |-> seq[one(n)]] = [n \in DOMAIN seq |-> seq[other(n)]]
      <4> HIDE DEF one, other
      <4>. QED BY <3>2
    <3>4. Sorted(seq, InSession) = Listed([n \in DOMAIN seq |-> seq[one(n)]])
      BY DEF Sorted
    <3>. QED BY <3>3, <3>4
  <2>. QED BY <1>1, <1>3, <2>1
<1>7. Sorted(seq, LAMBDA a, b : a.id < b.id) = ByRank(K, IdOrder(K))
  <2>1. Sorted(seq, LAMBDA a, b : a.id < b.id) = Listed([n \in DOMAIN seq |-> seq[CHOOSE i \in DOMAIN seq :
           Cardinality({j \in DOMAIN seq : <<seq[j], seq[i]>> \in IdOrder(K)}) = n - 1]])
    <3> DEFINE earlier(i) == {j \in DOMAIN seq : seq[j].id < seq[i].id \/ (j < i /\ ~(seq[i].id < seq[j].id))}
               below(i) == {j \in DOMAIN seq : <<seq[j], seq[i]>> \in IdOrder(K)}
               one(n) == CHOOSE i \in DOMAIN seq : Cardinality(earlier(i)) = n - 1
               other(n) == CHOOSE i \in DOMAIN seq : Cardinality(below(i)) = n - 1
    <3>1. \A i \in DOMAIN seq : earlier(i) = below(i)
      BY <1>4
    <3>2. \A n : one(n) = other(n)
      <4> HIDE DEF earlier, below
      <4>. QED BY <3>1
    <3>3. [n \in DOMAIN seq |-> seq[one(n)]] = [n \in DOMAIN seq |-> seq[other(n)]]
      <4> HIDE DEF one, other
      <4>. QED BY <3>2
    <3>4. Sorted(seq, LAMBDA a, b : a.id < b.id) = Listed([n \in DOMAIN seq |-> seq[one(n)]])
      BY DEF Sorted
    <3>. QED BY <3>3, <3>4
  <2>. QED BY <1>1, <1>3, <2>1
<1>. QED BY <1>5, <1>6, <1>7

(***************************************************************************)
(* Replays.                                                                *)
(***************************************************************************)
\* The leaders of a field differ in it, and stand for everything.
LEMMA LeadersAre ==
  ASSUME NEW N \in Nat, NEW seq, DOMAIN seq = 1 .. N, NEW field
  PROVE /\ Len(Leaders(seq, field)) \in Nat
        /\ DOMAIN Leaders(seq, field) = 1 .. Len(Leaders(seq, field))
        /\ \A m, n \in DOMAIN Leaders(seq, field) :
             Leaders(seq, field)[m][field] = Leaders(seq, field)[n][field] => m = n
        /\ \A i \in 1 .. N : \E n \in DOMAIN Leaders(seq, field) :
             Leaders(seq, field)[n][field] = seq[i][field]
        /\ \A n \in DOMAIN Leaders(seq, field) : \E i \in 1 .. N : Leaders(seq, field)[n] = seq[i]
<1> DEFINE P == {i \in 1 .. N : \A j \in 1 .. i - 1 : seq[j][field] # seq[i][field]}
<1> DEFINE L == Leaders(seq, field)
<1>1. P \in SUBSET (1 .. N) /\ L = Kept(seq, P)
  BY DEF Leaders
<1>2. /\ Cardinality(P) \in Nat /\ \A n \in 1 .. Cardinality(P) : Nth(P, n) \in P
      /\ \A m, n \in 1 .. Cardinality(P) : m < n <=> Nth(P, m) < Nth(P, n)
      /\ \A i \in P : \E n \in 1 .. Cardinality(P) : Nth(P, n) = i
  <2> HIDE DEF P
  <2>. QED BY <1>1, NthIs
<1>3. L = [n \in 1 .. Cardinality(P) |-> seq[Nth(P, n)]] /\ L \in Seq(Parts(seq, P))
      /\ Len(L) = Cardinality(P)
  <2> HIDE DEF P, L
  <2>. QED BY <1>1, KeptIs
<1>4. DOMAIN L = 1 .. Cardinality(P)
  BY <1>3
<1>5. \A a, b \in P : seq[a][field] = seq[b][field] => a = b
  <2> TAKE a, b \in P
  <2> HAVE seq[a][field] = seq[b][field]
  <2>1. a \in 1 .. N /\ b \in 1 .. N
    OBVIOUS
  <2>2. ~ (a < b) /\ ~ (b < a)
    BY <2>1
  <2>. QED BY <2>1, <2>2
<1>6. ASSUME NEW i \in 1 .. N PROVE \E a \in P : seq[a][field] = seq[i][field]
  <2> DEFINE T == {j \in 1 .. N : seq[j][field] = seq[i][field]}
  <2>1. PICK a \in T : \A y \in T : a <= y
    <3>1. T \in SUBSET Nat /\ T # {}
      OBVIOUS
    <3> HIDE DEF T
    <3>. QED BY <3>1, LeastExists
  <2>2. \A j \in 1 .. a - 1 : seq[j][field] # seq[a][field]
    <3> TAKE j \in 1 .. a - 1
    <3>1. j \in 1 .. N /\ ~ (a <= j)
      OBVIOUS
    <3>. QED BY <2>1, <3>1
  <2>. QED BY <2>2
<1>7. \A m, n \in DOMAIN L : L[m][field] = L[n][field] => m = n
  <2> TAKE m, n \in DOMAIN L
  <2> HAVE L[m][field] = L[n][field]
  <2>1. Nth(P, m) \in P /\ Nth(P, n) \in P /\ seq[Nth(P, m)][field] = seq[Nth(P, n)][field]
    BY <1>2, <1>3, <1>4
  <2>2. Nth(P, m) = Nth(P, n)
    BY <1>5, <2>1
  <2>3. m \in 1 .. Cardinality(P) /\ n \in 1 .. Cardinality(P)
    BY <1>4
  <2>4. Nth(P, m) \in Nat
    BY <2>1
  <2>5. ~ (m < n) /\ ~ (n < m)
    <3> HIDE DEF P, L
    <3>. QED BY <1>2, <2>2, <2>3, <2>4
  <2>. QED BY <1>2, <2>3, <2>5
<1>8. \A i \in 1 .. N : \E n \in DOMAIN L : L[n][field] = seq[i][field]
  <2> TAKE i \in 1 .. N
  <2>1. PICK a \in P : seq[a][field] = seq[i][field]
    BY <1>6
  <2>2. PICK n \in 1 .. Cardinality(P) : Nth(P, n) = a
    BY <1>2
  <2>. QED BY <1>3, <1>4, <2>1, <2>2
<1>9. \A n \in DOMAIN L : \E i \in 1 .. N : L[n] = seq[i]
  BY <1>2, <1>3, <1>4
<1>. QED BY <1>2, <1>3, <1>4, <1>7, <1>8, <1>9

\* The first event of each id, and those of them that nothing supersedes.
Originals(seq) == ToSet(Firsts(seq))
Contributors(seq) ==
  {e \in Originals(seq) : e.id \notin {f.replayOf : f \in Originals(seq)}}

\* The first events list the originals, one of each id.
LEMMA FirstsAre ==
  ASSUME NEW seq \in Seq(CostEvents)
  PROVE /\ Lists(Firsts(seq), Originals(seq)) /\ IdsDiffer(Originals(seq))
        /\ Originals(seq) \subseteq CostEvents /\ Originals(seq) \subseteq ToSet(seq)
        /\ Ids(Firsts(seq)) = Ids(seq)
<1>0. Len(seq) \in Nat /\ DOMAIN seq = 1 .. Len(seq) /\ \A i \in 1 .. Len(seq) : seq[i] \in CostEvents
  OBVIOUS
<1> DEFINE F == Firsts(seq)
<1>1. /\ Len(F) \in Nat /\ DOMAIN F = 1 .. Len(F)
      /\ \A m, n \in DOMAIN F : F[m]["id"] = F[n]["id"] => m = n
      /\ \A i \in 1 .. Len(seq) : \E n \in DOMAIN F : F[n]["id"] = seq[i]["id"]
      /\ \A n \in DOMAIN F : \E i \in 1 .. Len(seq) : F[n] = seq[i]
  BY <1>0, LeadersAre DEF Firsts
<1>id. \A e : e["id"] = e.id
  OBVIOUS
<1>ids. /\ \A m, n \in DOMAIN F : F[m].id = F[n].id => m = n
        /\ \A i \in 1 .. Len(seq) : \E n \in DOMAIN F : F[n].id = seq[i].id
  <2>1. \A m, n \in DOMAIN F : F[m].id = F[n].id => m = n
    <3> TAKE m, n \in DOMAIN F
    <3> HAVE F[m].id = F[n].id
    <3>1. F[m]["id"] = F[n]["id"]
      BY <1>id
    <3>. QED BY <1>1, <3>1
  <2>2. \A i \in 1 .. Len(seq) : \E n \in DOMAIN F : F[n].id = seq[i].id
    <3> TAKE i \in 1 .. Len(seq)
    <3>1. PICK n \in DOMAIN F : F[n]["id"] = seq[i]["id"]
      BY <1>1
    <3>2. F[n].id = seq[i].id
      BY <1>id, <3>1
    <3>. QED BY <3>2
  <2>. QED BY <2>1, <2>2
<1>2. Originals(seq) = {F[n] : n \in DOMAIN F}
  BY DEF Originals, ToSet
<1>3. ToSet(seq) = {seq[i] : i \in 1 .. Len(seq)}
  BY <1>0 DEF ToSet
<1>4. F \in Seq(Originals(seq))
  <2>1. PICK s : s = F
    OBVIOUS
  <2>2. s = [n \in 1 .. Len(s) |-> s[n]] /\ \A n \in 1 .. Len(s) : s[n] \in Originals(seq)
    <3>1. Leaders(seq, "id") = [n \in 1 .. Len(Leaders(seq, "id")) |-> Leaders(seq, "id")[n]]
      <4> DEFINE P == {i \in DOMAIN seq : \A j \in 1 .. i - 1 : seq[j]["id"] # seq[i]["id"]}
      <4>1. P \in SUBSET (1 .. Len(seq)) /\ Leaders(seq, "id") = Kept(seq, P)
        BY <1>0 DEF Leaders
      <4>2. Kept(seq, P) \in Seq(Parts(seq, P))
        <5> HIDE DEF P
        <5>. QED BY <1>0, <4>1, KeptIs
      <4>. QED BY <4>1, <4>2
    <3>. QED BY <1>1, <1>2, <2>1, <3>1 DEF Firsts
  <2>3. s \in Seq(Originals(seq))
    BY <1>1, <2>1, <2>2
  <2>. QED BY <2>1, <2>3
<1>5. Lists(F, Originals(seq))
  BY <1>1, <1>2, <1>4 DEF Lists
<1>6. IdsDiffer(Originals(seq))
  BY <1>ids, <1>2 DEF IdsDiffer
<1>7. Originals(seq) \subseteq ToSet(seq) /\ Originals(seq) \subseteq CostEvents
  BY <1>0, <1>1, <1>2, <1>3
<1>8. Ids(F) = Ids(seq)
  <2>1. Ids(F) = {F[n].id : n \in DOMAIN F} /\ Ids(seq) = {seq[i].id : i \in 1 .. Len(seq)}
    BY <1>2, <1>3 DEF Ids, Originals
  <2>2. \A n \in DOMAIN F : \E i \in 1 .. Len(seq) : F[n].id = seq[i].id
    BY <1>1
  <2> HIDE DEF F
  <2>. QED BY <1>ids, <2>1, <2>2
<1>. QED BY <1>5, <1>6, <1>7, <1>8

\* Some of what a sequence lists is listed by what is kept of it.
LEMMA KeptLists ==
  ASSUME NEW K, NEW seq, Lists(seq, K), NEW P \in SUBSET DOMAIN seq
  PROVE Lists(Kept(seq, P), Parts(seq, P))
<1>1. PICK N \in Nat : N = Len(seq) /\ DOMAIN seq = 1 .. N /\ P \in SUBSET (1 .. N)
  BY DEF Lists
<1>2. PICK M \in Nat : M = Cardinality(P)
  BY <1>1, NthIs
<1>3. /\ Kept(seq, P) = [n \in 1 .. M |-> seq[Nth(P, n)]]
      /\ Kept(seq, P) \in Seq(Parts(seq, P))
  BY <1>1, <1>2, KeptIs
<1>4. /\ \A n \in 1 .. M : Nth(P, n) \in P
      /\ \A m, n \in 1 .. M : m < n <=> Nth(P, m) < Nth(P, n)
      /\ \A i \in P : \E n \in 1 .. M : Nth(P, n) = i
  BY <1>1, <1>2, NthIs
<1>5. \A m, n \in 1 .. M : Nth(P, m) = Nth(P, n) => m = n
  <2> TAKE m, n \in 1 .. M
  <2> HAVE Nth(P, m) = Nth(P, n)
  <2>1. PICK i \in 1 .. N : i = Nth(P, m) /\ i = Nth(P, n)
    BY <1>1, <1>4
  <2>2. (m < n <=> Nth(P, m) < Nth(P, n)) /\ (n < m <=> Nth(P, n) < Nth(P, m))
    BY <1>4
  <2>. QED BY <2>1, <2>2
<1>6. \A m, n \in DOMAIN Kept(seq, P) : Kept(seq, P)[m] = Kept(seq, P)[n] => m = n
  <2> TAKE m, n \in DOMAIN Kept(seq, P)
  <2> HAVE Kept(seq, P)[m] = Kept(seq, P)[n]
  <2>1. m \in 1 .. M /\ n \in 1 .. M /\ seq[Nth(P, m)] = seq[Nth(P, n)]
    BY <1>3
  <2>2. Nth(P, m) = Nth(P, n)
    BY <1>4, <2>1 DEF Lists
  <2>. QED BY <1>5, <2>1, <2>2
<1>7. \A x \in Parts(seq, P) : \E n \in DOMAIN Kept(seq, P) : Kept(seq, P)[n] = x
  <2> TAKE x \in Parts(seq, P)
  <2>1. PICK i \in P : x = seq[i]
    BY DEF Parts
  <2>2. PICK n \in 1 .. M : Nth(P, n) = i
    BY <1>4
  <2>. QED BY <1>3, <2>1, <2>2
<1>. QED BY <1>3, <1>6, <1>7 DEF Lists

\* The contributing events list the originals that no other one replays.
LEMMA ContributingAre ==
  ASSUME NEW seq \in Seq(CostEvents)
  PROVE /\ Lists(Contributing(seq), Contributors(seq)) /\ ToSet(Contributing(seq)) = Contributors(seq)
        /\ Contributors(seq) \in SUBSET CostEvents /\ IdsDiffer(Contributors(seq))
<1> DEFINE F == Firsts(seq)
<1> DEFINE P == {i \in DOMAIN F : F[i].id \notin Superseded(seq)}
<1>1. /\ Lists(F, Originals(seq)) /\ IdsDiffer(Originals(seq)) /\ Originals(seq) \subseteq CostEvents
  BY FirstsAre
<1>2. Superseded(seq) = {f.replayOf : f \in Originals(seq)}
  BY DEF Superseded, Originals
<1>3. Parts(F, P) = Contributors(seq)
  <2>1. \A i \in DOMAIN F : F[i] \in Originals(seq)
    BY <1>1 DEF Lists
  <2>2. \A x \in Originals(seq) : \E i \in DOMAIN F : F[i] = x
    BY <1>1 DEF Lists
  <2>3. \A x \in Parts(F, P) : x \in Contributors(seq)
    BY <1>2, <2>1 DEF Parts, Contributors
  <2>4. \A x \in Contributors(seq) : x \in Parts(F, P)
    <3> TAKE x \in Contributors(seq)
    <3>1. x \in Originals(seq) /\ x.id \notin Superseded(seq)
      BY <1>2 DEF Contributors
    <3>2. PICK i \in DOMAIN F : F[i] = x
      BY <2>2, <3>1
    <3>3. i \in P
      BY <3>1, <3>2
    <3> HIDE DEF P, F
    <3>. QED BY <3>2, <3>3 DEF Parts
  <2>. QED BY <2>3, <2>4
<1>4. Contributing(seq) = Kept(F, P)
  BY DEF Contributing
<1>5. P \in SUBSET DOMAIN F
  OBVIOUS
<1> HIDE DEF P, F
<1>6. Lists(Contributing(seq), Contributors(seq))
  BY <1>1, <1>3, <1>4, <1>5, KeptLists
<1>7. Contributors(seq) \in SUBSET CostEvents /\ IdsDiffer(Contributors(seq))
  BY <1>1 DEF Contributors, IdsDiffer
<1>. QED BY <1>6, <1>7, ListsSize

(***************************************************************************)
(* The summary of a log is that of its originals.                          *)
(***************************************************************************)
\* A difference depends on what is kept, in whatever order.
LEMMA DeltasSame ==
  ASSUME NEW k, NEW l, ToSet(k) = ToSet(l), NEW e, NEW c
  PROVE Delta(k, e, c) = Delta(l, e, c) /\ (Drops(k, e, c) <=> Drops(l, e, c))
<1>1. Baseline(k, e, c) = Baseline(l, e, c)
  BY DEF Baseline
<1>. QED BY <1>1 DEF Delta, Drops

\* Observations depend on the originals, not on how the events came.
LEMMA ObservationsSame ==
  ASSUME NEW a \in Seq(CostEvents), NEW b \in Seq(CostEvents), Originals(a) = Originals(b)
  PROVE ToSet(Contributing(a)) = ToSet(Contributing(b)) /\ Observations(a) = Observations(b)
<1>1. Contributors(a) = Contributors(b)
  BY DEF Contributors
<1>2. ToSet(Contributing(a)) = ToSet(Contributing(b))
  BY <1>1, ContributingAre
<1>3. Sorted(Contributing(a), CompareEvents) = Sorted(Contributing(b), CompareEvents)
  <2>1. /\ Lists(Contributing(a), Contributors(a)) /\ Lists(Contributing(b), Contributors(a))
        /\ Contributors(a) \in SUBSET CostEvents /\ IdsDiffer(Contributors(a))
    BY <1>1, ContributingAre
  <2>2. Sorted(Contributing(a), CompareEvents) = ByRank(Contributors(a), EventOrder(Contributors(a)))
    BY <2>1, SortedIs
  <2>3. Sorted(Contributing(b), CompareEvents) = ByRank(Contributors(a), EventOrder(Contributors(a)))
    BY <2>1, SortedIs
  <2>. QED BY <2>2, <2>3
<1> DEFINE one(e) == [c \in DOMAIN e |-> IF c \in Counters THEN Delta(Contributing(a), e, c) ELSE e[c]]
           other(e) == [c \in DOMAIN e |-> IF c \in Counters THEN Delta(Contributing(b), e, c) ELSE e[c]]
           ordered == Sorted(Contributing(a), CompareEvents)
<1>4. \A e : one(e) = other(e)
  <2>1. \A e, c : Delta(Contributing(a), e, c) = Delta(Contributing(b), e, c)
    BY <1>2, DeltasSame
  <2>. QED BY <2>1
<1>5. Observations(a) = [i \in DOMAIN ordered |-> one(ordered[i])]
  BY DEF Observations
<1>6. Observations(b) = [i \in DOMAIN ordered |-> other(ordered[i])]
  BY <1>3 DEF Observations
<1>7. Observations(a) = Observations(b)
  <2> HIDE DEF one, other, ordered
  <2>. QED BY <1>4, <1>5, <1>6
<1>. QED BY <1>2, <1>7

\* So does the summary, but for the latest time of all events.
LEMMA SummariesSame ==
  ASSUME NEW a \in Seq(CostEvents), NEW b \in Seq(CostEvents), Originals(a) = Originals(b),
         a = <<>> <=> b = <<>>
  PROVE /\ Outline(Summary(a)) = Outline(Summary(b))
        /\ ToSet(a) = ToSet(b) => Summary(a) = Summary(b)
<1>1. Observations(a) = Observations(b) /\ ToSet(Contributing(a)) = ToSet(Contributing(b))
  BY ObservationsSame
<1>2. Cyclic(a) <=> Cyclic(b)
  <2>1. Ids(a) = Ids(b)
    <3>1. Ids(Firsts(a)) = Ids(Firsts(b))
      BY DEF Ids, Originals
    <3>. QED BY <3>1, FirstsAre
  <2>. QED BY <2>1 DEF Cyclic, Originals
<1>3. \A obs : Diagnostics(a, obs) = Diagnostics(b, obs)
  <2>1. (\E e \in ToSet(Contributing(a)), c \in Counters : Drops(Contributing(a), e, c))
          <=> (\E e \in ToSet(Contributing(b)), c \in Counters : Drops(Contributing(b), e, c))
    BY <1>1, DeltasSame
  <2>. QED BY <2>1, Zenon DEF Diagnostics
<1>4. CASE a = <<>> \/ Cyclic(a)
  BY <1>2, <1>4 DEF Summary
<1>5. CASE a # <<>> /\ ~ Cyclic(a)
  <2> DEFINE obs == Observations(a)
  <2>1. PICK sessions, models, segments, figures, total, basis, coverage, availability, ids, diagnostics :
          /\ sessions = {o.session : o \in ToSet(obs)} /\ models = Models(obs)
          /\ segments = Segments(obs) /\ figures = Figures(obs) /\ total = Total(obs)
          /\ basis = IF Cardinality({o.basis : o \in ToSet(obs)}) = 1 THEN obs[1].basis ELSE "unknown"
          /\ coverage = Promote(Coverages(obs), "complete")
          /\ availability = Promote({Availability(o) : o \in ToSet(obs)}, "available")
          /\ ids = [i \in DOMAIN obs |-> obs[i].id] /\ diagnostics = Diagnostics(a, obs)
    OBVIOUS
  <2>2. PICK first, second :
          first = Max({e.at : e \in ToSet(a)}) /\ second = Max({e.at : e \in ToSet(b)})
    OBVIOUS
  <2>3. Summary(a) = [sessions |-> sessions, models |-> models, segments |-> segments,
          figures |-> figures, total |-> total, basis |-> basis, coverage |-> coverage,
          availability |-> availability, collected |-> first, ids |-> ids, diagnostics |-> diagnostics]
    BY <1>5, <2>1, <2>2 DEF Summary
  <2>4. Summary(b) = [sessions |-> sessions, models |-> models, segments |-> segments,
          figures |-> figures, total |-> total, basis |-> basis, coverage |-> coverage,
          availability |-> availability, collected |-> second, ids |-> ids, diagnostics |-> diagnostics]
    BY <1>1, <1>2, <1>3, <1>5, <2>1, <2>2 DEF Summary
  <2>5. ToSet(a) = ToSet(b) => first = second
    BY <2>2
  <2>. HIDE DEF obs
  <2>6. Outline(Summary(a)) = Outline(Summary(b))
    BY <2>3, <2>4 DEF Outline
  <2>. QED BY <2>3, <2>4, <2>5, <2>6
<1>. QED BY <1>4, <1>5

\* Where ids differ, every event is an original.
LEMMA DistinctAreOriginals ==
  ASSUME NEW seq \in Seq(CostEvents), IdsDiffer(ToSet(seq))
  PROVE Originals(seq) = ToSet(seq)
<1>1. Originals(seq) \subseteq ToSet(seq) /\ Ids(Firsts(seq)) = Ids(seq)
  BY FirstsAre
<1>2. ASSUME NEW x \in ToSet(seq) PROVE x \in Originals(seq)
  <2>1. x.id \in Ids(Firsts(seq))
    BY <1>1 DEF Ids
  <2>2. PICK y \in Originals(seq) : y.id = x.id
    BY <2>1 DEF Ids, Originals
  <2>. QED BY <1>1, <2>2 DEF IdsDiffer
<1>. QED BY <1>1, <1>2

(***************************************************************************)
(* The engine accepts the originals of what it is offered.                 *)
(***************************************************************************)
\* A further event is a further original, if its id is new.
LEMMA FirstsAppend ==
  ASSUME NEW seq \in Seq(CostEvents), NEW e \in CostEvents
  PROVE Firsts(Append(seq, e)) = IF e.id \in Ids(seq) THEN Firsts(seq) ELSE Append(Firsts(seq), e)
<1> DEFINE N == Len(seq)
           longer == Append(seq, e)
           P == {i \in DOMAIN seq : \A j \in 1 .. i - 1 : seq[j]["id"] # seq[i]["id"]}
           Q == {i \in DOMAIN longer : \A j \in 1 .. i - 1 : longer[j]["id"] # longer[i]["id"]}
<1>id. \A x : x["id"] = x.id
  OBVIOUS
<1>1. /\ N \in Nat /\ DOMAIN seq = 1 .. N /\ DOMAIN longer = 1 .. N + 1 /\ longer[N + 1] = e
      /\ \A i \in 1 .. N : longer[i] = seq[i]
  OBVIOUS
<1>2. P \in SUBSET (1 .. N) /\ Q \in SUBSET (1 .. N + 1)
      /\ Firsts(seq) = Kept(seq, P) /\ Firsts(longer) = Kept(longer, Q)
  BY <1>1 DEF Firsts, Leaders
<1>3. \A i \in 1 .. N : i \in Q <=> i \in P
  <2> TAKE i \in 1 .. N
  <2>1. \A j \in 1 .. i - 1 : j \in 1 .. N
    BY <1>1
  <2>. QED BY <1>1, <2>1
<1>4. N + 1 \in Q <=> e.id \notin Ids(seq)
  <2>1. Ids(seq) = {seq[i].id : i \in 1 .. N}
    BY <1>1 DEF Ids, ToSet
  <2>2. N + 1 \in Q <=> \A j \in 1 .. N : longer[j]["id"] # longer[N + 1]["id"]
    BY <1>1
  <2>3. N + 1 \in Q <=> \A j \in 1 .. N : seq[j].id # e.id
    BY <1>1, <1>id, <2>2
  <2>. QED BY <2>1, <2>3
<1> HIDE DEF N, P, Q, longer
<1>5. Kept(seq, P) = [n \in 1 .. Cardinality(P) |-> seq[Nth(P, n)]] /\ Cardinality(P) \in Nat
      /\ IsFiniteSet(P) /\ \A n \in 1 .. Cardinality(P) : Nth(P, n) \in P
  BY <1>1, <1>2, KeptIs, NthIs
<1>6. Kept(longer, Q) = [n \in 1 .. Cardinality(Q) |-> longer[Nth(Q, n)]]
      /\ IsFiniteSet(Q)
  <2>1. PICK M \in Nat : M = N + 1
    BY <1>1
  <2>2. Q \in SUBSET (1 .. M)
    BY <1>2, <2>1
  <2>3. Kept(longer, Q) = [n \in 1 .. Cardinality(Q) |-> longer[Nth(Q, n)]]
    BY <2>2, KeptIs
  <2>4. IsFiniteSet(Q)
    BY <2>2, NthIs
  <2>. QED BY <2>3, <2>4
<1>q. \A i \in 1 .. N + 1 : i \in 1 .. N \/ i = N + 1
  BY <1>1
<1>r. N + 1 \notin P
  BY <1>1, <1>2
<1>7. CASE e.id \in Ids(seq)
  <2>1. Q = P
    BY <1>2, <1>3, <1>4, <1>7, <1>q
  <2>. QED BY <1>1, <1>2, <1>5, <1>6, <1>7, <2>1 DEF longer
<1>8. CASE e.id \notin Ids(seq)
  <2>1. Q = P \cup {N + 1} /\ N + 1 \notin P
    BY <1>2, <1>3, <1>4, <1>8, <1>q, <1>r
  <2>2. Cardinality(Q) = Cardinality(P) + 1
    BY <1>5, <2>1, FS_AddElement
  <2>3. Sorts(Less(P), P) /\ Sorts(Less(Q), Q)
    BY <1>1, <1>2 DEF Sorts, Less
  <2>4. ASSUME NEW n \in 1 .. Cardinality(P) PROVE Nth(Q, n) = Nth(P, n)
    <3>1. PICK i \in P : i = Nth(P, n)
      BY <1>5
    <3>2. {j \in Q : j < i} = {j \in P : j < i}
      BY <1>1, <1>2, <2>1
    <3>3. Cardinality({j \in P : j < i}) = n - 1
      <4>1. \A k \in P : {j \in P : j < k} = Below(P, Less(P), k)
        BY DEF Below, Less
      <4>2. Nth(P, n) = AtPlace(P, Less(P), n)
        BY <4>1 DEF Nth, AtPlace, Rank
      <4>3. Rank(P, Less(P), AtPlace(P, Less(P), n)) = n - 1
        BY <1>5, <2>3, PlacesAre
      <4>. QED BY <3>1, <4>1, <4>2, <4>3 DEF Rank
    <3>4. \A k \in Q : {j \in Q : j < k} = Below(Q, Less(Q), k)
      BY DEF Below, Less
    <3>5. i \in Q /\ Rank(Q, Less(Q), i) = n - 1
      BY <2>1, <3>2, <3>3, <3>4 DEF Rank
    <3>6. \A x, y \in Q : Rank(Q, Less(Q), x) = Rank(Q, Less(Q), y) => x = y
      BY <1>6, <2>3, RanksFill
    <3>7. Nth(Q, n) = AtPlace(Q, Less(Q), n)
      BY <3>4 DEF Nth, AtPlace, Rank
    <3>8. AtPlace(Q, Less(Q), n) = i
      BY <3>5, <3>6 DEF AtPlace
    <3>. QED BY <3>1, <3>7, <3>8
  <2>5. Nth(Q, Cardinality(P) + 1) = N + 1
    <3>1. {j \in Q : j < N + 1} = P
      <4>1. N \in Nat /\ \A j \in P : j \in 1 .. N
        BY <1>1, <1>2
      <4>2. \A j \in P : j < N + 1
        BY <4>1
      <4>3. ~ (N + 1 < N + 1)
        BY <4>1
      <4>. QED BY <2>1, <4>2, <4>3
    <3>2. \A k \in Q : {j \in Q : j < k} = Below(Q, Less(Q), k)
      BY DEF Below, Less
    <3>3. N + 1 \in Q /\ Rank(Q, Less(Q), N + 1) = Cardinality(P)
      BY <2>1, <3>1, <3>2 DEF Rank
    <3>4. AtPlace(Q, Less(Q), Rank(Q, Less(Q), N + 1) + 1) = N + 1
      BY <1>6, <2>3, <3>3, PlacesAre
    <3>5. Nth(Q, Cardinality(P) + 1) = AtPlace(Q, Less(Q), Cardinality(P) + 1)
      BY <3>2 DEF Nth, AtPlace, Rank
    <3>. QED BY <3>3, <3>4, <3>5
  <2>6. Kept(seq, P) \in Seq(Parts(seq, P)) /\ Len(Kept(seq, P)) = Cardinality(P)
    BY <1>1, <1>2, KeptIs
  <2>7. Append(Kept(seq, P), e) = [n \in 1 .. Cardinality(P) + 1 |->
                                     IF n = Cardinality(P) + 1 THEN e ELSE Kept(seq, P)[n]]
    BY <1>5, <2>6
  <2>8. Kept(longer, Q) = [n \in 1 .. Cardinality(P) + 1 |->
                              IF n = Cardinality(P) + 1 THEN e ELSE Kept(seq, P)[n]]
    <3>1. ASSUME NEW n \in 1 .. Cardinality(P) + 1
          PROVE longer[Nth(Q, n)] = IF n = Cardinality(P) + 1 THEN e ELSE Kept(seq, P)[n]
      <4>1. CASE n = Cardinality(P) + 1
        BY <1>1, <2>5, <4>1
      <4>2. CASE n # Cardinality(P) + 1
        <5>1. n \in 1 .. Cardinality(P)
          BY <1>5, <4>2
        <5>2. Nth(P, n) \in 1 .. N
          BY <1>2, <1>5, <5>1
        <5>. QED BY <1>1, <1>5, <2>4, <4>2, <5>1, <5>2
      <4>. QED BY <4>1, <4>2
    <3>. QED BY <1>6, <2>2, <3>1
  <2>. QED BY <1>2, <1>8, <2>7, <2>8 DEF longer
<1>. QED BY <1>7, <1>8

\* What is offered is an event, and what is accepted is its original.
EngineInv == log \in Seq(CostEvents) /\ events = Firsts(log)

\* What is ingested is an event of the id it was offered with.
LEMMA InputsAreEvents ==
  ASSUME NEW input \in Inputs PROVE Event(input) \in CostEvents /\ Event(input).id = input.id
<1>1. input \in IngestUsageInputs /\ Null \notin Nat /\ Rates \in [DOMAIN Rates -> Amounts]
  BY EngineAssumption
<1>2. /\ input.given \subseteq Amounts /\ input.input \in Amounts /\ input.output \in Amounts
      /\ input.model \in DOMAIN Rates
  BY <1>1 DEF IngestUsageInputs
<1>3. Estimate(input) \in Amounts
  <2>1. CASE input.given # {}
    BY <1>2, <2>1 DEF Estimate
  <2>2. CASE input.given = {} /\ Null \in {input.input, input.output, Rates[input.model]}
    BY <2>2 DEF Estimate, Amounts
  <2>3. CASE input.given = {} /\ Null \notin {input.input, input.output, Rates[input.model]}
    <3>1. input.input \in Nat /\ input.output \in Nat /\ Rates[input.model] \in Nat
      BY <1>1, <1>2, <2>3 DEF Amounts
    <3>2. (input.input + input.output) * Rates[input.model] \in Nat
      BY <3>1
    <3>. QED BY <2>3, <3>2 DEF Estimate, Amounts
  <2>. QED BY <2>1, <2>2, <2>3
<1>4. PICK estimated \in Amounts : estimated = Estimate(input)
  BY <1>3
<1>. QED BY <1>1, <1>4 DEF Event, IngestUsageInputs, CostEvents

\* The invariant of the engine holds of no events,
LEMMA EngineStarts ==
  ASSUME EngineInit PROVE EngineInv
<1>1. log = <<>> /\ events = <<>> /\ log \in Seq(CostEvents)
  BY DEF EngineInit
<1>2. Firsts(log) \in Seq(Originals(log)) /\ Originals(log) \subseteq ToSet(log)
  <2>1. Lists(Firsts(log), Originals(log)) /\ Originals(log) \subseteq ToSet(log)
    BY <1>1, FirstsAre DEF Originals
  <2>. QED BY <2>1 DEF Lists
<1>3. ToSet(log) = {}
  BY <1>1 DEF ToSet
<1>4. Firsts(log) = <<>>
  <2>1. PICK s : s = Firsts(log)
    OBVIOUS
  <2>2. s \in Seq({})
    <3>1. Originals(log) = {}
      BY <1>2, <1>3
    <3>. QED BY <1>2, <2>1, <3>1
  <2>3. Len(s) = 0
    BY <2>2
  <2>. QED BY <2>1, <2>2, <2>3
<1>. QED BY <1>1, <1>4 DEF EngineInv

\* and an event more keeps it: accepted only if its id is new.
LEMMA EngineKeeps ==
  ASSUME EngineInv, [EngineNext]_engineVars PROVE EngineInv'
<1>1. CASE UNCHANGED engineVars
  BY <1>1 DEF engineVars, EngineInv
<1>2. CASE EngineNext
  <2>1. PICK input \in Inputs : Ingest(input)
    BY <1>2 DEF EngineNext
  <2>2. PICK e \in CostEvents : e = Event(input) /\ e.id = input.id
    BY InputsAreEvents
  <2>3. log \in Seq(CostEvents) /\ events = Firsts(log) /\ Ids(events) = Ids(log)
    BY FirstsAre DEF EngineInv
  <2>4. Firsts(Append(log, e)) = IF e.id \in Ids(log) THEN events ELSE Append(events, e)
    BY <2>3, FirstsAppend
  <2>5. /\ log' = IF Valid(input) THEN Append(log, e) ELSE log
        /\ events' = IF Valid(input) /\ e.id \notin Ids(log) THEN Append(events, e) ELSE events
    BY <2>1, <2>2, <2>3 DEF Ingest, StatusOf
  <2>6. log' \in Seq(CostEvents)
    BY <2>3, <2>5
  <2>7. events' = Firsts(log')
    BY <2>3, <2>4, <2>5
  <2>. QED BY <2>6, <2>7 DEF EngineInv
<1>. QED BY <1>1, <1>2

\* Repetitions add nothing, in any order.
LEMMA ReplaysAddNothing ==
  ASSUME EngineInv PROVE ReplayIsNoOp
<1>1. log \in Seq(CostEvents) /\ events = Firsts(log)
  BY DEF EngineInv
<1> DEFINE K == Originals(log)
<1>2. /\ Lists(events, K) /\ IdsDiffer(K) /\ K \subseteq CostEvents /\ K \subseteq ToSet(log)
      /\ Ids(events) = Ids(log) /\ ToSet(events) = K
  BY <1>1, FirstsAre DEF Originals
<1>3. \A seq : Lists(seq, K) => /\ seq \in Seq(CostEvents) /\ ToSet(seq) = K /\ Originals(seq) = K
  <2> TAKE seq
  <2> HAVE Lists(seq, K)
  <2>1. seq \in Seq(K) /\ ToSet(seq) = K
    BY ListsSize DEF Lists
  <2>2. seq \in Seq(CostEvents)
    BY <1>2, <2>1
  <2>. QED BY <1>2, <2>1, <2>2, DistinctAreOriginals
<1>4. \A seq : seq \in Seq(CostEvents) /\ ToSet(seq) = ToSet(log) => (seq = <<>> <=> log = <<>>)
  <2> TAKE seq
  <2> HAVE seq \in Seq(CostEvents) /\ ToSet(seq) = ToSet(log)
  <2>1. \A s \in Seq(CostEvents) : s = <<>> <=> ToSet(s) = {}
    <3> TAKE s \in Seq(CostEvents)
    <3>1. CASE s = <<>>
      BY <3>1 DEF ToSet
    <3>2. CASE s # <<>>
      <4>1. 1 \in DOMAIN s
        BY <3>2
      <4>. QED BY <3>2, <4>1 DEF ToSet
    <3>. QED BY <3>1, <3>2
  <2>. QED BY <1>1, <2>1
<1>5. Outline(Summary(log)) = Outline(Summary(events))
  <2>1. events \in Seq(CostEvents) /\ Originals(events) = Originals(log)
    BY <1>2, <1>3
  <2>2. log = <<>> <=> events = <<>>
    <3>1. Ids(log) = {} <=> ToSet(log) = {}
      BY DEF Ids
    <3>2. Ids(events) = {} <=> ToSet(events) = {}
      BY DEF Ids
    <3>3. \A s \in Seq(CostEvents) : s = <<>> <=> ToSet(s) = {}
      <4> TAKE s \in Seq(CostEvents)
      <4>1. CASE s = <<>>
        BY <4>1 DEF ToSet
      <4>2. CASE s # <<>>
        <5>1. 1 \in DOMAIN s
          BY <4>2
        <5>. QED BY <4>2, <5>1 DEF ToSet
      <4>. QED BY <4>1, <4>2
    <3>. QED BY <1>1, <1>2, <2>1, <3>1, <3>2, <3>3
  <2>. QED BY <1>1, <2>1, <2>2, SummariesSame
<1>6. ASSUME \A a, b \in ToSet(log) : a.id = b.id => a = b
      PROVE Summary(log) = Summary(Sorted(Firsts(log), LAMBDA a, b : a.id < b.id))
  <2>1. ToSet(log) = K
    <3>1. IdsDiffer(ToSet(log))
      BY <1>6 DEF IdsDiffer
    <3>. QED BY <1>1, <3>1, DistinctAreOriginals
  <2>2. PICK seq : seq = Sorted(Firsts(log), LAMBDA a, b : a.id < b.id)
    OBVIOUS
  <2>3. seq = ByRank(K, IdOrder(K))
    BY <1>1, <1>2, <2>2, SortedIs
  <2>4. Lists(seq, K)
    BY <1>2, <2>3, EventsSort, ByRankLists, ListsSize
  <2>5. seq \in Seq(CostEvents) /\ ToSet(seq) = ToSet(log) /\ Originals(seq) = Originals(log)
    BY <1>3, <2>1, <2>4
  <2>6. log = <<>> <=> seq = <<>>
    BY <1>4, <2>5
  <2>7. Summary(log) = Summary(seq)
    BY <1>1, <2>5, <2>6, SummariesSame
  <2>. QED BY <2>2, <2>7
<1>. QED BY <1>5, <1>6 DEF ReplayIsNoOp

\* Of a chain of replays the last link counts: as many events count as chains begin.
LEMMA ChainsCountOnce ==
  ASSUME EngineInv PROVE ChainCountsOnce
<1> DEFINE F == Originals(log)
           starts == {e \in F : e.replayOf \notin Ids(log)}
           forked == \E a, b \in F : a # b /\ a.replayOf # 0 /\ a.replayOf = b.replayOf
<1>1. SUFFICES ASSUME ~ forked PROVE Len(Contributing(log)) = Cardinality(starts)
  BY DEF ChainCountsOnce, Originals
<1>2. /\ log \in Seq(CostEvents) /\ IdsDiffer(F) /\ F \subseteq CostEvents
      /\ IsFiniteSet(F) /\ Ids(log) = {e.id : e \in F}
  <2>1. log \in Seq(CostEvents) /\ Lists(Firsts(log), F) /\ IdsDiffer(F) /\ F \subseteq CostEvents
        /\ Ids(Firsts(log)) = Ids(log)
    BY FirstsAre DEF EngineInv
  <2>. QED BY <2>1, ListsSize DEF Ids, Originals
<1>3. Len(Contributing(log)) = Cardinality(Contributors(log))
  BY <1>2, ContributingAre, ListsSize
<1> DEFINE later == {e \in F : e.replayOf \in Ids(log)}
           replaced == {e \in F : e.id \in {f.replayOf : f \in F}}
           link == [e \in later |-> CHOOSE x \in F : x.id = e.replayOf]
<1>4. \A e \in later : link[e] \in replaced /\ link[e].id = e.replayOf
  <2> TAKE e \in later
  <2>1. \E x \in F : x.id = e.replayOf
    BY <1>2
  <2>2. link[e] \in F /\ link[e].id = e.replayOf
    BY <2>1
  <2>. QED BY <2>2
<1>5. link \in Injection(later, replaced)
  <2>1. link \in [later -> replaced]
    BY <1>4
  <2>2. \A a, b \in later : link[a] = link[b] => a = b
    <3> TAKE a, b \in later
    <3> HAVE link[a] = link[b]
    <3>1. a.replayOf = b.replayOf /\ a \in F /\ b \in F
      BY <1>4
    <3>2. a.replayOf # 0
      BY <1>2 DEF CostEvents
    <3>. QED BY <1>1, <3>1, <3>2
  <2> HIDE DEF link, later, replaced
  <2>. QED BY <2>1, <2>2 DEF Injection, IsInjective
<1>6. link \in Surjection(later, replaced)
  <2>1. link \in [later -> replaced]
    BY <1>4
  <2>2. \A x \in replaced : \E e \in later : link[e] = x
    <3> TAKE x \in replaced
    <3>1. PICK e \in F : e.replayOf = x.id
      OBVIOUS
    <3>2. e \in later
      BY <1>2, <3>1
    <3>3. link[e] \in F /\ link[e].id = x.id
      BY <1>4, <3>1, <3>2
    <3>4. link[e] = x
      <4> HIDE DEF link, later
      <4>. QED BY <1>2, <3>3 DEF IdsDiffer
    <3>. QED BY <3>2, <3>4
  <2> HIDE DEF link, later, replaced
  <2>. QED BY <2>1, <2>2 DEF Surjection
<1>7. IsFiniteSet(later) /\ Cardinality(later) = Cardinality(replaced) /\ IsFiniteSet(replaced)
  <2>1. IsFiniteSet(later)
    BY <1>2, FS_Subset
  <2> HIDE DEF link, later, replaced
  <2>. QED BY <1>5, <1>6, <2>1, FS_Surjection
<1>8. /\ starts = F \ later /\ later \subseteq F
      /\ Contributors(log) = F \ replaced /\ replaced \subseteq F
  BY DEF Contributors
<1>9. \A T \in SUBSET F : Cardinality(F \ T) = Cardinality(F) - Cardinality(T)
  <2> TAKE T \in SUBSET F
  <2>1. IsFiniteSet(T) /\ IsFiniteSet(F \ T)
    BY <1>2, FS_Subset
  <2>2. Cardinality(T \cup (F \ T)) = Cardinality(T) + Cardinality(F \ T) - Cardinality(T \cap (F \ T))
    <3> HIDE DEF F
    <3>. QED BY <2>1, FS_Union
  <2>3. T \cup (F \ T) = F /\ T \cap (F \ T) = {}
    OBVIOUS
  <2>4. PICK t \in Nat, rest \in Nat : t = Cardinality(T) /\ rest = Cardinality(F \ T)
    BY <2>1, FS_CardinalityType
  <2>5. Cardinality(T \cap (F \ T)) = 0
    BY <2>3, FS_EmptySet
  <2>6. Cardinality(F) = t + rest - 0
    BY <2>2, <2>3, <2>4, <2>5
  <2>. QED BY <2>4, <2>6
<1> HIDE DEF F, later, replaced, starts
<1>. QED BY <1>3, <1>7, <1>8, <1>9

(***************************************************************************)
(* Sums of what may be missing.                                            *)
(***************************************************************************)
Worth(g) == [i \in DOMAIN g |-> IF g[i] = Null THEN 0 ELSE g[i]]
Units(g, P) == Cardinality(Pairs(Worth(g), P))
NullSum(g, P) == IF \A i \in P : g[i] = Null THEN Null ELSE Units(g, P)

NullIter(seq) ==
  CHOOSE iter : iter = [s \in SUBSET DOMAIN seq |-> IF s = {} THEN Null
     ELSE LET x == Max(s) IN AddNullable(iter[s \ {x}], seq[x])]

\* Units are natural numbers, and none are none.
LEMMA UnitsAre ==
  ASSUME NEW N \in Nat, NEW g, DOMAIN g = 1 .. N, \A i \in 1 .. N : g[i] \in Amounts,
         NEW P \in SUBSET (1 .. N)
  PROVE /\ IsFiniteSet(P) /\ Units(g, P) \in Nat /\ Units(g, {}) = 0
        /\ \A x \in P : Worth(g)[x] \in Nat
<1>1. IsFiniteSet(P)
  BY NthIs
<1>2. \A x \in P : Worth(g)[x] \in Nat
  BY DEF Worth, Amounts
<1>3. Units(g, P) \in Nat
  BY <1>1, <1>2, PairsFinite, FS_CardinalityType DEF Units
<1>4. Units(g, {}) = 0
  <2>1. Pairs(Worth(g), {}) = {}
    BY DEF Pairs
  <2>. QED BY <2>1, FS_EmptySet DEF Units
<1>. QED BY <1>1, <1>2, <1>3, <1>4

\* Adding up what is there of a sequence, nothing if nothing is.
LEMMA SumNullableIs ==
  ASSUME NEW N \in Nat, NEW seq, DOMAIN seq = 1 .. N, \A i \in 1 .. N : seq[i] \in Amounts
  PROVE SumNullable(seq) = NullSum(seq, 1 .. N)
<1> DEFINE G(iter) == [s \in SUBSET (1 .. N) |-> IF s = {} THEN Null
     ELSE AddNullable(iter[s \ {Max(s)}], seq[Max(s)])]
           sums == [s \in SUBSET (1 .. N) |-> NullSum(seq, s)]
           sum == NullIter(seq)
<1>0. Null \notin Nat
  BY EngineAssumption
<1>1. ASSUME NEW s \in SUBSET (1 .. N), s # {}
      PROVE Max(s) \in s /\ s \ {Max(s)} \in SUBSET (1 .. N)
  BY <1>1, GreatestExists
<1>2. ASSUME NEW s \in SUBSET (1 .. N), NEW x \in s
      PROVE NullSum(seq, s) = AddNullable(NullSum(seq, s \ {x}), seq[x])
  <2> DEFINE rest == s \ {x}
  <2>1. /\ Units(seq, s) = Worth(seq)[x] + Units(seq, rest) /\ Units(seq, rest) \in Nat
        /\ Worth(seq)[x] = IF seq[x] = Null THEN 0 ELSE seq[x]
        /\ seq[x] \in Amounts
    <3>1. Units(seq, s) = Worth(seq)[x] + Units(seq, rest) /\ x \in 1 .. N
      <4>1. IsFiniteSet(s) /\ \A y \in s : Worth(seq)[y] \in Nat
        BY UnitsAre
      <4>. QED BY <4>1, PairsStep DEF Units
    <3>2. rest \in SUBSET (1 .. N)
      OBVIOUS
    <3>3. Units(seq, rest) \in Nat
      <4> HIDE DEF rest
      <4>. QED BY <3>2, UnitsAre
    <3>. QED BY <3>1, <3>3 DEF Worth
  <2>2. CASE seq[x] = Null
    <3>1. (\A i \in s : seq[i] = Null) <=> (\A i \in rest : seq[i] = Null)
      BY <2>2
    <3>2. Units(seq, s) = Units(seq, rest)
      BY <2>1, <2>2
    <3>. QED BY <2>2, <3>1, <3>2 DEF NullSum, AddNullable
  <2>3. CASE seq[x] # Null
    <3>1. NullSum(seq, s) = Units(seq, s) /\ Units(seq, s) = seq[x] + Units(seq, rest) /\ seq[x] \in Nat
      BY <2>1, <2>3 DEF NullSum, Amounts
    <3>2. CASE \A i \in rest : seq[i] = Null
      <4>1. Units(seq, rest) = 0
        <5>1. \A i \in rest : Worth(seq)[i] = 0
          BY <3>2 DEF Worth
        <5>2. Pairs(Worth(seq), rest) = {}
          <6>1. \A p \in rest \X Nat : p[2] \notin 1 .. Worth(seq)[p[1]]
            <7> TAKE p \in rest \X Nat
            <7>1. p[1] \in rest /\ Worth(seq)[p[1]] = 0
              BY <5>1
            <7>. QED BY <7>1
          <6>. QED BY <6>1 DEF Pairs
        <5>. QED BY <5>2, FS_EmptySet DEF Units
      <4>. QED BY <2>3, <3>1, <3>2, <4>1 DEF NullSum, AddNullable
    <3>3. CASE ~ (\A i \in rest : seq[i] = Null)
      <4>1. NullSum(seq, rest) = Units(seq, rest)
        BY <3>3 DEF NullSum
      <4>2. PICK u \in Nat, v \in Nat : u = Units(seq, rest) /\ v = seq[x]
        BY <2>1, <3>1
      <4>3. AddNullable(u, v) = u + v
        BY <1>0 DEF AddNullable
      <4>. QED BY <3>1, <4>1, <4>2, <4>3
    <3>. QED BY <3>2, <3>3
  <2>. QED BY <2>2, <2>3
<1>3. NullSum(seq, {}) = Null
  BY DEF NullSum
<1>4. sums = G(sums)
  <2>1. \A s \in SUBSET (1 .. N) : sums[s] = G(sums)[s]
    <3> TAKE s \in SUBSET (1 .. N)
    <3>1. CASE s = {}
      BY <1>3, <3>1
    <3>2. CASE s # {}
      <4>1. Max(s) \in s /\ s \ {Max(s)} \in SUBSET (1 .. N)
        BY <1>1, <3>2
      <4>2. NullSum(seq, s) = AddNullable(NullSum(seq, s \ {Max(s)}), seq[Max(s)])
        BY <1>2, <4>1
      <4>. QED BY <3>2, <4>1, <4>2
    <3>. QED BY <3>1, <3>2
  <2>2. sums = [s \in SUBSET (1 .. N) |-> sums[s]] /\ G(sums) = [s \in SUBSET (1 .. N) |-> G(sums)[s]]
    OBVIOUS
  <2>. QED BY <2>1, <2>2
<1>5. sum = G(sum)
  <2>1. \E iter : iter = G(iter)
    BY <1>4
  <2>. QED BY <2>1 DEF NullIter
<1>6. sum[{}] = Null
  BY <1>5
<1>7. ASSUME NEW s \in SUBSET (1 .. N), s # {}
      PROVE sum[s] = AddNullable(sum[s \ {Max(s)}], seq[Max(s)])
  BY <1>5, <1>7
<1>8. SumNullable(seq) = sum[1 .. N]
  BY DEF SumNullable, FoldLeft, MapThenFoldSet, NullIter
<1> HIDE DEF sum, sums
<1> DEFINE wrong == {s \in SUBSET (1 .. N) : sum[s] # NullSum(seq, s)}
<1>9. wrong = {}
  <2> SUFFICES ASSUME wrong # {} PROVE FALSE
    OBVIOUS
  <2>1. IsWellFoundedOn(StrictSubsetOrdering(1 .. N), SUBSET (1 .. N))
    <3>1. IsFiniteSet(1 .. N)
      BY NthIs
    <3>. QED BY <3>1, FS_StrictSubsetOrderingWellFounded, FS_FiniteSubsetsOfFinite
  <2>2. PICK s \in wrong : \A t \in wrong : ~ (<<t, s>> \in StrictSubsetOrdering(1 .. N))
    <3>1. wrong \subseteq SUBSET (1 .. N)
      OBVIOUS
    <3> HIDE DEF wrong
    <3>. QED BY <2>1, <3>1, WFMin
  <2>3. s # {}
    BY <1>3, <1>6
  <2>4. PICK x \in s : /\ s \ {x} \in SUBSET (1 .. N)
                       /\ NullSum(seq, s) = AddNullable(NullSum(seq, s \ {x}), seq[x])
                       /\ sum[s] = AddNullable(sum[s \ {x}], seq[x])
    BY <1>1, <1>2, <1>7, <2>3
  <2>5. s \ {x} \notin wrong
    <3>1. <<s \ {x}, s>> \in StrictSubsetOrdering(1 .. N)
      BY <2>4 DEF StrictSubsetOrdering
    <3>. QED BY <2>2, <3>1
  <2>6. sum[s \ {x}] = NullSum(seq, s \ {x})
    BY <2>4, <2>5
  <2>. QED BY <2>2, <2>4, <2>6
<1>. QED BY <1>8, <1>9

\* What two sets of positions add up to.
LEMMA UnitsUnion ==
  ASSUME NEW g, NEW A, IsFiniteSet(A), NEW B, IsFiniteSet(B),
         \A x \in A \cup B : Worth(g)[x] \in Nat, A \cap B = {}
  PROVE Units(g, A \cup B) = Units(g, A) + Units(g, B)
<1> DEFINE a == Pairs(Worth(g), A)
           b == Pairs(Worth(g), B)
<1>1. IsFiniteSet(a) /\ IsFiniteSet(b)
  <2>1. (\A x \in A : Worth(g)[x] \in Nat) /\ (\A x \in B : Worth(g)[x] \in Nat)
    OBVIOUS
  <2>. QED BY <2>1, PairsFinite
<1>2. Pairs(Worth(g), A \cup B) = a \cup b
  BY DEF Pairs
<1>3. a \cap b = {}
  BY DEF Pairs
<1>4. PICK u \in Nat, v \in Nat : u = Cardinality(a) /\ v = Cardinality(b)
  BY <1>1, FS_CardinalityType
<1>5. Cardinality(a \cap b) = 0
  BY <1>3, FS_EmptySet
<1>6. Cardinality(a \cup b) = u + v - 0
  <2> HIDE DEF a, b
  <2>. QED BY <1>1, <1>4, <1>5, FS_Union
<1>7. Units(g, A) = u /\ Units(g, B) = v /\ Units(g, A \cup B) = Cardinality(a \cup b)
  BY <1>2, <1>4 DEF Units
<1>. QED BY <1>4, <1>6, <1>7

\* What is kept of a sequence adds up to what stands at the positions.
LEMMA KeptSum ==
  ASSUME NEW N \in Nat, NEW g, DOMAIN g = 1 .. N, \A i \in 1 .. N : g[i] \in Amounts,
         NEW P \in SUBSET (1 .. N), NEW seq, DOMAIN seq = 1 .. Cardinality(P),
         \A n \in 1 .. Cardinality(P) : seq[n] = g[Nth(P, n)]
  PROVE SumNullable(seq) = NullSum(g, P)
<1>1. PICK M \in Nat : M = Cardinality(P)
  BY NthIs
<1>2. /\ \A n \in 1 .. M : Nth(P, n) \in P
      /\ \A m, n \in 1 .. M : m < n <=> Nth(P, m) < Nth(P, n)
      /\ \A i \in P : \E n \in 1 .. M : Nth(P, n) = i
  BY <1>1, NthIs
<1>3. DOMAIN seq = 1 .. M /\ \A n \in 1 .. M : seq[n] = g[Nth(P, n)] /\ seq[n] \in Amounts
  BY <1>1, <1>2
<1>4. SumNullable(seq) = NullSum(seq, 1 .. M)
  BY <1>3, SumNullableIs
<1>5. (\A n \in 1 .. M : seq[n] = Null) <=> (\A i \in P : g[i] = Null)
  BY <1>2, <1>3
<1> DEFINE S == Pairs(Worth(seq), 1 .. M)
           T == Pairs(Worth(g), P)
           place == [p \in S |-> <<Nth(P, p[1]), p[2]>>]
<1>6. \A n \in 1 .. M : Worth(seq)[n] = Worth(g)[Nth(P, n)]
  BY <1>2, <1>3 DEF Worth
<1>7. \A p \in S : /\ p[1] \in 1 .. M /\ p[2] \in Nat /\ p[2] \in 1 .. Worth(seq)[p[1]]
                   /\ p = <<p[1], p[2]>>
  BY DEF Pairs
<1>8. place \in [S -> T]
  <2>1. \A p \in S : <<Nth(P, p[1]), p[2]>> \in T
    BY <1>2, <1>6, <1>7 DEF Pairs
  <2>. QED BY <2>1
<1>9. place \in Injection(S, T)
  <2>1. \A p, q \in S : place[p] = place[q] => p = q
    <3> TAKE p, q \in S
    <3> HAVE place[p] = place[q]
    <3>1. Nth(P, p[1]) = Nth(P, q[1]) /\ p[2] = q[2]
      OBVIOUS
    <3>2. p[1] = q[1]
      <4>1. PICK m \in 1 .. M, n \in 1 .. M : m = p[1] /\ n = q[1]
        BY <1>7
      <4>2. ~ (m < n) /\ ~ (n < m)
        <5>1. Nth(P, m) = Nth(P, n)
          BY <3>1, <4>1
        <5>2. Nth(P, m) \in P /\ P \subseteq 1 .. N
          BY <1>2
        <5>3. PICK i \in 1 .. N : i = Nth(P, m) /\ i = Nth(P, n)
          BY <5>1, <5>2
        <5>4. (m < n <=> i < i) /\ (n < m <=> i < i)
          <6>1. (m < n <=> Nth(P, m) < Nth(P, n)) /\ (n < m <=> Nth(P, n) < Nth(P, m))
            BY <1>2
          <6>. QED BY <5>3, <6>1
        <5>. QED BY <5>3, <5>4
      <4>. QED BY <4>1, <4>2
    <3>. QED BY <1>7, <3>1, <3>2
  <2> HIDE DEF S, T, place
  <2>. QED BY <1>8, <2>1 DEF Injection, IsInjective
<1>10. place \in Surjection(S, T)
  <2>1. \A q \in T : \E p \in S : place[p] = q
    <3> TAKE q \in T
    <3>1. q[1] \in P /\ q[2] \in Nat /\ q[2] \in 1 .. Worth(g)[q[1]] /\ q = <<q[1], q[2]>>
      BY DEF Pairs
    <3>2. PICK n \in 1 .. M : Nth(P, n) = q[1]
      BY <1>2, <3>1
    <3>3. PICK p : p = <<n, q[2]>>
      OBVIOUS
    <3>4. p \in S /\ p[1] = n /\ p[2] = q[2]
      BY <1>6, <3>1, <3>2, <3>3 DEF Pairs
    <3>5. place[p] = q
      BY <3>1, <3>2, <3>4
    <3>. QED BY <3>4, <3>5
  <2> HIDE DEF S, T, place
  <2>. QED BY <1>8, <2>1 DEF Surjection
<1>11. Cardinality(S) = Cardinality(T)
  <2>1. IsFiniteSet(S)
    <3>1. IsFiniteSet(1 .. M) /\ \A x \in 1 .. M : Worth(seq)[x] \in Nat
      BY <1>3, UnitsAre
    <3>. QED BY <3>1, PairsFinite
  <2> HIDE DEF S, T, place
  <2>. QED BY <1>9, <1>10, <2>1, FS_Surjection
<1>. QED BY <1>4, <1>5, <1>11 DEF NullSum, Units

\* The positions up to N fall into m parts.
Splits(part, m, N) ==
  /\ m \in Nat /\ \A k \in 1 .. m : part[k] \in SUBSET (1 .. N)
  /\ \A i \in 1 .. N : \E k \in 1 .. m : i \in part[k]
  /\ \A j, k \in 1 .. m : j < k => part[j] \cap part[k] = {}

\* The sums of the parts of g.
PartSums(h, g, part, m) ==
  DOMAIN h = 1 .. m /\ \A k \in 1 .. m : h[k] = NullSum(g, part[k])

\* The sums of the parts of a sequence add up to its sum.
LEMMA PartsAddUp ==
  ASSUME NEW N \in Nat, NEW g, DOMAIN g = 1 .. N, \A i \in 1 .. N : g[i] \in Amounts,
         NEW m, NEW part, Splits(part, m, N), NEW h, PartSums(h, g, part, m)
  PROVE SumNullable(h) = NullSum(g, 1 .. N)
<1>. m \in Nat
  BY DEF Splits
<1>8. \A k \in 1 .. m : part[k] \in SUBSET (1 .. N)
  BY DEF Splits
<1>. DOMAIN h = 1 .. m /\ \A k \in 1 .. m : h[k] = NullSum(g, part[k])
  BY DEF PartSums
<1>0. Null \notin Nat
  BY EngineAssumption
<1>1. \A k \in 1 .. m : Units(g, part[k]) \in Nat
  BY <1>8, UnitsAre
<1>2. \A k \in 1 .. m : h[k] \in Amounts /\ Worth(h)[k] = Units(g, part[k])
  <2> TAKE k \in 1 .. m
  <2>1. Units(g, part[k]) \in Nat
    BY <1>1
  <2>2. CASE \A i \in part[k] : g[i] = Null
    <3>1. part[k] \in SUBSET (1 .. N)
      BY <1>8
    <3>2. \A i \in part[k] : Worth(g)[i] = 0
      BY <2>2, <3>1 DEF Worth
    <3>3. Pairs(Worth(g), part[k]) = {}
      <4>1. \A p \in part[k] \X Nat : p[2] \notin 1 .. Worth(g)[p[1]]
        <5> TAKE p \in part[k] \X Nat
        <5>1. p[1] \in part[k] /\ Worth(g)[p[1]] = 0
          BY <3>2
        <5>. QED BY <5>1
      <4>. QED BY <4>1 DEF Pairs
    <3>4. Units(g, part[k]) = 0
      BY <3>3, FS_EmptySet DEF Units
    <3>. QED BY <2>2, <3>4 DEF NullSum, Worth, Amounts
  <2>3. CASE ~ (\A i \in part[k] : g[i] = Null)
    <3>1. h[k] = Units(g, part[k])
      BY <2>3 DEF NullSum
    <3>. QED BY <1>0, <2>1, <3>1 DEF Worth, Amounts
  <2>. QED BY <2>2, <2>3
<1>3. SumNullable(h) = NullSum(h, 1 .. m)
  BY <1>2, SumNullableIs
<1>4. (\A k \in 1 .. m : h[k] = Null) <=> (\A i \in 1 .. N : g[i] = Null)
  <2>1. \A k \in 1 .. m : h[k] = Null <=> \A i \in part[k] : g[i] = Null
    BY <1>0, <1>1 DEF NullSum
  <2>2. \A i \in 1 .. N : \E k \in 1 .. m : i \in part[k]
    BY DEF Splits
  <2>. QED BY <1>8, <2>1, <2>2
<1>5. \A k \in 1 .. m : 1 .. k \in SUBSET (1 .. m) =>
         Units(h, 1 .. k) = Worth(h)[k] + Units(h, (1 .. k) \ {k})
  <2> TAKE k \in 1 .. m
  <2> HAVE 1 .. k \in SUBSET (1 .. m)
  <2>1. PICK P \in SUBSET (1 .. m) : P = 1 .. k
    OBVIOUS
  <2>2. k \in P
    BY <2>1
  <2>3. \A i \in 1 .. m : h[i] \in Amounts
    BY <1>2
  <2>4. IsFiniteSet(P) /\ \A x \in P : Worth(h)[x] \in Nat
    BY <2>3, UnitsAre
  <2>5. Units(h, P) = Worth(h)[k] + Units(h, P \ {k})
    BY <2>2, <2>4, PairsStep DEF Units
  <2>. QED BY <2>1, <2>5
<1> DEFINE upTo(k) == {i \in 1 .. N : \E j \in 1 .. k : i \in part[j]}
           wrong == {k \in 0 .. m : Units(h, 1 .. k) # Units(g, upTo(k))}
<1>6. wrong = {}
  <2> SUFFICES ASSUME wrong # {} PROVE FALSE
    OBVIOUS
  <2>1. PICK k \in wrong : \A l \in wrong : k <= l
    <3>1. wrong \in SUBSET Nat
      OBVIOUS
    <3> HIDE DEF wrong
    <3>. QED BY <3>1, LeastExists
  <2>2. CASE k = 0
    <3>1. upTo(k) = {} /\ 1 .. k = {}
      BY <2>2
    <3>2. Units(g, {}) = 0
      BY UnitsAre
    <3>3. Units(h, {}) = 0
      BY <1>2, UnitsAre
    <3>. QED BY <3>1, <3>2, <3>3
  <2>3. CASE k # 0
    <3>1. PICK l \in Nat : k = l + 1 /\ l \in 0 .. m /\ k \in 1 .. m
      <4>1. k \in 0 .. m /\ k - 1 \in Nat
        BY <2>3
      <4>. QED BY <2>3, <4>1
    <3>2. l \notin wrong
      <4> SUFFICES ASSUME l \in wrong PROVE FALSE
        OBVIOUS
      <4>1. k <= l
        BY <2>1
      <4>. QED BY <3>1, <4>1
    <3>3. Units(h, 1 .. l) = Units(g, upTo(l))
      BY <3>1, <3>2
    <3>4. upTo(k) = upTo(l) \cup part[k] /\ upTo(l) \cap part[k] = {}
      <4>1. \A j \in 1 .. k : j = k \/ j \in 1 .. l
        BY <3>1
      <4>2. \A j \in 1 .. l : j \in 1 .. k /\ j < k /\ j \in 1 .. m
        BY <3>1
      <4>3. part[k] \subseteq 1 .. N /\ k \in 1 .. k
        BY <1>8, <3>1
      <4>4. upTo(k) = upTo(l) \cup part[k]
        BY <4>1, <4>2, <4>3
      <4>5. upTo(l) \cap part[k] = {}
        <5>1. \A j \in 1 .. m : j < k => part[j] \cap part[k] = {}
          BY <3>1 DEF Splits
        <5>. QED BY <4>2, <5>1
      <4>. QED BY <4>4, <4>5
    <3>5. Units(g, upTo(k)) = Units(g, upTo(l)) + Units(g, part[k])
      <4>1. upTo(l) \in SUBSET (1 .. N) /\ part[k] \in SUBSET (1 .. N)
        BY <1>8, <3>1
      <4>2. PICK A \in SUBSET (1 .. N), B \in SUBSET (1 .. N) : A = upTo(l) /\ B = part[k]
        BY <4>1
      <4> HIDE DEF upTo
      <4>3. A \cap B = {} /\ upTo(k) = A \cup B
        BY <3>4, <4>2
      <4>4. Units(g, A \cup B) = Units(g, A) + Units(g, B)
        <5>1. IsFiniteSet(A) /\ \A x \in A : Worth(g)[x] \in Nat
          BY UnitsAre
        <5>2. IsFiniteSet(B) /\ \A x \in B : Worth(g)[x] \in Nat
          BY UnitsAre
        <5>. QED BY <4>3, <5>1, <5>2, UnitsUnion
      <4>. QED BY <4>2, <4>3, <4>4
    <3>6. Units(h, 1 .. k) = Worth(h)[k] + Units(h, 1 .. l)
      <4>1. (1 .. k) \ {k} = 1 .. l /\ (1 .. k) \in SUBSET (1 .. m) /\ k \in 1 .. k
        BY <3>1
      <4>2. Units(h, 1 .. k) = Worth(h)[k] + Units(h, (1 .. k) \ {k})
        BY <1>5, <4>1
      <4>. QED BY <4>1, <4>2
    <3>7. Worth(h)[k] = Units(g, part[k]) /\ Units(g, part[k]) \in Nat
      BY <1>1, <1>2, <3>1
    <3>8. Units(g, upTo(l)) \in Nat
      <4>1. upTo(l) \in SUBSET (1 .. N)
        OBVIOUS
      <4> HIDE DEF upTo
      <4>. QED BY <4>1, UnitsAre
    <3>9. Units(h, 1 .. k) = Units(g, upTo(k))
      <4> HIDE DEF upTo
      <4>. QED BY <3>3, <3>5, <3>6, <3>7, <3>8
    <3>. QED BY <3>9
  <2>. QED BY <2>2, <2>3
<1>7. Units(h, 1 .. m) = Units(g, upTo(m)) /\ upTo(m) = 1 .. N
  <2>1. m \in 0 .. m /\ m \notin wrong
    <3>1. m \in 0 .. m
      OBVIOUS
    <3> HIDE DEF wrong
    <3>. QED BY <1>6, <3>1
  <2>2. upTo(m) = 1 .. N
    BY DEF Splits
  <2>. QED BY <2>1, <2>2
<1>. QED BY <1>3, <1>4, <1>7 DEF NullSum

(***************************************************************************)
(* Running totals and their differences.                                   *)
(***************************************************************************)
\* The totals of this counter before e.
Earlier(kept, e, c) ==
  {p \in ToSet(kept) : /\ p.session = e.session /\ p.kind = "cumulative"
                       /\ InSession(p, e) /\ p[c] # Null}

\* A counter of an event is a number or missing.
LEMMA CountersAre ==
  ASSUME NEW e \in CostEvents, NEW c \in Counters PROVE e[c] \in Amounts
<1>1. CASE c = "input"
  BY <1>1 DEF CostEvents
<1>2. CASE c = "output"
  BY <1>2 DEF CostEvents
<1>3. CASE c = "actual"
  BY <1>3 DEF CostEvents
<1>4. CASE c = "estimated"
  BY <1>4 DEF CostEvents
<1>. QED BY <1>1, <1>2, <1>3, <1>4 DEF Counters

\* Of some events of different ids one is the latest.
LEMMA LatestExists ==
  ASSUME NEW E \in SUBSET CostEvents, IsFiniteSet(E), IdsDiffer(E), E # {}
  PROVE \E p \in E : \A q \in E : p = q \/ InSession(q, p)
<1> DEFINE R == SnapshotOrder(E)
<1>1. Sorts(R, E)
  BY EventsSort
<1>2. PICK n \in Nat : n = Cardinality(E)
  BY FS_CardinalityType
<1>3. n # 0
  BY <1>2, FS_EmptySet
<1>4. PICK p \in E : p = AtPlace(E, R, n) /\ Rank(E, R, p) = n - 1
  <2> HIDE DEF R
  <2>. QED BY <1>1, <1>2, <1>3, PlacesAre
<1>5. \A q \in E : p = q \/ <<q, p>> \in R
  <2> TAKE q \in E
  <2> SUFFICES ASSUME p # q, <<q, p>> \notin R PROVE FALSE
    OBVIOUS
  <2>1. <<p, q>> \in R
    BY <1>1 DEF Sorts
  <2>2. Rank(E, R, p) < Rank(E, R, q) /\ Rank(E, R, q) \in Nat
    <3> HIDE DEF R
    <3>. QED BY <1>1, <2>1, RanksGrow
  <2>3. Rank(E, R, q) \in 0 .. n - 1
    <3> HIDE DEF R
    <3>. QED BY <1>1, <1>2, RanksFill
  <2>. QED BY <1>2, <1>4, <2>2, <2>3
<1>. QED BY <1>5 DEF SnapshotOrder

\* The baseline is the latest of the earlier totals, if there is one.
LEMMA BaselineIs ==
  ASSUME NEW kept, ToSet(kept) \in SUBSET CostEvents, IsFiniteSet(ToSet(kept)),
         IdsDiffer(ToSet(kept)), NEW e, NEW c \in Counters
  PROVE /\ Earlier(kept, e, c) = {} => Baseline(kept, e, c) = Null
        /\ \A p \in Earlier(kept, e, c) :
             (\A q \in Earlier(kept, e, c) : p = q \/ InSession(q, p)) => Baseline(kept, e, c) = p[c]
        /\ Baseline(kept, e, c) \in Amounts
<1> DEFINE E == Earlier(kept, e, c)
           Latest(p) == \A q \in E : p = q \/ InSession(q, p)
<1>1. Baseline(kept, e, c) = IF E = {} THEN Null ELSE (CHOOSE p \in E : Latest(p))[c]
  BY DEF Baseline, Earlier
<1>2. E \in SUBSET CostEvents /\ IdsDiffer(E) /\ IsFiniteSet(E)
  <2>1. E \subseteq ToSet(kept)
    BY DEF Earlier
  <2> HIDE DEF E
  <2>. QED BY <2>1, FS_Subset DEF IdsDiffer
<1> HIDE DEF E
<1>3. ASSUME NEW p \in E, Latest(p) PROVE (CHOOSE x \in E : Latest(x)) = p
  <2>1. \A x \in E : Latest(x) => x = p
    <3> TAKE x \in E
    <3> HAVE Latest(x)
    <3>1. x = p \/ (InSession(p, x) /\ InSession(x, p))
      BY <1>3
    <3>2. x.seq \in Nat /\ p.seq \in Nat /\ x.id \in Nat /\ p.id \in Nat
      BY <1>2 DEF CostEvents
    <3>. QED BY <3>1, <3>2 DEF InSession
  <2>. QED BY <1>3, <2>1
<1>4. E # {} => \E p \in E : Latest(p)
  BY <1>2, LatestExists
<1>5. \A p \in E : p[c] \in Amounts
  BY <1>2, CountersAre
<1>6. ASSUME E # {} PROVE Baseline(kept, e, c) \in Amounts
  <2>1. PICK p \in E : Latest(p)
    BY <1>4, <1>6
  <2>. QED BY <1>1, <1>3, <1>5, <1>6, <2>1
<1>7. E = {} => Baseline(kept, e, c) = Null /\ Null \in Amounts
  BY <1>1 DEF Amounts
<1>8. \A p \in E : Latest(p) => Baseline(kept, e, c) = p[c]
  BY <1>1, <1>3
<1>. QED BY <1>6, <1>7, <1>8 DEF E

\* A difference is a number or missing.
LEMMA DeltasAre ==
  ASSUME NEW kept, ToSet(kept) \in SUBSET CostEvents, IsFiniteSet(ToSet(kept)),
         IdsDiffer(ToSet(kept)), NEW e \in CostEvents, NEW c \in Counters
  PROVE Delta(kept, e, c) \in Amounts
<1>1. PICK base \in Amounts, value \in Amounts : base = Baseline(kept, e, c) /\ value = e[c]
  BY BaselineIs, CountersAre
<1>2. Delta(kept, e, c) = IF e.kind = "delta" \/ Null \in {value, base} THEN value
                          ELSE IF value >= base THEN value - base ELSE 0
  BY <1>1 DEF Delta
<1>3. Null \notin {value, base} => value \in Nat /\ base \in Nat
  BY <1>1 DEF Amounts
<1>. QED BY <1>1, <1>2, <1>3 DEF Amounts

\* The observations are a sequence of records whose counters are numbers or missing.
LEMMA ObservationsAre ==
  ASSUME NEW seq \in Seq(CostEvents)
  PROVE \E N \in Nat : /\ DOMAIN Observations(seq) = 1 .. N
                       /\ \A i \in 1 .. N, c \in Counters : Observations(seq)[i][c] \in Amounts
<1> DEFINE kept == Contributing(seq)
           K == Contributors(seq)
           ordered == Sorted(kept, CompareEvents)
           observe(e) == [c \in DOMAIN e |-> IF c \in Counters THEN Delta(kept, e, c) ELSE e[c]]
<1>1. Lists(kept, K) /\ ToSet(kept) = K /\ K \in SUBSET CostEvents /\ IdsDiffer(K) /\ IsFiniteSet(K)
  BY ContributingAre, ListsSize
<1>2. ordered = ByRank(K, EventOrder(K))
  <2> HIDE DEF kept, K
  <2>. QED BY <1>1, SortedIs
<1>3. PICK N \in Nat : N = Cardinality(K)
  BY <1>1, FS_CardinalityType
<1>4. DOMAIN ordered = 1 .. N /\ \A i \in 1 .. N : ordered[i] \in CostEvents
  <2> HIDE DEF kept, K, ordered
  <2>1. Lists(ByRank(K, EventOrder(K)), K)
    BY <1>1, EventsSort, ByRankLists
  <2>2. ordered \in Seq(K) /\ DOMAIN ordered = 1 .. N
    BY <1>2, <1>3, <2>1, ListsSize DEF Lists
  <2>. QED BY <1>1, <2>2
<1>5. Observations(seq) = [i \in DOMAIN ordered |-> observe(ordered[i])]
  BY DEF Observations
<1>6. \A e \in CostEvents, c \in Counters : c \in DOMAIN e
  BY DEF CostEvents, Counters
<1>7. ASSUME NEW i \in 1 .. N, NEW c \in Counters PROVE Observations(seq)[i][c] \in Amounts
  <2>1. PICK e \in CostEvents : e = ordered[i]
    BY <1>4
  <2>2. Observations(seq)[i][c] = Delta(kept, e, c)
    BY <1>4, <1>5, <1>6, <2>1
  <2>3. Delta(kept, e, c) \in Amounts
    <3> HIDE DEF kept, K
    <3>. QED BY <1>1, DeltasAre
  <2>. QED BY <2>2, <2>3
<1>. QED BY <1>4, <1>5, <1>7

(***************************************************************************)
(* The figures by model and by segment.                                    *)
(***************************************************************************)
\* A field added up over parts is the field added up.
LEMMA FieldsAddUp ==
  ASSUME NEW N \in Nat, NEW obs, DOMAIN obs = 1 .. N, NEW c,
         \A i \in 1 .. N : obs[i][c] \in Amounts,
         NEW m, NEW part, Splits(part, m, N),
         NEW h, DOMAIN h = 1 .. m, \A k \in 1 .. m : h[k] = SumBy(Kept(obs, part[k]), c)
  PROVE SumNullable(h) = SumBy(obs, c)
<1> DEFINE g == [i \in 1 .. N |-> obs[i][c]]
<1>1. DOMAIN g = 1 .. N /\ \A i \in 1 .. N : g[i] \in Amounts /\ g[i] = obs[i][c]
  OBVIOUS
<1>2. SumBy(obs, c) = SumNullable(g)
  BY DEF SumBy
<1> HIDE DEF g
<1>3. SumNullable(g) = NullSum(g, 1 .. N)
  BY <1>1, SumNullableIs
<1>4. ASSUME NEW k \in 1 .. m PROVE h[k] = NullSum(g, part[k])
  <2>1. PICK P \in SUBSET (1 .. N) : P = part[k]
    BY DEF Splits
  <2> DEFINE seq == [n \in DOMAIN Kept(obs, P) |-> Kept(obs, P)[n][c]]
  <2>2. Kept(obs, P) = [n \in 1 .. Cardinality(P) |-> obs[Nth(P, n)]]
    BY KeptIs
  <2>3. \A n \in 1 .. Cardinality(P) : Nth(P, n) \in 1 .. N
    BY NthIs
  <2>4. DOMAIN seq = 1 .. Cardinality(P) /\ \A n \in 1 .. Cardinality(P) : seq[n] = g[Nth(P, n)]
    BY <1>1, <2>2, <2>3
  <2>5. SumBy(Kept(obs, P), c) = SumNullable(seq)
    BY DEF SumBy
  <2> HIDE DEF seq
  <2>6. SumNullable(seq) = NullSum(g, P)
    BY <1>1, <2>4, KeptSum
  <2>. QED BY <2>1, <2>5, <2>6
<1>5. SumNullable(h) = NullSum(g, 1 .. N)
  <2>1. PartSums(h, g, part, m)
    BY <1>4 DEF PartSums
  <2>2. DOMAIN g = 1 .. N /\ \A i \in 1 .. N : g[i] \in Amounts
    BY <1>1
  <2>. QED BY <2>1, <2>2, PartsAddUp
<1>. QED BY <1>2, <1>3, <1>5

\* The events of each model are parts of the observations.
LEMMA ModelsSplit ==
  ASSUME NEW N \in Nat, NEW obs, DOMAIN obs = 1 .. N
  PROVE \E m \in Nat :
          /\ DOMAIN Models(obs) = 1 .. m
          /\ Splits([k \in 1 .. m |-> {i \in DOMAIN obs : obs[i].model = Models(obs)[k]}], m, N)
          /\ \A k \in 1 .. m : \E i \in 1 .. N : obs[i].model = Models(obs)[k]
<1> DEFINE leaders == Leaders(obs, "model")
<1>1. \A x : x["model"] = x.model
  OBVIOUS
<1>2. PICK m \in Nat : m = Len(leaders) /\ DOMAIN leaders = 1 .. m
  BY LeadersAre
<1>3. /\ \A j, k \in 1 .. m : leaders[j].model = leaders[k].model => j = k
      /\ \A i \in 1 .. N : \E k \in 1 .. m : leaders[k].model = obs[i].model
      /\ \A k \in 1 .. m : \E i \in 1 .. N : leaders[k] = obs[i]
  <2>1. /\ \A j, k \in DOMAIN leaders : leaders[j]["model"] = leaders[k]["model"] => j = k
        /\ \A i \in 1 .. N : \E k \in DOMAIN leaders : leaders[k]["model"] = obs[i]["model"]
        /\ \A k \in DOMAIN leaders : \E i \in 1 .. N : leaders[k] = obs[i]
    BY LeadersAre
  <2> HIDE DEF leaders
  <2>. QED BY <1>1, <1>2, <2>1
<1>4. Models(obs) = [n \in DOMAIN leaders |-> leaders[n].model]
  BY DEF Models
<1> HIDE DEF leaders
<1>5. DOMAIN Models(obs) = 1 .. m /\ \A k \in 1 .. m : Models(obs)[k] = leaders[k].model
  BY <1>2, <1>4
<1> DEFINE part == [k \in 1 .. m |-> {i \in DOMAIN obs : obs[i].model = Models(obs)[k]}]
<1>6. \A k \in 1 .. m : part[k] \in SUBSET (1 .. N)
  OBVIOUS
<1>7. \A i \in 1 .. N : \E k \in 1 .. m : i \in part[k]
  <2> TAKE i \in 1 .. N
  <2>1. PICK k \in 1 .. m : leaders[k].model = obs[i].model
    BY <1>3
  <2>2. Models(obs)[k] = obs[i].model
    BY <1>5, <2>1
  <2>. QED BY <2>2
<1>8. \A j, k \in 1 .. m : j < k => part[j] \cap part[k] = {}
  <2> TAKE j, k \in 1 .. m
  <2> HAVE j < k
  <2>1. j # k
    OBVIOUS
  <2>2. leaders[j].model = leaders[k].model => j = k
    BY <1>3
  <2>3. Models(obs)[j] = leaders[j].model /\ Models(obs)[k] = leaders[k].model
    BY <1>5
  <2>4. Models(obs)[j] # Models(obs)[k]
    BY <2>1, <2>2, <2>3
  <2>. QED BY <2>4
<1>9. Splits(part, m, N)
  <2> HIDE DEF part
  <2>. QED BY <1>6, <1>7, <1>8 DEF Splits
<1>10. \A k \in 1 .. m : \E i \in 1 .. N : obs[i].model = Models(obs)[k]
  <2> TAKE k \in 1 .. m
  <2>1. PICK i \in 1 .. N : leaders[k] = obs[i]
    BY <1>3
  <2>. QED BY <1>5, <2>1
<1>. QED BY <1>5, <1>9, <1>10

Until(starts, k, N) ==
  IF k = Cardinality(starts) THEN N ELSE Nth(starts, k + 1) - 1

\* From one start to before the next are parts of a sequence.
LEMMA StartsSplit ==
  ASSUME NEW N \in Nat, NEW starts \in SUBSET (1 .. N), N # 0 => 1 \in starts
  PROVE Splits([k \in 1 .. Cardinality(starts) |-> Nth(starts, k) .. Until(starts, k, N)],
               Cardinality(starts), N)
<1>1. PICK m \in Nat : m = Cardinality(starts)
  BY NthIs
<1>2. PICK start : start = [k \in 1 .. m |-> Nth(starts, k)]
  OBVIOUS
<1>3. /\ \A k \in 1 .. m : start[k] \in 1 .. N
      /\ \A j, k \in 1 .. m : j < k <=> start[j] < start[k]
      /\ N # 0 => \E k \in 1 .. m : start[k] = 1
  <2>1. /\ \A k \in 1 .. m : Nth(starts, k) \in starts
        /\ \A j, k \in 1 .. m : j < k <=> Nth(starts, j) < Nth(starts, k)
        /\ \A i \in starts : \E k \in 1 .. m : Nth(starts, k) = i
    BY <1>1, NthIs
  <2>. QED BY <1>2, <2>1
<1> DEFINE part == [k \in 1 .. m |-> Nth(starts, k) .. Until(starts, k, N)]
<1>4. \A k \in 1 .. m : part[k] = start[k] .. (IF k = m THEN N ELSE start[k + 1] - 1)
  <2> TAKE k \in 1 .. m
  <2>1. k # m => k + 1 \in 1 .. m
    OBVIOUS
  <2>. QED BY <1>1, <1>2, <2>1 DEF Until
<1> HIDE DEF part
<1>5. \A k \in 1 .. m : part[k] \in SUBSET (1 .. N)
  <2> TAKE k \in 1 .. m
  <2>1. CASE k = m
    BY <1>3, <1>4, <2>1
  <2>2. CASE k # m
    <3>1. k + 1 \in 1 .. m
      BY <2>2
    <3>2. start[k] \in 1 .. N /\ start[k + 1] \in 1 .. N /\ part[k] = start[k] .. (start[k + 1] - 1)
      BY <1>3, <1>4, <2>2, <3>1
    <3>3. PICK a \in 1 .. N, b \in 1 .. N : a = start[k] /\ b = start[k + 1]
      BY <3>2
    <3>4. \A i \in a .. b - 1 : i \in 1 .. N
      OBVIOUS
    <3>. QED BY <3>2, <3>3, <3>4
  <2>. QED BY <2>1, <2>2
<1>6. \A i \in 1 .. N : \E k \in 1 .. m : i \in part[k]
  <2> TAKE i \in 1 .. N
  <2> DEFINE begun == {k \in 1 .. m : start[k] <= i}
  <2>1. begun # {} /\ begun \in SUBSET (1 .. m)
    <3>1. N # 0 /\ 1 <= i
      OBVIOUS
    <3>. QED BY <1>3, <3>1
  <2>2. PICK k \in begun : \A j \in begun : k >= j
    <3> HIDE DEF begun
    <3>. QED BY <2>1, GreatestExists
  <2>3. CASE k = m
    <3>1. k \in 1 .. m /\ start[k] <= i
      BY <2>2
    <3>2. PICK x \in 1 .. N : x = start[k]
      BY <1>3, <3>1
    <3>3. part[k] = x .. N
      BY <1>4, <2>3, <3>1, <3>2
    <3>. QED BY <3>1, <3>2, <3>3
  <2>4. CASE k # m
    <3>1. k + 1 \in 1 .. m /\ k \in 1 .. m
      BY <2>4
    <3>2. k + 1 \notin begun
      <4> SUFFICES ASSUME k + 1 \in begun PROVE FALSE
        OBVIOUS
      <4>1. k >= k + 1
        BY <2>2
      <4>. QED BY <3>1, <4>1
    <3>3. PICK a \in 1 .. N, b \in 1 .. N : a = start[k] /\ b = start[k + 1]
      BY <1>3, <3>1
    <3>4. a <= i /\ ~ (b <= i)
      BY <3>1, <3>2, <3>3
    <3>5. i \in a .. b - 1
      BY <3>4
    <3>. QED BY <1>4, <2>4, <3>1, <3>3, <3>5
  <2>. QED BY <2>3, <2>4
<1>7. \A j, k \in 1 .. m : j < k => part[j] \cap part[k] = {}
  <2> TAKE j, k \in 1 .. m
  <2> HAVE j < k
  <2>1. j # m /\ j + 1 \in 1 .. m /\ ~ (k < j + 1)
    OBVIOUS
  <2>2. PICK a \in 1 .. N, b \in 1 .. N, c \in 1 .. N :
          a = start[j] /\ b = start[j + 1] /\ c = start[k]
    BY <1>3, <2>1
  <2>3. ~ (c < b)
    BY <1>3, <2>1, <2>2
  <2>4. part[j] = a .. b - 1
    BY <1>4, <2>1, <2>2
  <2>5. \A i \in part[k] : i >= c
    <3>1. CASE k = m
      BY <1>4, <2>2, <3>1
    <3>2. CASE k # m
      <4>1. k + 1 \in 1 .. m
        BY <3>2
      <4>2. PICK d \in 1 .. N : d = start[k + 1]
        BY <1>3, <4>1
      <4>3. part[k] = c .. d - 1
        BY <1>4, <2>2, <3>2, <4>2
      <4>. QED BY <4>3
    <3>. QED BY <3>1, <3>2
  <2>6. \A i \in a .. b - 1 : ~ (i >= c)
    BY <2>3
  <2>. QED BY <2>4, <2>5, <2>6
<1>8. Splits(part, m, N)
  BY <1>5, <1>6, <1>7 DEF Splits
<1>. QED BY <1>1, <1>8 DEF part

Costs(obs) == [i \in DOMAIN obs |-> Resolved(obs[i])]

\* The total of some observations, unknown if that of one is.
LEMMA TotalsAre ==
  ASSUME NEW N \in Nat, NEW obs, DOMAIN obs = 1 .. N,
         \A i \in 1 .. N : Resolved(obs[i]) \in Amounts, NEW P \in SUBSET (1 .. N)
  PROVE Total(Kept(obs, P)) = IF \A i \in P : Costs(obs)[i] # Null THEN NullSum(Costs(obs), P) ELSE Null
<1> DEFINE g == Costs(obs)
<1>0. DOMAIN g = 1 .. N /\ \A i \in 1 .. N : g[i] \in Amounts /\ g[i] = Resolved(obs[i])
  BY DEF Costs
<1> HIDE DEF g
<1>1. PICK M \in Nat : M = Cardinality(P)
  BY NthIs
<1>2. Kept(obs, P) = [n \in 1 .. M |-> obs[Nth(P, n)]]
  BY <1>1, KeptIs
<1>3. /\ \A n \in 1 .. M : Nth(P, n) \in P
      /\ \A i \in P : \E n \in 1 .. M : Nth(P, n) = i
  BY <1>1, NthIs
<1>4. PICK kept : kept = Kept(obs, P)
  OBVIOUS
<1>5. DOMAIN kept = 1 .. M /\ \A n \in 1 .. M : Resolved(kept[n]) = g[Nth(P, n)]
  BY <1>0, <1>2, <1>3, <1>4
<1>6. (\A n \in DOMAIN kept : Resolved(kept[n]) # Null) <=> (\A i \in P : g[i] # Null)
  <2>1. ASSUME \A n \in DOMAIN kept : Resolved(kept[n]) # Null, NEW i \in P PROVE g[i] # Null
    <3>1. PICK n \in 1 .. M : Nth(P, n) = i
      BY <1>3
    <3>. QED BY <1>5, <2>1, <3>1
  <2>2. ASSUME \A i \in P : g[i] # Null, NEW n \in DOMAIN kept PROVE Resolved(kept[n]) # Null
    <3>1. PICK i \in P : i = Nth(P, n) /\ n \in 1 .. M
      BY <1>3, <1>5
    <3>2. Resolved(kept[n]) = g[i] /\ g[i] # Null
      BY <1>5, <2>2, <3>1
    <3>. QED BY <3>2
  <2>. QED BY <2>1, <2>2
<1> DEFINE seq == [n \in DOMAIN kept |-> Resolved(kept[n])]
<1>7. DOMAIN seq = 1 .. M /\ \A n \in 1 .. M : seq[n] = g[Nth(P, n)]
  BY <1>5
<1>8. Total(kept) = IF \A n \in DOMAIN kept : Resolved(kept[n]) # Null THEN SumNullable(seq) ELSE Null
  BY DEF Total
<1> HIDE DEF seq
<1>9. SumNullable(seq) = NullSum(g, P)
  BY <1>0, <1>1, <1>7, KeptSum
<1>. QED BY <1>4, <1>6, <1>8, <1>9 DEF g

PartTotals(h, obs, part, m) ==
  DOMAIN h = 1 .. m /\ \A k \in 1 .. m : part[k] # {} /\ h[k] = Total(Kept(obs, part[k]))

\* The total is known if those of all parts are, and then what they add up to.
LEMMA TotalsAddUp ==
  ASSUME NEW N \in Nat, NEW obs, DOMAIN obs = 1 .. N,
         \A i \in 1 .. N : Resolved(obs[i]) \in Amounts,
         NEW m, NEW part, Splits(part, m, N), NEW h, PartTotals(h, obs, part, m)
  PROVE IF \E k \in 1 .. m : h[k] = Null THEN Total(obs) = Null ELSE Total(obs) = SumNullable(h)
<1>. DOMAIN h = 1 .. m /\ \A k \in 1 .. m : part[k] # {} /\ h[k] = Total(Kept(obs, part[k]))
  BY DEF PartTotals
<1>1. PICK f : f = Costs(obs)
  OBVIOUS
<1>2. DOMAIN f = 1 .. N /\ \A i \in 1 .. N : f[i] \in Amounts /\ f[i] = Resolved(obs[i])
  BY <1>1 DEF Costs
<1>3. Total(obs) = IF \A i \in 1 .. N : f[i] # Null THEN SumNullable(f) ELSE Null
  BY <1>1, <1>2 DEF Total, Costs
<1>4. ASSUME NEW k \in 1 .. m
      PROVE h[k] = IF \A i \in part[k] : f[i] # Null THEN NullSum(f, part[k]) ELSE Null
  <2>1. PICK P \in SUBSET (1 .. N) : P = part[k]
    BY DEF Splits
  <2>2. h[k] = Total(Kept(obs, P))
    BY <2>1
  <2>. QED BY <1>1, <2>1, <2>2, TotalsAre
<1>5. /\ \A k \in 1 .. m : part[k] \in SUBSET (1 .. N)
      /\ \A i \in 1 .. N : \E k \in 1 .. m : i \in part[k]
  BY DEF Splits
<1>6. ASSUME NEW k \in 1 .. m PROVE h[k] = Null <=> \E i \in part[k] : f[i] = Null
  <2>1. Units(f, part[k]) \in Nat
    BY <1>1, <1>2, <1>5, UnitsAre
  <2>2. Units(f, part[k]) # Null
    BY <2>1, EngineAssumption
  <2>3. (\A i \in part[k] : f[i] # Null) => h[k] # Null
    BY <1>4, <2>2 DEF NullSum
  <2>. QED BY <1>4, <2>3
<1>7. CASE \E k \in 1 .. m : h[k] = Null
  <2>1. \E i \in 1 .. N : f[i] = Null
    BY <1>5, <1>6, <1>7
  <2>. QED BY <1>3, <1>7, <2>1
<1>8. CASE ~ \E k \in 1 .. m : h[k] = Null
  <2>1. \A i \in 1 .. N : f[i] # Null
    BY <1>5, <1>6, <1>8
  <2>2. PartSums(h, f, part, m)
    BY <1>4, <1>5, <2>1 DEF PartSums
  <2>3. DOMAIN f = 1 .. N /\ \A i \in 1 .. N : f[i] \in Amounts
    BY <1>1, <1>2
  <2>4. SumNullable(h) = NullSum(f, 1 .. N)
    BY <2>2, <2>3, PartsAddUp
  <2>5. SumNullable(f) = NullSum(f, 1 .. N)
    BY <2>3, SumNullableIs
  <2>. QED BY <1>3, <1>8, <2>1, <2>4, <2>5
<1>. QED BY <1>7, <1>8

\* What counts by model and by segment counts in all, once.
LEMMA ModelsDoAddUp ==
  ASSUME EngineInv PROVE ModelsAddUp
<1>1. PICK obs : obs = Observations(log)
  OBVIOUS
<1>2. PICK N \in Nat : DOMAIN obs = 1 .. N /\ \A i \in 1 .. N, c \in Counters : obs[i][c] \in Amounts
  BY <1>1, ObservationsAre DEF EngineInv
<1>3. \A i \in 1 .. N : Resolved(obs[i]) \in Amounts
  <2>1. \A x : x["actual"] = x.actual /\ x["estimated"] = x.estimated
    OBVIOUS
  <2>2. \A i \in 1 .. N : obs[i]["actual"] \in Amounts /\ obs[i]["estimated"] \in Amounts
    BY <1>2 DEF Counters
  <2>. QED BY <2>1, <2>2 DEF Resolved
<1>4. \A seq, c : c \in Counters => Figures(seq)[c] = SumBy(seq, c)
  BY DEF Figures, Counters
<1> DEFINE Sum(parts, f) == SumNullable([i \in DOMAIN parts |-> parts[i][f]])
           models == ByModel(obs)
           ofModels == [i \in DOMAIN models |-> models[i].figures]
<1>5. PICK m \in Nat :
        /\ DOMAIN Models(obs) = 1 .. m
        /\ Splits([k \in 1 .. m |-> {i \in DOMAIN obs : obs[i].model = Models(obs)[k]}], m, N)
        /\ \A k \in 1 .. m : \E i \in 1 .. N : obs[i].model = Models(obs)[k]
  BY <1>2, ModelsSplit
<1>6. PICK part : part = [k \in 1 .. m |-> {i \in DOMAIN obs : obs[i].model = Models(obs)[k]}]
  OBVIOUS
<1>7. /\ DOMAIN models = 1 .. m /\ Splits(part, m, N) /\ \A k \in 1 .. m : part[k] # {}
      /\ \A k \in 1 .. m : /\ models[k].figures = Figures(Kept(obs, part[k]))
                           /\ models[k].total = Total(Kept(obs, part[k]))
  <2>1. \A k \in 1 .. m : part[k] # {}
    BY <1>2, <1>5, <1>6
  <2>. QED BY <1>5, <1>6, <2>1 DEF ByModel
<1>8. ASSUME NEW c \in Counters PROVE Sum(ofModels, c) = Figures(obs)[c]
  <2> DEFINE h == [i \in DOMAIN ofModels |-> ofModels[i][c]]
  <2>1. DOMAIN h = 1 .. m /\ \A k \in 1 .. m : h[k] = SumBy(Kept(obs, part[k]), c)
    BY <1>4, <1>7
  <2> HIDE DEF h
  <2>2. SumNullable(h) = SumBy(obs, c)
    <3>1. Splits(part, m, N)
      BY <1>7
    <3>2. \A i \in 1 .. N : obs[i][c] \in Amounts
      BY <1>2
    <3>. QED BY <1>2, <2>1, <3>1, <3>2, FieldsAddUp
  <2>. QED BY <1>4, <2>2 DEF h
<1>9. IF \E x \in ToSet(models) : x.total = Null THEN Total(obs) = Null
      ELSE Total(obs) = Sum(models, "total")
  <2> DEFINE h == [i \in DOMAIN models |-> models[i]["total"]]
  <2>1. \A x : x["total"] = x.total
    OBVIOUS
  <2>2. DOMAIN h = 1 .. m /\ \A k \in 1 .. m : h[k] = Total(Kept(obs, part[k])) /\ h[k] = models[k].total
    BY <1>7, <2>1
  <2>3. (\E x \in ToSet(models) : x.total = Null) <=> \E k \in 1 .. m : h[k] = Null
    BY <1>7, <2>2 DEF ToSet
  <2>4. Sum(models, "total") = SumNullable(h)
    OBVIOUS
  <2> HIDE DEF h
  <2>5. IF \E k \in 1 .. m : h[k] = Null THEN Total(obs) = Null ELSE Total(obs) = SumNullable(h)
    <3>1. Splits(part, m, N)
      BY <1>7
    <3>2. PartTotals(h, obs, part, m)
      BY <1>7, <2>2 DEF PartTotals
    <3>3. DOMAIN obs = 1 .. N
      BY <1>2
    <3>. QED BY <1>3, <3>1, <3>2, <3>3, TotalsAddUp
  <2> HIDE DEF models
  <2>. QED BY <2>3, <2>4, <2>5
<1>10. ASSUME NEW c \in Counters PROVE Sum(Segments(obs), c) = Figures(obs)[c]
  <2> DEFINE starts == {i \in DOMAIN obs : i = 1 \/ obs[i - 1].model # obs[i].model}
  <2>1. starts \in SUBSET (1 .. N) /\ (N # 0 => 1 \in starts)
    BY <1>2
  <2>2. PICK runs \in Nat : runs = Cardinality(starts)
    <3> HIDE DEF starts
    <3>. QED BY <2>1, NthIs
  <2>3. PICK between : between = [k \in 1 .. runs |-> Nth(starts, k) .. Until(starts, k, N)]
    OBVIOUS
  <2>4. Splits(between, runs, N)
    <3> HIDE DEF starts
    <3>. QED BY <2>1, <2>2, <2>3, StartsSplit
  <2>5. Len(obs) = N
    BY <1>2
  <2>6. /\ DOMAIN Segments(obs) = 1 .. runs
        /\ \A k \in 1 .. runs : Segments(obs)[k] = Figures(Kept(obs, between[k]))
    BY <2>2, <2>3, <2>5 DEF Segments, Until
  <2> DEFINE h == [i \in DOMAIN Segments(obs) |-> Segments(obs)[i][c]]
  <2>7. DOMAIN h = 1 .. runs /\ \A k \in 1 .. runs : h[k] = SumBy(Kept(obs, between[k]), c)
    BY <1>4, <2>6
  <2> HIDE DEF h
  <2>8. SumNullable(h) = SumBy(obs, c)
    BY <1>2, <2>4, <2>7, FieldsAddUp
  <2>. QED BY <1>4, <2>8 DEF h
<1> HIDE DEF models, ofModels
<1>. QED BY <1>1, <1>8, <1>9, <1>10 DEF ModelsAddUp, models, ofModels

(***************************************************************************)
(* The snapshots of a session.                                             *)
(***************************************************************************)
\* Some totals' differences, and what each is below the one before.
Differences(d, a, n) ==
  /\ DOMAIN d = 1 .. n
  /\ \A i \in 1 .. n :
       d[i] = IF i = 1 THEN a[1] ELSE IF a[i] >= a[i - 1] THEN a[i] - a[i - 1] ELSE 0

Dropped(b, a, n) ==
  /\ DOMAIN b = 1 .. n
  /\ \A i \in 1 .. n : b[i] = IF i = 1 THEN 0 ELSE IF a[i - 1] > a[i] THEN a[i - 1] - a[i] ELSE 0

\* Differences add up to the last of the totals and to what was dropped on the way.
LEMMA DifferencesAddUp ==
  ASSUME NEW n \in Nat, n # 0, NEW a \in [1 .. n -> Nat],
         NEW d, Differences(d, a, n), NEW b, Dropped(b, a, n)
  PROVE SumNullable(d) = a[n] + SumNullable(b)
<1>0. Null \notin Nat
  BY EngineAssumption
<1>. /\ DOMAIN d = 1 .. n /\ DOMAIN b = 1 .. n
     /\ \A i \in 1 .. n :
          d[i] = IF i = 1 THEN a[1] ELSE IF a[i] >= a[i - 1] THEN a[i] - a[i - 1] ELSE 0
     /\ \A i \in 1 .. n :
          b[i] = IF i = 1 THEN 0 ELSE IF a[i - 1] > a[i] THEN a[i - 1] - a[i] ELSE 0
  BY DEF Differences, Dropped
<1>1. /\ d[1] = a[1] /\ b[1] = 0 /\ a[1] \in Nat
      /\ \A k \in 1 .. n : /\ k # n => /\ a[k] \in Nat /\ a[k + 1] \in Nat
                                       /\ d[k + 1] = IF a[k + 1] >= a[k] THEN a[k + 1] - a[k] ELSE 0
                                       /\ b[k + 1] = IF a[k] > a[k + 1] THEN a[k] - a[k + 1] ELSE 0
  <2>1. 1 \in 1 .. n
    OBVIOUS
  <2>2. d[1] = a[1] /\ b[1] = 0 /\ a[1] \in Nat
    BY <2>1
  <2>3. ASSUME NEW k \in 1 .. n, k # n
        PROVE /\ a[k] \in Nat /\ a[k + 1] \in Nat
              /\ d[k + 1] = IF a[k + 1] >= a[k] THEN a[k + 1] - a[k] ELSE 0
              /\ b[k + 1] = IF a[k] > a[k + 1] THEN a[k] - a[k + 1] ELSE 0
    <3>1. PICK l \in 1 .. n : l = k + 1 /\ l # 1 /\ l - 1 = k
      BY <2>3
    <3>. QED BY <3>1
  <2>. QED BY <2>2, <2>3
<1>2. \A i \in 1 .. n : d[i] \in Nat /\ b[i] \in Nat
  <2> TAKE i \in 1 .. n
  <2>1. CASE i = 1
    BY <1>1, <2>1
  <2>2. CASE i # 1
    <3>1. PICK k \in 1 .. n : i = k + 1 /\ k # n
      <4>1. i - 1 \in 1 .. n /\ i = (i - 1) + 1 /\ i - 1 # n
        BY <2>2
      <4>. QED BY <4>1
    <3>2. PICK x \in Nat, y \in Nat : x = a[k] /\ y = a[k + 1]
      BY <1>1, <3>1
    <3>3. /\ d[i] = IF y >= x THEN y - x ELSE 0
          /\ b[i] = IF x > y THEN x - y ELSE 0
      BY <1>1, <3>1, <3>2
    <3>. QED BY <3>3
  <2>. QED BY <2>1, <2>2
<1>3. \A i \in 1 .. n : Worth(d)[i] = d[i] /\ Worth(b)[i] = b[i]
  BY <1>0, <1>2 DEF Worth
<1>4. ASSUME NEW g, DOMAIN g = 1 .. n, \A i \in 1 .. n : g[i] \in Nat
      PROVE /\ SumNullable(g) = Units(g, 1 .. n) /\ Units(g, 1 .. 1) = g[1]
            /\ \A k \in 1 .. n : /\ Units(g, 1 .. k) \in Nat
                                 /\ k # n => Units(g, 1 .. k + 1) = g[k + 1] + Units(g, 1 .. k)
  <2>1. \A i \in 1 .. n : g[i] \in Amounts /\ g[i] # Null /\ Worth(g)[i] = g[i]
    BY <1>0, <1>4 DEF Amounts, Worth
  <2>2. SumNullable(g) = NullSum(g, 1 .. n)
    BY <1>4, <2>1, SumNullableIs
  <2>3. SumNullable(g) = Units(g, 1 .. n)
    <3>1. 1 \in 1 .. n
      OBVIOUS
    <3>. QED BY <2>1, <2>2, <3>1 DEF NullSum
  <2>4. \A k \in 1 .. n : /\ IsFiniteSet(1 .. k) /\ \A i \in 1 .. k : Worth(g)[i] \in Nat
                          /\ Units(g, 1 .. k) \in Nat
    <3> TAKE k \in 1 .. n
    <3>1. PICK P \in SUBSET (1 .. n) : P = 1 .. k
      OBVIOUS
    <3>. QED BY <1>4, <2>1, <3>1, UnitsAre
  <2>5. Units(g, {}) = 0
    BY <1>4, <2>1, UnitsAre
  <2>6. Units(g, 1 .. 1) = g[1]
    <3>1. PICK k \in 1 .. n : k = 1
      OBVIOUS
    <3>2. PICK P : P = 1 .. k
      OBVIOUS
    <3>3. IsFiniteSet(P) /\ \A i \in P : Worth(g)[i] \in Nat
      BY <2>4, <3>2
    <3>4. k \in P /\ P \ {k} = {}
      <4>1. \A i \in 1 .. k : i = k
        BY <3>1
      <4>. QED BY <3>1, <3>2, <4>1
    <3>5. Units(g, P) = Worth(g)[k] + Units(g, P \ {k})
      BY <3>3, <3>4, PairsStep DEF Units
    <3>6. Units(g, P) = g[k] + 0 /\ g[k] \in Nat
      BY <1>4, <2>1, <2>5, <3>4, <3>5
    <3>. QED BY <3>1, <3>2, <3>6
  <2>7. ASSUME NEW k \in 1 .. n, k # n PROVE Units(g, 1 .. k + 1) = g[k + 1] + Units(g, 1 .. k)
    <3>1. PICK l \in 1 .. n : l = k + 1 /\ (1 .. l) \ {l} = 1 .. k /\ l \in 1 .. l
      BY <2>7
    <3>2. PICK P : P = 1 .. l
      OBVIOUS
    <3>3. IsFiniteSet(P) /\ (\A i \in P : Worth(g)[i] \in Nat) /\ l \in P
      BY <2>4, <3>1, <3>2
    <3>4. Units(g, P) = Worth(g)[l] + Units(g, P \ {l})
      BY <3>3, PairsStep DEF Units
    <3>. QED BY <2>1, <3>1, <3>2, <3>4
  <2>. QED BY <2>3, <2>4, <2>6, <2>7
<1>5. PICK u, v : /\ u = [k \in 1 .. n |-> Units(d, 1 .. k)]
                  /\ v = [k \in 1 .. n |-> Units(b, 1 .. k)]
  OBVIOUS
<1>6. /\ u[n] = SumNullable(d) /\ v[n] = SumNullable(b) /\ u[1] = d[1] /\ v[1] = b[1]
      /\ \A k \in 1 .. n : /\ u[k] \in Nat /\ v[k] \in Nat
                           /\ k # n => u[k + 1] = d[k + 1] + u[k] /\ v[k + 1] = b[k + 1] + v[k]
  <2>1. 1 \in 1 .. n /\ n \in 1 .. n /\ \A k \in 1 .. n : k # n => k + 1 \in 1 .. n
    OBVIOUS
  <2>2. /\ SumNullable(d) = Units(d, 1 .. n) /\ Units(d, 1 .. 1) = d[1]
        /\ \A k \in 1 .. n : /\ Units(d, 1 .. k) \in Nat
                             /\ k # n => Units(d, 1 .. k + 1) = d[k + 1] + Units(d, 1 .. k)
    BY <1>2, <1>4
  <2>3. /\ SumNullable(b) = Units(b, 1 .. n) /\ Units(b, 1 .. 1) = b[1]
        /\ \A k \in 1 .. n : /\ Units(b, 1 .. k) \in Nat
                             /\ k # n => Units(b, 1 .. k + 1) = b[k + 1] + Units(b, 1 .. k)
    BY <1>2, <1>4
  <2>. QED BY <1>5, <2>1, <2>2, <2>3
<1> DEFINE wrong == {k \in 1 .. n : u[k] # a[k] + v[k]}
<1>7. wrong = {}
  <2> SUFFICES ASSUME wrong # {} PROVE FALSE
    OBVIOUS
  <2>1. PICK k \in wrong : \A l \in wrong : k <= l
    <3>1. wrong \in SUBSET Nat
      OBVIOUS
    <3> HIDE DEF wrong
    <3>. QED BY <3>1, LeastExists
  <2>2. k \in 1 .. n /\ u[k] # a[k] + v[k]
    BY <2>1
  <2>3. k # 1
    BY <1>1, <1>6, <2>2
  <2>4. PICK l \in 1 .. n : k = l + 1 /\ l # n
    <3>1. k - 1 \in 1 .. n /\ k = (k - 1) + 1 /\ k - 1 # n
      BY <2>2, <2>3
    <3>. QED BY <3>1
  <2>5. l \notin wrong
    <3> SUFFICES ASSUME l \in wrong PROVE FALSE
      OBVIOUS
    <3>1. k <= l
      BY <2>1
    <3>. QED BY <2>4, <3>1
  <2>6. u[l] = a[l] + v[l]
    BY <2>5
  <2>7. /\ u[l] \in Nat /\ v[l] \in Nat /\ u[k] = d[k] + u[l] /\ v[k] = b[k] + v[l]
        /\ a[l] \in Nat /\ a[k] \in Nat
        /\ d[k] = IF a[k] >= a[l] THEN a[k] - a[l] ELSE 0
        /\ b[k] = IF a[l] > a[k] THEN a[l] - a[k] ELSE 0
    BY <1>1, <1>6, <2>4
  <2>8. PICK x \in Nat, y \in Nat, z \in Nat : x = a[l] /\ y = a[k] /\ z = v[l]
    BY <2>7
  <2>9. /\ u[k] = (IF y >= x THEN y - x ELSE 0) + (x + z)
        /\ v[k] = (IF x > y THEN x - y ELSE 0) + z
    BY <2>6, <2>7, <2>8
  <2>10. u[k] = y + v[k]
    BY <2>9
  <2>. QED BY <2>2, <2>8, <2>10
<1>8. n \in 1 .. n /\ n \notin wrong
  BY <1>7
<1>. QED BY <1>6, <1>8

\* What SnapshotsTelescope says of one session and counter.
Telescopes(kept, s, c) ==
  LET snapshots == Sorted(Kept(kept, {i \in DOMAIN kept :
        kept[i].session = s /\ kept[i].kind = "cumulative" /\ kept[i][c] # Null}), InSession)
      drop(i) == IF snapshots[i][c] > snapshots[i + 1][c]
                 THEN snapshots[i][c] - snapshots[i + 1][c] ELSE 0
  IN snapshots # <<>> =>
       SumNullable([i \in DOMAIN snapshots |-> Delta(kept, snapshots[i], c)])
         = Last(snapshots)[c] + SumNullable(<<0>> \o [i \in 1 .. Len(snapshots) - 1 |-> drop(i)])

\* A session's snapshots, whatever they are, telescope.
LEMMA SnapshotsDoTelescope ==
  ASSUME EngineInv PROVE SnapshotsTelescope
<1> USE DEF SnapshotsTelescope
<1> HAVE ~ Cyclic(log)
<1> TAKE s \in {e.session : e \in ToSet(log)}, c \in Counters
<1> HIDE DEF SnapshotsTelescope
<1>1. PICK kept, K : /\ kept = Contributing(log) /\ Lists(kept, K) /\ ToSet(kept) = K
                     /\ K \in SUBSET CostEvents /\ IdsDiffer(K)
  BY ContributingAre DEF EngineInv
<1>2. SUFFICES Telescopes(kept, s, c)
  <2>1. SUFFICES Telescopes(Contributing(log), s, c)
    BY DEF Telescopes
  <2>. QED BY <1>1
<1> DEFINE P == {i \in DOMAIN kept :
               kept[i].session = s /\ kept[i].kind = "cumulative" /\ kept[i][c] # Null}
           T == {e \in K : e.session = s /\ e.kind = "cumulative" /\ e[c] # Null}
<1>3. Parts(kept, P) = T
  <2>1. \A i \in DOMAIN kept : kept[i] \in K
    BY <1>1 DEF Lists
  <2>2. \A x \in K : \E i \in DOMAIN kept : kept[i] = x
    BY <1>1 DEF Lists
  <2>3. \A x \in T : x \in Parts(kept, P)
    <3> TAKE x \in T
    <3>1. PICK i \in DOMAIN kept : kept[i] = x
      BY <2>2
    <3>2. i \in P
      BY <3>1
    <3>. QED BY <3>1, <3>2 DEF Parts
  <2>4. \A x \in Parts(kept, P) : x \in T
    BY <2>1 DEF Parts
  <2>. QED BY <2>3, <2>4
<1>4. Lists(Kept(kept, P), T) /\ T \in SUBSET CostEvents /\ IdsDiffer(T)
  <2>1. P \in SUBSET DOMAIN kept /\ T \in SUBSET CostEvents
    BY <1>1
  <2>2. IdsDiffer(T)
    BY <1>1 DEF IdsDiffer
  <2> HIDE DEF P, T
  <2>. QED BY <1>1, <1>3, <2>1, <2>2, KeptLists
<1>5. PICK snapshots : snapshots = Sorted(Kept(kept, P), InSession)
  OBVIOUS
<1>6. PICK n \in Nat :
        /\ Lists(snapshots, T) /\ Len(snapshots) = n /\ DOMAIN snapshots = 1 .. n
        /\ \A i, j \in 1 .. n : i < j <=> InSession(snapshots[i], snapshots[j])
  <2> HIDE DEF P, T
  <2>1. snapshots = ByRank(T, SnapshotOrder(T))
    BY <1>4, <1>5, SortedIs
  <2>2. Sorts(SnapshotOrder(T), T) /\ IsFiniteSet(T)
    BY <1>4, EventsSort, ListsSize
  <2>3. /\ Lists(snapshots, T)
        /\ \A i, j \in 1 .. Cardinality(T) : i < j <=> <<snapshots[i], snapshots[j]>> \in SnapshotOrder(T)
    BY <2>1, <2>2, ByRankLists
  <2>4. PICK n \in Nat : n = Cardinality(T) /\ Len(snapshots) = n /\ DOMAIN snapshots = 1 .. n
    BY <2>2, <2>3, ListsSize, FS_CardinalityType
  <2>5. \A i \in 1 .. n : snapshots[i] \in T
    BY <2>3, <2>4 DEF Lists
  <2>. QED BY <2>3, <2>4, <2>5 DEF SnapshotOrder
<1>7. /\ \A i \in 1 .. n : snapshots[i] \in T
      /\ \A x \in T : \E i \in 1 .. n : snapshots[i] = x
  BY <1>6 DEF Lists
<1> DEFINE a == [i \in 1 .. n |-> snapshots[i][c]]
           d == [i \in DOMAIN snapshots |-> Delta(kept, snapshots[i], c)]
           drop(i) == IF snapshots[i][c] > snapshots[i + 1][c]
                      THEN snapshots[i][c] - snapshots[i + 1][c] ELSE 0
           drops == [i \in 1 .. Len(snapshots) - 1 |-> drop(i)]
           b == <<0>> \o drops
<1>8. a \in [1 .. n -> Nat]
  <2>1. \A i \in 1 .. n : snapshots[i][c] \in Nat
    <3> TAKE i \in 1 .. n
    <3>1. snapshots[i][c] \in Amounts /\ snapshots[i][c] # Null
      BY <1>1, <1>7, CountersAre
    <3>. QED BY <3>1 DEF Amounts
  <2>. QED BY <2>1
<1>9. SUFFICES ASSUME n # 0 PROVE SumNullable(d) = Last(snapshots)[c] + SumNullable(b)
  <2>1. snapshots # <<>> => n # 0
    BY <1>6
  <2>. QED BY <1>5, <2>1 DEF Telescopes
<1>10. Last(snapshots)[c] = a[n]
  BY <1>6, <1>9 DEF Last
<1>11. \A i \in 1 .. n : Earlier(kept, snapshots[i], c) = {snapshots[j] : j \in 1 .. i - 1}
  <2> TAKE i \in 1 .. n
  <2>1. snapshots[i].session = s /\ snapshots[i] \in K
    BY <1>7
  <2>2. Earlier(kept, snapshots[i], c) = {x \in T : InSession(x, snapshots[i])}
    BY <1>1, <2>1 DEF Earlier
  <2>3. \A x \in T : InSession(x, snapshots[i]) => \E j \in 1 .. i - 1 : x = snapshots[j]
    <3> TAKE x \in T
    <3> HAVE InSession(x, snapshots[i])
    <3>1. PICK j \in 1 .. n : snapshots[j] = x
      BY <1>7
    <3>2. j < i
      BY <1>6, <3>1
    <3>. QED BY <3>1, <3>2
  <2>4. \A j \in 1 .. i - 1 : snapshots[j] \in T /\ InSession(snapshots[j], snapshots[i])
    <3> TAKE j \in 1 .. i - 1
    <3>1. j \in 1 .. n /\ j < i
      OBVIOUS
    <3>. QED BY <1>6, <1>7, <3>1
  <2> HIDE DEF T
  <2>. QED BY <2>2, <2>3, <2>4
<1>12. \A i \in 1 .. n : Baseline(kept, snapshots[i], c) = IF i = 1 THEN Null ELSE a[i - 1]
  <2> TAKE i \in 1 .. n
  <2>1. ToSet(kept) \in SUBSET CostEvents /\ IsFiniteSet(ToSet(kept)) /\ IdsDiffer(ToSet(kept))
    BY <1>1, ListsSize
  <2>2. CASE i = 1
    <3>1. Earlier(kept, snapshots[i], c) = {}
      BY <1>11, <2>2
    <3>. QED BY <2>1, <2>2, <3>1, BaselineIs
  <2>3. CASE i # 1
    <3>1. PICK k \in 1 .. n : k = i - 1 /\ k \in 1 .. i - 1 /\ \A j \in 1 .. i - 1 : j = k \/ j < k
      <4>1. i - 1 \in 1 .. n /\ i - 1 \in 1 .. i - 1 /\ \A j \in 1 .. i - 1 : j = i - 1 \/ j < i - 1
        BY <2>3
      <4>. QED BY <4>1
    <3>2. \A q \in Earlier(kept, snapshots[i], c) : snapshots[k] = q \/ InSession(q, snapshots[k])
      <4> TAKE q \in Earlier(kept, snapshots[i], c)
      <4>1. PICK j \in 1 .. i - 1 : q = snapshots[j]
        BY <1>11
      <4>2. j \in 1 .. n /\ (j = k \/ j < k)
        BY <3>1
      <4>. QED BY <1>6, <4>1, <4>2
    <3>3. snapshots[k] \in Earlier(kept, snapshots[i], c)
      BY <1>11, <3>1
    <3>4. Baseline(kept, snapshots[i], c) = snapshots[k][c]
      BY <2>1, <3>2, <3>3, BaselineIs
    <3>. QED BY <2>3, <3>1, <3>4
  <2>. QED BY <2>2, <2>3
<1>13. DOMAIN d = 1 .. n /\ \A i \in 1 .. n :
         d[i] = IF i = 1 THEN a[1] ELSE IF a[i] >= a[i - 1] THEN a[i] - a[i - 1] ELSE 0
  <2>1. DOMAIN d = 1 .. n
    BY <1>6
  <2>2. ASSUME NEW i \in 1 .. n
        PROVE d[i] = IF i = 1 THEN a[1] ELSE IF a[i] >= a[i - 1] THEN a[i] - a[i - 1] ELSE 0
    <3>1. PICK value \in Nat : value = a[i] /\ value = snapshots[i][c]
      BY <1>8
    <3>2. PICK base : base = Baseline(kept, snapshots[i], c)
      OBVIOUS
    <3>3. snapshots[i].kind = "cumulative" /\ value # Null
      BY <1>7, <3>1, EngineAssumption
    <3>4. d[i] = IF base = Null THEN value ELSE IF value >= base THEN value - base ELSE 0
      BY <1>6, <3>1, <3>2, <3>3 DEF Delta
    <3>5. CASE i = 1
      BY <1>12, <3>1, <3>2, <3>4, <3>5
    <3>6. CASE i # 1
      <4>1. i - 1 \in 1 .. n
        BY <3>6
      <4>2. base = a[i - 1] /\ a[i - 1] \in Nat
        <5> HIDE DEF a
        <5>. QED BY <1>8, <1>12, <3>2, <3>6, <4>1
      <4>3. base # Null
        BY <4>2, EngineAssumption
      <4> HIDE DEF a, d
      <4>. QED BY <3>1, <3>4, <3>6, <4>2, <4>3
    <3>. QED BY <3>5, <3>6
  <2> HIDE DEF a, d
  <2>. QED BY <2>1, <2>2
<1>14. DOMAIN b = 1 .. n /\ \A i \in 1 .. n :
         b[i] = IF i = 1 THEN 0 ELSE IF a[i - 1] > a[i] THEN a[i - 1] - a[i] ELSE 0
  <2>1. PICK m \in Nat : n = m + 1 /\ Len(snapshots) - 1 = m
    BY <1>6, <1>9
  <2>2. \A i \in 1 .. m : i \in 1 .. n /\ i + 1 \in 1 .. n
    BY <2>1
  <2>3. drops = [i \in 1 .. m |-> IF a[i] > a[i + 1] THEN a[i] - a[i + 1] ELSE 0]
    BY <2>1, <2>2
  <2> HIDE DEF a, drops
  <2>4. \A i \in 1 .. m : drops[i] \in Nat
    <3> TAKE i \in 1 .. m
    <3>1. PICK x \in Nat, y \in Nat : x = a[i] /\ y = a[i + 1]
      BY <1>8, <2>2
    <3>2. drops[i] = IF x > y THEN x - y ELSE 0
      BY <2>3, <3>1
    <3>. QED BY <3>2
  <2>5. drops \in Seq(Nat) /\ Len(drops) = m
    BY <2>3, <2>4
  <2>6. <<0>> \in Seq(Nat) /\ Len(<<0>>) = 1 /\ <<0>>[1] = 0
    OBVIOUS
  <2>7. /\ b \in Seq(Nat) /\ Len(b) = 1 + m
        /\ \A i \in 1 .. 1 + m : b[i] = IF i <= 1 THEN <<0>>[i] ELSE drops[i - 1]
    <3>1. PICK one \in Seq(Nat) : one = <<0>> /\ Len(one) = 1
      BY <2>6
    <3>. QED BY <2>5, <3>1, ConcatProperties
  <2> HIDE DEF b
  <2>8. DOMAIN b = 1 .. n
    BY <2>1, <2>7
  <2>9. ASSUME NEW i \in 1 .. n
        PROVE b[i] = IF i = 1 THEN 0 ELSE IF a[i - 1] > a[i] THEN a[i - 1] - a[i] ELSE 0
    <3>1. CASE i = 1
      BY <2>1, <2>6, <2>7, <3>1
    <3>2. CASE i # 1
      <4>1. PICK j \in 1 .. m : i = j + 1 /\ i - 1 = j /\ ~ (i <= 1) /\ i \in 1 .. 1 + m
        <5>1. i - 1 \in 1 .. m /\ i = (i - 1) + 1 /\ ~ (i <= 1) /\ i \in 1 .. 1 + m
          BY <2>1, <3>2
        <5>. QED BY <5>1
      <4>2. b[i] = drops[j]
        BY <2>7, <4>1
      <4>. QED BY <2>3, <3>2, <4>1, <4>2
    <3>. QED BY <3>1, <3>2
  <2>. QED BY <2>8, <2>9
<1> HIDE DEF a, b, d
<1>15. SumNullable(d) = a[n] + SumNullable(b)
  <2>1. Differences(d, a, n)
    BY <1>13 DEF Differences
  <2>2. Dropped(b, a, n)
    BY <1>14 DEF Dropped
  <2>. QED BY <1>8, <1>9, <2>1, <2>2, DifferencesAddUp
<1>. QED BY <1>10, <1>15

\* Every event offered is in the log, and the engine has the first of each id.
CostsInv == subject = "costs" => EngineInv

\* Every usage of a task counts once, however often its events are offered and in
\* whatever order, for all inputs and rates.
THEOREM UsageAlwaysCountsOnce == DerivationsSpec => []EventsCountOnce
<1>1. DerivationsInit => CostsInv
  BY EngineStarts DEF DerivationsInit, CostsInv
<1>2. ASSUME CostsInv, [DerivationsNext]_derivationVars PROVE CostsInv'
  <2>1. /\ subject' = subject
        /\ subject = "costs" => [EngineNext]_engineVars
    BY <1>2 DEF DerivationsNext, derivationVars
  <2>. QED BY <1>2, <2>1, EngineKeeps DEF CostsInv
<1>3. CostsInv => EventsCountOnce
  BY ReplaysAddNothing, ChainsCountOnce, SnapshotsDoTelescope, ModelsDoAddUp
     DEF CostsInv, EventsCountOnce, UsageCountsOnce
<1>. QED BY <1>1, <1>2, <1>3, PTL DEF DerivationsSpec
=============================================================================

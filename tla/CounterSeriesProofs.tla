------------------------- MODULE CounterSeriesProofs -------------------------
(***************************************************************************)
(* Proofs about CounterSeries, for every range of windows, count limit,    *)
(* lag and bound of the clock.                                             *)
(***************************************************************************)
EXTENDS CounterSeries, FiniteSetTheorems, TLAPS

\* The inductive invariant.
IInv == TypeOK /\ VisibleExact /\ SeriesBounded /\ CopyIsLastReport

-----------------------------------------------------------------------------
(* Lemmas about the dict *)

\* keep is at least 2 and grows with the window.
LEMMA KeepFacts ==
  ASSUME NEW m \in Windows, NEW n \in Windows, m <= n
  PROVE  Keep(m) \in Nat /\ Keep(n) \in Nat /\ Keep(m) <= Keep(n)
BY SeriesAssumption DEF Keep, Windows

\* Smaller and Larger are the minimum and the maximum of two windows.
LEMMA ExtremesOfWindows ==
  ASSUME NEW m \in Windows, NEW n \in Windows
  PROVE  /\ Smaller(m, n) \in Windows /\ Smaller(m, n) <= m /\ Smaller(m, n) <= n
         /\ Larger(m, n) \in Windows /\ m <= Larger(m, n) /\ n <= Larger(m, n)
BY SeriesAssumption DEF Smaller, Larger, Windows

\* A missing key counts as zero.
LEMMA GetType ==
  ASSUME NEW counts, IsCounts(counts), NEW s
  PROVE  Get(counts, s) \in Nat
BY DEF Get, IsCounts

\* The keys of a dict are finitely many.
LEMMA KeysAreFinite ==
  ASSUME NEW counts, IsCounts(counts), cur \in Slices
  PROVE  IsFiniteSet(DOMAIN counts) /\ Cardinality(DOMAIN counts) \in Nat
<1>1. IsFiniteSet(0..cur)
  BY FS_Interval, SeriesAssumption DEF Slices
<1> QED BY <1>1, FS_Subset, FS_CardinalityType DEF IsCounts

\* Eviction at slice s leaves a dict, spares the keep slices before s and every
\* later one, and leaves at most those it spares.
LEMMA EvictFacts ==
  ASSUME NEW counts, IsCounts(counts), cur \in Slices,
         NEW s \in Slices, NEW keep \in Nat, NEW lag \in Nat, cur <= s + lag
  PROVE  /\ IsCounts(Evict(counts, s, keep))
         /\ DOMAIN Evict(counts, s, keep) \subseteq DOMAIN counts
         /\ \A key \in Slices : key >= s - keep => Get(Evict(counts, s, keep), key) = Get(counts, key)
         /\ Cardinality(DOMAIN Evict(counts, s, keep)) <= keep + lag + 1
<1> DEFINE spared == DOMAIN counts \cap Retained(s, keep)
<1>1. Cardinality(DOMAIN counts) \in Nat
  BY KeysAreFinite
<1>2. CASE Cardinality(DOMAIN counts) <= keep
  <2>1. Evict(counts, s, keep) = counts
    BY <1>1, <1>2 DEF Evict
  <2> QED BY <2>1, <1>1, <1>2
<1>3. CASE ~(Cardinality(DOMAIN counts) <= keep)
  <2>1. Evict(counts, s, keep) = [key \in spared |-> counts[key]]
    BY <1>1, <1>3 DEF Evict
  <2>2. spared \subseteq (s - keep)..(s + lag)
    BY SeriesAssumption DEF Retained, IsCounts, Slices
  <2>3. Cardinality(spared) <= keep + lag + 1
    <3>1. /\ IsFiniteSet((s - keep)..(s + lag))
          /\ Cardinality((s - keep)..(s + lag)) = keep + lag + 1
      BY FS_Interval, SeriesAssumption DEF Slices
    <3>2. Cardinality(spared) <= Cardinality((s - keep)..(s + lag))
      BY <2>2, <3>1, FS_Subset
    <3> QED BY <3>1, <3>2
  <2>4. IsCounts(Evict(counts, s, keep))
    BY <2>1 DEF IsCounts
  <2>5. ASSUME NEW key \in Slices, key >= s - keep
        PROVE  Get(Evict(counts, s, keep), key) = Get(counts, key)
    BY <2>1, <2>5 DEF Get, Retained
  <2> QED BY <2>1, <2>3, <2>4, <2>5
<1> QED BY <1>2, <1>3

\* add counts one event in the present or a late slice and no other, as far as
\* the dict reaches back.
LEMMA AddOneFacts ==
  ASSUME NEW counts, IsCounts(counts), cur \in Slices,
         NEW s \in Slices, NEW keep \in Nat, s <= cur, s >= cur - Lag
  PROVE  /\ IsCounts(AddOne(counts, s, keep))
         /\ \A key \in Slices : key >= cur - keep =>
              Get(AddOne(counts, s, keep), key) = Get(counts, key) + (IF key = s THEN 1 ELSE 0)
         /\ Cardinality(DOMAIN AddOne(counts, s, keep)) <= keep + Lag + 1
<1> DEFINE added == [key \in DOMAIN counts \cup {s} |->
                       IF key = s THEN Get(counts, s) + 1 ELSE counts[key]]
<1>1. Lag \in Nat /\ cur <= s + Lag
  BY SeriesAssumption DEF Slices
<1>2. Get(counts, s) \in Nat
  BY GetType
<1>3. IsCounts(added)
  BY <1>2, SeriesAssumption DEF IsCounts, Slices
<1>4. ASSUME NEW key \in Slices
      PROVE  Get(added, key) = Get(counts, key) + (IF key = s THEN 1 ELSE 0)
  <2>1. Get(counts, key) \in Nat
    BY GetType
  <2> QED BY <2>1 DEF Get
<1>5. \A key \in Slices : key >= cur - keep => key >= s - keep
  BY SeriesAssumption DEF Slices
<1>6. AddOne(counts, s, keep) = Evict(added, s, keep)
  BY DEF AddOne
<1> HIDE DEF added
<1> QED BY SMTT(30), <1>1, <1>3, <1>4, <1>5, <1>6, EvictFacts

\* replace_window leaves the listed counts in the slices the list covers, as
\* far as the dict reaches back, and nothing after the newest.
LEMMA ReplaceWindowFacts ==
  ASSUME NEW counts, IsCounts(counts), cur \in Slices,
         NEW values \in Seq(Nat), NEW keep \in Nat
  PROVE  LET replaced == ReplaceWindow(counts, cur, values, keep) IN
         /\ IsCounts(replaced)
         /\ \A s \in Slices : s > cur => Get(replaced, s) = 0
         /\ \A s \in Covered(cur, Len(values)) : s >= cur - keep =>
              Get(replaced, s) = ValueAt(values, cur, s)
         /\ Cardinality(DOMAIN replaced) <= keep + 1
<1> DEFINE written == Covered(cur, Len(values))
           merged  == [key \in DOMAIN counts \cup written |->
                         IF key \in written THEN ValueAt(values, cur, key) ELSE counts[key]]
           replaced == ReplaceWindow(counts, cur, values, keep)
<1>1. replaced = Evict(merged, cur, keep)
  BY DEF ReplaceWindow
<1>2. \A s \in written : s \in 0..cur /\ s \in Slices /\ ValueAt(values, cur, s) \in Nat
  <2>1. SUFFICES ASSUME NEW s \in written
                 PROVE  s \in 0..cur /\ s \in Slices /\ ValueAt(values, cur, s) \in Nat
    OBVIOUS
  <2>2. s \in Slices /\ cur - s \in 0..(Len(values) - 1)
    BY DEF Covered
  <2>3. s \in 0..cur /\ cur - s + 1 \in 1..Len(values)
    BY <2>2, SeriesAssumption DEF Slices
  <2> QED BY <2>2, <2>3 DEF ValueAt
<1>3. IsCounts(merged)
  BY <1>2 DEF IsCounts
<1>4. ASSUME NEW s \in written PROVE Get(merged, s) = ValueAt(values, cur, s)
  BY DEF Get
<1>5. cur <= cur + 0 /\ cur \in Int
  BY SeriesAssumption DEF Slices
<1>6. /\ IsCounts(replaced)
      /\ \A key \in Slices : key >= cur - keep => Get(replaced, key) = Get(merged, key)
      /\ Cardinality(DOMAIN replaced) <= keep + 0 + 1
  <2> HIDE DEF merged, replaced
  <2> QED BY <1>1, <1>3, <1>5, EvictFacts
<1>7. ASSUME NEW s \in Slices, s > cur PROVE Get(replaced, s) = 0
  <2>1. s \notin DOMAIN replaced
    BY <1>5, <1>6, <1>7, SeriesAssumption DEF IsCounts, Slices
  <2> QED BY <2>1 DEF Get
<1>8. \A s \in written : s >= cur - keep => Get(replaced, s) = ValueAt(values, cur, s)
  BY <1>2, <1>4, <1>6
<1>9. Cardinality(DOMAIN replaced) <= keep + 1
  BY <1>6
<1> QED BY <1>6, <1>7, <1>8, <1>9

\* The list of a STATUS body is a sequence of counts.
LEMMA ReportType ==
  ASSUME NEW counts, IsCounts(counts), NEW s \in Slices, NEW n \in Windows
  PROVE  StatusCounts(NewestFirst(counts, s, n)) \in Seq(Nat)
<1>1. n \in Nat
  BY SeriesAssumption DEF Windows
<1>2. NewestFirst(counts, s, n) \in [1..n -> Nat]
  BY GetType DEF NewestFirst
<1>3. StatusCounts(NewestFirst(counts, s, n)) \in [1..n -> Nat]
  BY <1>2, SeriesAssumption DEF StatusCounts, Smaller
<1> QED BY <1>1, <1>3

-----------------------------------------------------------------------------
(* The invariant *)

LEMMA InitIInv == Init => IInv
<1> SUFFICES ASSUME Init PROVE IInv
  OBVIOUS
<1>1. TypeOK
  BY ExtremesOfWindows, SeriesAssumption DEF Init, TypeOK, IsCounts, Empty, Slices
<1>2. VisibleExact
  BY DEF Init, VisibleExact, Get, Empty
<1>3. SeriesBounded
  <2>1. Cardinality(DOMAIN own) = 0 /\ Cardinality(DOMAIN copy) = 0
    BY FS_EmptySet DEF Init, Empty
  <2>2. high \in Windows /\ Keep(high) \in Nat
    BY <1>1, KeepFacts DEF TypeOK
  <2> QED BY <2>1, <2>2, SeriesAssumption DEF SeriesBounded
<1>4. CopyIsLastReport
  BY DEF Init, CopyIsLastReport, Covered, Get, Empty
<1> QED BY <1>1, <1>2, <1>3, <1>4 DEF IInv

\* A tick: no slice becomes visible that was not, and a new slice is empty.
LEMMA TickIInv ==
  ASSUME IInv, Tick
  PROVE  IInv'
<1>1. TypeOK'
  <2>1. cur' \in Slices /\ 0..cur \subseteq 0..cur'
    BY SeriesAssumption DEF IInv, TypeOK, Tick, Slices
  <2>2. IsCounts(own)' /\ IsCounts(copy)'
    BY <2>1 DEF IInv, TypeOK, Tick, IsCounts
  <2> QED BY <2>1, <2>2 DEF IInv, TypeOK, Tick
<1>2. VisibleExact'
  <2>1. \A s \in Slices : s >= cur' - Keep(low) => s >= cur - Keep(low)
    BY SMTT(30), KeepFacts, SeriesAssumption DEF IInv, TypeOK, Tick, Slices
  <2> QED BY <2>1 DEF IInv, VisibleExact, Tick
<1>3. SeriesBounded'
  BY DEF IInv, SeriesBounded, Tick
<1>4. CopyIsLastReport'
  BY DEF IInv, CopyIsLastReport, Tick
<1> QED BY <1>1, <1>2, <1>3, <1>4 DEF IInv

\* An event counted, perhaps late.
LEMMA CountIInv ==
  ASSUME IInv, NEW s \in Slices, Count(s)
  PROVE  IInv'
<1>1. /\ IsCounts(own) /\ cur \in Slices /\ s <= cur /\ s >= cur - Lag
      /\ own_window \in Windows /\ low \in Windows /\ high \in Windows
      /\ low <= own_window /\ own_window <= high
  BY SeriesAssumption DEF IInv, TypeOK, Count, Slices
<1>2. /\ Keep(own_window) \in Nat /\ Keep(low) \in Nat /\ Keep(high) \in Nat
      /\ Keep(low) <= Keep(own_window) /\ Keep(own_window) <= Keep(high)
  BY <1>1, KeepFacts
<1>3. /\ IsCounts(own')
      /\ \A key \in Slices : key >= cur - Keep(own_window) =>
           Get(own', key) = Get(own, key) + (IF key = s THEN 1 ELSE 0)
      /\ Cardinality(DOMAIN own') <= Keep(own_window) + Lag + 1
  BY <1>1, <1>2, AddOneFacts DEF Count
<1>4. TypeOK'
  <2>1. IsCounts(own)' /\ IsCounts(copy)'
    BY <1>3 DEF IInv, TypeOK, Count, IsCounts
  <2>2. adds' \in 0..MaxAdds /\ log' \in [Slices -> Nat]
    BY SeriesAssumption DEF IInv, TypeOK, Count
  <2> QED BY <2>1, <2>2 DEF IInv, TypeOK, Count
<1>5. VisibleExact'
  <2>1. SUFFICES ASSUME NEW key \in Slices, key >= cur - Keep(low)
                 PROVE  Get(own', key) = log'[key]
    BY DEF VisibleExact, Count
  <2>2. key >= cur - Keep(own_window)
    BY <1>1, <1>2, <2>1, SeriesAssumption DEF Slices
  <2>3. Get(own, key) = log[key]
    BY <2>1 DEF IInv, VisibleExact
  <2>4. log' = [log EXCEPT ![s] = @ + 1] /\ log \in [Slices -> Nat]
    BY DEF IInv, TypeOK, Count
  <2> QED BY <1>3, <2>2, <2>3, <2>4
<1>6. SeriesBounded'
  <2>1. Cardinality(DOMAIN own') \in Nat
    BY <1>1, <1>3, KeysAreFinite
  <2>2. Cardinality(DOMAIN own') <= Keep(high) + Lag + 1
    BY <1>2, <1>3, <2>1, SeriesAssumption
  <2> QED BY <2>2 DEF IInv, SeriesBounded, Count
<1>7. CopyIsLastReport'
  BY DEF IInv, CopyIsLastReport, Count
<1> QED BY <1>4, <1>5, <1>6, <1>7 DEF IInv

\* The extremes move apart; what is kept, and so the dicts, do not change yet.
LEMMA ResizeIInv ==
  ASSUME IInv, NEW n \in Windows, ResizeOwn(n) \/ ResizeCopy(n)
  PROVE  IInv'
<1>1. low \in Windows /\ high \in Windows /\ cur \in Slices /\ IsCounts(own) /\ IsCounts(copy)
  BY DEF IInv, TypeOK
<1>2. /\ low' \in Windows /\ high' \in Windows
      /\ low' <= low /\ high <= high' /\ low' <= n /\ n <= high'
  BY <1>1, ExtremesOfWindows DEF ResizeOwn, ResizeCopy
<1>3. /\ Keep(low) \in Nat /\ Keep(low') \in Nat /\ Keep(high) \in Nat /\ Keep(high') \in Nat
      /\ Keep(low') <= Keep(low) /\ Keep(high) <= Keep(high')
  BY <1>1, <1>2, KeepFacts
<1>4. UNCHANGED <<cur, own, copy, status, adds, log, last>>
  BY DEF ResizeOwn, ResizeCopy
<1>5. TypeOK'
  <2>1. IsCounts(own)' /\ IsCounts(copy)'
    BY <1>1, <1>4 DEF IsCounts
  <2>2. /\ own_window' \in Windows /\ low' <= own_window' /\ own_window' <= high'
        /\ copy_window' \in Windows /\ low' <= copy_window' /\ copy_window' <= high'
    BY <1>1, <1>2, SeriesAssumption DEF IInv, TypeOK, ResizeOwn, ResizeCopy, Windows
  <2> QED BY <1>2, <1>4, <2>1, <2>2 DEF IInv, TypeOK
<1>6. VisibleExact'
  <2>1. \A s \in Slices : s >= cur - Keep(low') => s >= cur - Keep(low)
    BY <1>1, <1>3, SeriesAssumption DEF Slices
  <2> QED BY <1>4, <2>1 DEF IInv, VisibleExact
<1>7. SeriesBounded'
  <2>1. Cardinality(DOMAIN own) \in Nat /\ Cardinality(DOMAIN copy) \in Nat
    BY <1>1, KeysAreFinite
  <2> QED BY <1>3, <1>4, <2>1, SeriesAssumption DEF IInv, SeriesBounded
<1>8. CopyIsLastReport'
  <2>1. \A s \in Slices : s >= last.at - Keep(low') => s >= last.at - Keep(low)
    BY <1>3, SeriesAssumption DEF IInv, TypeOK, Slices
  <2> QED BY <1>4, <2>1 DEF IInv, CopyIsLastReport
<1> QED BY <1>5, <1>6, <1>7, <1>8 DEF IInv

\* A report taken.
LEMMA ReportIInv ==
  ASSUME IInv, Report
  PROVE  IInv'
<1>1. status' \subseteq Seq(Nat)
  BY ReportType DEF IInv, TypeOK, Report
<1>2. TypeOK'
  BY <1>1 DEF IInv, TypeOK, Report, IsCounts
<1>3. VisibleExact' /\ SeriesBounded' /\ CopyIsLastReport'
  BY DEF IInv, VisibleExact, SeriesBounded, CopyIsLastReport, Report
<1> QED BY <1>2, <1>3 DEF IInv

\* A report applied.
LEMMA ApplyIInv ==
  ASSUME IInv, NEW values \in status, Apply(values)
  PROVE  IInv'
<1>1. /\ IsCounts(copy) /\ cur \in Slices /\ values \in Seq(Nat)
      /\ copy_window \in Windows /\ low \in Windows /\ high \in Windows
      /\ low <= copy_window /\ copy_window <= high
  BY DEF IInv, TypeOK
<1>2. /\ Keep(copy_window) \in Nat /\ Keep(low) \in Nat /\ Keep(high) \in Nat
      /\ Keep(low) <= Keep(copy_window) /\ Keep(copy_window) <= Keep(high)
  BY <1>1, KeepFacts
<1>3. /\ IsCounts(copy')
      /\ \A s \in Slices : s > cur => Get(copy', s) = 0
      /\ \A s \in Covered(cur, Len(values)) : s >= cur - Keep(copy_window) =>
           Get(copy', s) = ValueAt(values, cur, s)
      /\ Cardinality(DOMAIN copy') <= Keep(copy_window) + 1
  BY <1>1, <1>2, ReplaceWindowFacts DEF Apply
<1>4. TypeOK'
  <2>1. IsCounts(own)' /\ IsCounts(copy)'
    BY <1>3 DEF IInv, TypeOK, Apply, IsCounts
  <2>2. last' \in [at : 0..cur, values : Seq(Nat)]
    BY <1>1, SeriesAssumption DEF Apply, Slices
  <2> QED BY <2>1, <2>2 DEF IInv, TypeOK, Apply
<1>5. VisibleExact'
  BY DEF IInv, VisibleExact, Apply
<1>6. SeriesBounded'
  <2>1. Cardinality(DOMAIN copy') \in Nat
    BY <1>1, <1>3, KeysAreFinite
  <2>2. Cardinality(DOMAIN copy') <= Keep(high) + 1
    BY <1>2, <1>3, <2>1
  <2> QED BY <2>2 DEF IInv, SeriesBounded, Apply
<1>7. CopyIsLastReport'
  <2>1. last'.at = cur /\ last'.values = values /\ low' = low
    BY DEF Apply
  <2>2. \A s \in Slices : s >= cur - Keep(low) => s >= cur - Keep(copy_window)
    BY <1>1, <1>2, SeriesAssumption DEF Slices
  <2> QED BY <1>3, <2>1, <2>2 DEF CopyIsLastReport, ValueAt
<1> QED BY <1>4, <1>5, <1>6, <1>7 DEF IInv

\* Every step keeps the inductive invariant.
LEMMA NextIInv == IInv /\ [Next]_vars => IInv'
<1> SUFFICES ASSUME IInv, [Next]_vars PROVE IInv'
  OBVIOUS
<1>1. CASE Tick
  BY <1>1, TickIInv
<1>2. ASSUME NEW s \in Slices, Count(s) PROVE IInv'
  BY <1>2, CountIInv
<1>3. ASSUME NEW n \in Windows, ResizeOwn(n) \/ ResizeCopy(n) PROVE IInv'
  BY <1>3, ResizeIInv
<1>4. CASE Report
  BY <1>4, ReportIInv
<1>5. ASSUME NEW values \in status, Apply(values) PROVE IInv'
  BY <1>5, ApplyIInv
<1>6. CASE UNCHANGED vars
  BY <1>6 DEF IInv, TypeOK, IsCounts, VisibleExact, SeriesBounded, CopyIsLastReport, vars
<1> QED BY <1>1, <1>2, <1>3, <1>4, <1>5, <1>6 DEF Next

LEMMA SpecIInv == Spec => []IInv
BY InitIInv, NextIInv, PTL DEF Spec

-----------------------------------------------------------------------------
(* The theorems *)

\* The variables keep their types and the extremes enclose both windows.
THEOREM TypeCorrect == Spec => []TypeOK
BY SpecIInv, PTL DEF IInv

\* Late events and resizes included, no visible slice loses or gains a count.
THEOREM VisibleCountsExact == Spec => []VisibleExact
BY SpecIInv, PTL DEF IInv

\* No dict outgrows the largest window's keep by more than the lag.
THEOREM SeriesStayBounded == Spec => []SeriesBounded
BY SpecIInv, PTL DEF IInv

\* The client's copy is the report that arrived last.
THEOREM CopyShowsLastReport == Spec => []CopyIsLastReport
BY SpecIInv, PTL DEF IInv
=============================================================================

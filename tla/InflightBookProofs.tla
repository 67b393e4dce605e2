-------------------------- MODULE InflightBookProofs --------------------------
(***************************************************************************)
(* Proofs about InflightBook, for every set of sequence numbers, timeout,  *)
(* clock bound and value of remember.                                      *)
(***************************************************************************)
EXTENDS InflightBook, FiniteSetTheorems, WellFoundedInduction, TLAPS

LostEchoes == {s \in Unanswered : Tracked(s)}

\* Where a number is in the tables agrees with its stamps.
Placement ==
  /\ \A s \in open : added_at[s] # 0 /\ lost_at[s] = 0 /\ acked_at[s] = 0
  /\ \A s \in lost_seqs : lost_at[s] # 0 /\ acked_at[s] = 0
  /\ \A s \in seen_acks : acked_at[s] # 0
  /\ \A s \in Seqs : lost_at[s] # 0 \/ acked_at[s] # 0 => added_at[s] # 0

\* The inductive invariant.
IInv == TypeOK /\ Placement /\ LostIsUnanswered /\ UnsentIsAbandoned

-----------------------------------------------------------------------------
(* Lemmas about the operators *)

\* Any set of sequence numbers is finite.
LEMMA SubsetsAreFinite ==
  ASSUME NEW S \in SUBSET Seqs
  PROVE  IsFiniteSet(S) /\ Cardinality(S) \in Nat
BY BookAssumption, FS_Subset, FS_CardinalityType

\* The sizes of disjoint sets of sequence numbers add up.
LEMMA DisjointUnion ==
  ASSUME NEW S \in SUBSET Seqs, NEW T \in SUBSET Seqs, S \cap T = {}
  PROVE  Cardinality(S \cup T) = Cardinality(S) + Cardinality(T)
<1>1. /\ IsFiniteSet(S) /\ Cardinality(S) \in Nat
      /\ IsFiniteSet(T) /\ Cardinality(T) \in Nat
  BY SubsetsAreFinite
<1>2. Cardinality(S \cap T) = 0
  BY FS_EmptySet
<1>3. Cardinality(S \cup T) = Cardinality(S) + Cardinality(T) - Cardinality(S \cap T)
  BY <1>1, FS_Union
<1> QED BY <1>1, <1>2, <1>3

\* The next stamp of a dict is never 0, the mark of "never inserted".
LEMMA NextStampPositive ==
  ASSUME NEW at \in [Seqs -> Nat]
  PROVE  NextStamp(at) \in Nat \ {0}
<1>1. Cardinality(Stamped(at)) \in Nat
  BY SubsetsAreFinite DEF Stamped
<1> QED BY <1>1 DEF NextStamp

\* Stamping several keys leaves the others alone and gives each a stamp.
LEMMA StampAllFacts ==
  ASSUME NEW at \in [Seqs -> Nat], NEW S \in SUBSET Seqs, NEW order \in [Seqs -> Nat]
  PROVE  /\ StampAll(at, S, order) \in [Seqs -> Nat]
         /\ \A s \in S : StampAll(at, S, order)[s] # 0
         /\ \A s \in Seqs \ S : StampAll(at, S, order)[s] = at[s]
<1> DEFINE rank(s) == Cardinality({t \in S : order[t] <= order[s]})
<1>1. Cardinality(Stamped(at)) \in Nat
  BY SubsetsAreFinite DEF Stamped
<1>2. ASSUME NEW s \in Seqs PROVE rank(s) \in Nat
  BY SubsetsAreFinite
<1>3. ASSUME NEW s \in S PROVE rank(s) # 0
  <2>1. s \in {t \in S : order[t] <= order[s]}
    OBVIOUS
  <2>2. IsFiniteSet({t \in S : order[t] <= order[s]})
    BY SubsetsAreFinite
  <2> QED BY <2>1, <2>2, FS_EmptySet
<1>4. StampAll(at, S, order) =
        [s \in Seqs |-> IF s \in S THEN Cardinality(Stamped(at)) + rank(s) ELSE at[s]]
  BY DEF StampAll
<1>5. \A s \in S : Cardinality(Stamped(at)) + rank(s) \in Nat \ {0}
  <2> SUFFICES ASSUME NEW s \in S
               PROVE  Cardinality(Stamped(at)) + rank(s) \in Nat \ {0}
    OBVIOUS
  <2> HIDE DEF rank
  <2> QED BY <1>1, <1>2, <1>3
<1> HIDE DEF rank
<1> QED BY <1>4, <1>5

\* Eviction only removes entries.
LEMMA NewestIsSubset ==
  ASSUME NEW S, NEW at
  PROVE  Newest(S, at) \subseteq S
BY DEF Newest

\* A nonempty set of numbers has one with the smallest stamp.
LEMMA OldestExists ==
  ASSUME NEW at \in [Seqs -> Nat], NEW S \in SUBSET Seqs, S # {}
  PROVE  \E m \in S : \A s \in S : at[m] <= at[s]
<1> DEFINE T == {at[s] : s \in S}
<1>1. T \subseteq Nat /\ T # {}
  OBVIOUS
<1>2. PICK x \in T : \A y \in T : ~(<<y, x>> \in OpToRel(<, Nat))
  BY <1>1, NatLessThanWellFounded, WFMin
<1>3. \A y \in T : ~(y < x)
  BY <1>1, <1>2 DEF OpToRel
<1>4. PICK m \in S : x = at[m]
  BY <1>2
<1>5. \A s \in S : at[m] <= at[s]
  BY <1>1, <1>3, <1>4
<1> QED BY <1>5

\* Eviction leaves at most Remember entries.
LEMMA NewestBound ==
  ASSUME NEW at \in [Seqs -> Nat], NEW S \in SUBSET Seqs
  PROVE  Cardinality(Newest(S, at)) <= Remember
<1> DEFINE N == Newest(S, at)
<1>1. N \subseteq S
  BY NewestIsSubset
<1>2. CASE N = {}
  BY <1>2, FS_EmptySet, BookAssumption
<1>3. CASE N # {}
  <2>1. PICK m \in N : \A s \in N : at[m] <= at[s]
    BY <1>1, <1>3, OldestExists
  <2> DEFINE above == {t \in S : at[t] >= at[m]}
  <2>2. N \subseteq above
    BY <1>1, <2>1
  <2>3. Cardinality(above) <= Remember
    BY <2>1 DEF Newest
  <2>4. above \subseteq Seqs /\ IsFiniteSet(above) /\ Cardinality(above) \in Nat
    BY SubsetsAreFinite
  <2>5. Cardinality(N) <= Cardinality(above) /\ Cardinality(N) \in Nat
    <3> HIDE DEF N, above
    <3> QED BY <2>2, <2>4, FS_Subset, FS_CardinalityType
  <2> HIDE DEF N, above
  <2>6. Cardinality(N) <= Remember
    BY <2>3, <2>4, <2>5, BookAssumption
  <2> QED BY <2>6 DEF N
<1> QED BY <1>2, <1>3

-----------------------------------------------------------------------------
(* The inductive invariant: initially, and after each method *)

\* The empty book satisfies the invariant.
LEMMA InitInv == Init => IInv
<1> SUFFICES ASSUME Init PROVE IInv
  OBVIOUS
<1> USE DEF Init, BookInit
<1>1. TypeOK
  <2>1. mtype \in [Seqs -> {ECHO, STATUS}] /\ send_mono \in [Seqs -> Nat \cup {NotSent}]
    OBVIOUS
  <2>2. added_at \in [Seqs -> Nat] /\ lost_at \in [Seqs -> Nat] /\ acked_at \in [Seqs -> Nat]
    OBVIOUS
  <2>3. now \in 0..MaxTime
    BY BookAssumption
  <2> QED BY <2>1, <2>2, <2>3 DEF TypeOK
<1>2. Placement
  BY DEF Placement
<1>3. LostEchoes = {} /\ Abandoned = {}
  BY DEF LostEchoes, Abandoned, Unanswered, Answered, Stamped
<1>4. LostIsUnanswered /\ UnsentIsAbandoned
  BY <1>3, FS_EmptySet DEF LostIsUnanswered, UnsentIsAbandoned, LostEchoes
<1> QED BY <1>1, <1>2, <1>4 DEF IInv

\* add() of a fresh number preserves the invariant.
LEMMA AddInv ==
  ASSUME IInv, NEW s \in Seqs, added_at[s] = 0, NEW kind \in {ECHO, STATUS},
         Add(s, kind), now' \in 0..MaxTime, forced' \in BOOLEAN
  PROVE  IInv'
<1> USE DEF IInv
<1>1. TypeOK'
  BY NextStampPositive DEF TypeOK, Add, counters
<1>2. s \notin open /\ lost_at[s] = 0 /\ acked_at[s] = 0
  BY DEF Placement, TypeOK
<1>3. Placement'
  BY <1>2, NextStampPositive DEF Placement, TypeOK, Add
<1>4. LostEchoes' = LostEchoes
  BY <1>2 DEF LostEchoes, Unanswered, Answered, Stamped, Tracked, TypeOK, Add
<1>5. Abandoned' = Abandoned
  BY <1>2, NextStampPositive DEF Abandoned, Answered, Stamped, TypeOK, Add
<1>6. (LostIsUnanswered /\ UnsentIsAbandoned)'
  BY <1>4, <1>5 DEF LostIsUnanswered, UnsentIsAbandoned, LostEchoes, Add, counters
<1> QED BY <1>1, <1>3, <1>6

\* mark_sent() of an entry not yet marked preserves the invariant.
LEMMA MarkSentInv ==
  ASSUME IInv, NEW s \in Seqs, NEW t \in Nat,
         MarkSent(s, t), now' \in 0..MaxTime, forced' \in BOOLEAN
  PROVE  IInv'
<1> USE DEF IInv, MarkSent, tables, stamps, counters
<1>1. TypeOK'
  BY DEF TypeOK
<1>2. Placement'
  BY DEF Placement
<1>3. LostEchoes' = LostEchoes /\ Abandoned' = Abandoned
  BY DEF LostEchoes, Abandoned, Unanswered, Answered, Stamped, Tracked
<1>4. (LostIsUnanswered /\ UnsentIsAbandoned)'
  BY <1>3 DEF LostIsUnanswered, UnsentIsAbandoned, LostEchoes
<1> QED BY <1>1, <1>2, <1>4

\* drop_unsent() counts exactly the entry it removes.
LEMMA DropUnsentInv ==
  ASSUME IInv, NEW s \in Seqs,
         DropUnsent(s), now' \in 0..MaxTime, forced' \in BOOLEAN
  PROVE  IInv'
<1> USE DEF IInv, DropUnsent, stamps
<1>1. TypeOK'
  BY DEF TypeOK
<1>2. Placement'
  BY DEF Placement
<1>3. LostIsUnanswered'
  <2>1. LostEchoes' = LostEchoes
    BY DEF LostEchoes, Unanswered, Answered, Stamped, Tracked
  <2> QED BY <2>1 DEF LostIsUnanswered, LostEchoes
<1>4. UnsentIsAbandoned'
  <2>1. CASE s \in open /\ ~Sent(s)
    <3>1. Abandoned' = Abandoned \cup {s} /\ s \notin Abandoned
      BY <2>1 DEF Abandoned, Answered, Stamped, Placement, TypeOK
    <3>2. IsFiniteSet(Abandoned)
      BY SubsetsAreFinite DEF Abandoned, Stamped
    <3> QED BY <2>1, <3>1, <3>2, FS_AddElement DEF UnsentIsAbandoned
  <2>2. CASE ~(s \in open /\ ~Sent(s))
    BY <2>2 DEF UnsentIsAbandoned, Abandoned, Answered, Stamped
  <2> QED BY <2>1, <2>2
<1> QED BY <1>1, <1>2, <1>3, <1>4

\* A removed element is one the book had, so the count of lost ECHOs is
\* positive when a late ECHO corrects it: max(0, lost - 1) never clamps.
LEMMA TakeLateInv ==
  ASSUME IInv, NEW s \in Seqs, TakeKind(s) = "late",
         TakeLate(s), now' \in 0..MaxTime, forced' \in BOOLEAN
  PROVE  IInv'
<1> USE DEF IInv, TakeLate
<1>1. s \in lost_seqs /\ s \notin open
  BY DEF TakeKind
<1>2. lost_at[s] # 0 /\ acked_at[s] = 0 /\ added_at[s] # 0 /\ s \notin seen_acks
  BY <1>1 DEF Placement
<1>3. NextStamp(acked_at) \in Nat \ {0}
  BY NextStampPositive DEF TypeOK
<1>4. TypeOK'
  BY <1>3 DEF TypeOK
<1>5. Placement'
  BY <1>1, <1>2, <1>3 DEF Placement, TypeOK
<1>6. LostIsUnanswered'
  <2>1. LostEchoes' = LostEchoes \ {s} /\ (s \in LostEchoes <=> Tracked(s))
    BY <1>2, <1>3 DEF LostEchoes, Unanswered, Answered, Stamped, Tracked, TypeOK
  <2>2. IsFiniteSet(LostEchoes) /\ Cardinality(LostEchoes) \in Nat
    BY SubsetsAreFinite DEF LostEchoes, Unanswered, Stamped
  <2>3. lost = Cardinality(LostEchoes)
    BY DEF LostIsUnanswered, LostEchoes
  <2>4. CASE Tracked(s)
    <3>1. lost \in Nat /\ lost # 0
      BY <2>1, <2>2, <2>3, <2>4, FS_EmptySet
    <3>2. lost' = lost - 1
      BY <2>4, <3>1
    <3>3. Cardinality(LostEchoes \ {s}) = Cardinality(LostEchoes) - 1
      BY <2>1, <2>2, <2>4, FS_RemoveElement
    <3>4. lost' = Cardinality(LostEchoes')
      BY <2>1, <2>3, <3>2, <3>3
    <3> QED BY <3>4 DEF LostIsUnanswered, LostEchoes
  <2>5. CASE ~Tracked(s)
    <3>1. LostEchoes' = LostEchoes /\ lost' = lost
      BY <2>1, <2>5
    <3> QED BY <3>1, <2>3 DEF LostIsUnanswered, LostEchoes
  <2> QED BY <2>4, <2>5
<1>7. Abandoned' = Abandoned
  BY <1>2, <1>3 DEF Abandoned, Answered, Stamped, TypeOK
<1> QED BY <1>4, <1>5, <1>6, <1>7 DEF UnsentIsAbandoned

\* An answer in time moves its number from open to seen_acks.
LEMMA TakeOkInv ==
  ASSUME IInv, NEW s \in Seqs, TakeKind(s) = "ok",
         TakeOk(s), now' \in 0..MaxTime, forced' \in BOOLEAN
  PROVE  IInv'
<1> USE DEF IInv, TakeOk
<1>1. s \in open
  BY DEF TakeKind
<1>2. lost_at[s] = 0 /\ acked_at[s] = 0 /\ added_at[s] # 0
  BY <1>1 DEF Placement
<1>3. NextStamp(acked_at) \in Nat \ {0}
  BY NextStampPositive DEF TypeOK
<1>4. seen_acks' \subseteq seen_acks \cup {s}
  BY NewestIsSubset
<1>5. TypeOK'
  <2>1. s \in Nat
    BY BookAssumption
  <2>2. reorder' \in Nat /\ expect_next' \in Nat
    BY <2>1 DEF TypeOK, OutOfOrder
  <2> QED BY <1>3, <1>4, <2>2 DEF TypeOK
<1>6. Placement'
  BY ZenonT(60), <1>2, <1>3, <1>4 DEF Placement, TypeOK
<1>7. LostEchoes' = LostEchoes
  BY <1>2, <1>3 DEF LostEchoes, Unanswered, Answered, Stamped, Tracked, TypeOK
<1>8. Abandoned' = Abandoned
  BY <1>1, <1>2, <1>3 DEF Abandoned, Answered, Stamped, TypeOK
<1> QED BY <1>5, <1>6, <1>7, <1>8 DEF LostIsUnanswered, UnsentIsAbandoned, LostEchoes

\* take() preserves the invariant, whatever number it is asked for.
LEMMA TakeInv ==
  ASSUME IInv, NEW s \in Seqs, Take(s), now' \in 0..MaxTime, forced' \in BOOLEAN
  PROVE  IInv'
<1>1. CASE TakeDuplicate
  BY <1>1 DEF TakeDuplicate, IInv, TypeOK, Placement, LostIsUnanswered, UnsentIsAbandoned,
              Abandoned, Unanswered, Answered, Stamped, Tracked, tables, stamps
<1>2. CASE UNCHANGED bookVars
  BY <1>2 DEF bookVars, IInv, TypeOK, Placement, LostIsUnanswered, UnsentIsAbandoned,
              Abandoned, Unanswered, Answered, Stamped, Tracked, tables, stamps, counters
<1> QED BY <1>1, <1>2, TakeOkInv, TakeLateInv DEF Take

\* A reap moves the due entries to lost_seqs, counting the ECHOs among them,
\* and when forced it removes and counts every entry never written.
LEMMA ReapInv ==
  ASSUME IInv, NEW t \in Nat, NEW force \in BOOLEAN,
         Reap(t, force), now' \in 0..MaxTime, forced' \in BOOLEAN
  PROVE  IInv'
<1> DEFINE due     == Expired(t, force)
           dropped == IF force THEN NeverSent ELSE {}
           at      == StampAll(lost_at, due, added_at)
           echoes  == {s \in due : Tracked(s)}
<1>1. /\ open' = open \ (due \cup dropped)
      /\ lost_at' = at
      /\ lost_seqs' = Newest(lost_seqs \cup due, at)
      /\ lost' = lost + Cardinality(echoes)
      /\ unsent' = unsent + Cardinality(dropped)
      /\ UNCHANGED <<seen_acks, added_at, acked_at, mtype, send_mono,
                     duplicates, reorder, expect_next>>
  BY DEF Reap
<1>2. due \subseteq open /\ dropped \subseteq open /\ due \cap dropped = {} /\ open \subseteq Seqs
  BY DEF Expired, NeverSent, IInv, TypeOK
<1> HIDE DEF due, dropped
<1>3. /\ at \in [Seqs -> Nat]
      /\ \A s \in due : at[s] # 0
      /\ \A s \in Seqs \ due : at[s] = lost_at[s]
  BY <1>2, StampAllFacts DEF IInv, TypeOK
<1>4. lost_seqs' \subseteq lost_seqs \cup due
  BY <1>1, NewestIsSubset
<1> HIDE DEF at
<1>5. Cardinality(echoes) \in Nat /\ Cardinality(dropped) \in Nat
  BY <1>2, SubsetsAreFinite
<1>6. \A s \in due \cup dropped : lost_at[s] = 0 /\ acked_at[s] = 0 /\ added_at[s] # 0
  BY <1>2 DEF IInv, Placement
<1>7. TypeOK'
  <2>1. lost' \in Nat /\ unsent' \in Nat
    BY <1>1, <1>5 DEF IInv, TypeOK
  <2> QED BY <1>1, <1>2, <1>3, <1>4, <2>1 DEF IInv, TypeOK
<1>8. Placement'
  BY <1>1, <1>2, <1>3, <1>4, <1>6 DEF IInv, TypeOK, Placement
<1>9. LostIsUnanswered'
  <2>1. LostEchoes' = LostEchoes \cup echoes /\ LostEchoes \cap echoes = {}
    BY <1>1, <1>2, <1>3, <1>6
       DEF LostEchoes, Unanswered, Answered, Stamped, Tracked, IInv, TypeOK
  <2>2. LostEchoes \subseteq Seqs /\ echoes \subseteq Seqs
    BY <1>2 DEF LostEchoes, Unanswered, Stamped
  <2>3. lost = Cardinality(LostEchoes)
    BY DEF IInv, LostIsUnanswered, LostEchoes
  <2>4. lost' = Cardinality(LostEchoes')
    BY <1>1, <2>1, <2>2, <2>3, DisjointUnion
  <2> QED BY <2>4 DEF LostIsUnanswered, LostEchoes
<1>10. UnsentIsAbandoned'
  <2>1. Abandoned' = Abandoned \cup dropped /\ Abandoned \cap dropped = {}
    BY <1>1, <1>2, <1>3, <1>6 DEF Abandoned, Answered, Stamped, IInv, TypeOK, Placement
  <2>2. Abandoned \subseteq Seqs /\ dropped \subseteq Seqs
    BY <1>2 DEF Abandoned, Stamped
  <2>3. unsent' = Cardinality(Abandoned')
    BY <1>1, <2>1, <2>2, DisjointUnion DEF IInv, UnsentIsAbandoned
  <2> QED BY <2>3 DEF UnsentIsAbandoned
<1> QED BY <1>7, <1>8, <1>9, <1>10 DEF IInv

-----------------------------------------------------------------------------
(* Every step *)

\* Every step of any caller preserves the invariant.
LEMMA NextInv == IInv /\ [Next]_vars => IInv'
<1> SUFFICES ASSUME IInv, [Next]_vars PROVE IInv'
  OBVIOUS
<1>0. now \in 0..MaxTime /\ forced \in BOOLEAN /\ MaxTime \in Nat /\ 0..now \subseteq Nat
  BY BookAssumption DEF IInv, TypeOK
<1>1. CASE AddFresh
  BY <1>0, <1>1, AddInv DEF AddFresh
<1>2. CASE MarkWritten
  <2>1. PICK s \in Seqs, t \in 0..now : MarkSent(s, t)
    BY <1>2 DEF MarkWritten
  <2> QED BY <1>0, <1>2, <2>1, MarkSentInv DEF MarkWritten
<1>3. CASE DropFailed
  BY <1>0, <1>3, DropUnsentInv DEF DropFailed
<1>4. ASSUME NEW s \in Seqs, Respond(s) PROVE IInv'
  BY <1>0, <1>4, TakeInv DEF Respond
<1>5. ASSUME NEW t \in 0..now, ReapAt(t) PROVE IInv'
  <2>1. t \in Nat
    BY <1>0
  <2> QED BY <1>0, <1>5, <2>1, ReapInv DEF ReapAt
<1>6. CASE ReapForced
  <2>1. now \in Nat
    BY <1>0
  <2> QED BY <1>0, <1>6, <2>1, ReapInv DEF ReapForced
<1>7. CASE Tick \/ UNCHANGED vars
  <2>1. UNCHANGED bookVars /\ now' \in 0..MaxTime /\ forced' \in BOOLEAN
    BY <1>0, <1>7 DEF Tick, vars
  <2> QED BY <2>1 DEF bookVars, IInv, TypeOK, Placement, LostIsUnanswered, UnsentIsAbandoned,
              Abandoned, Unanswered, Answered, Stamped, Tracked, tables, stamps, counters
<1> QED BY <1>1, <1>2, <1>3, <1>4, <1>5, <1>6, <1>7 DEF Next

\* The inductive invariant holds throughout every run of the book.
THEOREM Invariance == Spec => []IInv
<1> QED BY InitInv, NextInv, PTL DEF Spec

\* Every variable of the book keeps its type, whatever its callers do.
THEOREM TypeCorrect == Spec => []TypeOK
<1>1. IInv => TypeOK
  BY DEF IInv
<1> QED BY <1>1, Invariance, PTL

\* A number is never in two of the dicts open, lost_seqs and seen_acks.
THEOREM TablesDisjoint == Spec => []OneTable
<1>1. IInv => OneTable
  BY DEF IInv, Placement, OneTable
<1> QED BY <1>1, Invariance, PTL

\* The reported loss is the number of timed-out, unanswered ECHO requests,
\* and the reported unsent count that of the requests abandoned unwritten.
THEOREM ReportIsExact == Spec => []CountersExact
<1>1. IInv => CountersExact
  BY DEF IInv, CountersExact
<1> QED BY <1>1, Invariance, PTL

-----------------------------------------------------------------------------
(* The bounds of the evicting dicts *)

LateSeen == seen_acks \cap Stamped(lost_at)

\* A take preserves the bounds: an accepted answer trims seen_acks, a late
\* one adds a member of LateSeen.
LEMMA TakeBounded ==
  ASSUME IInv, TablesBounded, NEW s \in Seqs, Take(s)
  PROVE  TablesBounded'
<1>0. /\ IsFiniteSet(lost_seqs) /\ Cardinality(lost_seqs) \in Nat
      /\ IsFiniteSet(seen_acks) /\ Cardinality(seen_acks) \in Nat
      /\ IsFiniteSet(LateSeen) /\ Cardinality(LateSeen) \in Nat
  BY SubsetsAreFinite DEF IInv, TypeOK, LateSeen
<1>1. CASE TakeKind(s) = "ok" /\ TakeOk(s)
  <2>1. NextStamp(acked_at) \in Nat
    BY NextStampPositive DEF IInv, TypeOK
  <2>2. seen_acks' = Newest(seen_acks \cup {s}, acked_at') /\ acked_at' \in [Seqs -> Nat]
    BY <1>1, <2>1 DEF TakeOk, IInv, TypeOK
  <2>3. Cardinality(seen_acks') <= Remember /\ seen_acks' \subseteq Seqs
    BY <2>2, NewestBound, NewestIsSubset DEF IInv, TypeOK
  <2>4. Cardinality(LateSeen') \in Nat /\ Cardinality(seen_acks') \in Nat
    BY <2>3, SubsetsAreFinite DEF LateSeen
  <2>5. Cardinality(seen_acks') <= Remember + Cardinality(LateSeen')
    BY <2>3, <2>4, BookAssumption
  <2>6. lost_seqs' = lost_seqs
    BY <1>1 DEF TakeOk
  <2> QED BY <2>5, <2>6 DEF TablesBounded, LateSeen
<1>2. CASE TakeKind(s) = "late" /\ TakeLate(s)
  <2>1. s \in lost_seqs /\ s \notin seen_acks /\ lost_at[s] # 0
    BY <1>2 DEF TakeKind, IInv, Placement
  <2>2. seen_acks' = seen_acks \cup {s} /\ LateSeen' = LateSeen \cup {s} /\ s \notin LateSeen
    BY <1>2, <2>1 DEF TakeLate, LateSeen, Stamped
  <2>3. /\ Cardinality(seen_acks') = Cardinality(seen_acks) + 1
        /\ Cardinality(LateSeen') = Cardinality(LateSeen) + 1
    BY <1>0, <2>1, <2>2, FS_AddElement
  <2>4. Cardinality(lost_seqs') <= Remember
    <3>1. lost_seqs' = lost_seqs \ {s}
      BY <1>2 DEF TakeLate
    <3>2. Cardinality(lost_seqs') = Cardinality(lost_seqs) - 1
      BY <1>0, <2>1, <3>1, FS_RemoveElement
    <3> QED BY <1>0, <3>2, BookAssumption DEF TablesBounded
  <2>5. Cardinality(seen_acks') <= Remember + Cardinality(LateSeen')
    BY <1>0, <2>3, BookAssumption DEF TablesBounded, LateSeen
  <2> QED BY <2>4, <2>5 DEF TablesBounded, LateSeen
<1>3. CASE TakeDuplicate \/ UNCHANGED bookVars
  BY <1>3 DEF TakeDuplicate, bookVars, tables, stamps, TablesBounded, Stamped
<1> QED BY <1>1, <1>2, <1>3 DEF Take

\* A reap trims lost_seqs; what it stamps was open, so never in seen_acks.
LEMMA ReapBounded ==
  ASSUME IInv, TablesBounded, NEW t \in Nat, NEW force \in BOOLEAN, Reap(t, force)
  PROVE  TablesBounded'
<1> DEFINE due == Expired(t, force)
<1>1. /\ lost_at' = StampAll(lost_at, due, added_at)
      /\ lost_seqs' = Newest(lost_seqs \cup due, lost_at')
      /\ UNCHANGED seen_acks
  BY DEF Reap
<1>2. due \subseteq Seqs /\ due \cap seen_acks = {}
  BY DEF Expired, IInv, TypeOK, Placement
<1> HIDE DEF due
<1>3. lost_at' \in [Seqs -> Nat] /\ \A s \in Seqs \ due : lost_at'[s] = lost_at[s]
  BY <1>1, <1>2, StampAllFacts DEF IInv, TypeOK
<1>4. Cardinality(lost_seqs') <= Remember
  BY <1>1, <1>2, <1>3, NewestBound DEF IInv, TypeOK
<1>5. LateSeen' = LateSeen
  BY <1>1, <1>2, <1>3 DEF LateSeen, Stamped, IInv, TypeOK
<1> QED BY <1>1, <1>4, <1>5 DEF TablesBounded, LateSeen

\* The book's memory of what it lost stays within remember, its memory of
\* answers within remember plus the late answers it holds.
THEOREM MemoryBounded == Spec => []TablesBounded
<1>1. Init => TablesBounded
  <2> SUFFICES ASSUME Init PROVE TablesBounded
    OBVIOUS
  <2>1. lost_seqs = {} /\ seen_acks = {} /\ seen_acks \cap Stamped(lost_at) = {}
    BY DEF Init, BookInit
  <2> QED BY <2>1, FS_EmptySet, BookAssumption DEF TablesBounded
<1>2. ASSUME IInv, TablesBounded, [Next]_vars PROVE TablesBounded'
  <2>0. now \in Nat /\ 0..now \subseteq Nat
    BY <1>2, BookAssumption DEF IInv, TypeOK
  <2>1. ASSUME NEW s \in Seqs, Respond(s) PROVE TablesBounded'
    BY <1>2, <2>1, TakeBounded DEF Respond
  <2>2. ASSUME NEW t \in Nat, NEW force \in BOOLEAN, Reap(t, force) PROVE TablesBounded'
    BY <1>2, <2>2, ReapBounded
  <2>3. CASE AddFresh \/ MarkWritten \/ DropFailed \/ Tick \/ UNCHANGED vars
    <3>1. UNCHANGED <<lost_seqs, seen_acks, lost_at>>
      BY <2>3 DEF AddFresh, Add, MarkWritten, MarkSent, DropFailed, DropUnsent, Tick,
                  vars, bookVars, tables, stamps
    <3> QED BY <1>2, <3>1 DEF TablesBounded, Stamped
  <2> QED BY <1>2, <2>0, <2>1, <2>2, <2>3 DEF Next, ReapAt, ReapForced
<1> QED BY <1>1, <1>2, Invariance, PTL DEF Spec

-----------------------------------------------------------------------------
(* Eviction forgets the oldest *)

\* Stamps are given out in order: none is above their number.
InSequence(at) == \A s \in Stamped(at) : at[s] <= Cardinality(Stamped(at))

\* ForgetOldest is not inductive alone: a new stamp must exceed the old ones.
StampsInSequence == InSequence(lost_at) /\ InSequence(acked_at)

\* The next stamp exceeds every stamp given out, and giving it to a new key
\* keeps the stamps in sequence.
LEMMA NextStampIsNewest ==
  ASSUME NEW at \in [Seqs -> Nat], InSequence(at), NEW s \in Seqs, at[s] = 0
  PROVE  /\ \A t \in Seqs : at[t] < NextStamp(at)
         /\ InSequence([at EXCEPT ![s] = NextStamp(at)])
<1> DEFINE new == [at EXCEPT ![s] = NextStamp(at)]
<1>1. /\ Stamped(at) \subseteq Seqs /\ s \notin Stamped(at)
      /\ IsFiniteSet(Stamped(at)) /\ Cardinality(Stamped(at)) \in Nat
  BY SubsetsAreFinite DEF Stamped
<1>2. NextStamp(at) = Cardinality(Stamped(at)) + 1
  BY DEF NextStamp
<1>3. \A t \in Seqs : at[t] < NextStamp(at)
  BY <1>1, <1>2 DEF InSequence, Stamped
<1>4. Stamped(new) = Stamped(at) \cup {s}
  BY <1>1, <1>2 DEF Stamped
<1>5. Cardinality(Stamped(new)) = NextStamp(at)
  BY <1>1, <1>2, <1>4, FS_AddElement
<1>6. \A t \in Stamped(new) : new[t] <= NextStamp(at)
  BY <1>1, <1>2, <1>3, <1>4
<1> QED BY <1>3, <1>5, <1>6 DEF InSequence

\* The stamps a reap gives out exceed the earlier ones and stay in sequence.
LEMMA StampAllIsNewest ==
  ASSUME NEW at \in [Seqs -> Nat], InSequence(at), NEW S \in SUBSET Seqs,
         NEW order \in [Seqs -> Nat], \A s \in S : at[s] = 0
  PROVE  /\ \A s \in S, t \in Seqs \ S : StampAll(at, S, order)[t] < StampAll(at, S, order)[s]
         /\ InSequence(StampAll(at, S, order))
<1> DEFINE rank(s) == Cardinality({t \in S : order[t] <= order[s]})
           new     == StampAll(at, S, order)
<1>1. /\ Stamped(at) \subseteq Seqs /\ Stamped(at) \cap S = {}
      /\ Cardinality(Stamped(at)) \in Nat /\ Cardinality(S) \in Nat
  BY SubsetsAreFinite DEF Stamped
<1>2. ASSUME NEW s \in S PROVE rank(s) \in Nat \ {0} /\ rank(s) <= Cardinality(S)
  <2>1. {t \in S : order[t] <= order[s]} \subseteq S /\ IsFiniteSet(S)
    BY SubsetsAreFinite
  <2>2. rank(s) \in Nat /\ rank(s) <= Cardinality(S)
    BY <2>1, FS_Subset, FS_CardinalityType
  <2>3. s \in {t \in S : order[t] <= order[s]} /\ IsFiniteSet({t \in S : order[t] <= order[s]})
    BY <2>1, FS_Subset
  <2>4. rank(s) # 0
    BY <2>3, FS_EmptySet
  <2> QED BY <2>2, <2>4
<1>3. /\ \A s \in S : new[s] = Cardinality(Stamped(at)) + rank(s)
      /\ \A s \in Seqs \ S : new[s] = at[s]
      /\ new \in [Seqs -> Nat] /\ \A s \in S : new[s] # 0
  <2>1. new = [s \in Seqs |-> IF s \in S THEN Cardinality(Stamped(at)) + rank(s) ELSE at[s]]
    BY DEF StampAll
  <2>2. \A s \in S : new[s] = Cardinality(Stamped(at)) + rank(s)
    <3> HIDE DEF rank, new
    <3> QED BY <2>1
  <2>3. /\ \A s \in Seqs \ S : new[s] = at[s]
        /\ new \in [Seqs -> Nat] /\ \A s \in S : new[s] # 0
    <3> HIDE DEF rank
    <3> QED BY StampAllFacts
  <2> QED BY <2>2, <2>3
<1> HIDE DEF rank, new
<1>4. \A t \in Seqs : at[t] <= Cardinality(Stamped(at))
  BY <1>1 DEF InSequence, Stamped
<1>5. \A s \in S, t \in Seqs \ S : new[t] < new[s]
  BY <1>1, <1>2, <1>3, <1>4
<1>6. Stamped(new) = Stamped(at) \cup S
  BY <1>1, <1>3 DEF Stamped
<1>7. Cardinality(Stamped(new)) = Cardinality(Stamped(at)) + Cardinality(S)
  BY <1>1, <1>6, DisjointUnion
<1>8. \A s \in S : new[s] <= Cardinality(Stamped(new))
  BY <1>1, <1>2, <1>3, <1>7
<1>9. \A s \in Stamped(at) : new[s] <= Cardinality(Stamped(new))
  BY <1>1, <1>3, <1>4, <1>7
<1>10. InSequence(new)
  BY <1>6, <1>8, <1>9 DEF InSequence
<1> QED BY <1>5, <1>10 DEF new

\* What eviction removes is older than what it keeps.
LEMMA NewestIsNewer ==
  ASSUME NEW at \in [Seqs -> Nat], NEW S \in SUBSET Seqs,
         NEW s \in Newest(S, at), NEW t \in S \ Newest(S, at)
  PROVE  at[t] < at[s]
<1> DEFINE above(r) == {u \in S : at[u] >= at[r]}
<1>1. s \in S /\ Cardinality(above(s)) <= Remember /\ ~(Cardinality(above(t)) <= Remember)
  BY DEF Newest
<1>2. SUFFICES ASSUME at[t] >= at[s] PROVE FALSE
  BY <1>1
<1>3. above(t) \subseteq above(s)
  BY <1>1, <1>2
<1>4. IsFiniteSet(above(s))
  BY SubsetsAreFinite
<1>5. Cardinality(above(t)) <= Cardinality(above(s)) /\ Cardinality(above(t)) \in Nat
      /\ Cardinality(above(s)) \in Nat
  <2> HIDE DEF above
  <2> QED BY <1>3, <1>4, FS_Subset, FS_CardinalityType
<1> HIDE DEF above
<1> QED BY <1>1, <1>5, BookAssumption

\* An accepted answer is the newest in seen_acks, and evicts older ones; a
\* late one leaves lost_seqs and is neither kept nor forgotten there.
LEMMA TakeForgets ==
  ASSUME IInv, StampsInSequence, ForgetOldest, NEW s \in Seqs, Take(s)
  PROVE  (StampsInSequence /\ ForgetOldest)'
<1> DEFINE at == [acked_at EXCEPT ![s] = NextStamp(acked_at)]
<1>0. /\ acked_at \in [Seqs -> Nat] /\ lost_at \in [Seqs -> Nat] /\ InSequence(acked_at)
      /\ NextStamp(acked_at) \in Nat \ {0} /\ seen_acks \subseteq Seqs
  BY NextStampPositive DEF IInv, TypeOK, StampsInSequence
<1>1. ASSUME s \notin seen_acks, s \in open \/ s \in lost_seqs
      PROVE  /\ acked_at[s] = 0 /\ InSequence(at) /\ at \in [Seqs -> Nat]
             /\ at[s] = NextStamp(acked_at)
             /\ \A t \in Seqs \ {s} : at[t] = acked_at[t] /\ at[t] < at[s]
             /\ Stamped(at) = Answered \cup {s}
  <2>1. acked_at[s] = 0
    BY <1>1 DEF IInv, Placement
  <2>2. InSequence(at) /\ \A t \in Seqs : acked_at[t] < NextStamp(acked_at)
    BY <1>0, <2>1, NextStampIsNewest
  <2>3. Stamped(at) = Answered \cup {s}
    BY <1>0, <2>1 DEF Stamped, Answered
  <2> QED BY <1>0, <2>1, <2>2, <2>3
<1>2. CASE TakeKind(s) = "ok" /\ TakeOk(s)
  <2>1. s \notin seen_acks /\ s \in open /\ lost_at[s] = 0
    BY <1>2 DEF TakeKind, IInv, Placement
  <2>2. /\ acked_at' = at /\ seen_acks' = Newest(seen_acks \cup {s}, at)
        /\ UNCHANGED <<lost_seqs, lost_at>>
    BY <1>2 DEF TakeOk
  <2>3. Answered' = Answered \cup {s} /\ Unanswered' = Unanswered
    BY <1>1, <2>1, <2>2 DEF Answered, Unanswered, Stamped
  <2>4. ASSUME NEW x \in seen_acks', NEW y \in Answered' \ seen_acks'
        PROVE  acked_at'[y] < acked_at'[x]
    <3>1. x \in seen_acks \cup {s} /\ x \in Seqs /\ y \in Seqs
      BY <1>0, <2>2, <2>3, NewestIsSubset DEF Answered, Stamped
    <3>2. CASE y \in seen_acks \cup {s}
      BY <1>0, <1>1, <2>1, <2>2, <3>1, <3>2, NewestIsNewer
    <3>3. CASE y \notin seen_acks \cup {s}
      <4>1. y \in Answered \ seen_acks /\ y # s
        BY <2>3, <3>3
      <4> QED BY <1>0, <1>1, <2>1, <2>2, <3>1, <4>1 DEF ForgetOldest
    <3> QED BY <3>2, <3>3
  <2>5. ForgetOldest'
    BY <2>2, <2>3, <2>4 DEF ForgetOldest
  <2>6. StampsInSequence'
    BY <1>1, <2>1, <2>2 DEF StampsInSequence, InSequence, Stamped
  <2> QED BY <2>5, <2>6
<1>3. CASE TakeKind(s) = "late" /\ TakeLate(s)
  <2>1. s \notin seen_acks /\ s \in lost_seqs
    BY <1>3 DEF TakeKind
  <2>2. /\ acked_at' = at /\ seen_acks' = seen_acks \cup {s} /\ lost_seqs' = lost_seqs \ {s}
        /\ UNCHANGED lost_at
    BY <1>3 DEF TakeLate
  <2>3. Answered' = Answered \cup {s} /\ Unanswered' = Unanswered \ {s}
    BY <1>1, <2>1, <2>2 DEF Answered, Unanswered, Stamped
  <2>4. ASSUME NEW x \in seen_acks', NEW y \in Answered' \ seen_acks'
        PROVE  acked_at'[y] < acked_at'[x]
    <3>1. y \in Answered \ seen_acks /\ y # s /\ y \in Seqs /\ x \in seen_acks \cup {s}
      BY <2>2, <2>3 DEF Answered, Stamped
    <3> QED BY <1>0, <1>1, <2>1, <2>2, <3>1 DEF ForgetOldest
  <2>5. ForgetOldest'
    BY <2>2, <2>3, <2>4 DEF ForgetOldest
  <2>6. StampsInSequence'
    BY <1>1, <2>1, <2>2 DEF StampsInSequence, InSequence, Stamped
  <2> QED BY <2>5, <2>6
<1>4. CASE TakeDuplicate \/ UNCHANGED bookVars
  <2>1. UNCHANGED <<lost_seqs, seen_acks, lost_at, acked_at>>
    BY <1>4 DEF TakeDuplicate, bookVars, tables, stamps
  <2> QED BY <2>1 DEF StampsInSequence, InSequence, ForgetOldest, Unanswered, Answered, Stamped
<1> QED BY <1>2, <1>3, <1>4 DEF Take

\* What a reap stamps is newer than what lost_seqs held, and it evicts from
\* the old end.
LEMMA ReapForgets ==
  ASSUME IInv, StampsInSequence, ForgetOldest, NEW t \in Nat, NEW force \in BOOLEAN,
         Reap(t, force)
  PROVE  (StampsInSequence /\ ForgetOldest)'
<1> DEFINE due == Expired(t, force)
           at  == StampAll(lost_at, due, added_at)
<1>1. /\ lost_at' = at /\ lost_seqs' = Newest(lost_seqs \cup due, at)
      /\ UNCHANGED <<seen_acks, acked_at>>
  BY DEF Reap
<1>2. /\ due \subseteq Seqs /\ lost_seqs \subseteq Seqs
      /\ \A s \in due : lost_at[s] = 0 /\ acked_at[s] = 0
      /\ lost_at \in [Seqs -> Nat] /\ added_at \in [Seqs -> Nat] /\ InSequence(lost_at)
      /\ lost_seqs \cap due = {}
  BY DEF Expired, IInv, TypeOK, Placement, StampsInSequence
<1> HIDE DEF due
<1>3. /\ at \in [Seqs -> Nat] /\ InSequence(at)
      /\ \A s \in due : at[s] # 0
      /\ \A s \in Seqs \ due : at[s] = lost_at[s]
      /\ \A s \in due, r \in Seqs \ due : at[r] < at[s]
  BY <1>2, StampAllFacts, StampAllIsNewest
<1> HIDE DEF at
<1>4. Answered' = Answered /\ Unanswered' = Unanswered \cup due
  BY <1>1, <1>2, <1>3 DEF Answered, Unanswered, Stamped
<1>5. ASSUME NEW x \in lost_seqs', NEW y \in Unanswered' \ lost_seqs'
      PROVE  lost_at'[y] < lost_at'[x]
  <2>1. x \in lost_seqs \cup due
    BY <1>1, NewestIsSubset
  <2>2. CASE y \in lost_seqs \cup due
    BY <1>1, <1>2, <1>3, <2>2, NewestIsNewer
  <2>3. CASE y \notin lost_seqs \cup due
    <3>1. y \in Unanswered \ lost_seqs /\ y \in Seqs \ due
      BY <1>4, <2>3 DEF Unanswered, Stamped
    <3> QED BY <1>1, <1>2, <1>3, <2>1, <3>1 DEF ForgetOldest
  <2> QED BY <2>2, <2>3
<1>6. ForgetOldest'
  BY <1>1, <1>4, <1>5 DEF ForgetOldest
<1>7. StampsInSequence'
  BY <1>1, <1>3 DEF StampsInSequence, InSequence, Stamped
<1> QED BY <1>6, <1>7

\* Whatever lost_seqs and seen_acks have forgotten is older than whatever
\* they still know, so a recent answer is never taken for an unknown one.
THEOREM OldestForgottenFirst == Spec => []ForgetOldest
<1>1. Init => StampsInSequence /\ ForgetOldest
  BY DEF Init, BookInit, StampsInSequence, InSequence, ForgetOldest, Unanswered, Answered, Stamped
<1>2. ASSUME IInv, StampsInSequence, ForgetOldest, [Next]_vars
      PROVE  (StampsInSequence /\ ForgetOldest)'
  <2>0. now \in Nat /\ 0..now \subseteq Nat
    BY <1>2, BookAssumption DEF IInv, TypeOK
  <2>1. ASSUME NEW s \in Seqs, Respond(s) PROVE (StampsInSequence /\ ForgetOldest)'
    BY <1>2, <2>1, TakeForgets DEF Respond
  <2>2. ASSUME NEW t \in Nat, NEW force \in BOOLEAN, Reap(t, force)
        PROVE  (StampsInSequence /\ ForgetOldest)'
    BY <1>2, <2>2, ReapForgets
  <2>3. CASE AddFresh \/ MarkWritten \/ DropFailed \/ Tick \/ UNCHANGED vars
    <3>1. UNCHANGED <<lost_seqs, seen_acks, lost_at, acked_at>>
      BY <2>3 DEF AddFresh, Add, MarkWritten, MarkSent, DropFailed, DropUnsent, Tick,
                  vars, bookVars, tables, stamps
    <3> QED BY <1>2, <3>1 DEF StampsInSequence, InSequence, ForgetOldest, Unanswered, Answered,
                              Stamped
  <2> QED BY <1>2, <2>0, <2>1, <2>2, <2>3 DEF Next, ReapAt, ReapForced
<1> QED BY <1>1, <1>2, Invariance, PTL DEF Spec

-----------------------------------------------------------------------------
(* What a step may not do *)

\* No step gives a number that has been answered a second acceptance.
THEOREM AcceptedOnce == Spec => AcceptOnce
<1>1. ASSUME IInv, [Next]_vars, NEW s \in Answered PROVE acked_at'[s] = acked_at[s]
  <2>0. s \in Seqs /\ acked_at[s] # 0 /\ s \notin open /\ s \notin lost_seqs
    BY <1>1 DEF IInv, Placement, Answered, Stamped
  <2>1. ASSUME NEW r \in Seqs, Take(r) PROVE acked_at'[s] = acked_at[s]
    <3>1. CASE TakeKind(r) = "ok" /\ TakeOk(r)
      <4>1. r # s
        BY <2>0, <3>1 DEF TakeKind
      <4> QED BY <1>1, <2>0, <3>1, <4>1 DEF TakeOk, IInv, TypeOK
    <3>2. CASE TakeKind(r) = "late" /\ TakeLate(r)
      <4>1. r # s
        BY <2>0, <3>2 DEF TakeKind
      <4> QED BY <1>1, <2>0, <3>2, <4>1 DEF TakeLate, IInv, TypeOK
    <3> QED BY <2>1, <3>1, <3>2 DEF Take, TakeDuplicate, bookVars, stamps
  <2>2. ASSUME NEW t, NEW force, Reap(t, force) PROVE acked_at'[s] = acked_at[s]
    BY <2>2 DEF Reap
  <2>3. CASE AddFresh \/ MarkWritten \/ DropFailed \/ Tick \/ UNCHANGED vars
    BY <2>3 DEF AddFresh, Add, MarkWritten, MarkSent, DropFailed, DropUnsent, Tick,
                vars, bookVars, stamps
  <2> QED BY <1>1, <2>1, <2>2, <2>3 DEF Next, Respond, ReapAt, ReapForced
<1>2. IInv /\ [Next]_vars => [\A s \in Answered : acked_at'[s] = acked_at[s]]_vars
  BY <1>1
<1> QED BY <1>2, Invariance, PTL DEF Spec, AcceptOnce

\* Before the final reap no request is given up early, even by a reap whose
\* clock value is old, and one that was never written is never given up.
THEOREM NoLossBeforeTimeout == Spec => NoEarlyLoss
<1> DEFINE Due(s) == Sent(s) /\ (forced' \/ now - send_mono[s] >= Timeout)
           Given  == Stamped(lost_at)' \ Stamped(lost_at)
<1>1. ASSUME IInv, [Next]_vars, NEW s \in Given PROVE Due(s)
  <2>1. s \in Seqs /\ lost_at[s] = 0 /\ lost_at'[s] # 0
    BY <1>1 DEF Stamped
  <2>2. ASSUME NEW t \in Nat, NEW force \in BOOLEAN, Reap(t, force)
        PROVE  s \in Expired(t, force)
    <3>1. lost_at' = StampAll(lost_at, Expired(t, force), added_at)
      BY <2>2 DEF Reap
    <3>2. Expired(t, force) \in SUBSET Seqs
      BY <1>1 DEF Expired, IInv, TypeOK
    <3>3. lost_at \in [Seqs -> Nat] /\ added_at \in [Seqs -> Nat]
      BY <1>1 DEF IInv, TypeOK
    <3>4. \A r \in Seqs \ Expired(t, force) :
            StampAll(lost_at, Expired(t, force), added_at)[r] = lost_at[r]
      BY <3>2, <3>3, StampAllFacts
    <3> QED BY <2>1, <3>1, <3>4
  <2>3. ASSUME NEW t \in 0..now, ReapAt(t) PROVE Due(s)
    <3>1. t \in Nat /\ now \in Nat /\ t <= now
      BY <1>1, BookAssumption DEF IInv, TypeOK
    <3>2. s \in open /\ Sent(s) /\ t - send_mono[s] >= Timeout
      BY <2>2, <2>3, <3>1 DEF ReapAt, Expired
    <3>3. send_mono[s] \in Nat
      BY <1>1, <2>1, <3>2 DEF IInv, TypeOK, Sent
    <3>4. now - send_mono[s] >= Timeout
      BY <3>1, <3>2, <3>3, BookAssumption
    <3> QED BY <3>2, <3>4
  <2>4. CASE ReapForced
    <3>1. now \in Nat
      BY <1>1, BookAssumption DEF IInv, TypeOK
    <3> QED BY <2>2, <2>4, <3>1 DEF ReapForced, Expired
  <2>5. ~(AddFresh \/ MarkWritten \/ DropFailed \/ (\E r \in Seqs : Respond(r)) \/ Tick
          \/ UNCHANGED vars)
    BY <2>1 DEF AddFresh, Add, MarkWritten, MarkSent, DropFailed, DropUnsent, Respond, Take,
                TakeOk, TakeLate, TakeDuplicate, Tick, vars, bookVars, stamps
  <2> QED BY <1>1, <2>3, <2>4, <2>5 DEF Next
<1>2. IInv /\ [Next]_vars => [\A s \in Given : Due(s)]_vars
  BY <1>1
<1> QED BY <1>2, Invariance, PTL DEF Spec, NoEarlyLoss

-----------------------------------------------------------------------------
(* The book implements the ledger of outcomes *)

\* Under the invariant the five outcomes exclude each other, and the counters
\* are counts of outcomes.
LEMMA OutcomeFacts ==
  ASSUME IInv
  PROVE  /\ \A s \in Seqs : Outcome(s) = "idle" <=> added_at[s] = 0
         /\ \A s \in Seqs : Outcome(s) = "open" <=> s \in open
         /\ \A s \in Seqs : Outcome(s) = "answered" <=> s \in Answered
         /\ \A s \in Seqs : Outcome(s) = "lost" <=> s \in Unanswered
         /\ \A s \in Seqs : Outcome(s) = "unsent" <=> s \in Abandoned
         /\ \A s \in Seqs : Outcome(s) \in {"idle", "open", "answered", "lost", "unsent"}
<1> QED BY DEF Outcome, IInv, TypeOK, Placement, Abandoned, Unanswered, Answered, Stamped

\* A step that keeps the invariant recounts the ledger's counters.
LEMMA Recounted ==
  ASSUME IInv'
  PROVE  Ledger!Recount
<1>1. ASSUME NEW s \in Seqs
      PROVE  /\ (Outcome(s)' = "lost") <=> (s \in Unanswered')
             /\ (Outcome(s)' = "unsent") <=> (s \in Abandoned')
  BY DEF Outcome, IInv, TypeOK, Placement, Abandoned, Unanswered, Answered, Stamped
<1>2. Unanswered' \subseteq Seqs /\ Abandoned' \subseteq Seqs
  BY DEF Unanswered, Abandoned, Stamped
<1> DEFINE om == [r \in Seqs |-> Outcome(r)]
<1>3. \A s \in Seqs : om'[s] = Outcome(s)'
  OBVIOUS
<1> HIDE DEF om
<1>4. {s \in Seqs : om'[s] = "unsent"} = Abandoned'
  BY <1>1, <1>2, <1>3
<1>5. {s \in Seqs : om'[s] = "lost" /\ mtype'[s] = ECHO} = {s \in Unanswered : Tracked(s)}'
  BY <1>1, <1>2, <1>3 DEF Tracked
<1>6. lost' = Cardinality({s \in Seqs : om'[s] = "lost" /\ mtype'[s] = ECHO})
  BY <1>5 DEF IInv, LostIsUnanswered
<1>7. unsent' = Cardinality({s \in Seqs : om'[s] = "unsent"})
  BY <1>4 DEF IInv, UnsentIsAbandoned
<1> QED BY <1>6, <1>7 DEF om, Ledger!Recount, Ledger!Cardinality, Cardinality

\* Initially every request is idle; every step of the book offers, answers
\* or gives up requests of the ledger, or changes nothing the ledger shows.
THEOREM BookImplementsLedger == Spec => ImplementsLedger
<1> DEFINE om == [s \in Seqs |-> Outcome(s)]
<1>1. Init => Ledger!Init
  <2> SUFFICES ASSUME Init PROVE Ledger!Init
    OBVIOUS
  <2>1. \A s \in Seqs : Outcome(s) = "idle"
    BY InitInv, OutcomeFacts DEF Init, BookInit
  <2> QED BY <2>1 DEF Init, BookInit, Ledger!Init
<1>2. ASSUME IInv, [Next]_vars PROVE [Ledger!Next]_Ledger!vars
  <2>0. IInv'
    BY <1>2, NextInv
  <2>1. Ledger!Recount
    BY <2>0, Recounted
  <2>2. \A s \in Seqs :
          /\ om[s] = Outcome(s) /\ om'[s] = Outcome(s)'
          /\ om[s] = "idle" <=> added_at[s] = 0
          /\ om[s] = "open" <=> s \in open
          /\ om[s] = "answered" <=> s \in Answered
          /\ om[s] = "lost" <=> s \in Unanswered
          /\ om[s] = "unsent" <=> s \in Abandoned
          /\ om[s] \in {"idle", "open", "answered", "lost", "unsent"}
    BY <1>2, OutcomeFacts
  <2>3. ASSUME UNCHANGED <<open, added_at, lost_at, acked_at>> PROVE om' = om
    BY <2>3 DEF Outcome, Unanswered, Answered, Stamped
  <2>4. CASE AddFresh
    <3>1. PICK s \in Seqs, kind \in {ECHO, STATUS} : added_at[s] = 0 /\ Add(s, kind)
      BY <2>4 DEF AddFresh
    <3>2. NextStamp(added_at) # 0
      BY <1>2, NextStampPositive DEF IInv, TypeOK
    <3>3. Outcome(s)' = "open"
      <4>1. added_at'[s] # 0 /\ s \in open'
        BY <1>2, <3>1, <3>2 DEF Add, IInv, TypeOK
      <4>2. lost_at'[s] = 0 /\ acked_at'[s] = 0
        BY <1>2, <3>1 DEF Add, IInv, Placement
      <4> QED BY <4>1, <4>2 DEF Outcome, Answered, Unanswered, Stamped
    <3>4. \A r \in Seqs \ {s} : Outcome(r)' = Outcome(r)
      BY <1>2, <3>1 DEF Add, Outcome, Unanswered, Answered, Stamped, IInv, TypeOK
    <3>5. om' = [om EXCEPT ![s] = "open"]
      BY <3>3, <3>4
    <3>6. Ledger!Offer(s, kind)
      BY <2>1, <2>2, <3>1, <3>5 DEF Ledger!Offer, Add
    <3> QED BY <3>6 DEF Ledger!Next
  <2>5. CASE MarkWritten \/ Tick \/ UNCHANGED vars
    <3>1. om' = om
      BY <2>3, <2>5 DEF MarkWritten, MarkSent, Tick, vars, bookVars, tables, stamps
    <3> QED BY <2>5, <3>1 DEF MarkWritten, MarkSent, Tick, vars, bookVars, counters, Ledger!vars
  <2>6. CASE DropFailed
    <3>1. PICK s \in Seqs : DropUnsent(s)
      BY <2>6 DEF DropFailed
    <3>2. CASE s \in open /\ ~Sent(s)
      <4>1. open' = open \ {s} /\ UNCHANGED <<added_at, lost_at, acked_at, mtype>>
        BY <3>1, <3>2 DEF DropUnsent, stamps
      <4>2. s \notin Answered /\ s \notin Unanswered /\ added_at[s] # 0
        BY <1>2, <3>2 DEF IInv, Placement, Answered, Unanswered, Stamped
      <4>3. \A r \in Seqs : Outcome(r)' = IF r = s THEN "unsent" ELSE Outcome(r)
        BY <4>1, <4>2 DEF Outcome, Answered, Unanswered, Stamped
      <4>4. om' = [r \in Seqs |-> CASE r \in {} -> "lost" [] r \in {s} -> "unsent" [] OTHER -> om[r]]
        BY <2>2, <4>3
      <4>5. Ledger!GiveUp({}, {s})
        BY <2>1, <2>2, <3>2, <4>1, <4>4 DEF Ledger!GiveUp, Ledger!WithOutcome
      <4>6. {} \in SUBSET Ledger!WithOutcome("open") /\ {s} \in SUBSET Ledger!WithOutcome("open")
        BY <2>2, <3>2 DEF Ledger!WithOutcome
      <4> QED BY <4>5, <4>6 DEF Ledger!Next
    <3>3. CASE ~(s \in open /\ ~Sent(s))
      BY <2>3, <3>1, <3>3 DEF DropUnsent, stamps, Ledger!vars
    <3> QED BY <3>2, <3>3
  <2>7. ASSUME NEW s \in Seqs, Respond(s) PROVE [Ledger!Next]_Ledger!vars
    <3>1. NextStamp(acked_at) # 0
      BY <1>2, NextStampPositive DEF IInv, TypeOK
    <3>2. CASE (TakeKind(s) = "ok" /\ TakeOk(s)) \/ (TakeKind(s) = "late" /\ TakeLate(s))
      <4>1. s \in open \/ s \in lost_seqs
        BY <3>2 DEF TakeKind
      <4>2. om[s] \in {"open", "lost"} /\ added_at[s] # 0
        BY <1>2, <2>2, <4>1 DEF IInv, Placement, Unanswered, Answered, Stamped
      <4>3. /\ acked_at' = [acked_at EXCEPT ![s] = NextStamp(acked_at)]
            /\ open' = open \ {s} /\ UNCHANGED <<added_at, lost_at, mtype>>
        BY <1>2, <3>2 DEF TakeOk, TakeLate, TakeKind
      <4>4. \A r \in Seqs : Outcome(r)' = IF r = s THEN "answered" ELSE Outcome(r)
        BY <1>2, <3>1, <4>2, <4>3 DEF Outcome, Answered, Unanswered, Stamped, IInv, TypeOK
      <4>5. om' = [om EXCEPT ![s] = "answered"]
        BY <4>4
      <4>6. Ledger!Answer(s)
        BY <2>1, <4>2, <4>3, <4>5 DEF Ledger!Answer
      <4> QED BY <4>6 DEF Ledger!Next
    <3>3. CASE TakeDuplicate \/ UNCHANGED bookVars
      BY <2>3, <3>3 DEF TakeDuplicate, bookVars, tables, stamps, counters, Ledger!vars
    <3> QED BY <2>7, <3>2, <3>3 DEF Respond, Take
  <2>8. ASSUME NEW t \in Nat, NEW force \in BOOLEAN, Reap(t, force) PROVE Ledger!Next
    <3> DEFINE due     == Expired(t, force)
               dropped == IF force THEN NeverSent ELSE {}
    <3>1. /\ open' = open \ (due \cup dropped)
          /\ lost_at' = StampAll(lost_at, due, added_at)
          /\ UNCHANGED <<added_at, acked_at, mtype>>
      BY <2>8 DEF Reap
    <3>2. due \subseteq open /\ dropped \subseteq open /\ due \cap dropped = {} /\ open \subseteq Seqs
      BY <1>2 DEF Expired, NeverSent, IInv, TypeOK
    <3> HIDE DEF due, dropped
    <3>3. (\A r \in due : lost_at'[r] # 0) /\ (\A r \in Seqs \ due : lost_at'[r] = lost_at[r])
      BY <1>2, <3>1, <3>2, StampAllFacts DEF IInv, TypeOK
    <3>4. \A r \in due \cup dropped : lost_at[r] = 0 /\ acked_at[r] = 0 /\ added_at[r] # 0
      BY <1>2, <3>2 DEF IInv, Placement
    <3>5. \A r \in due : Outcome(r)' = "lost"
      BY <3>1, <3>2, <3>3, <3>4 DEF Outcome, Answered, Unanswered, Stamped
    <3>6. \A r \in dropped : Outcome(r)' = "unsent"
      BY <3>1, <3>2, <3>3, <3>4 DEF Outcome, Answered, Unanswered, Stamped
    <3>7. \A r \in Seqs \ (due \cup dropped) : Outcome(r)' = Outcome(r)
      BY <3>1, <3>3 DEF Outcome, Answered, Unanswered, Stamped
    <3>8. om' = [r \in Seqs |-> CASE r \in due -> "lost" [] r \in dropped -> "unsent"
                                  [] OTHER -> om[r]]
      BY <2>2, <3>2, <3>5, <3>6, <3>7
    <3>9. due \in SUBSET Ledger!WithOutcome("open") /\ dropped \in SUBSET Ledger!WithOutcome("open")
      BY <2>2, <3>2 DEF Ledger!WithOutcome
    <3>10. Ledger!GiveUp(due, dropped)
      BY <2>1, <3>1, <3>2, <3>8, <3>9 DEF Ledger!GiveUp
    <3> QED BY <3>9, <3>10 DEF Ledger!Next
  <2>9. now \in Nat /\ 0..now \subseteq Nat
    BY <1>2, BookAssumption DEF IInv, TypeOK
  <2> QED BY <1>2, <2>4, <2>5, <2>6, <2>7, <2>8, <2>9 DEF Next, ReapAt, ReapForced
<1> QED BY <1>1, <1>2, Invariance, PTL DEF Spec, ImplementsLedger, Ledger!Spec
=============================================================================

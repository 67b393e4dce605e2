---------------------------- MODULE SequenceFacts ----------------------------
(***************************************************************************)
(* Lemmas for the proofs: about queues of numbered requests, for the       *)
(* programs that pass requests from queue to queue; about recursive        *)
(* definitions and induction, which the library's theorems on least        *)
(* elements of well-founded sets give; and about concatenations.           *)
(***************************************************************************)
EXTENDS Queues, SequencesExt, SequenceTheorems, WellFoundedInduction, TLAPS

-----------------------------------------------------------------------------
(* Queues *)

\* An empty queue holds nothing.
LEMMA EmptyQueue == Elems(<<>>) = {} /\ Increasing(<<>>)
BY DEF Elems, Increasing

\* A queue that holds nothing is empty.
LEMMA NothingHeld ==
  ASSUME NEW S, NEW q \in Seq(S), q # <<>>
  PROVE  Elems(q) # {}
<1>1. Len(q) \in Nat \ {0} /\ DOMAIN q = 1..Len(q)
  BY EmptySeq, LenProperties
<1>2. 1 \in DOMAIN q
  BY <1>1
<1> QED BY <1>2 DEF Elems

\* What a queue holds has the type of its elements.
LEMMA ElemsType ==
  ASSUME NEW S, NEW q \in Seq(S)
  PROVE  Elems(q) \subseteq S
BY DEF Elems

\* put(): the queue also holds the new element ...
LEMMA ElemsAppend ==
  ASSUME NEW S, NEW q \in Seq(S), NEW x \in S
  PROVE  Append(q, x) \in Seq(S) /\ Elems(Append(q, x)) = Elems(q) \cup {x}
<1> DEFINE a == Append(q, x)
<1>1. /\ a \in Seq(S) /\ Len(q) \in Nat /\ DOMAIN q = 1..Len(q) /\ DOMAIN a = 1..(Len(q) + 1)
      /\ a[Len(q) + 1] = x /\ \A i \in 1..Len(q) : a[i] = q[i]
  BY AppendProperties, LenProperties
<1> HIDE DEF a
<1>2. 1..(Len(q) + 1) = 1..Len(q) \cup {Len(q) + 1}
  BY <1>1
<1>3. Elems(a) = Elems(q) \cup {x}
  BY <1>1, <1>2 DEF Elems
<1> QED BY <1>1, <1>3 DEF a

\* ... and stays in order when all it held comes before the new element.
LEMMA IncreasingAppend ==
  ASSUME NEW q \in Seq(Int), NEW x \in Int, Increasing(q), Before(Elems(q), {x})
  PROVE  Increasing(Append(q, x))
<1> DEFINE a == Append(q, x)
<1>1. /\ Len(q) \in Nat /\ DOMAIN q = 1..Len(q) /\ DOMAIN a = 1..(Len(q) + 1)
      /\ a[Len(q) + 1] = x /\ \A i \in 1..Len(q) : a[i] = q[i]
  BY AppendProperties, LenProperties
<1> HIDE DEF a
<1>2. \A i \in 1..Len(q) : q[i] < x
  BY <1>1 DEF Before, Elems
<1>3. Increasing(a)
  BY SMTT(30), <1>1, <1>2 DEF Increasing
<1> QED BY <1>3 DEF a

\* get(): the head is taken from what the queue holds ...
LEMMA ElemsTail ==
  ASSUME NEW S, NEW q \in Seq(S), q # <<>>
  PROVE  /\ Head(q) \in S /\ Tail(q) \in Seq(S)
         /\ Elems(q) = {Head(q)} \cup Elems(Tail(q))
<1> DEFINE t == Tail(q)
<1>1. /\ Head(q) \in S /\ t \in Seq(S) /\ Len(q) \in Nat /\ Len(q) # 0
      /\ DOMAIN q = 1..Len(q) /\ DOMAIN t = 1..(Len(q) - 1)
      /\ Head(q) = q[1] /\ \A i \in 1..(Len(q) - 1) : t[i] = q[i + 1]
  BY HeadTailProperties, LenProperties, EmptySeq
<1> HIDE DEF t
<1>2. Elems(q) \subseteq {Head(q)} \cup Elems(t)
  <2> SUFFICES ASSUME NEW i \in 1..Len(q), i # 1 PROVE q[i] \in Elems(t)
    BY <1>1 DEF Elems
  <2>1. i - 1 \in DOMAIN t /\ t[i - 1] = q[i]
    BY <1>1
  <2> QED BY <2>1 DEF Elems
<1>3. {Head(q)} \cup Elems(t) \subseteq Elems(q)
  <2>1. Head(q) \in Elems(q)
    BY <1>1 DEF Elems
  <2>2. ASSUME NEW i \in DOMAIN t PROVE t[i] \in Elems(q)
    <3>1. i + 1 \in DOMAIN q /\ q[i + 1] = t[i]
      BY <1>1
    <3> QED BY <3>1 DEF Elems
  <2> QED BY <2>1, <2>2 DEF Elems
<1> QED BY <1>1, <1>2, <1>3 DEF t

\* ... and in a queue in order it comes before all that stays.
LEMMA IncreasingTail ==
  ASSUME NEW q \in Seq(Int), q # <<>>, Increasing(q)
  PROVE  Increasing(Tail(q)) /\ Before({Head(q)}, Elems(Tail(q)))
<1> DEFINE t == Tail(q)
<1>1. /\ Len(q) \in Nat /\ Len(q) # 0
      /\ DOMAIN q = 1..Len(q) /\ DOMAIN t = 1..(Len(q) - 1)
      /\ Head(q) = q[1] /\ \A i \in 1..(Len(q) - 1) : t[i] = q[i + 1]
      /\ \A i \in 1..Len(q) : q[i] \in Int
  BY HeadTailProperties, LenProperties, EmptySeq, ElementOfSeq
<1> HIDE DEF t
<1>2. Increasing(t)
  <2> SUFFICES ASSUME NEW i \in DOMAIN t, NEW j \in DOMAIN t, i < j PROVE t[i] < t[j]
    BY DEF Increasing
  <2>1. i + 1 \in DOMAIN q /\ j + 1 \in DOMAIN q /\ i + 1 < j + 1
    BY <1>1
  <2>2. q[i + 1] < q[j + 1]
    BY <2>1 DEF Increasing
  <2> QED BY <1>1, <2>2
<1>3. Before({Head(q)}, Elems(t))
  <2> SUFFICES ASSUME NEW i \in DOMAIN t PROVE q[1] < t[i]
    BY <1>1 DEF Before, Elems
  <2>1. 1 \in DOMAIN q /\ i + 1 \in DOMAIN q /\ 1 < i + 1
    BY <1>1
  <2> QED BY <1>1, <2>1 DEF Increasing
<1> QED BY <1>2, <1>3 DEF t

\* Two queues in a row hold what either holds, and are in order when each is
\* and the first comes before the second.
LEMMA ElemsConcat ==
  ASSUME NEW S, NEW p \in Seq(S), NEW q \in Seq(S)
  PROVE  p \o q \in Seq(S) /\ Elems(p \o q) = Elems(p) \cup Elems(q)
<1> DEFINE c == p \o q
<1>1. /\ c \in Seq(S) /\ Len(p) \in Nat /\ Len(q) \in Nat
      /\ DOMAIN p = 1..Len(p) /\ DOMAIN q = 1..Len(q) /\ DOMAIN c = 1..(Len(p) + Len(q))
      /\ \A i \in 1..(Len(p) + Len(q)) : c[i] = IF i <= Len(p) THEN p[i] ELSE q[i - Len(p)]
  BY ConcatProperties, LenProperties
<1> HIDE DEF c
<1>2. Elems(c) \subseteq Elems(p) \cup Elems(q)
  <2> SUFFICES ASSUME NEW i \in DOMAIN c PROVE c[i] \in Elems(p) \cup Elems(q)
    BY DEF Elems
  <2>1. CASE i <= Len(p)
    BY <1>1, <2>1 DEF Elems
  <2>2. CASE ~(i <= Len(p))
    <3>1. i - Len(p) \in DOMAIN q /\ c[i] = q[i - Len(p)]
      BY <1>1, <2>2
    <3> QED BY <3>1 DEF Elems
  <2> QED BY <2>1, <2>2
<1>3. Elems(p) \subseteq Elems(c)
  <2> SUFFICES ASSUME NEW i \in DOMAIN p PROVE p[i] \in Elems(c)
    BY DEF Elems
  <2>1. i \in DOMAIN c /\ c[i] = p[i]
    BY <1>1
  <2> QED BY <2>1 DEF Elems
<1>4. Elems(q) \subseteq Elems(c)
  <2> SUFFICES ASSUME NEW i \in DOMAIN q PROVE q[i] \in Elems(c)
    BY DEF Elems
  <2>1. i + Len(p) \in DOMAIN c /\ c[i + Len(p)] = q[i]
    BY <1>1
  <2> QED BY <2>1 DEF Elems
<1> QED BY <1>1, <1>2, <1>3, <1>4 DEF c

LEMMA IncreasingConcat ==
  ASSUME NEW p \in Seq(Int), NEW q \in Seq(Int)
  PROVE  Increasing(p \o q) <=>
           Increasing(p) /\ Increasing(q) /\ Before(Elems(p), Elems(q))
<1> DEFINE c == p \o q
<1>1. /\ Len(p) \in Nat /\ Len(q) \in Nat
      /\ DOMAIN p = 1..Len(p) /\ DOMAIN q = 1..Len(q) /\ DOMAIN c = 1..(Len(p) + Len(q))
      /\ \A i \in 1..(Len(p) + Len(q)) : c[i] = IF i <= Len(p) THEN p[i] ELSE q[i - Len(p)]
  BY ConcatProperties, LenProperties
<1> HIDE DEF c
<1>a. \A i \in DOMAIN p : i \in DOMAIN c /\ c[i] = p[i]
  BY <1>1
<1>b. \A i \in DOMAIN q : i + Len(p) \in DOMAIN c /\ c[i + Len(p)] = q[i]
  BY <1>1
<1>2. ASSUME Increasing(c)
      PROVE  Increasing(p) /\ Increasing(q) /\ Before(Elems(p), Elems(q))
  <2>1. Increasing(p)
    BY <1>2, <1>a DEF Increasing
  <2>2. Increasing(q)
    <3> SUFFICES ASSUME NEW i \in DOMAIN q, NEW j \in DOMAIN q, i < j PROVE q[i] < q[j]
      BY DEF Increasing
    <3>1. i + Len(p) < j + Len(p)
      BY <1>1
    <3>2. c[i + Len(p)] < c[j + Len(p)]
      BY <1>2, <1>b, <3>1 DEF Increasing
    <3> QED BY <1>b, <3>2
  <2>3. ASSUME NEW i \in DOMAIN p, NEW j \in DOMAIN q PROVE p[i] < q[j]
    <3>1. i < j + Len(p)
      BY <1>1
    <3>2. c[i] < c[j + Len(p)]
      BY <1>2, <1>a, <1>b, <3>1 DEF Increasing
    <3> QED BY <1>a, <1>b, <3>2
  <2> QED BY <2>1, <2>2, <2>3 DEF Before, Elems
<1>3. ASSUME Increasing(p), Increasing(q), Before(Elems(p), Elems(q))
      PROVE  Increasing(c)
  <2> SUFFICES ASSUME NEW i \in DOMAIN c, NEW j \in DOMAIN c, i < j PROVE c[i] < c[j]
    BY DEF Increasing
  <2>0. i \in Int /\ j \in Int
    BY <1>1
  <2>1. CASE j <= Len(p)
    <3>1. i \in DOMAIN p /\ j \in DOMAIN p /\ c[i] = p[i] /\ c[j] = p[j]
      BY <1>1, <2>1
    <3> QED BY <1>3, <3>1 DEF Increasing
  <2>2. CASE ~(j <= Len(p)) /\ i <= Len(p)
    <3>1. i \in DOMAIN p /\ j - Len(p) \in DOMAIN q /\ c[i] = p[i] /\ c[j] = q[j - Len(p)]
      BY <1>1, <2>2
    <3> QED BY <1>3, <3>1 DEF Before, Elems
  <2>3. CASE ~(i <= Len(p))
    <3>1. /\ i - Len(p) \in DOMAIN q /\ j - Len(p) \in DOMAIN q /\ i - Len(p) < j - Len(p)
          /\ c[i] = q[i - Len(p)] /\ c[j] = q[j - Len(p)]
      BY <1>1, <2>0, <2>3
    <3> QED BY <1>3, <3>1 DEF Increasing
  <2> QED BY <1>1, <2>0, <2>1, <2>2, <2>3
<1> QED BY <1>2, <1>3 DEF c

\* A read of the first n elements leaves the rest.
LEMMA ReadPrefix ==
  ASSUME NEW S, NEW q \in Seq(S), NEW n \in 1..Len(q)
  PROVE  /\ SubSeq(q, 1, n) \in Seq(S) /\ SubSeq(q, n + 1, Len(q)) \in Seq(S)
         /\ q = SubSeq(q, 1, n) \o SubSeq(q, n + 1, Len(q))
         /\ Len(SubSeq(q, 1, n)) = n /\ Len(SubSeq(q, n + 1, Len(q))) = Len(q) - n
<1>1. Len(q) \in Nat
  BY LenProperties
<1>2. /\ SubSeq(q, 1, n) \in Seq(S) /\ Len(SubSeq(q, 1, n)) = n
      /\ SubSeq(q, n + 1, Len(q)) \in Seq(S) /\ Len(SubSeq(q, n + 1, Len(q))) = Len(q) - n
  BY <1>1, SubSeqProperties
<1>3. q = SubSeq(q, 1, n) \o SubSeq(q, n + 1, Len(q))
  <2> DEFINE a == SubSeq(q, 1, n)
             b == SubSeq(q, n + 1, Len(q))
             c == a \o b
  <2>1. /\ \A i \in 1..n : a[i] = q[i]
        /\ \A i \in 1..(Len(q) - n) : b[i] = q[n + i]
    BY <1>1, SubSeqProperties
  <2>2. /\ c \in Seq(S) /\ Len(c) = Len(q)
        /\ \A i \in 1..Len(q) : c[i] = IF i <= n THEN a[i] ELSE b[i - n]
    <3>0. a \in Seq(S) /\ b \in Seq(S) /\ Len(a) = n /\ Len(b) = Len(q) - n
      BY <1>2
    <3> HIDE DEF a, b
    <3>1. c \in Seq(S) /\ Len(c) = Len(a) + Len(b)
      BY <3>0, ConcatProperties
    <3>2. \A i \in 1..(Len(a) + Len(b)) : c[i] = IF i <= Len(a) THEN a[i] ELSE b[i - Len(a)]
      BY <3>0, ConcatProperties
    <3> QED BY <1>1, <3>0, <3>1, <3>2
  <2> HIDE DEF a, b, c
  <2>3. \A i \in 1..Len(q) : c[i] = q[i]
    BY <1>1, <2>1, <2>2
  <2>4. c = q
    BY <2>2, <2>3, SeqEqual
  <2> QED BY <2>4 DEF a, b, c
<1> QED BY <1>2, <1>3

\* A read of the n-th element leaves the others in their order.
LEMMA WithoutElement ==
  ASSUME NEW S, NEW q \in Seq(S), NEW n \in 1..Len(q)
  PROVE  /\ SubSeq(q, 1, n - 1) \o SubSeq(q, n + 1, Len(q)) \in Seq(S)
         /\ Elems(SubSeq(q, 1, n - 1) \o SubSeq(q, n + 1, Len(q))) \subseteq Elems(q)
         /\ Distinct(q) => /\ Distinct(SubSeq(q, 1, n - 1) \o SubSeq(q, n + 1, Len(q)))
                           /\ q[n] \notin Elems(SubSeq(q, 1, n - 1) \o SubSeq(q, n + 1, Len(q)))
<1> DEFINE a == SubSeq(q, 1, n - 1)
           b == SubSeq(q, n + 1, Len(q))
           c == a \o b
           at(i) == IF i < n THEN i ELSE i + 1
<1>0. Len(q) \in Nat /\ DOMAIN q = 1..Len(q) /\ n - 1 \in 0..Len(q)
  BY LenProperties
<1>a. a \in Seq(S) /\ Len(a) = n - 1 /\ \A i \in 1..(n - 1) : a[i] = q[i]
  BY <1>0, SubSeqProperties
<1>b. n + 1 \in 1..(Len(q) + 1)
  BY <1>0
<1>c. b \in Seq(S) /\ Len(b) = Len(q) - n
  BY ReadPrefix
<1>d. \A i \in 1..(Len(q) - n) : b[i] = q[n + i]
  BY <1>0, <1>b, SubSeqProperties
<1>1. Len(a) = n - 1 /\ Len(b) = Len(q) - n /\ a \in Seq(S) /\ b \in Seq(S)
  BY <1>a, <1>c
<1> HIDE DEF a, b
<1>2. c \in Seq(S) /\ Len(c) = Len(a) + Len(b)
  BY <1>1, ConcatProperties
<1>3. \A i \in 1..(Len(a) + Len(b)) : c[i] = IF i <= Len(a) THEN a[i] ELSE b[i - Len(a)]
  BY <1>1, ConcatProperties
<1> HIDE DEF c
<1>4. DOMAIN c = 1..(Len(q) - 1)
  BY <1>0, <1>1, <1>2, LenProperties
<1>5. \A i \in DOMAIN c : at(i) \in DOMAIN q /\ at(i) # n /\ c[i] = q[at(i)]
  <2> SUFFICES ASSUME NEW i \in DOMAIN c
               PROVE  at(i) \in DOMAIN q /\ at(i) # n /\ c[i] = q[at(i)]
    OBVIOUS
  <2>1. i \in Int /\ 1 <= i /\ i <= Len(q) - 1
    BY <1>0, <1>4
  <2>2. CASE i < n
    <3>1. i \in 1..(n - 1) /\ i \in 1..(Len(a) + Len(b)) /\ i <= Len(a)
      BY <1>0, <1>1, <2>1, <2>2
    <3>2. c[i] = q[i]
      BY <1>a, <1>3, <3>1
    <3> QED BY <1>0, <2>1, <2>2, <3>2
  <2>3. CASE ~(i < n)
    <3>1. i \in 1..(Len(a) + Len(b)) /\ ~(i <= Len(a)) /\ i - Len(a) \in 1..(Len(q) - n)
      BY <1>0, <1>1, <2>1, <2>3
    <3>2. c[i] = q[n + (i - Len(a))]
      BY <1>d, <1>3, <3>1
    <3>3. n + (i - Len(a)) = i + 1
      BY <1>0, <1>1, <2>1
    <3> QED BY <1>0, <2>1, <2>3, <3>2, <3>3
  <2> QED BY <2>2, <2>3
<1>6. \A i, j \in DOMAIN c : i # j => at(i) # at(j)
  BY <1>0, <1>4
<1> HIDE DEF at
<1>7. Elems(c) \subseteq Elems(q)
  BY <1>5 DEF Elems
<1>8. ASSUME Distinct(q) PROVE Distinct(c) /\ q[n] \notin Elems(c)
  BY <1>0, <1>5, <1>6, <1>8 DEF Distinct, Elems
<1> QED BY <1>2, <1>7, <1>8 DEF c, a, b

\* put(), get() and a read keep a queue free of repetitions.
LEMMA DistinctAppend ==
  ASSUME NEW S, NEW q \in Seq(S), NEW x \in S, Distinct(q), x \notin Elems(q)
  PROVE  Distinct(Append(q, x))
<1> DEFINE a == Append(q, x)
<1>1. /\ Len(q) \in Nat /\ DOMAIN q = 1..Len(q) /\ DOMAIN a = 1..(Len(q) + 1)
      /\ a[Len(q) + 1] = x /\ \A i \in 1..Len(q) : a[i] = q[i]
  BY AppendProperties, LenProperties
<1> HIDE DEF a
<1>2. \A i \in 1..Len(q) : q[i] # x
  BY <1>1 DEF Elems
<1>3. Distinct(a)
  BY <1>1, <1>2 DEF Distinct
<1> QED BY <1>3 DEF a

LEMMA DistinctTail ==
  ASSUME NEW S, NEW q \in Seq(S), q # <<>>, Distinct(q)
  PROVE  Distinct(Tail(q)) /\ Head(q) \notin Elems(Tail(q))
<1> DEFINE t == Tail(q)
<1>1. /\ Len(q) \in Nat /\ Len(q) # 0
      /\ DOMAIN q = 1..Len(q) /\ DOMAIN t = 1..(Len(q) - 1)
      /\ Head(q) = q[1] /\ \A i \in 1..(Len(q) - 1) : t[i] = q[i + 1]
  BY HeadTailProperties, LenProperties, EmptySeq
<1> HIDE DEF t
<1>2. \A i \in DOMAIN t : i + 1 \in DOMAIN q /\ i + 1 # 1 /\ t[i] = q[i + 1]
  BY <1>1
<1>3. 1 \in DOMAIN q /\ DOMAIN t \subseteq Int
  BY <1>1
<1>4. Head(q) \notin Elems(t)
  BY <1>1, <1>2, <1>3 DEF Distinct, Elems
<1>5. \A i, j \in DOMAIN t : i # j => i + 1 # j + 1
  BY <1>3
<1>6. Distinct(t)
  BY <1>2, <1>5 DEF Distinct
<1> QED BY <1>4, <1>6 DEF t

LEMMA DistinctParts ==
  ASSUME NEW S, NEW q \in Seq(S), NEW n \in 1..Len(q), Distinct(q)
  PROVE  /\ Distinct(SubSeq(q, 1, n)) /\ Distinct(SubSeq(q, n + 1, Len(q)))
         /\ Elems(SubSeq(q, 1, n)) \cap Elems(SubSeq(q, n + 1, Len(q))) = {}
         /\ Elems(SubSeq(q, 1, n)) \cup Elems(SubSeq(q, n + 1, Len(q))) = Elems(q)
<1> DEFINE a == SubSeq(q, 1, n)
           b == SubSeq(q, n + 1, Len(q))
<1>0. Len(q) \in Nat /\ DOMAIN q = 1..Len(q)
  BY LenProperties
<1>1. a \in Seq(S) /\ b \in Seq(S) /\ Len(a) = n /\ Len(b) = Len(q) - n
  BY ReadPrefix
<1>2. DOMAIN a = 1..n /\ DOMAIN b = 1..(Len(q) - n)
  BY <1>1, LenProperties
<1>3. /\ \A i \in 1..n : a[i] = q[i]
      /\ \A i \in 1..(Len(q) - n) : b[i] = q[n + i]
  BY <1>0, SubSeqProperties
<1>4. Elems(a) \cup Elems(b) = Elems(q)
  <2>1. q = a \o b
    BY ReadPrefix
  <2> HIDE DEF a, b
  <2>2. Elems(a \o b) = Elems(a) \cup Elems(b)
    BY <1>1, ElemsConcat
  <2> QED BY <2>1, <2>2
<1> HIDE DEF a, b
<1>5. \A i \in DOMAIN a : i \in DOMAIN q /\ a[i] = q[i]
  BY <1>0, <1>2, <1>3
<1>6. \A i \in DOMAIN b : n + i \in DOMAIN q /\ b[i] = q[n + i]
  BY <1>0, <1>2, <1>3
<1>7. /\ \A i, j \in DOMAIN b : i # j => n + i # n + j
      /\ \A i \in DOMAIN a, j \in DOMAIN b : i # n + j
  BY <1>0, <1>2
<1>8. Distinct(a) /\ Distinct(b)
  BY <1>5, <1>6, <1>7 DEF Distinct
<1>9. Elems(a) \cap Elems(b) = {}
  BY <1>5, <1>6, <1>7 DEF Distinct, Elems
<1> QED BY <1>4, <1>8, <1>9 DEF a, b

\* A queue of one.
LEMMA OneElement ==
  ASSUME NEW x
  PROVE  Elems(<<x>>) = {x} /\ Distinct(<<x>>)
BY DEF Elems, Distinct

\* A queue is its head and then its tail.
LEMMA HeadFirst ==
  ASSUME NEW S, NEW q \in Seq(S), q # <<>>
  PROVE  <<Head(q)>> \in Seq(S) /\ Tail(q) \in Seq(S) /\ <<Head(q)>> \o Tail(q) = q
<1>1. Len(q) \in Nat \ {0} /\ Head(q) = q[1] /\ Head(q) \in S /\ Tail(q) \in Seq(S)
  BY EmptySeq, HeadTailProperties
<1>2. 1 \in 1..Len(q) /\ Len(q) \in 1..Len(q)
  BY <1>1
<1>3. SubSeq(q, 1, Len(q)) = <<q[1]>> \o SubSeq(q, 1 + 1, Len(q))
  BY <1>2, SubSeqRecursiveFirst
<1>4. SubSeq(q, 1, Len(q)) = q
  BY SubSeqFull
<1>5. Tail(q) = SubSeq(q, 2, Len(q))
  BY TailIsSubSeq
<1> QED BY <1>1, <1>3, <1>4, <1>5

\* A thread that has nothing in hand takes the head of the queue behind it:
\* the row of queues is the same row.
LEMMA TakeInHand ==
  ASSUME NEW S, NEW p \in Seq(S), NEW q \in Seq(S), q # <<>>
  PROVE  (p \o <<Head(q)>>) \o Tail(q) = (p \o <<>>) \o q
BY HeadFirst, ConcatAssociative, ConcatEmptySeq

-----------------------------------------------------------------------------
(* Induction and recursive definitions *)

\* A set of numbers that contains a number whenever it contains all smaller
\* ones contains every number.
LEMMA NumberInduction ==
  ASSUME NEW S \in SUBSET Nat, \A n \in Nat : (\A m \in Nat : m < n => m \in S) => n \in S
  PROVE  S = Nat
<1> DEFINE T == Nat \ S
<1>1. ASSUME T # {} PROVE FALSE
  <2>1. PICK x \in T : \A y \in T : ~(<<y, x>> \in OpToRel(<, Nat))
    BY <1>1, NatLessThanWellFounded, WFMin
  <2>2. \A y \in T : ~(y < x)
    BY <2>1 DEF OpToRel
  <2> QED BY <2>2
<1> QED BY <1>1

\* A set of numbers with an element has a least one.
LEMMA LeastNumber ==
  ASSUME NEW S \in SUBSET Nat, S # {}
  PROVE  \E i \in S : \A j \in S : i <= j
<1> SUFFICES ASSUME ~\E i \in S : \A j \in S : i <= j PROVE FALSE
  OBVIOUS
<1> DEFINE E == Nat \ S
<1>1. ASSUME NEW n \in Nat, \A m \in Nat : m < n => m \in E PROVE n \in E
  BY <1>1
<1>2. E \in SUBSET Nat
  OBVIOUS
<1> HIDE DEF E
<1>3. E = Nat
  BY <1>1, <1>2, NumberInduction
<1> QED BY <1>3 DEF E

\* S contains an element of D whenever it contains all those of smaller rank.
Inductive(S, D, rank) ==
  /\ rank \in [D -> Nat]
  /\ \A d \in D : (\A c \in D : rank[c] < rank[d] => c \in S) => d \in S

\* A recursive definition of a function from D to V: on B the value is that of
\* base; elsewhere it is made, by step, of that at an element of smaller rank.
Recursive(D, V, rank, B, base, prev, step) ==
  /\ rank \in [D -> Nat] /\ B \in SUBSET D /\ base \in [B -> V]
  /\ prev \in [D \ B -> D] /\ step \in [(D \ B) \X V -> V]
  /\ \A d \in D \ B : rank[prev[d]] < rank[d]

Solves(f, D, V, B, base, prev, step) ==
  /\ f \in [D -> V]
  /\ \A d \in D : f[d] = IF d \in B THEN base[d] ELSE step[<<d, f[prev[d]]>>]

\* A set contains every element of D if it contains each one whenever it contains
\* all those of smaller rank.
LEMMA RankInduction ==
  ASSUME NEW S, NEW D, NEW rank, Inductive(S, D, rank)
  PROVE  D \subseteq S
<1> DEFINE N == {n \in Nat : \A d \in D : rank[d] = n => d \in S}
<1>1. N = Nat
  <2>1. ASSUME NEW n \in Nat, \A m \in Nat : m < n => m \in N PROVE n \in N
    <3>1. \A d \in D : rank[d] = n => \A c \in D : rank[c] < rank[d] => c \in S
      BY <2>1 DEF Inductive
    <3> QED BY <3>1 DEF Inductive
  <2> HIDE DEF N
  <2>2. N \in SUBSET Nat
    BY DEF N
  <2> QED BY <2>1, <2>2, NumberInduction
<1> QED BY <1>1 DEF Inductive

\* A recursive definition defines a function.
LEMMA Recursion ==
  ASSUME NEW D, NEW V, NEW rank, NEW B, NEW base, NEW prev, NEW step,
         Recursive(D, V, rank, B, base, prev, step)
  PROVE  \E f : Solves(f, D, V, B, base, prev, step)
<1> USE DEF Recursive
<1> DEFINE Level(n) == {d \in D : rank[d] <= n}
           Holds(g, d) == g[d] = IF d \in B THEN base[d] ELSE step[<<d, g[prev[d]]>>]
           Part(g, n) == g \in [Level(n) -> V] /\ \A d \in Level(n) : Holds(g, d)
           N == {n \in Nat : \E g : Part(g, n)}
<1>1. ASSUME NEW n \in Nat, NEW m \in Nat, m <= n, NEW g, NEW h, Part(g, n), Part(h, m)
      PROVE  \A d \in Level(m) : g[d] = h[d]
  <2> DEFINE S == {d \in D : d \in Level(m) => g[d] = h[d]}
  <2>1. ASSUME NEW d \in D, \A c \in D : rank[c] < rank[d] => c \in S PROVE d \in S
    <3>1. CASE d \notin Level(m)
      BY <3>1
    <3>2. CASE d \in Level(m) /\ d \in B
      <4>1. d \in Level(n)
        BY <1>1, <3>2
      <4> QED BY <1>1, <3>2, <4>1
    <3>3. CASE d \in Level(m) /\ d \notin B
      <4>1. d \in Level(n)
        BY <1>1, <3>3
      <4>2. prev[d] \in D /\ rank[prev[d]] < rank[d]
        BY <3>3
      <4>3. prev[d] \in Level(m)
        BY <4>2, <3>3
      <4>4. g[prev[d]] = h[prev[d]]
        BY <2>1, <4>2, <4>3
      <4>5. Holds(g, d) /\ Holds(h, d)
        BY <1>1, <3>3, <4>1
      <4> HIDE DEF Part, Level
      <4>6. g[d] = h[d]
        BY <3>3, <4>4, <4>5
      <4> QED BY <4>6
    <3> QED BY <3>1, <3>2, <3>3
  <2>2. S \in SUBSET D
    OBVIOUS
  <2>4. Inductive(S, D, rank)
    <3> HIDE DEF S
    <3> QED BY <2>1 DEF Inductive
  <2>3. S = D
    BY <2>2, <2>4, RankInduction
  <2> QED BY <2>3 DEF S
<1>2. N = Nat
  <2>1. ASSUME NEW n \in Nat, \A m \in Nat : m < n => m \in N PROVE n \in N
    <3> DEFINE G(m) == CHOOSE g : Part(g, m)
               h == [d \in Level(n) |->
                       IF d \in B THEN base[d] ELSE step[<<d, G(rank[prev[d]])[prev[d]]>>]]
    <3>1. ASSUME NEW m \in Nat, m < n PROVE Part(G(m), m)
      <4>1. \E g : Part(g, m)
        BY <2>1, <3>1
      <4> HIDE DEF Part
      <4> QED BY <4>1
    <3>2. ASSUME NEW d \in Level(n), d \notin B
          PROVE  /\ prev[d] \in D /\ rank[prev[d]] \in Nat /\ rank[prev[d]] < n
                 /\ G(rank[prev[d]])[prev[d]] \in V
      <4>1. prev[d] \in D /\ rank[prev[d]] \in Nat /\ rank[prev[d]] < n
        BY <3>2
      <4>2. prev[d] \in Level(rank[prev[d]])
        BY <4>1
      <4> HIDE DEF G
      <4>4. Part(G(rank[prev[d]]), rank[prev[d]])
        <5> HIDE DEF Part
        <5> QED BY <3>1, <4>1
      <4>3. G(rank[prev[d]])[prev[d]] \in V
        BY <4>2, <4>4
      <4> QED BY <4>1, <4>3
    <3>3. h \in [Level(n) -> V]
      <4> SUFFICES ASSUME NEW d \in Level(n)
                   PROVE (IF d \in B THEN base[d] ELSE step[<<d, G(rank[prev[d]])[prev[d]]>>]) \in V
        OBVIOUS
      <4> HIDE DEF G
      <4> QED BY <3>2
    <3>4. ASSUME NEW d \in Level(n), d \notin B PROVE h[prev[d]] = G(rank[prev[d]])[prev[d]]
      <4> DEFINE p == prev[d]
                 k == rank[p]
      <4>1. p \in D /\ k \in Nat /\ k < n /\ p \in Level(n) /\ p \in Level(k)
        BY <3>2, <3>4
      <4>2. Part(G(k), k)
        BY ZenonT(60), <3>1, <4>1
      <4>3. h[p] = IF p \in B THEN base[p] ELSE step[<<p, G(rank[prev[p]])[prev[p]]>>]
        BY <4>1
      <4>4. Holds(G(k), p)
        BY <4>1, <4>2
      <4>5. ASSUME p \notin B PROVE G(k)[prev[p]] = G(rank[prev[p]])[prev[p]]
        <5>1. prev[p] \in D /\ rank[prev[p]] \in Nat /\ rank[prev[p]] < k
          BY <4>1, <4>5
        <5>2. prev[p] \in Level(rank[prev[p]])
          BY <5>1
        <5> HIDE DEF G, Part, Level, k
        <5>3. rank[prev[p]] < n /\ rank[prev[p]] <= k
          BY <4>1, <5>1
        <5>4. Part(G(rank[prev[p]]), rank[prev[p]])
          BY <3>1, <5>1, <5>3
        <5> QED BY <1>1, <4>1, <4>2, <5>1, <5>2, <5>3, <5>4
      <4> HIDE DEF G, Level, h
      <4> QED BY <4>3, <4>4, <4>5
    <3>5. ASSUME NEW d \in Level(n) PROVE Holds(h, d)
      <4>1. h[d] = IF d \in B THEN base[d] ELSE step[<<d, G(rank[prev[d]])[prev[d]]>>]
        OBVIOUS
      <4> HIDE DEF h, G
      <4> QED BY <3>4, <4>1
    <3> HIDE DEF h, G
    <3> QED BY <3>3, <3>5
  <2>2. N \in SUBSET Nat
    OBVIOUS
  <2> HIDE DEF N
  <2> QED BY <2>1, <2>2, NumberInduction
<1> DEFINE G(m) == CHOOSE g : Part(g, m)
           f == [d \in D |-> G(rank[d])[d]]
<1>3. ASSUME NEW m \in Nat PROVE Part(G(m), m)
  <2>1. \E g : Part(g, m)
    BY <1>2
  <2> HIDE DEF Part
  <2> QED BY <2>1
<1>4. ASSUME NEW d \in D PROVE f[d] \in V /\ Holds(f, d)
  <2> DEFINE n == rank[d]
  <2>1. n \in Nat /\ d \in Level(n) /\ Part(G(n), n) /\ f[d] = G(n)[d]
    <3>1. n \in Nat /\ d \in Level(n) /\ f[d] = G(n)[d]
      OBVIOUS
    <3> HIDE DEF G, f, Part, Level, n
    <3> QED BY <1>3, <3>1
  <2> HIDE DEF G, f
  <2>2. f[d] \in V /\ Holds(G(n), d)
    BY <2>1
  <2>3. ASSUME d \notin B PROVE f[prev[d]] = G(n)[prev[d]]
    <3> DEFINE p == prev[d]
               k == rank[p]
    <3>1. p \in D /\ k \in Nat /\ k < n /\ p \in Level(k)
      BY <2>3
    <3>3. f[p] = G(k)[p]
      BY <3>1 DEF f
    <3> HIDE DEF Part, Level, k, n, Recursive
    <3>4. Part(G(k), k)
      BY <1>3, <3>1
    <3>5. k <= n
      BY <2>1, <3>1
    <3>6. \A x \in Level(k) : G(n)[x] = G(k)[x]
      BY <1>1, <2>1, <3>1, <3>4, <3>5
    <3>2. G(n)[p] = G(k)[p]
      BY <3>1, <3>6
    <3> QED BY <3>2, <3>3
  <2> QED BY <2>1, <2>2, <2>3
<1>5. f \in [D -> V]
  <2> HIDE DEF G
  <2>1. \A d \in D : G(rank[d])[d] \in V
    BY <1>4
  <2> QED BY <2>1
<1> HIDE DEF f
<1> QED BY <1>4, <1>5 DEF Solves

-----------------------------------------------------------------------------
\* f has the concatenations of the first elements of seqs.
Flattens(f, seqs, S) ==
  /\ f \in [1..Len(seqs) -> Seq(S)]
  /\ \A i \in 1..Len(seqs) : f[i] = IF i = 1 THEN seqs[i] ELSE f[i - 1] \o seqs[i]

\* What FlattenSeq does, element by element.
LEMMA FlattenFunction ==
  ASSUME NEW S, NEW seqs \in Seq(Seq(S)), Len(seqs) # 0
  PROVE  \E f : Flattens(f, seqs, S) /\ FlattenSeq(seqs) = f[Len(seqs)]
<1> DEFINE D == 1..Len(seqs)
           Eq(f) == f = [i \in D |-> IF i = 1 THEN seqs[i] ELSE f[i - 1] \o seqs[i]]
           rank == [i \in D |-> i]
           base == [i \in {1} |-> seqs[1]]
           prev == [i \in D \ {1} |-> i - 1]
           step == [x \in (D \ {1}) \X Seq(S) |-> x[2] \o seqs[x[1]]]
<1>1. Len(seqs) \in Nat /\ 1 \in D /\ \A i \in D : seqs[i] \in Seq(S)
  BY LenProperties, ElementOfSeq
<1>2. \E f : Solves(f, D, Seq(S), {1}, base, prev, step)
  <2>1. rank \in [D -> Nat] /\ {1} \in SUBSET D
    BY <1>1
  <2>2. base \in [{1} -> Seq(S)]
    BY <1>1
  <2>3. prev \in [D \ {1} -> D]
    BY <1>1
  <2>4. step \in [(D \ {1}) \X Seq(S) -> Seq(S)]
    <3>1. \A d \in D \ {1}, v \in Seq(S) : v \o seqs[d] \in Seq(S)
      BY <1>1, ConcatProperties
    <3> QED BY <3>1
  <2>5. \A d \in D \ {1} : rank[prev[d]] < rank[d]
    BY <1>1
  <2> HIDE DEF D, rank, base, prev, step
  <2>6. Recursive(D, Seq(S), rank, {1}, base, prev, step)
    BY <2>1, <2>2, <2>3, <2>4, <2>5 DEF Recursive
  <2> QED BY <2>6, Recursion
<1>3. PICK f \in [D -> Seq(S)] : \A d \in D :
        f[d] = IF d \in {1} THEN base[d] ELSE step[<<d, f[prev[d]]>>]
  BY <1>2 DEF Solves
<1>4. ASSUME NEW d \in D PROVE f[d] = IF d = 1 THEN seqs[d] ELSE f[d - 1] \o seqs[d]
  <2>1. CASE d = 1
    BY <1>3, <2>1
  <2>2. CASE d # 1
    <3>0. d - 1 \in D
      BY <1>1, <2>2
    <3>1. f[d - 1] \in Seq(S) /\ <<d, f[d - 1]>> \in (D \ {1}) \X Seq(S)
      BY <2>2, <3>0
    <3>2. prev[d] = d - 1 /\ step[<<d, f[d - 1]>>] = f[d - 1] \o seqs[d]
      BY <2>2, <3>1
    <3> HIDE DEF D, base, prev, step
    <3> QED BY <1>3, <2>2, <3>2
  <2> QED BY <2>1, <2>2
<1>5. Eq(f)
  BY ZenonT(60), <1>3, <1>4
<1>6. FlattenSeq(seqs) = (CHOOSE g : Eq(g))[Len(seqs)]
  BY DEF FlattenSeq
<1> DEFINE h == CHOOSE g : Eq(g)
<1>7. Eq(h)
  <2> HIDE DEF Eq
  <2> QED BY <1>5
<1>8. \A i \in D : h[i] = f[i]
  <2> DEFINE E == {i \in D : h[i] = f[i]}
  <2>1. ASSUME NEW d \in D, \A c \in D : rank[c] < rank[d] => c \in E PROVE d \in E
    <3>1. h[d] = IF d = 1 THEN seqs[d] ELSE h[d - 1] \o seqs[d]
      <4> HIDE DEF h
      <4> QED BY <1>7
    <3>2. CASE d = 1
      <4> HIDE DEF h
      <4> QED BY <1>4, <3>1, <3>2
    <3>3. CASE d # 1
      <4>1. d - 1 \in D /\ rank[d - 1] < rank[d]
        BY <1>1, <3>3
      <4> HIDE DEF h, D, rank
      <4>2. h[d - 1] = f[d - 1]
        BY <2>1, <4>1
      <4> QED BY <1>4, <3>1, <3>3, <4>2
    <3> QED BY <3>2, <3>3
  <2>2. rank \in [D -> Nat]
    BY <1>1
  <2> HIDE DEF E, D, rank
  <2>4. Inductive(E, D, rank)
    BY <2>1, <2>2 DEF Inductive
  <2>3. D \subseteq E
    BY <2>4, RankInduction
  <2> QED BY <2>3 DEF E
<1>9. FlattenSeq(seqs) = f[Len(seqs)]
  <2> HIDE DEF h, Eq
  <2>1. FlattenSeq(seqs) = h[Len(seqs)]
    BY <1>6 DEF h
  <2>2. Len(seqs) \in D
    BY <1>1
  <2> QED BY <1>8, <2>1, <2>2
<1> QED BY <1>3, <1>4, <1>9 DEF Flattens

\* A concatenation of sequences over S is one.
LEMMA FlattenType ==
  ASSUME NEW S, NEW seqs \in Seq(Seq(S))
  PROVE  FlattenSeq(seqs) \in Seq(S)
<1>1. CASE Len(seqs) = 0
  BY <1>1, EmptySeq DEF FlattenSeq
<1>2. CASE Len(seqs) # 0
  <2>1. Len(seqs) \in 1..Len(seqs)
    BY <1>2, LenProperties
  <2>2. PICK f : Flattens(f, seqs, S) /\ FlattenSeq(seqs) = f[Len(seqs)]
    BY <1>2, FlattenFunction
  <2> QED BY <2>1, <2>2 DEF Flattens
<1> QED BY <1>1, <1>2

\* Nothing concatenated.
LEMMA FlattenEmpty == FlattenSeq(<<>>) = <<>>
BY DEF FlattenSeq

\* One sequence more.
LEMMA FlattenAppend ==
  ASSUME NEW S, NEW seqs \in Seq(Seq(S)), NEW s \in Seq(S)
  PROVE  FlattenSeq(Append(seqs, s)) = FlattenSeq(seqs) \o s
<1> DEFINE t == Append(seqs, s)
           n == Len(seqs)
<1>1. /\ t \in Seq(Seq(S)) /\ Len(t) = n + 1 /\ t[n + 1] = s /\ \A i \in 1..n : t[i] = seqs[i]
      /\ n \in Nat
  BY AppendProperties, LenProperties
<1> HIDE DEF t
<1>2. PICK f :
        /\ \A i \in 1..(n + 1) : f[i] = IF i = 1 THEN t[i] ELSE f[i - 1] \o t[i]
        /\ FlattenSeq(t) = f[n + 1]
  <2>1. Len(t) # 0
    BY <1>1
  <2>2. PICK f : Flattens(f, t, S) /\ FlattenSeq(t) = f[Len(t)]
    BY <1>1, <2>1, FlattenFunction
  <2>3. \A i \in 1..(n + 1) : f[i] = IF i = 1 THEN t[i] ELSE f[i - 1] \o t[i]
    BY <1>1, <2>2 DEF Flattens
  <2> QED BY <1>1, <2>2, <2>3
<1>3. CASE n = 0
  <2>1. seqs = <<>>
    BY <1>3, EmptySeq
  <2>2. f[1] = t[1]
    BY <1>2, <1>3
  <2>3. <<>> \o s = s
    BY ConcatEmptySeq
  <2> QED BY <1>1, <1>2, <1>3, <2>1, <2>2, <2>3, FlattenEmpty DEF t
<1>4. CASE n # 0
  <2>1. PICK g :
          /\ \A i \in 1..n : g[i] = IF i = 1 THEN seqs[i] ELSE g[i - 1] \o seqs[i]
          /\ FlattenSeq(seqs) = g[n]
    <3>1. PICK g : Flattens(g, seqs, S) /\ FlattenSeq(seqs) = g[n]
      BY <1>4, FlattenFunction
    <3> QED BY <3>1 DEF Flattens
  <2> DEFINE D == 1..n
             rank == [i \in D |-> i]
             E == {i \in D : f[i] = g[i]}
  <2>2. ASSUME NEW d \in D, \A c \in D : rank[c] < rank[d] => c \in E PROVE d \in E
    <3>1. g[d] = IF d = 1 THEN seqs[d] ELSE g[d - 1] \o seqs[d]
      BY <2>1
    <3>2. f[d] = IF d = 1 THEN seqs[d] ELSE f[d - 1] \o seqs[d]
      BY <1>1, <1>2
    <3>3. d # 1 => d - 1 \in D /\ rank[d - 1] < rank[d]
      BY <1>1
    <3> HIDE DEF D, rank
    <3> QED BY <2>2, <3>1, <3>2, <3>3
  <2>3. rank \in [D -> Nat]
    BY <1>1
  <2>4. n \in D
    BY <1>1, <1>4
  <2> HIDE DEF E, D, rank
  <2>8. Inductive(E, D, rank)
    BY <2>2, <2>3 DEF Inductive
  <2>5. D \subseteq E
    BY <2>8, RankInduction
  <2>6. f[n] = g[n]
    BY <2>4, <2>5 DEF E
  <2>7. f[n + 1] = f[n] \o t[n + 1]
    <3>1. n + 1 \in 1..(n + 1) /\ n + 1 # 1 /\ (n + 1) - 1 = n
      BY <1>1, <1>4
    <3> HIDE DEF n
    <3> QED BY <1>2, <3>1
  <2> QED BY <1>1, <1>2, <2>1, <2>6, <2>7 DEF t
<1> QED BY <1>3, <1>4 DEF t

\* Two lists of sequences.
LEMMA FlattenConcat ==
  ASSUME NEW S, NEW s \in Seq(Seq(S)), NEW t \in Seq(Seq(S))
  PROVE  FlattenSeq(s \o t) = FlattenSeq(s) \o FlattenSeq(t)
<1> DEFINE D == Seq(Seq(S))
           rank == [u \in D |-> Len(u)]
           E == {u \in D : FlattenSeq(s \o u) = FlattenSeq(s) \o FlattenSeq(u)}
<1>1. ASSUME NEW d \in D, \A c \in D : rank[c] < rank[d] => c \in E PROVE d \in E
  <2>1. CASE d = <<>>
    <3>1. s \o d = s /\ FlattenSeq(s) \o <<>> = FlattenSeq(s)
      BY <2>1, ConcatEmptySeq, FlattenType
    <3> QED BY <2>1, <3>1, FlattenEmpty
  <2>2. CASE d # <<>>
    <3>1. PICK u \in D, x \in Seq(S) : d = Append(u, x)
      BY <2>2, SequenceEmptyOrAppend
    <3>2. Len(d) = Len(u) + 1 /\ Len(u) \in Nat
      BY <3>1, AppendProperties, LenProperties
    <3>3. u \in E
      BY <1>1, <3>1, <3>2
    <3>4. s \o d = Append(s \o u, x) /\ s \o u \in D
      <4>1. s \o u \in D /\ d = u \o <<x>> /\ <<x>> \in D
        BY <3>1, AppendIsConcat, ConcatProperties
      <4>2. s \o d = (s \o u) \o <<x>>
        BY <4>1, ConcatAssociative
      <4> QED BY <4>1, <4>2, AppendIsConcat
    <3>5. FlattenSeq(s \o d) = FlattenSeq(s \o u) \o x
      BY <3>1, <3>4, FlattenAppend
    <3>6. FlattenSeq(d) = FlattenSeq(u) \o x
      BY <3>1, FlattenAppend
    <3>7. FlattenSeq(s) \in Seq(S) /\ FlattenSeq(u) \in Seq(S) /\ x \in Seq(S)
      BY <3>1, FlattenType
    <3>8. (FlattenSeq(s) \o FlattenSeq(u)) \o x = FlattenSeq(s) \o (FlattenSeq(u) \o x)
      BY SMTT(30), <3>7, ConcatAssociative
    <3> QED BY <3>3, <3>5, <3>6, <3>8
  <2> QED BY <2>1, <2>2
<1>2. rank \in [D -> Nat]
  BY LenProperties
<1> HIDE DEF E, D, rank
<1>4. Inductive(E, D, rank)
  BY <1>1, <1>2 DEF Inductive
<1>3. D \subseteq E
  BY <1>4, RankInduction
<1> QED BY <1>3 DEF E, D

\* One sequence.
LEMMA FlattenOne ==
  ASSUME NEW S, NEW s \in Seq(S)
  PROVE  FlattenSeq(<<s>>) = s
<1>1. Append(<<>>, s) = <<s>> /\ <<>> \in Seq(Seq(S))
  BY EmptySeq
<1>2. FlattenSeq(Append(<<>>, s)) = FlattenSeq(<<>>) \o s
  BY <1>1, FlattenAppend
<1> QED BY <1>1, <1>2, FlattenEmpty, ConcatEmptySeq

\* The concatenation of what a function gives for each element.
Mapped(f, s)  == [i \in DOMAIN s |-> f[s[i]]]
FlatMap(f, s) == FlattenSeq(Mapped(f, s))

\* f takes the elements of S to elements of T.
Takes(f, S, T) == \A x \in S : f[x] \in T

\* A set of sequences that holds the empty one, and each one whose tail it
\* holds, holds all.
LEMMA SequenceInduction ==
  ASSUME NEW S, NEW E, <<>> \in E,
         \A s \in Seq(S) : s # <<>> /\ Tail(s) \in E => s \in E
  PROVE  Seq(S) \subseteq E
<1> DEFINE D == Seq(S)
           rank == [s \in D |-> Len(s)]
<1>1. ASSUME NEW d \in D, \A c \in D : rank[c] < rank[d] => c \in E PROVE d \in E
  <2>1. ASSUME d # <<>> PROVE Tail(d) \in D /\ rank[Tail(d)] < rank[d]
    <3>1. Tail(d) \in D /\ Len(Tail(d)) = Len(d) - 1 /\ Len(d) \in Nat
      BY <2>1, HeadTailProperties, LenProperties
    <3> QED BY <3>1
  <2> HIDE DEF rank
  <2> QED BY <1>1, <2>1
<1>2. rank \in [D -> Nat]
  BY LenProperties
<1> HIDE DEF D, rank
<1>3. Inductive(E, D, rank)
  BY <1>1, <1>2 DEF Inductive
<1> QED BY <1>3, RankInduction DEF D

\* A sequence is its first element and the others.
LEMMA FirstAndOthers ==
  ASSUME NEW S, NEW s \in Seq(S), s # <<>>
  PROVE  s = <<Head(s)>> \o Tail(s) /\ Head(s) \in S /\ Tail(s) \in Seq(S)
<1>1. Len(s) \in Nat \ {0}
  BY EmptySeq
<1>2. Head(s) \in S /\ Tail(s) \in Seq(S) /\ Tail(s) = SubSeq(s, 2, Len(s)) /\ Head(s) = s[1]
  BY HeadTailProperties, TailIsSubSeq
<1>3. SubSeq(s, 1, Len(s)) = <<s[1]>> \o SubSeq(s, 2, Len(s))
  <2>1. 1 \in 1..Len(s) /\ Len(s) \in 1..Len(s)
    BY <1>1
  <2> QED BY <2>1, SubSeqRecursiveFirst
<1> QED BY <1>2, <1>3, SubSeqFull

\* A sequence with a function applied to each element.
LEMMA MappedType ==
  ASSUME NEW S, NEW T, NEW f, Takes(f, S, T), NEW u \in Seq(S)
  PROVE  /\ Mapped(f, u) \in Seq(T) /\ Len(Mapped(f, u)) = Len(u)
         /\ \A i \in 1..Len(u) : Mapped(f, u)[i] = f[u[i]]
<1> DEFINE M(w) == Mapped(f, w)
<1> USE DEF Takes
<1>1. Len(u) \in Nat /\ DOMAIN u = 1..Len(u) /\ \A i \in 1..Len(u) : u[i] \in S
  BY LenProperties, ElementOfSeq
<1>2. M(u) = [i \in 1..Len(u) |-> f[u[i]]]
  BY <1>1 DEF Mapped
<1>3. M(u) \in [1..Len(u) -> T]
  BY <1>1, <1>2
<1>4. M(u) \in Seq(T)
  BY <1>1, <1>3, SeqDef
<1>5. DOMAIN M(u) = 1..Len(M(u)) /\ Len(M(u)) \in Nat
  BY <1>4, LenProperties
<1>6. DOMAIN M(u) = 1..Len(u)
  BY <1>2
<1>7. Len(M(u)) = Len(u)
  <2> DEFINE a == Len(M(u))
             b == Len(u)
  <2> HIDE DEF M
  <2>1. a \in Nat /\ b \in Nat /\ 1..a = 1..b
    BY <1>1, <1>5, <1>6
  <2> HIDE DEF a, b
  <2>2. (a # 0 => a \in 1..b) /\ (b # 0 => b \in 1..a)
    <3>1. (a # 0 => a \in 1..a) /\ (b # 0 => b \in 1..b)
      BY <2>1
    <3> QED BY <2>1, <3>1
  <2>3. a = b
    BY <2>1, <2>2
  <2> QED BY SMTT(30), <2>3 DEF a, b
<1> QED BY <1>2, <1>4, <1>7

\* The function is applied to each part on its own.
LEMMA MappedConcat ==
  ASSUME NEW S, NEW f, NEW s \in Seq(S), NEW t \in Seq(S)
  PROVE  Mapped(f, s \o t) = Mapped(f, s) \o Mapped(f, t)
<1> DEFINE M(u) == Mapped(f, u)
           T == {f[x] : x \in S}
<1>1. ASSUME NEW u \in Seq(S)
      PROVE  M(u) \in Seq(T) /\ Len(M(u)) = Len(u) /\ \A i \in 1..Len(u) : M(u)[i] = f[u[i]]
  <2>1. Takes(f, S, T)
    BY DEF Takes
  <2> HIDE DEF T
  <2> QED BY <2>1, MappedType
<1> HIDE DEF T
<1> HIDE DEF M
<1> DEFINE u == s \o t
           v == M(s) \o M(t)
<1>2. /\ u \in Seq(S) /\ Len(u) = Len(s) + Len(t) /\ Len(s) \in Nat /\ Len(t) \in Nat
      /\ \A i \in 1..(Len(s) + Len(t)) : u[i] = IF i <= Len(s) THEN s[i] ELSE t[i - Len(s)]
  BY ConcatProperties, LenProperties
<1>3. /\ v \in Seq(T) /\ Len(v) = Len(s) + Len(t)
      /\ \A i \in 1..(Len(s) + Len(t)) : v[i] = IF i <= Len(s) THEN M(s)[i] ELSE M(t)[i - Len(s)]
  <2>1. M(s) \in Seq(T) /\ M(t) \in Seq(T) /\ Len(M(s)) = Len(s) /\ Len(M(t)) = Len(t)
    BY <1>1
  <2>2. /\ v \in Seq(T) /\ Len(v) = Len(M(s)) + Len(M(t))
        /\ \A i \in 1..(Len(M(s)) + Len(M(t))) : v[i] = IF i <= Len(M(s)) THEN M(s)[i] ELSE M(t)[i - Len(M(s))]
    BY <2>1, ConcatProperties
  <2> HIDE DEF v
  <2> QED BY <2>1, <2>2
<1> HIDE DEF u, v
<1>4. M(u) \in Seq(T) /\ Len(M(u)) = Len(s) + Len(t) /\ \A i \in 1..(Len(s) + Len(t)) : M(u)[i] = f[u[i]]
  BY <1>1, <1>2
<1>5. ASSUME NEW i \in 1..(Len(s) + Len(t)) PROVE M(u)[i] = v[i]
  <2>1. CASE i <= Len(s)
    <3>1. i \in 1..Len(s)
      BY <1>2, <2>1
    <3>2. M(s)[i] = f[s[i]] /\ u[i] = s[i] /\ v[i] = M(s)[i]
      BY <1>1, <1>2, <1>3, <2>1, <3>1
    <3> QED BY <1>4, <3>2
  <2>2. CASE ~(i <= Len(s))
    <3> DEFINE k == i - Len(s)
    <3>1. k \in 1..Len(t)
      BY <1>2, <2>2
    <3>2. u[i] = t[k] /\ v[i] = M(t)[k]
      BY <1>2, <1>3, <2>2
    <3> HIDE DEF k
    <3>3. M(t)[k] = f[t[k]]
      BY <1>1, <3>1
    <3> QED BY <1>4, <3>2, <3>3
  <2> QED BY <2>1, <2>2
<1>6. M(u) = v
  BY <1>3, <1>4, <1>5, SeqEqual
<1> QED BY <1>1, <1>6 DEF M, u, v

\* The type of FlatMap, and that it works part by part.
LEMMA FlatMapFacts ==
  ASSUME NEW S, NEW T, NEW f, Takes(f, S, Seq(T))
  PROVE  /\ FlatMap(f, <<>>) = <<>>
         /\ \A s \in Seq(S) : FlatMap(f, s) \in Seq(T)
         /\ \A s, t \in Seq(S) : FlatMap(f, s \o t) = FlatMap(f, s) \o FlatMap(f, t)
         /\ \A x \in S : FlatMap(f, <<x>>) = f[x]
<1>1. FlatMap(f, <<>>) = <<>>
  <2>1. Mapped(f, <<>>) = <<>>
    BY DEF Mapped
  <2> QED BY <2>1, FlattenEmpty DEF FlatMap
<1>2. \A s \in Seq(S) : Mapped(f, s) \in Seq(Seq(T))
  <2> DEFINE V == Seq(T)
  <2>1. Takes(f, S, V)
    OBVIOUS
  <2> HIDE DEF V
  <2>2. \A s \in Seq(S) : Mapped(f, s) \in Seq(V)
    BY <2>1, MappedType
  <2> QED BY <2>2 DEF V
<1>3. ASSUME NEW s \in Seq(S) PROVE FlatMap(f, s) \in Seq(T)
  BY <1>2, FlattenType DEF FlatMap
<1>4. ASSUME NEW s \in Seq(S), NEW t \in Seq(S)
      PROVE  FlatMap(f, s \o t) = FlatMap(f, s) \o FlatMap(f, t)
  <2>1. Mapped(f, s \o t) = Mapped(f, s) \o Mapped(f, t)
    BY MappedConcat
  <2>2. FlattenSeq(Mapped(f, s) \o Mapped(f, t)) = FlattenSeq(Mapped(f, s)) \o FlattenSeq(Mapped(f, t))
    BY <1>2, FlattenConcat
  <2> QED BY <2>1, <2>2 DEF FlatMap
<1>5. ASSUME NEW x \in S PROVE FlatMap(f, <<x>>) = f[x]
  <2>2. f[x] \in Seq(T)
    BY DEF Takes
  <2>1. Mapped(f, <<x>>) = <<f[x]>>
    BY DEF Mapped
  <2> QED BY <2>1, <2>2, FlattenOne DEF FlatMap
<1> QED BY <1>1, <1>3, <1>4, <1>5
=============================================================================

--------------------------- MODULE PduStreamProofs ---------------------------
(***************************************************************************)
(* What the parser guarantees over any number of reads, for any limits that *)
(* StreamAssumption admits: how the stream is cut never shows, the server  *)
(* goes on reading, and every request's answer comes back.  The recursive  *)
(* functions of PduStream are unfolded by lemmas of SequenceFacts.         *)
(***************************************************************************)
EXTENDS PduStream, SequenceFacts

Frame == Seq(Byte)

\* The constants are numbers, and what is said about them.
LEMMA Sizes ==
  /\ Radix \in Nat /\ LenSize \in Nat /\ LenSize >= 2 /\ MaxBody \in Nat /\ MaxBody >= 1
  /\ TmSize \in Nat /\ TmSize >= 1 /\ MaxTotal = MaxBody + 2 /\ MaxTotal + TmSize < Radix
  /\ Radix > 4 /\ StatusSize \in Nat /\ StatusSize <= MaxBody /\ 0 \in Byte /\ HdrSize = 2
BY StreamAssumption DEF MaxTotal, HdrSize, StatusResp, Byte

\* The place values: what their definition says, and that they are positive.
LEMMA PowerDef ==
  /\ \A k \in Nat : Power[k] = IF k = 0 THEN 1 ELSE Radix * Power[k - 1]
  /\ \A k \in Nat : Power[k] \in Nat \ {0}
<1> DEFINE V == Nat \ {0}
           rank == [k \in Nat |-> k]
           base == [k \in {0} |-> 1]
           prev == [k \in Nat \ {0} |-> k - 1]
           step == [x \in (Nat \ {0}) \X V |-> Radix * x[2]]
           Eq(f) == f = [k \in Nat |-> IF k = 0 THEN 1 ELSE Radix * f[k - 1]]
<1>1. PICK f : Solves(f, Nat, V, {0}, base, prev, step)
  <2>1. step \in [(Nat \ {0}) \X V -> V]
    <3>1. \A v \in V : Radix * v \in V
      BY Sizes
    <3> QED BY <3>1
  <2>2. rank \in [Nat -> Nat] /\ {0} \in SUBSET Nat /\ base \in [{0} -> V]
    OBVIOUS
  <2>3. prev \in [Nat \ {0} -> Nat] /\ \A d \in Nat \ {0} : rank[prev[d]] < rank[d]
    OBVIOUS
  <2> HIDE DEF V, rank, base, prev, step
  <2>4. Recursive(Nat, V, rank, {0}, base, prev, step)
    BY <2>1, <2>2, <2>3 DEF Recursive
  <2> QED BY <2>4, Recursion
<1>2. f \in [Nat -> V] /\ \A k \in Nat : f[k] = IF k = 0 THEN 1 ELSE Radix * f[k - 1]
  <2>1. f \in [Nat -> V] /\ \A k \in Nat : f[k] = IF k \in {0} THEN base[k] ELSE step[<<k, f[prev[k]]>>]
    BY <1>1 DEF Solves
  <2>2. \A k \in Nat \ {0} : prev[k] = k - 1 /\ <<k, f[k - 1]>> \in (Nat \ {0}) \X V
    BY <2>1
  <2>3. \A k \in Nat \ {0} : step[<<k, f[k - 1]>>] = Radix * f[k - 1]
    BY <2>2
  <2> HIDE DEF step, prev
  <2> QED BY <2>1, <2>2, <2>3
<1>3. Eq(f)
  BY <1>2
<1>4. Eq(Power)
  <2> HIDE DEF Eq
  <2>1. Power = CHOOSE g : Eq(g)
    BY DEF Power, Eq
  <2> QED BY <1>3, <2>1
<1>5. \A k \in Nat : Power[k] = IF k = 0 THEN 1 ELSE Radix * Power[k - 1]
  BY <1>4
<1> DEFINE E == {k \in Nat : Power[k] \in V}
<1>6. ASSUME NEW n \in Nat, \A m \in Nat : m < n => m \in E PROVE n \in E
  <2>1. CASE n = 0
    BY <1>5, <2>1
  <2>2. CASE n # 0
    <3>1. Power[n - 1] \in V
      BY <1>6, <2>2
    <3>2. \A v \in V : Radix * v \in V
      BY Sizes
    <3> QED BY <1>5, <2>2, <3>1, <3>2
  <2> QED BY <2>1, <2>2
<1>7. E = Nat
  <2> HIDE DEF E
  <2>1. E \in SUBSET Nat
    BY DEF E
  <2> QED BY <1>6, <2>1, NumberInduction
<1> QED BY <1>5, <1>7

\* One place further.
LEMMA PowerStep ==
  ASSUME NEW k \in Nat
  PROVE  Power[k + 1] = Radix * Power[k] /\ Power[0] = 1
BY PowerDef

\* A place after the first is worth at least the radix.
LEMMA PowerAboveTotal ==
  ASSUME NEW k \in Nat, k >= 1
  PROVE  Power[k] >= Radix
<1> DEFINE p == Power[k - 1]
<1>1. p \in Nat \ {0} /\ Power[k] = Radix * p
  BY PowerDef
<1> HIDE DEF p
<1> QED BY <1>1, Sizes

\* What the definition of BigEndian says of a sequence of bytes.
LEMMA BigEndianDef ==
  /\ \A d \in Seq(Byte) : BigEndian[d] =
       IF d = <<>> THEN 0 ELSE Head(d) * Power[Len(d) - 1] + BigEndian[Tail(d)]
  /\ \A d \in Seq(Byte) : BigEndian[d] \in Nat
<1> DEFINE D == Seq(Byte)
           B == {<<>>}
           rank == [d \in D |-> Len(d)]
           base == [d \in B |-> 0]
           prev == [d \in D \ B |-> Tail(d)]
           step == [x \in (D \ B) \X Nat |-> Head(x[1]) * Power[Len(x[1]) - 1] + x[2]]
           Eq(f) == f = [d \in D |-> IF d = <<>> THEN 0 ELSE Head(d) * Power[Len(d) - 1] + f[Tail(d)]]
<1>0. ASSUME NEW d \in D, d # <<>>
      PROVE  /\ Tail(d) \in D /\ Len(Tail(d)) < Len(d)
             /\ Head(d) * Power[Len(d) - 1] \in Nat
  <2>1. Tail(d) \in D /\ Len(Tail(d)) = Len(d) - 1 /\ Head(d) \in Byte
    BY <1>0, HeadTailProperties
  <2>2. Len(d) \in Nat \ {0}
    BY <1>0, EmptySeq
  <2>3. Power[Len(d) - 1] \in Nat /\ Head(d) \in Nat
    BY <2>1, <2>2, PowerDef DEF Byte
  <2>4. \A m, n \in Nat : m * n \in Nat
    OBVIOUS
  <2> QED BY <2>1, <2>2, <2>3, <2>4
<1>1. PICK f : Solves(f, D, Nat, B, base, prev, step)
  <2>1. step \in [(D \ B) \X Nat -> Nat]
    <3>1. \A d \in D \ B, v \in Nat : Head(d) * Power[Len(d) - 1] + v \in Nat
      BY <1>0
    <3> QED BY <3>1
  <2>2. rank \in [D -> Nat] /\ B \in SUBSET D /\ base \in [B -> Nat]
    BY LenProperties, EmptySeq
  <2>3. prev \in [D \ B -> D] /\ \A d \in D \ B : rank[prev[d]] < rank[d]
    BY <1>0
  <2> HIDE DEF D, B, rank, base, prev, step
  <2>4. Recursive(D, Nat, rank, B, base, prev, step)
    BY <2>1, <2>2, <2>3 DEF Recursive
  <2> QED BY <2>4, Recursion
<1>2. \A d \in D : f[d] = IF d = <<>> THEN 0 ELSE Head(d) * Power[Len(d) - 1] + f[Tail(d)]
  <2>1. f \in [D -> Nat] /\ \A d \in D : f[d] = IF d \in B THEN base[d] ELSE step[<<d, f[prev[d]]>>]
    BY <1>1 DEF Solves
  <2>2. \A d \in D \ B : prev[d] = Tail(d) /\ <<d, f[Tail(d)]>> \in (D \ B) \X Nat
    BY <1>0, <2>1
  <2>3. \A d \in D \ B : step[<<d, f[Tail(d)]>>] = Head(d) * Power[Len(d) - 1] + f[Tail(d)]
    BY <2>2
  <2> HIDE DEF step, prev
  <2> QED BY <2>1, <2>2, <2>3
<1>3. Eq(f)
  <2>1. f = [d \in D |-> f[d]]
    BY <1>1 DEF Solves
  <2> QED BY <1>2, <2>1
<1>4. Eq(BigEndian)
  <2> HIDE DEF Eq
  <2>1. BigEndian = CHOOSE g : Eq(g)
    BY DEF BigEndian, Eq
  <2> QED BY <1>3, <2>1
<1>5. \A d \in D : BigEndian[d] = IF d = <<>> THEN 0 ELSE Head(d) * Power[Len(d) - 1] + BigEndian[Tail(d)]
  BY <1>4
<1> DEFINE E == {d \in D : BigEndian[d] \in Nat}
<1>6. Inductive(E, D, rank)
  <2>1. ASSUME NEW d \in D, \A c \in D : rank[c] < rank[d] => c \in E PROVE d \in E
    <3>1. CASE d = <<>>
      <4>1. BigEndian[d] = 0
        BY <1>5, <3>1
      <4> QED BY <4>1
    <3>2. CASE d # <<>>
      <4>1. BigEndian[Tail(d)] \in Nat
        BY <1>0, <2>1, <3>2
      <4>2. Head(d) * Power[Len(d) - 1] \in Nat
        BY <1>0, <3>2
      <4> QED BY <1>5, <3>2, <4>1, <4>2
    <3> QED BY <3>1, <3>2
  <2>2. rank \in [D -> Nat]
    BY LenProperties
  <2> HIDE DEF E, D, rank
  <2> QED BY <2>1, <2>2 DEF Inductive
<1>7. D \subseteq E
  <2> HIDE DEF E, D, rank
  <2> QED BY <1>6, RankInduction
<1> QED BY <1>5, <1>7

\* What a number leaves when divided, for the place values.
LEMMA DivMod ==
  ASSUME NEW n \in Nat, NEW p \in Nat \ {0}
  PROVE  \E q \in Nat, r \in 0..(p - 1) : n = p * q + r /\ n \div p = q /\ n % p = r
OBVIOUS

\* Quotient and remainder are the only numbers of their kind.
LEMMA DivModUnique ==
  ASSUME NEW n \in Nat, NEW p \in Nat \ {0}, NEW q \in Nat, NEW r \in 0..(p - 1), n = p * q + r
  PROVE  n \div p = q /\ n % p = r
OBVIOUS

\* One more digit.
LEMMA OneMoreDigit ==
  ASSUME NEW n \in Nat, NEW p \in Nat \ {0}
  PROVE  n % (Radix * p) = ((n \div p) % Radix) * p + (n % p)
<1>0. Radix \in Nat \ {0}
  BY Sizes
<1>1. PICK q \in Nat, r \in 0..(p - 1) : n = p * q + r /\ n \div p = q /\ n % p = r
  BY DivMod
<1>2. PICK s \in Nat, t \in 0..(Radix - 1) : q = Radix * s + t /\ q \div Radix = s /\ q % Radix = t
  BY <1>0, DivMod
<1>3. n = (Radix * p) * s + (t * p + r)
  <2>1. p * q = p * (Radix * s) + p * t
    BY <1>0, <1>1, <1>2
  <2>2. p * (Radix * s) = (Radix * p) * s
    BY <1>0, <1>1, <1>2
  <2>3. p * t = t * p
    BY <1>2
  <2> QED BY <1>0, <1>1, <1>2, <2>1, <2>2, <2>3
<1>4. t * p + r \in 0..(Radix * p - 1)
  <2>1. t * p <= (Radix - 1) * p
    BY <1>0, <1>2
  <2>2. (Radix - 1) * p = Radix * p - p
    BY <1>0
  <2>3. t * p \in Nat
    BY <1>2
  <2> QED BY <1>0, <1>1, <2>1, <2>2, <2>3
<1>5. Radix * p \in Nat \ {0}
  BY <1>0
<1>6. n % (Radix * p) = t * p + r
  BY <1>3, <1>4, <1>5, DivModUnique
<1>7. (n \div p) % Radix = t /\ n % p = r
  BY <1>1, <1>2
<1> DEFINE x == (n \div p) % Radix
           y == n % p
           z == n % (Radix * p)
<1>8. x = t /\ y = r /\ z = t * p + r
  BY <1>6, <1>7
<1> HIDE DEF x, y, z
<1>9. z = x * p + y
  BY <1>8
<1> QED BY <1>9 DEF x, y, z

\* The digits of a number.
Digit(n, k) == (n \div Power[k]) % Radix

\* The digits of a number stand for the number.
LEMMA DigitsValue ==
  ASSUME NEW n \in Nat, NEW k \in Nat, NEW d \in Seq(Byte), Len(d) = k,
         \A i \in 1..k : d[i] = Digit(n, k - i)
  PROVE  BigEndian[d] = n % Power[k]
<1> DEFINE E == {j \in Nat : \A s \in Seq(Byte) :
                   Len(s) = j /\ (\A i \in 1..j : s[i] = Digit(n, j - i)) => BigEndian[s] = n % Power[j]}
<1>1. ASSUME NEW j \in Nat, \A m \in Nat : m < j => m \in E PROVE j \in E
  <2> SUFFICES ASSUME NEW s \in Seq(Byte), Len(s) = j, \A i \in 1..j : s[i] = Digit(n, j - i)
               PROVE  BigEndian[s] = n % Power[j]
    OBVIOUS
  <2>1. CASE j = 0
    <3>1. s = <<>> /\ Power[j] = 1
      BY <2>1, EmptySeq, PowerStep
    <3>2. n % 1 = 0
      OBVIOUS
    <3> QED BY <3>1, <3>2, BigEndianDef
  <2>2. CASE j # 0
    <3> DEFINE t == Tail(s)
               m == j - 1
    <3>1. /\ s # <<>> /\ t \in Seq(Byte) /\ Len(t) = m /\ m \in Nat /\ m < j
          /\ \A i \in 1..m : t[i] = s[i + 1]
          /\ Head(s) = s[1]
      BY <2>2, HeadTailProperties, EmptySeq
    <3>2. \A i \in 1..m : t[i] = Digit(n, m - i)
      <4> SUFFICES ASSUME NEW i \in 1..m PROVE t[i] = Digit(n, m - i)
        OBVIOUS
      <4>1. i + 1 \in 1..j /\ j - (i + 1) = m - i
        BY <3>1
      <4>2. s[i + 1] = Digit(n, j - (i + 1))
        BY <4>1
      <4> QED BY <3>1, <4>1, <4>2
    <3>3. m \in E
      BY <1>1, <3>1
    <3>4. BigEndian[t] = n % Power[m]
      BY <3>1, <3>2, <3>3
    <3>5. Head(s) = (n \div Power[m]) % Radix
      BY <2>2, <3>1 DEF Digit
    <3>6. BigEndian[s] = Head(s) * Power[m] + BigEndian[t]
      BY <3>1, BigEndianDef
    <3>7. Power[j] = Radix * Power[m] /\ Power[m] \in Nat \ {0}
      BY <3>1, PowerDef
    <3>8. n % (Radix * Power[m]) = ((n \div Power[m]) % Radix) * Power[m] + (n % Power[m])
      BY <3>7, OneMoreDigit
    <3> DEFINE a == (n \div Power[m]) % Radix
               b == n % Power[m]
               c == n % Power[j]
    <3>9. Head(s) = a /\ BigEndian[t] = b
      BY <3>4, <3>5
    <3> DEFINE e == n % (Radix * Power[m])
    <3>12. e = a * Power[m] + b
      BY <3>8
    <3>10. c = e
      <4> HIDE DEF m
      <4> QED BY <3>7
    <3> HIDE DEF t, m, a, b, c, e
    <3>11. BigEndian[s] = c
      BY <3>6, <3>9, <3>10, <3>12
    <3> QED BY <3>11 DEF c
  <2> QED BY <2>1, <2>2
<1>2. E = Nat
  <2>1. E \in SUBSET Nat
    OBVIOUS
  <2> HIDE DEF E
  <2> QED BY <1>1, <2>1, NumberInduction
<1> QED BY <1>2

\* A length as it is written, and as it is read.
LEMMA LengthFacts ==
  ASSUME NEW n \in Nat
  PROVE  /\ Length(n) \in Seq(Byte) /\ Len(Length(n)) = LenSize
         /\ n < Power[LenSize] => BigEndian[Length(n)] = n
<1>1. ASSUME NEW i \in 1..LenSize PROVE Digit(n, LenSize - i) \in Byte
  <2> DEFINE q == n \div Power[LenSize - i]
  <2>1. LenSize - i \in Nat
    BY Sizes
  <2>2. q \in Nat
    BY <2>1, PowerDef, DivMod
  <2> HIDE DEF q
  <2>3. q % Radix \in Nat /\ q % Radix < Radix
    BY <2>2, Sizes, DivMod
  <2>4. q % Radix \in Byte
    BY <2>3, Sizes DEF Byte
  <2> QED BY <2>4 DEF q, Digit
<1>2. Length(n) = [i \in 1..LenSize |-> Digit(n, LenSize - i)]
  BY DEF Length, Digit
<1>3. Length(n) \in Seq(Byte) /\ Len(Length(n)) = LenSize
  BY <1>1, <1>2, Sizes
<1>4. BigEndian[Length(n)] = n % Power[LenSize]
  <2>1. \A i \in 1..LenSize : Length(n)[i] = Digit(n, LenSize - i)
    BY <1>2
  <2> QED BY <1>3, <2>1, Sizes, DigitsValue
<1>5. ASSUME n < Power[LenSize] PROVE n % Power[LenSize] = n
  <2> DEFINE p == Power[LenSize]
  <2>1. p \in Nat \ {0} /\ n < p
    BY <1>5, Sizes, PowerDef
  <2> HIDE DEF p
  <2>2. n \in 0..(p - 1) /\ n = p * 0 + n
    BY <2>1
  <2>3. n % p = n
    BY <2>1, <2>2, DivModUnique
  <2> QED BY <2>3 DEF p
<1> QED BY <1>3, <1>4, <1>5

\* A sequence of LenSize bytes that does not begin with zero is too long a length.
LEMMA NonzeroIsOversized ==
  ASSUME NEW d \in Seq(Byte), Len(d) = LenSize, d[1] # 0
  PROVE  BigEndian[d] > MaxTotal
<1> DEFINE p == Power[LenSize - 1]
<1>1. d # <<>> /\ Head(d) = d[1] /\ Head(d) \in Byte /\ Tail(d) \in Seq(Byte)
  BY Sizes, EmptySeq, HeadTailProperties
<1>2. BigEndian[d] = Head(d) * p + BigEndian[Tail(d)] /\ BigEndian[Tail(d)] \in Nat
  BY <1>1, BigEndianDef
<1>3. p \in Nat /\ p >= Radix
  BY Sizes, PowerDef, PowerAboveTotal
<1>4. Head(d) \in Nat /\ Head(d) >= 1
  BY <1>1 DEF Byte
<1> HIDE DEF p
<1>5. Head(d) * p >= p
  BY <1>3, <1>4
<1>6. Head(d) * p \in Nat
  BY <1>3, <1>4
<1> DEFINE h == Head(d) * p
           b == BigEndian[Tail(d)]
<1>7. h \in Nat /\ h >= p /\ b \in Nat /\ BigEndian[d] = h + b
  BY <1>2, <1>5, <1>6
<1> HIDE DEF h, b
<1> QED BY <1>3, <1>7, Sizes

-----------------------------------------------------------------------------
(* The parser *)

Parse == [frames : Seq(Frame), rest : Frame]

\* A sequence without its first n elements.
LEMMA DropFacts ==
  ASSUME NEW S, NEW s \in Seq(S), NEW n \in 0..Len(s)
  PROVE  /\ Drop(s, n) \in Seq(S) /\ Len(Drop(s, n)) = Len(s) - n
         /\ \A i \in 1..(Len(s) - n) : Drop(s, n)[i] = s[n + i]
         /\ SubSeq(s, 1, n) \in Seq(S) /\ Len(SubSeq(s, 1, n)) = n
         /\ \A i \in 1..n : SubSeq(s, 1, n)[i] = s[i]
         /\ s = SubSeq(s, 1, n) \o Drop(s, n)
<1>0. Len(s) \in Nat /\ \A i \in 1..Len(s) : s[i] \in S
  BY LenProperties, ElementOfSeq
<1>1. /\ SubSeq(s, 1, n) \in Seq(S) /\ Len(SubSeq(s, 1, n)) = n
      /\ \A i \in 1..n : SubSeq(s, 1, n)[i] = s[i]
  <2>1. \A i \in 1..n : s[i] \in S
    BY <1>0
  <2> QED BY <1>0, <2>1, SubSeqProperties
<1>2. /\ Drop(s, n) \in Seq(S) /\ Len(Drop(s, n)) = Len(s) - n
      /\ \A i \in 1..(Len(s) - n) : Drop(s, n)[i] = s[n + i]
  <2>1. \A i \in (n + 1)..Len(s) : s[i] \in S
    BY <1>0
  <2>2. /\ SubSeq(s, n + 1, Len(s)) \in Seq(S)
        /\ Len(SubSeq(s, n + 1, Len(s))) = IF n + 1 <= Len(s) THEN Len(s) - (n + 1) + 1 ELSE 0
        /\ \A i \in 1..(Len(s) - (n + 1) + 1) : SubSeq(s, n + 1, Len(s))[i] = s[(n + 1) + i - 1]
    <3>1. n + 1 \in Int /\ Len(s) \in Int
      BY <1>0
    <3> QED BY <2>1, <3>1, SubSeqProperties
  <2> QED BY <1>0, <2>2 DEF Drop
<1>3. s = SubSeq(s, 1, n) \o Drop(s, n)
  <2> DEFINE t == SubSeq(s, 1, n) \o Drop(s, n)
  <2>1. /\ t \in Seq(S) /\ Len(t) = n + (Len(s) - n)
        /\ \A i \in 1..(n + (Len(s) - n)) :
             t[i] = IF i <= n THEN SubSeq(s, 1, n)[i] ELSE Drop(s, n)[i - n]
    BY <1>1, <1>2, ConcatProperties
  <2>2. \A i \in 1..Len(s) : s[i] = t[i]
    <3> SUFFICES ASSUME NEW i \in 1..Len(s) PROVE s[i] = t[i]
      OBVIOUS
    <3>1. CASE i <= n
      BY <1>0, <1>1, <2>1, <3>1
    <3>2. CASE i > n
      <4>1. i - n \in 1..(Len(s) - n) /\ n + (i - n) = i /\ i \in 1..(n + (Len(s) - n)) /\ ~(i <= n)
        BY <1>0, <3>2
      <4> HIDE DEF t
      <4> DEFINE k == i - n
      <4>2. k \in 1..(Len(s) - n) /\ n + k = i
        BY <4>1
      <4>3. t[i] = Drop(s, n)[k]
        BY <2>1, <4>1
      <4> HIDE DEF k
      <4>4. Drop(s, n)[k] = s[n + k]
        BY <1>2, <4>2
      <4> QED BY <4>2, <4>3, <4>4
    <3>3. i <= n \/ i > n
      BY <1>0
    <3> HIDE DEF t
    <3> QED BY <3>1, <3>2, <3>3
  <2>3. Len(t) = Len(s)
    BY <1>0, <2>1
  <2> HIDE DEF t
  <2>4. s = t
    BY <2>1, <2>2, <2>3, SeqEqual
  <2> QED BY <2>4 DEF t
<1> QED BY <1>1, <1>2, <1>3

\* Dropping bytes that are all in the first part.
LEMMA DropConcat ==
  ASSUME NEW S, NEW s \in Seq(S), NEW t \in Seq(S), NEW n \in 0..Len(s)
  PROVE  /\ Drop(s \o t, n) = Drop(s, n) \o t
         /\ SubSeq(s \o t, 1, n) = SubSeq(s, 1, n)
<1> DEFINE u == s \o t
<1>1. /\ u \in Seq(S) /\ Len(u) = Len(s) + Len(t)
      /\ \A i \in 1..(Len(s) + Len(t)) : u[i] = IF i <= Len(s) THEN s[i] ELSE t[i - Len(s)]
      /\ Len(s) \in Nat /\ Len(t) \in Nat
  BY ConcatProperties, LenProperties
<1> HIDE DEF u
<1>2. n \in 0..Len(u)
  BY <1>1
<1>3. /\ Drop(u, n) \in Seq(S) /\ Len(Drop(u, n)) = Len(u) - n
      /\ \A i \in 1..(Len(u) - n) : Drop(u, n)[i] = u[n + i]
      /\ SubSeq(u, 1, n) \in Seq(S) /\ Len(SubSeq(u, 1, n)) = n
      /\ \A i \in 1..n : SubSeq(u, 1, n)[i] = u[i]
  BY <1>1, <1>2, DropFacts
<1>4. /\ Drop(s, n) \in Seq(S) /\ Len(Drop(s, n)) = Len(s) - n
      /\ \A i \in 1..(Len(s) - n) : Drop(s, n)[i] = s[n + i]
      /\ SubSeq(s, 1, n) \in Seq(S) /\ Len(SubSeq(s, 1, n)) = n
      /\ \A i \in 1..n : SubSeq(s, 1, n)[i] = s[i]
  BY DropFacts
<1> DEFINE d == Drop(s, n)
           v == d \o t
<1>5. /\ v \in Seq(S) /\ Len(v) = Len(d) + Len(t)
      /\ \A i \in 1..(Len(d) + Len(t)) : v[i] = IF i <= Len(d) THEN d[i] ELSE t[i - Len(d)]
  BY <1>4, ConcatProperties
<1> HIDE DEF v
<1>6. \A i \in 1..(Len(u) - n) : Drop(u, n)[i] = v[i]
  <2> SUFFICES ASSUME NEW i \in 1..(Len(u) - n) PROVE Drop(u, n)[i] = v[i]
    OBVIOUS
  <2>1. Drop(u, n)[i] = u[n + i] /\ n + i \in 1..(Len(s) + Len(t)) /\ i \in 1..(Len(d) + Len(t))
        /\ (i <= Len(d) <=> n + i <= Len(s)) /\ (n + i) - Len(s) = i - Len(d)
    BY <1>1, <1>3, <1>4
  <2>2. i <= Len(d) => d[i] = s[n + i]
    BY <1>1, <1>4
  <2> HIDE DEF d
  <2> QED BY <1>1, <1>5, <2>1, <2>2
<1>7. Len(Drop(u, n)) = Len(v)
  BY <1>1, <1>3, <1>4, <1>5
<1>8. Drop(u, n) = v
  <2> HIDE DEF d
  <2>1. \A i \in 1..Len(Drop(u, n)) : Drop(u, n)[i] = v[i]
    BY <1>3, <1>6
  <2> QED BY <1>3, <1>5, <1>7, <2>1, SeqEqual
<1>9. SubSeq(u, 1, n) = SubSeq(s, 1, n)
  <2>1. \A i \in 1..n : SubSeq(u, 1, n)[i] = SubSeq(s, 1, n)[i]
    BY <1>1, <1>3, <1>4
  <2> HIDE DEF d
  <2> QED BY <1>3, <1>4, <2>1, SeqEqual
<1> QED BY <1>8, <1>9 DEF u, v

\* A length is a number, and the first LenSize bytes alone decide it.
LEMMA TotalFacts ==
  ASSUME NEW buf \in Frame, Len(buf) >= LenSize
  PROVE  /\ Total(buf) \in Nat
         /\ \A s \in Frame : Total(buf \o s) = Total(buf)
<1>1. LenSize \in 0..Len(buf)
  BY Sizes, LenProperties DEF Frame
<1>2. SubSeq(buf, 1, LenSize) \in Seq(Byte)
  BY <1>1, DropFacts DEF Frame
<1>3. Total(buf) \in Nat
  BY <1>2, BigEndianDef DEF Total
<1>4. ASSUME NEW s \in Frame PROVE SubSeq(buf \o s, 1, LenSize) = SubSeq(buf, 1, LenSize)
  BY <1>1, DropConcat DEF Frame
<1> QED BY <1>3, <1>4 DEF Total

\* What pop_pdus does next.
LEMMA PopPdusDef ==
  ASSUME NEW buf \in Frame
  PROVE  /\ PopPdus[buf] \in Parse
         /\ Waits(buf) => PopPdus[buf] = [frames |-> <<>>, rest |-> buf]
         /\ ~Waits(buf) => Len(buf) >= LenSize
         /\ ~Waits(buf) /\ Oversized(buf) => PopPdus[buf] = PopPdus[Drop(buf, 1)]
         /\ ~Waits(buf) /\ ~Oversized(buf) =>
              LET need == LenSize + Total(buf)
                  after == PopPdus[Drop(buf, need)]
              IN  /\ need \in 1..Len(buf)
                  /\ PopPdus[buf] = [frames |-> <<SubSeq(buf, 1, need)>> \o after.frames,
                                     rest   |-> after.rest]
<1> DEFINE D == Frame
           B == {b \in D : Waits(b)}
           Need(b) == LenSize + Total(b)
           First(b) == SubSeq(b, 1, Need(b))
           rank == [b \in D |-> Len(b)]
           base == [b \in B |-> [frames |-> <<>>, rest |-> b]]
           prev == [b \in D \ B |-> IF Oversized(b) THEN Drop(b, 1) ELSE Drop(b, Need(b))]
           step == [x \in (D \ B) \X Parse |->
                      IF Oversized(x[1]) THEN x[2]
                      ELSE [frames |-> <<First(x[1])>> \o x[2].frames, rest |-> x[2].rest]]
           Next1(g, b) ==
             CASE Waits(b) -> [frames |-> <<>>, rest |-> Unparsed(b)]
               [] ~Waits(b) /\ Oversized(b) -> g[Drop(b, Resync)]
               [] OTHER ->
                    LET need  == LenSize + Total(b)
                        after == g[Drop(b, need)]
                    IN  [frames |-> <<SubSeq(b, 1, need)>> \o after.frames, rest |-> after.rest]
           Eq(g) == g = [b \in Seq(Byte) |-> Next1(g, b)]
<1>1. ASSUME NEW b \in D, ~Waits(b)
      PROVE  /\ Len(b) >= LenSize /\ Len(b) \in Nat
             /\ Drop(b, 1) \in D /\ Len(Drop(b, 1)) < Len(b)
             /\ ~Oversized(b) => /\ Need(b) \in 1..Len(b) /\ Drop(b, Need(b)) \in D
                                 /\ Len(Drop(b, Need(b))) < Len(b)
                                 /\ First(b) \in Frame
  <2>1. Len(b) >= LenSize /\ Len(b) \in Nat
    BY <1>1, LenProperties, Sizes DEF Waits, Frame
  <2>2. 1 \in 0..Len(b)
    BY <2>1, Sizes
  <2>3. Drop(b, 1) \in D /\ Len(Drop(b, 1)) < Len(b)
    BY <2>1, <2>2, DropFacts DEF Frame
  <2>4. ASSUME ~Oversized(b) PROVE Need(b) \in 1..Len(b)
    <3>1. Total(b) \in Nat /\ Len(b) >= LenSize + Total(b)
      BY <1>1, <2>1, <2>4, TotalFacts DEF Waits, Complete
    <3> QED BY <2>1, <3>1, Sizes
  <2>5. ASSUME ~Oversized(b) PROVE Drop(b, Need(b)) \in D /\ Len(Drop(b, Need(b))) < Len(b) /\ First(b) \in Frame
    <3>1. Need(b) \in 0..Len(b) /\ Need(b) \in 1..Len(b)
      BY <2>4, <2>5
    <3> HIDE DEF Need
    <3> QED BY <2>1, <3>1, DropFacts DEF Frame
  <2> QED BY <2>1, <2>3, <2>4, <2>5
<1>2. ASSUME NEW b \in D, NEW p \in Parse
      PROVE  /\ [frames |-> <<>>, rest |-> b] \in Parse
             /\ ~Waits(b) /\ ~Oversized(b) =>
                  [frames |-> <<First(b)>> \o p.frames, rest |-> p.rest] \in Parse
  <2>1. <<>> \in Seq(Frame)
    BY EmptySeq
  <2>2. ASSUME ~Waits(b), ~Oversized(b) PROVE <<First(b)>> \o p.frames \in Seq(Frame)
    <3>1. First(b) \in Frame
      BY <1>1, <2>2
    <3> HIDE DEF First
    <3>2. <<First(b)>> \in Seq(Frame)
      BY <3>1
    <3>3. p.frames \in Seq(Frame)
      BY DEF Parse
    <3> QED BY <3>2, <3>3, ConcatProperties
  <2> QED BY <2>1, <2>2 DEF Parse
<1>3. PICK f : Solves(f, D, Parse, B, base, prev, step)
  <2>1. step \in [(D \ B) \X Parse -> Parse]
    <3>1. ASSUME NEW b \in D \ B, NEW p \in Parse
          PROVE  (IF Oversized(b) THEN p
                  ELSE [frames |-> <<First(b)>> \o p.frames, rest |-> p.rest]) \in Parse
      BY <1>2
    <3> HIDE DEF First, D, B
    <3> QED BY <3>1
  <2>2. rank \in [D -> Nat]
    BY LenProperties DEF Frame
  <2>3. B \in SUBSET D /\ base \in [B -> Parse]
    <3>1. \A b \in D : [frames |-> <<>>, rest |-> b] \in Parse
      BY EmptySeq DEF Parse
    <3> QED BY <3>1
  <2>4. prev \in [D \ B -> D]
    <3> HIDE DEF Need
    <3> QED BY <1>1
  <2>5. \A d \in D \ B : rank[prev[d]] < rank[d]
    <3> SUFFICES ASSUME NEW d \in D, ~Waits(d) PROVE rank[prev[d]] < rank[d]
      OBVIOUS
    <3> HIDE DEF Need
    <3>1. prev[d] = IF Oversized(d) THEN Drop(d, 1) ELSE Drop(d, Need(d))
      OBVIOUS
    <3>2. prev[d] \in D /\ Len(prev[d]) < Len(d)
      <4> HIDE DEF prev
      <4> QED BY <1>1, <3>1
    <3> HIDE DEF prev
    <3> QED BY <3>2
  <2> HIDE DEF D, B, rank, base, prev, step
  <2>6. Recursive(D, Parse, rank, B, base, prev, step)
    BY <2>1, <2>2, <2>3, <2>4, <2>5 DEF Recursive
  <2> QED BY <2>6, Recursion
<1>4. f \in [D -> Parse] /\ \A b \in D : f[b] = Next1(f, b)
  <2>1. f \in [D -> Parse]
    BY <1>3 DEF Solves
  <2>2. ASSUME NEW b \in D PROVE f[b] = Next1(f, b)
    <3>0. f[b] = IF b \in B THEN base[b] ELSE step[<<b, f[prev[b]]>>]
      BY <1>3 DEF Solves
    <3>1. CASE Waits(b)
      <4>1. f[b] = [frames |-> <<>>, rest |-> b]
        BY <3>0, <3>1
      <4> QED BY <3>1, <4>1 DEF Unparsed
    <3>2. CASE ~Waits(b) /\ Oversized(b)
      <4>1. b \in D \ B /\ prev[b] = Drop(b, 1) /\ Drop(b, 1) \in D
        BY <1>1, <3>2
      <4>2. <<b, f[Drop(b, 1)]>> \in (D \ B) \X Parse
        BY <2>1, <4>1
      <4>3. step[<<b, f[Drop(b, 1)]>>] = f[Drop(b, 1)]
        BY <3>2, <4>2
      <4>4. f[b] = f[Drop(b, 1)]
        <5> HIDE DEF step, prev
        <5> QED BY <3>0, <4>1, <4>3
      <4> QED BY <3>2, <4>4 DEF Resync
    <3>3. CASE ~Waits(b) /\ ~Oversized(b)
      <4> DEFINE c == Drop(b, Need(b))
      <4>1. b \in D \ B /\ prev[b] = c /\ c \in D
        <5> HIDE DEF Need
        <5> QED BY <1>1, <3>3
      <4>2. <<b, f[c]>> \in (D \ B) \X Parse
        <5> HIDE DEF c
        <5> QED BY <2>1, <4>1
      <4>3. step[<<b, f[c]>>] = [frames |-> <<First(b)>> \o f[c].frames, rest |-> f[c].rest]
        <5> HIDE DEF c, First
        <5> QED BY <3>3, <4>2
      <4>4. f[b] = [frames |-> <<First(b)>> \o f[c].frames, rest |-> f[c].rest]
        <5> HIDE DEF step, prev, c, First
        <5> QED BY <3>0, <4>1, <4>3
      <4> QED BY <3>3, <4>4
    <3> QED BY <3>1, <3>2, <3>3
  <2> QED BY <2>1, <2>2
<1>5. Eq(f)
  <2> HIDE DEF Next1
  <2>1. f = [b \in Seq(Byte) |-> f[b]]
    BY <1>4 DEF Frame
  <2>2. [b \in Seq(Byte) |-> f[b]] = [b \in Seq(Byte) |-> Next1(f, b)]
    BY <1>4 DEF Frame
  <2> QED BY <2>1, <2>2
<1>6. Eq(PopPdus)
  <2>1. PopPdus = CHOOSE g : Eq(g)
    BY DEF PopPdus
  <2> HIDE DEF Eq
  <2> QED BY <1>5, <2>1
<1>7. ASSUME NEW b \in D PROVE PopPdus[b] = Next1(PopPdus, b)
  <2> HIDE DEF Next1
  <2> QED BY <1>6 DEF Frame
<1>8. ASSUME NEW b \in D
      PROVE  /\ Waits(b) => PopPdus[b] = [frames |-> <<>>, rest |-> b]
             /\ ~Waits(b) /\ Oversized(b) => PopPdus[b] = PopPdus[Drop(b, 1)]
             /\ ~Waits(b) /\ ~Oversized(b) =>
                  PopPdus[b] = [frames |-> <<First(b)>> \o PopPdus[Drop(b, Need(b))].frames,
                                rest   |-> PopPdus[Drop(b, Need(b))].rest]
  <2>1. ASSUME Waits(b) PROVE Next1(PopPdus, b) = [frames |-> <<>>, rest |-> b]
    BY <2>1 DEF Unparsed
  <2>2. ASSUME ~Waits(b), Oversized(b) PROVE Next1(PopPdus, b) = PopPdus[Drop(b, 1)]
    BY <2>2 DEF Resync
  <2>3. ASSUME ~Waits(b), ~Oversized(b)
        PROVE  Next1(PopPdus, b) = [frames |-> <<First(b)>> \o PopPdus[Drop(b, Need(b))].frames,
                                    rest   |-> PopPdus[Drop(b, Need(b))].rest]
    BY <2>3
  <2> HIDE DEF Next1, First, Need
  <2> QED BY <1>7, <2>1, <2>2, <2>3
<1> DEFINE E == {b \in D : PopPdus[b] \in Parse}
<1>9. D \subseteq E
  <2>1. ASSUME NEW d \in D, \A c \in D : rank[c] < rank[d] => c \in E PROVE PopPdus[d] \in Parse
    <3>1. CASE Waits(d)
      <4>1. [frames |-> <<>>, rest |-> d] \in Parse
        BY EmptySeq DEF Parse
      <4> QED BY <1>8, <3>1, <4>1
    <3>2. CASE ~Waits(d) /\ Oversized(d)
      <4>1. Drop(d, 1) \in E
        BY <1>1, <2>1, <3>2
      <4> QED BY <1>8, <3>2, <4>1
    <3>3. CASE ~Waits(d) /\ ~Oversized(d)
      <4> DEFINE c == Drop(d, Need(d))
      <4>1. c \in D /\ rank[c] < rank[d]
        <5> HIDE DEF Need
        <5> QED BY <1>1, <3>3
      <4>2. PopPdus[c] \in Parse
        <5> HIDE DEF c, rank
        <5> QED BY <2>1, <4>1
      <4>3. PopPdus[d] = [frames |-> <<First(d)>> \o PopPdus[c].frames, rest |-> PopPdus[c].rest]
        <5> HIDE DEF First, Need
        <5> QED BY <1>8, <3>3
      <4> HIDE DEF c, First
      <4> QED BY <1>2, <3>3, <4>2, <4>3
    <3> QED BY <3>1, <3>2, <3>3
  <2>2. rank \in [D -> Nat]
    BY LenProperties DEF Frame
  <2>3. \A d \in D : PopPdus[d] \in Parse => d \in E
    OBVIOUS
  <2> HIDE DEF E, D, rank
  <2>4. Inductive(E, D, rank)
    BY <2>1, <2>2, <2>3 DEF Inductive
  <2> QED BY <2>4, RankInduction
<1>10. PopPdus[buf] \in Parse
  BY <1>9
<1> HIDE DEF Next1
<1> QED BY <1>1, <1>8, <1>10

\* What is left over waits for more bytes.
LEMMA RestWaits ==
  ASSUME NEW buf \in Frame
  PROVE  Waits(PopPdus[buf].rest)
<1> DEFINE D == Frame
           rank == [b \in D |-> Len(b)]
           E == {b \in D : Waits(PopPdus[b].rest)}
<1>1. ASSUME NEW d \in D, \A c \in D : rank[c] < rank[d] => c \in E PROVE Waits(PopPdus[d].rest)
  <2>1. CASE Waits(d)
    <3>1. PopPdus[d] = [frames |-> <<>>, rest |-> d]
      BY <2>1, PopPdusDef
    <3>2. PopPdus[d].rest = d
      BY <3>1
    <3> QED BY <2>1, <3>2
  <2>2. CASE ~Waits(d) /\ Oversized(d)
    <3>0. Len(d) >= LenSize
      BY <2>2, PopPdusDef
    <3>1. Len(d) \in Nat /\ 1 \in 0..Len(d)
      BY <3>0, Sizes, LenProperties DEF Frame
    <3>2. Drop(d, 1) \in D /\ Len(Drop(d, 1)) < Len(d)
      BY <3>1, DropFacts DEF Frame
    <3>3. PopPdus[d] = PopPdus[Drop(d, 1)]
      BY <2>2, PopPdusDef
    <3> QED BY <1>1, <3>2, <3>3
  <2>3. CASE ~Waits(d) /\ ~Oversized(d)
    <3> DEFINE need == LenSize + Total(d)
               c == Drop(d, need)
    <3>1. /\ need \in 1..Len(d)
          /\ PopPdus[d] = [frames |-> <<SubSeq(d, 1, need)>> \o PopPdus[c].frames,
                           rest   |-> PopPdus[c].rest]
      BY <2>3, PopPdusDef
    <3>2. need \in 0..Len(d) /\ Len(d) \in Nat
      BY <3>1, LenProperties DEF Frame
    <3> HIDE DEF need
    <3>3. c \in D /\ Len(c) < Len(d)
      BY <3>1, <3>2, DropFacts DEF Frame
    <3>4. PopPdus[d].rest = PopPdus[c].rest
      BY <3>1
    <3> HIDE DEF c
    <3> QED BY <1>1, <3>3, <3>4
  <2> QED BY <2>1, <2>2, <2>3
<1>2. rank \in [D -> Nat]
  BY LenProperties DEF Frame
<1>3. \A d \in D : Waits(PopPdus[d].rest) => d \in E
  OBVIOUS
<1>4. D \subseteq E
  <2> HIDE DEF E, D, rank
  <2>1. Inductive(E, D, rank)
    BY <1>1, <1>2, <1>3 DEF Inductive
  <2> QED BY <2>1, RankInduction
<1> QED BY <1>4

\* What waits is shorter than one frame can be.
LEMMA WaitsIsShort ==
  ASSUME NEW buf \in Frame, Waits(buf)
  PROVE  Len(buf) < LenSize + MaxTotal
<1>1. Len(buf) \in Nat
  BY LenProperties DEF Frame
<1>2. CASE Len(buf) < LenSize
  BY <1>1, <1>2, Sizes
<1>3. CASE Len(buf) >= LenSize
  <2>1. Total(buf) \in Nat /\ ~(Total(buf) > MaxTotal) /\ ~(Len(buf) >= LenSize + Total(buf))
    BY <1>1, <1>3, TotalFacts, Sizes DEF Waits, Oversized, Complete
  <2> QED BY <1>1, <2>1, Sizes
<1> QED BY <1>1, <1>2, <1>3, Sizes

\* Parsing in two parts: the frames of the first, and those of what it left
\* over with the second.
Joined(p, q) == [frames |-> p.frames \o q.frames, rest |-> q.rest]

\* The parser may be given a stream in two parts.
LEMMA ParseInParts ==
  ASSUME NEW a \in Frame, NEW b \in Frame
  PROVE  PopPdus[a \o b] = Joined(PopPdus[a], PopPdus[PopPdus[a].rest \o b])
<1> DEFINE D == Frame
           rank == [d \in D |-> Len(d)]
           Cut(d) == PopPdus[d \o b] = Joined(PopPdus[d], PopPdus[PopPdus[d].rest \o b])
           E == {d \in D : Cut(d)}
<1>1. ASSUME NEW d \in D, \A c \in D : rank[c] < rank[d] => c \in E PROVE Cut(d)
  <2>0. /\ d \o b \in D /\ Len(d \o b) = Len(d) + Len(b) /\ Len(d) \in Nat /\ Len(b) \in Nat
        /\ PopPdus[d] \in Parse
    BY ConcatProperties, LenProperties, PopPdusDef DEF Frame
  <2>1. CASE Waits(d)
    <3>0. PopPdus[d] = [frames |-> <<>>, rest |-> d]
      BY <2>1, PopPdusDef
    <3>1. PopPdus[d].frames = <<>> /\ PopPdus[d].rest = d
      BY <3>0
    <3> DEFINE q == PopPdus[d \o b]
    <3>2. q \in Parse
      BY <2>0, PopPdusDef
    <3> HIDE DEF q
    <3>3. <<>> \o q.frames = q.frames
      BY <3>2, ConcatEmptySeq DEF Parse
    <3>4. Joined(PopPdus[d], q) = q
      BY <3>1, <3>2, <3>3 DEF Joined, Parse
    <3> QED BY <3>1, <3>4 DEF q
  <2>2. CASE ~Waits(d) /\ Oversized(d)
    <3>0. Len(d) >= LenSize
      BY <2>2, PopPdusDef
    <3>1. 1 \in 0..Len(d) /\ Len(d \o b) >= LenSize
      BY <2>0, <3>0, Sizes
    <3>2. Drop(d, 1) \in D /\ Len(Drop(d, 1)) < Len(d)
      BY <2>0, <3>1, DropFacts DEF Frame
    <3>3. Total(d \o b) = Total(d)
      BY <3>0, TotalFacts
    <3>4. ~Waits(d \o b) /\ Oversized(d \o b)
      BY <2>0, <2>2, <3>1, <3>3, Sizes DEF Waits, Oversized
    <3>5. Drop(d \o b, 1) = Drop(d, 1) \o b
      BY <3>1, DropConcat DEF Frame
    <3>6. PopPdus[d \o b] = PopPdus[Drop(d, 1) \o b]
      BY <2>0, <3>4, <3>5, PopPdusDef
    <3>7. PopPdus[d] = PopPdus[Drop(d, 1)]
      BY <2>2, PopPdusDef
    <3>8. Cut(Drop(d, 1))
      BY <1>1, <3>2
    <3> QED BY <3>6, <3>7, <3>8
  <2>3. CASE ~Waits(d) /\ ~Oversized(d)
    <3> DEFINE need == LenSize + Total(d)
               c == Drop(d, need)
               first == SubSeq(d, 1, need)
               p == PopPdus[c]
    <3>0. Len(d) >= LenSize
      BY <2>3, PopPdusDef
    <3>1. /\ need \in 1..Len(d)
          /\ PopPdus[d] = [frames |-> <<first>> \o p.frames, rest |-> p.rest]
      BY <2>3, PopPdusDef
    <3>2. need \in 0..Len(d) /\ need <= Len(d \o b) /\ Len(d \o b) >= LenSize
      BY <2>0, <3>0, <3>1, Sizes
    <3>3. Total(d \o b) = Total(d) /\ Total(d) \in Nat
      BY <3>0, TotalFacts
    <3>4. ~Waits(d \o b) /\ ~Oversized(d \o b)
      BY <2>0, <2>3, <3>2, <3>3, Sizes DEF Waits, Oversized, Complete
    <3>5. PopPdus[d \o b] = [frames |-> <<SubSeq(d \o b, 1, need)>> \o PopPdus[Drop(d \o b, need)].frames,
                             rest   |-> PopPdus[Drop(d \o b, need)].rest]
      <4> DEFINE e == d \o b
      <4>1. e \in Frame /\ ~Waits(e) /\ ~Oversized(e) /\ Total(e) = Total(d)
        BY <2>0, <3>3, <3>4
      <4> HIDE DEF e
      <4>2. PopPdus[e] = [frames |-> <<SubSeq(e, 1, LenSize + Total(e))>>
                                       \o PopPdus[Drop(e, LenSize + Total(e))].frames,
                          rest   |-> PopPdus[Drop(e, LenSize + Total(e))].rest]
        BY <4>1, PopPdusDef
      <4>3. LenSize + Total(e) = need
        BY <4>1
      <4> HIDE DEF need
      <4> QED BY <4>2, <4>3 DEF e
    <3> HIDE DEF need
    <3>6. Drop(d \o b, need) = c \o b /\ SubSeq(d \o b, 1, need) = first
      BY <3>2, DropConcat DEF Frame
    <3>7. c \in D /\ Len(c) < Len(d) /\ first \in Frame
      BY <2>0, <3>1, <3>2, DropFacts DEF Frame
    <3> HIDE DEF c, first
    <3>8. Cut(c)
      BY <1>1, <3>7
    <3> DEFINE q == PopPdus[p.rest \o b]
    <3>9. p \in Parse
      BY <3>7, PopPdusDef
    <3>10. q \in Parse
      <4>1. p.rest \o b \in Frame
        BY <3>9, ConcatProperties DEF Parse, Frame
      <4> QED BY <4>1, PopPdusDef
    <3>11. PopPdus[c \o b] = Joined(p, q)
      BY <3>8
    <3>12. PopPdus[d \o b] = [frames |-> <<first>> \o Joined(p, q).frames, rest |-> Joined(p, q).rest]
      BY <3>5, <3>6, <3>11
    <3>13. PopPdus[d].rest = p.rest /\ PopPdus[d].frames = <<first>> \o p.frames
      BY <3>1
    <3> HIDE DEF p, q
    <3>14. <<first>> \o (p.frames \o q.frames) = (<<first>> \o p.frames) \o q.frames
      <4>1. <<first>> \in Seq(Frame) /\ p.frames \in Seq(Frame) /\ q.frames \in Seq(Frame)
        BY <3>7, <3>9, <3>10 DEF Parse
      <4> DEFINE x == <<first>>
                 y == p.frames
                 z == q.frames
      <4>2. x \in Seq(Frame) /\ y \in Seq(Frame) /\ z \in Seq(Frame)
        BY <4>1
      <4> HIDE DEF x, y, z
      <4>3. x \o (y \o z) = (x \o y) \o z
        BY <4>2, ConcatAssociative
      <4> QED BY <4>3 DEF x, y, z
    <3>15. Joined(PopPdus[d], q) = [frames |-> (<<first>> \o p.frames) \o q.frames, rest |-> q.rest]
      BY <3>13 DEF Joined
    <3>16. PopPdus[d \o b] = [frames |-> <<first>> \o (p.frames \o q.frames), rest |-> q.rest]
      BY <3>12 DEF Joined
    <3>17. PopPdus[d \o b] = Joined(PopPdus[d], q)
      BY <3>14, <3>15, <3>16
    <3> QED BY <3>13, <3>17 DEF q
  <2> QED BY <2>1, <2>2, <2>3
<1>2. rank \in [D -> Nat]
  BY LenProperties DEF Frame
<1>3. \A d \in D : Cut(d) => d \in E
  OBVIOUS
<1>4. D \subseteq E
  <2> HIDE DEF E, D, rank, Cut
  <2>1. Inductive(E, D, rank)
    BY <1>1, <1>2, <1>3 DEF Inductive
  <2> QED BY <2>1, RankInduction
<1> QED BY <1>4

-----------------------------------------------------------------------------
(* Encoding and decoding *)

\* A sequence is its first n elements and the others.
LEMMA SplitAt ==
  ASSUME NEW S, NEW s \in Seq(S), NEW t \in Seq(S)
  PROVE  /\ SubSeq(s \o t, 1, Len(s)) = s /\ Drop(s \o t, Len(s)) = t
         /\ Len(s \o t) - Len(t) = Len(s)
<1>1. Len(s) \in Nat /\ Len(t) \in Nat /\ Len(s \o t) = Len(s) + Len(t) /\ Len(s) \in 0..Len(s)
  BY LenProperties, ConcatProperties
<1>2. Drop(s \o t, Len(s)) = Drop(s, Len(s)) \o t /\ SubSeq(s \o t, 1, Len(s)) = SubSeq(s, 1, Len(s))
  BY <1>1, DropConcat
<1>3. SubSeq(s, 1, Len(s)) = s
  BY SubSeqFull
<1>4. Drop(s, Len(s)) = <<>>
  BY <1>1, SubSeqEmpty DEF Drop
<1>5. <<>> \o t = t
  BY ConcatEmptySeq
<1> QED BY <1>1, <1>2, <1>3, <1>4, <1>5

\* Zeros are bytes.
LEMMA ZerosType ==
  ASSUME NEW n \in Nat
  PROVE  Zeros(n) \in Frame /\ Len(Zeros(n)) = n
BY Sizes DEF Zeros, Frame

\* Tags are bytes.
LEMMA TagsAreBytes ==
  EchoReq \in Byte /\ EchoTm \in Byte /\ StatusReq \in Byte /\ StatusResp \in Byte
BY Sizes DEF EchoReq, EchoTm, StatusReq, StatusResp, Byte

\* A frame on the wire: its length, and no more than the parser takes.
Framed(x) == x \in Frame /\ Len(x) >= LenSize /\ Total(x) = Len(x) - LenSize /\ Total(x) <= MaxTotal

\* A length in front of that many bytes.
LEMMA LengthInFront ==
  ASSUME NEW n \in Nat, NEW s \in Frame, Len(s) = n, n < Radix
  PROVE  LET x == Length(n) \o s
         IN  /\ x \in Frame /\ Len(x) = LenSize + n /\ Total(x) = n
             /\ \A i \in 1..n : x[LenSize + i] = s[i]
             /\ Drop(x, LenSize) = s
             /\ n <= MaxTotal => Framed(x)
<1> DEFINE l == Length(n)
           x == l \o s
<1>0. n < Power[LenSize]
  <2>1. Power[LenSize] \in Nat /\ Power[LenSize] >= Radix
    BY Sizes, PowerDef, PowerAboveTotal
  <2> QED BY <2>1, Sizes
<1>1. l \in Frame /\ Len(l) = LenSize /\ BigEndian[l] = n
  BY <1>0, LengthFacts DEF Frame
<1> HIDE DEF l
<1>2. /\ x \in Frame /\ Len(x) = LenSize + n
      /\ \A i \in 1..(LenSize + n) : x[i] = IF i <= LenSize THEN l[i] ELSE s[i - LenSize]
  <2>1. /\ x \in Seq(Byte) /\ Len(x) = Len(l) + Len(s)
        /\ \A i \in 1..(Len(l) + Len(s)) : x[i] = IF i <= Len(l) THEN l[i] ELSE s[i - Len(l)]
    BY <1>1, ConcatProperties DEF Frame
  <2> HIDE DEF x
  <2> QED BY <1>1, <2>1 DEF Frame
<1>3. SubSeq(x, 1, LenSize) = l /\ Drop(x, LenSize) = s
  BY <1>1, SplitAt DEF Frame
<1>4. Total(x) = n
  BY <1>1, <1>3 DEF Total
<1> HIDE DEF x
<1>5. ASSUME NEW i \in 1..n PROVE x[LenSize + i] = s[i]
  <2>1. LenSize + i \in 1..(LenSize + n) /\ ~(LenSize + i <= LenSize) /\ (LenSize + i) - LenSize = i
    BY Sizes
  <2> QED BY <1>2, <2>1
<1>6. n <= MaxTotal => Framed(x)
  BY <1>2, <1>4, Sizes DEF Framed
<1> QED BY <1>2, <1>3, <1>4, <1>5, <1>6 DEF x, l

\* What is encoded is a frame whose parts can be read off again.
LEMMA EncodeFacts ==
  ASSUME NEW tag \in Byte, NEW body \in Frame, Len(body) <= MaxBody + TmSize
  PROVE  LET x == Encode(tag, body)
         IN  /\ x \in Frame /\ Len(x) = LenSize + HdrSize + Len(body)
             /\ Total(x) = HdrSize + Len(body) /\ Tag(x) = tag /\ BodyLen(x) = Len(body)
             /\ Body(x) = body
             /\ Len(body) <= MaxBody => Framed(x)
<1> DEFINE n == HdrSize + Len(body)
           h == <<tag, Len(body)>>
           s == h \o body
           x == Length(n) \o s
<1>1. Len(body) \in Nat /\ Len(body) \in Byte
  BY Sizes, LenProperties DEF Byte, Frame
<1>2. h \in Frame /\ Len(h) = 2 /\ h[1] = tag /\ h[2] = Len(body)
  BY <1>1 DEF Frame
<1> HIDE DEF h
<1>3. /\ s \in Frame /\ Len(s) = 2 + Len(body)
      /\ \A i \in 1..(2 + Len(body)) : s[i] = IF i <= 2 THEN h[i] ELSE body[i - 2]
      /\ Drop(s, 2) = body
  <2>1. /\ s \in Seq(Byte) /\ Len(s) = Len(h) + Len(body)
        /\ \A i \in 1..(Len(h) + Len(body)) : s[i] = IF i <= Len(h) THEN h[i] ELSE body[i - Len(h)]
    BY <1>2, ConcatProperties DEF Frame
  <2>2. Drop(s, Len(h)) = body
    BY <1>2, SplitAt DEF Frame
  <2> QED BY <1>2, <2>1, <2>2 DEF Frame
<1>4. s[1] = tag /\ s[2] = Len(body)
  <2>1. 1 \in 1..(2 + Len(body)) /\ 2 \in 1..(2 + Len(body))
    BY <1>1
  <2> HIDE DEF s
  <2> QED BY <1>2, <1>3, <2>1
<1> HIDE DEF s
<1>5. n \in Nat /\ n < Radix /\ Len(s) = n
  BY <1>1, <1>3, Sizes
<1>6. /\ x \in Frame /\ Len(x) = LenSize + n /\ Total(x) = n
      /\ \A i \in 1..n : x[LenSize + i] = s[i]
      /\ Drop(x, LenSize) = s
      /\ n <= MaxTotal => Framed(x)
  <2> HIDE DEF n
  <2> QED BY <1>3, <1>5, LengthInFront
<1>7. Encode(tag, body) = x
  <2>1. Encode(tag, body) = Length(n) \o h \o body
    BY DEF Encode, h
  <2>2. (Length(n) \o h) \o body = Length(n) \o s
    <3>1. Length(n) \in Seq(Byte)
      BY <1>5, LengthFacts
    <3> HIDE DEF n
    <3> QED BY SMTT(30), <1>2, <3>1, ConcatAssociative DEF Frame, s
  <2> QED BY <2>1, <2>2
<1> HIDE DEF x
<1>8. Tag(x) = tag /\ BodyLen(x) = Len(body)
  <2>1. 1 \in 1..n /\ 2 \in 1..n
    BY <1>1, Sizes
  <2>2. x[LenSize + 1] = s[1] /\ x[LenSize + 2] = s[2]
    BY <1>6, <2>1
  <2> QED BY <1>4, <2>2 DEF Tag, BodyLen
<1>9. Body(x) = body
  <2>1. Len(x) \in Nat /\ LenSize \in 0..Len(x) /\ Len(x) = LenSize + 2 + Len(body)
    BY <1>1, <1>6, Sizes
  <2>2. Body(x) = Drop(x, LenSize + 2)
    BY Sizes DEF Body, Drop
  <2> DEFINE d == Drop(x, LenSize + 2)
  <2>3. /\ d \in Seq(Byte) /\ Len(d) = Len(body)
        /\ \A i \in 1..Len(body) : d[i] = x[LenSize + 2 + i]
    <3>1. LenSize + 2 \in 0..Len(x) /\ Len(x) - (LenSize + 2) = Len(body)
      BY <1>1, <2>1, Sizes
    <3> QED BY <1>6, <3>1, DropFacts DEF Frame
  <2>4. ASSUME NEW i \in 1..Len(body) PROVE d[i] = body[i]
    <3>1. 2 + i \in 1..n /\ LenSize + 2 + i = LenSize + (2 + i) /\ ~(2 + i <= 2) /\ (2 + i) - 2 = i
          /\ 2 + i \in 1..(2 + Len(body))
      BY <1>1, Sizes
    <3>2. x[LenSize + 2 + i] = s[2 + i]
      BY <1>6, <3>1
    <3>3. s[2 + i] = body[i]
      BY <1>3, <3>1
    <3> HIDE DEF d
    <3> QED BY <2>3, <3>2, <3>3
  <2> HIDE DEF d
  <2>5. d = body
    BY <2>3, <2>4, SeqEqual DEF Frame
  <2> QED BY <2>2, <2>5 DEF d
<1>10. Len(body) <= MaxBody => Framed(x)
  BY <1>1, <1>6, Sizes
<1>11. Len(x) = LenSize + HdrSize + Len(body) /\ Total(x) = HdrSize + Len(body)
  BY <1>1, <1>6, Sizes
<1> QED BY <1>6, <1>7, <1>8, <1>9, <1>10, <1>11

-----------------------------------------------------------------------------
(* Frames and junk in front of a stream *)

\* A frame in front of a stream is the parser's first.
LEMMA FrameFirst ==
  ASSUME NEW x \in Frame, Framed(x), NEW s \in Frame
  PROVE  PopPdus[x \o s].frames = <<x>> \o PopPdus[s].frames
<1> DEFINE buf == x \o s
<1>1. /\ Len(x) \in Nat /\ Len(x) >= LenSize /\ LenSize \in Nat /\ LenSize >= 2
      /\ Total(x) = Len(x) - LenSize /\ Total(x) <= MaxTotal
  BY Sizes, LenProperties DEF Framed, Frame
<1>2. buf \in Frame /\ Len(buf) = Len(x) + Len(s) /\ Len(s) \in Nat
  BY ConcatProperties, LenProperties DEF Frame
<1>3. Total(buf) = Total(x)
  BY <1>1, TotalFacts
<1>4. SubSeq(buf, 1, Len(x)) = x /\ Drop(buf, Len(x)) = s
  BY SplitAt DEF Frame
<1> HIDE DEF buf
<1>5. ~Waits(buf) /\ ~Oversized(buf) /\ LenSize + Total(buf) = Len(x)
  BY <1>1, <1>2, <1>3, Sizes DEF Waits, Oversized, Complete
<1>6. PopPdus[buf] = [frames |-> <<x>> \o PopPdus[s].frames, rest |-> PopPdus[s].rest]
  <2> DEFINE need == LenSize + Total(buf)
             after == PopPdus[Drop(buf, need)]
  <2>1. PopPdus[buf] = [frames |-> <<SubSeq(buf, 1, need)>> \o after.frames, rest |-> after.rest]
    BY <1>2, <1>5, PopPdusDef
  <2>2. need = Len(x)
    BY <1>5
  <2> HIDE DEF need
  <2> QED BY <1>4, <2>1, <2>2
<1>7. PopPdus[buf].frames = <<x>> \o PopPdus[s].frames
  BY <1>6
<1> QED BY <1>7 DEF buf

\* A byte in front of a stream, unless it is zero, costs no frame.
LEMMA JunkFirst ==
  ASSUME NEW b \in Byte, b # 0, NEW s \in Frame
  PROVE  PopPdus[<<b>> \o s].frames = PopPdus[s].frames
<1> DEFINE x == <<b>>
           buf == x \o s
<1>1. x \in Frame /\ Len(x) = 1 /\ x[1] = b
  BY DEF Frame
<1> HIDE DEF x
<1>2. buf \in Frame /\ Len(buf) = 1 + Len(s) /\ Len(s) \in Nat /\ buf[1] = b
  <2>1. /\ buf \in Seq(Byte) /\ Len(buf) = Len(x) + Len(s) /\ Len(s) \in Nat
        /\ \A i \in 1..(Len(x) + Len(s)) : buf[i] = IF i <= Len(x) THEN x[i] ELSE s[i - Len(x)]
    BY <1>1, ConcatProperties, LenProperties DEF Frame
  <2> HIDE DEF buf
  <2>2. 1 \in 1..(Len(x) + Len(s)) /\ 1 <= Len(x)
    BY <1>1, <2>1
  <2> QED BY <1>1, <2>1, <2>2 DEF Frame
<1>3. Drop(buf, 1) = s
  BY <1>1, SplitAt DEF Frame
<1> HIDE DEF buf
<1>4. CASE Len(buf) < LenSize
  <2>1. Waits(buf) /\ Waits(s)
    BY <1>2, <1>4, Sizes DEF Waits
  <2>2. PopPdus[buf] = [frames |-> <<>>, rest |-> buf] /\ PopPdus[s] = [frames |-> <<>>, rest |-> s]
    BY <1>2, <2>1, PopPdusDef
  <2>3. PopPdus[buf].frames = <<>> /\ PopPdus[s].frames = <<>>
    BY <2>2
  <2> QED BY <2>3 DEF buf, x
<1>5. CASE Len(buf) >= LenSize
  <2> DEFINE d == SubSeq(buf, 1, LenSize)
  <2>1. d \in Seq(Byte) /\ Len(d) = LenSize /\ d[1] = buf[1]
    <3>1. LenSize \in 0..Len(buf) /\ 1 \in 1..LenSize
      BY <1>2, <1>5, Sizes
    <3> QED BY <1>2, <3>1, DropFacts DEF Frame
  <2> HIDE DEF d
  <2>2. BigEndian[d] > MaxTotal
    BY <1>2, <2>1, NonzeroIsOversized
  <2>3. Oversized(buf)
    BY <2>2 DEF Oversized, Total, d
  <2>4. ~Waits(buf)
    BY <1>2, <1>5, <2>3, Sizes DEF Waits
  <2>5. PopPdus[buf] = PopPdus[s]
    BY <1>2, <1>3, <2>3, <2>4, PopPdusDef
  <2> QED BY <2>5 DEF buf, x
<1> QED BY <1>2, <1>4, <1>5, Sizes

\* Nothing parsed leaves nothing.
LEMMA NothingInNothing == PopPdus[<<>>] = [frames |-> <<>>, rest |-> <<>>]
<1>1. <<>> \in Frame /\ Waits(<<>>)
  BY EmptySeq, Sizes DEF Frame, Waits
<1> QED BY <1>1, PopPdusDef

-----------------------------------------------------------------------------
(* What the server answers, and what the client makes of it *)

Answer == [tag : Byte, payload : Frame]

\* The body of a frame.
LEMMA BodyFacts ==
  ASSUME NEW x \in Frame, Len(x) >= LenSize + HdrSize
  PROVE  Body(x) \in Frame /\ Len(Body(x)) = Len(x) - (LenSize + HdrSize)
<1>1. LenSize + HdrSize \in 0..Len(x) /\ Body(x) = Drop(x, LenSize + HdrSize)
  BY Sizes, LenProperties DEF Frame, Body, Drop
<1> HIDE DEF Body
<1> DEFINE n == LenSize + HdrSize
<1> HIDE DEF n
<1>2. n \in 0..Len(x) /\ Body(x) = Drop(x, n)
  BY <1>1 DEF n
<1>3. Body(x) \in Frame /\ Len(Body(x)) = Len(x) - n
  BY <1>2, DropFacts DEF Frame
<1> QED BY <1>3 DEF n

\* A frame that decodes has the length it says.
LEMMA DecodesFacts ==
  ASSUME NEW x \in Frame, Decodes(x)
  PROVE  /\ Framed(x) /\ Body(x) \in Frame /\ Len(Body(x)) \in Nat /\ Len(Body(x)) <= MaxBody
         /\ Tag(x) \in Byte
         /\ Tag(x) = EchoTm => Len(Body(x)) >= TmSize
         /\ Payload(x) \in Frame
<1>1. /\ Len(x) >= LenSize + HdrSize /\ Len(x) \in Nat /\ Total(x) = Len(x) - LenSize
      /\ Total(x) <= MaxTotal
  BY LenProperties DEF Decodes, Frame
<1>2. Body(x) \in Frame /\ Len(Body(x)) = Len(x) - (LenSize + HdrSize)
  BY <1>1, BodyFacts
<1>3. Len(Body(x)) \in Nat
  BY <1>2, LenProperties DEF Frame
<1>4. Len(Body(x)) <= MaxBody
  BY <1>1, <1>2, <1>3, Sizes
<1>5. Tag(x) \in Byte
  BY TagsAreBytes DEF Decodes
<1>6. Framed(x)
  BY <1>1, Sizes DEF Framed
<1>7. Tag(x) = EchoTm => Len(Body(x)) >= TmSize
  BY DEF Decodes
<1>8. Payload(x) \in Frame
  <2>1. CASE Tag(x) = EchoTm
    <3> DEFINE n == Len(Body(x)) - TmSize
    <3>1. n \in 0..Len(Body(x))
      BY <1>3, <1>7, <2>1, Sizes
    <3> HIDE DEF n
    <3>2. SubSeq(Body(x), 1, n) \in Frame
      BY <1>2, <3>1, DropFacts DEF Frame
    <3> QED BY <2>1, <3>2 DEF Payload, n
  <2>2. CASE Tag(x) # EchoTm
    BY <1>2, <2>2 DEF Payload
  <2> QED BY <2>1, <2>2
<1> QED BY <1>2, <1>3, <1>4, <1>5, <1>6, <1>7, <1>8

\* The server answers with bytes.
LEMMA DispatchType ==
  ASSUME NEW x \in Frame
  PROVE  Dispatch(x) \in Frame
<1>1. CASE IsReq(x) /\ Tag(x) = EchoReq
  <2>1. Decodes(x) /\ Payload(x) = Body(x)
    BY <1>1 DEF IsReq, Payload, EchoReq, EchoTm
  <2>2. Body(x) \in Frame /\ Len(Body(x)) \in Nat /\ Len(Body(x)) <= MaxBody
    BY <2>1, DecodesFacts
  <2> DEFINE y == Body(x) \o Zeros(TmSize)
  <2>3. y \in Frame /\ Len(y) = Len(Body(x)) + TmSize
    <3> DEFINE z == Zeros(TmSize)
    <3>1. z \in Frame /\ Len(z) = TmSize
      BY Sizes, ZerosType
    <3> HIDE DEF z
    <3>2. Body(x) \o z \in Frame /\ Len(Body(x) \o z) = Len(Body(x)) + Len(z)
      BY <2>2, <3>1, ConcatProperties DEF Frame
    <3> QED BY <3>1, <3>2 DEF z
  <2>4. Dispatch(x) = Encode(EchoTm, y)
    BY <1>1, <2>1 DEF Dispatch, EchoReq, StatusReq
  <2> HIDE DEF y
  <2>5. Len(y) <= MaxBody + TmSize
    BY <2>2, <2>3, Sizes
  <2> QED BY <2>3, <2>4, <2>5, TagsAreBytes, EncodeFacts
<1>2. CASE IsReq(x) /\ Tag(x) = StatusReq
  <2>1. Dispatch(x) = Encode(StatusResp, Zeros(StatusSize))
    BY <1>2 DEF Dispatch, EchoReq, StatusReq
  <2>2. Zeros(StatusSize) \in Frame /\ Len(Zeros(StatusSize)) <= MaxBody + TmSize
    BY Sizes, ZerosType
  <2> QED BY <2>1, <2>2, TagsAreBytes, EncodeFacts
<1>3. CASE ~IsReq(x)
  <2>1. Dispatch(x) = <<>>
    BY <1>3 DEF Dispatch
  <2> QED BY <2>1, EmptySeq DEF Frame
<1> QED BY <1>1, <1>2, <1>3 DEF IsReq

\* The client makes answers of frames.
LEMMA AcceptedType ==
  ASSUME NEW x \in Frame
  PROVE  Accepted(x) \in Seq(Answer)
<1>1. CASE IsResp(x)
  <2>1. Tag(x) \in Byte /\ Payload(x) \in Frame
    BY <1>1, DecodesFacts DEF IsResp
  <2>2. [tag |-> Tag(x), payload |-> Payload(x)] \in Answer
    BY <2>1 DEF Answer
  <2> QED BY <1>1, <2>2 DEF Accepted
<1>2. CASE ~IsResp(x)
  BY <1>2, EmptySeq DEF Accepted
<1> QED BY <1>1, <1>2

\* The answer to a request that leaves room for the trailer is a frame the
\* client accepts, with the payload of the request.
LEMMA RequestAnswered ==
  ASSUME NEW x \in Frame, IsReq(x), Len(Body(x)) + TmSize <= MaxBody
  PROVE  Framed(Dispatch(x)) /\ Accepted(Dispatch(x)) = Expected(x)
<1>0. Decodes(x) /\ Tag(x) \in {EchoReq, StatusReq}
  BY DEF IsReq
<1>1. Body(x) \in Frame /\ Len(Body(x)) \in Nat /\ Len(Body(x)) <= MaxBody
  BY <1>0, DecodesFacts
<1>2. CASE Tag(x) = EchoReq
  <2> DEFINE y == Body(x) \o Zeros(TmSize)
             e == Encode(EchoTm, y)
  <2>1. Payload(x) = Body(x)
    BY <1>2 DEF Payload, EchoReq, EchoTm
  <2>2. y \in Frame /\ Len(y) = Len(Body(x)) + TmSize /\ SubSeq(y, 1, Len(Body(x))) = Body(x)
    <3> DEFINE z == Zeros(TmSize)
               b == Body(x)
    <3>1. z \in Frame /\ Len(z) = TmSize /\ b \in Frame
      BY <1>1, Sizes, ZerosType
    <3> HIDE DEF z, b
    <3>2. b \o z \in Frame /\ Len(b \o z) = Len(b) + Len(z)
      BY <3>1, ConcatProperties DEF Frame
    <3>3. SubSeq(b \o z, 1, Len(b)) = b
      BY <3>1, SplitAt DEF Frame
    <3> QED BY <3>1, <3>2, <3>3 DEF z, b
  <2>3. Dispatch(x) = e
    BY <1>2, <2>1 DEF Dispatch, EchoReq, StatusReq
  <2> HIDE DEF y
  <2>4. Len(y) <= MaxBody /\ Len(y) >= TmSize /\ Len(y) - TmSize = Len(Body(x)) /\ Len(y) \in Nat
    BY <1>1, <2>2, Sizes
  <2>5. /\ e \in Frame /\ Len(e) = LenSize + HdrSize + Len(y)
        /\ Total(e) = HdrSize + Len(y) /\ Tag(e) = EchoTm /\ BodyLen(e) = Len(y)
        /\ Body(e) = y /\ Framed(e)
    <3>1. Len(y) <= MaxBody + TmSize
      BY <2>4, Sizes
    <3>2. EchoTm \in Byte
      BY TagsAreBytes
    <3> QED BY <2>2, <2>4, <3>1, <3>2, EncodeFacts
  <2> HIDE DEF e
  <2>6. IsResp(e)
    BY <2>4, <2>5, Sizes DEF IsResp, Decodes
  <2>7. Payload(e) = Body(x)
    BY <2>2, <2>4, <2>5 DEF Payload
  <2>8. Accepted(e) = <<[tag |-> EchoTm, payload |-> Body(x)]>>
    BY <2>5, <2>6, <2>7 DEF Accepted
  <2>9. Expected(x) = <<[tag |-> EchoTm, payload |-> Body(x)]>>
    BY <1>2 DEF Expected, EchoReq, StatusReq
  <2> QED BY <2>3, <2>5, <2>8, <2>9
<1>3. CASE Tag(x) = StatusReq
  <2> DEFINE y == Zeros(StatusSize)
             e == Encode(StatusResp, y)
  <2>2. y \in Frame /\ Len(y) = StatusSize
    BY Sizes, ZerosType
  <2>3. Dispatch(x) = e
    BY <1>3 DEF Dispatch, EchoReq, StatusReq
  <2> HIDE DEF y
  <2>4. Len(y) <= MaxBody /\ Len(y) \in Nat
    BY <2>2, Sizes
  <2>5. /\ e \in Frame /\ Len(e) = LenSize + HdrSize + Len(y)
        /\ Total(e) = HdrSize + Len(y) /\ Tag(e) = StatusResp /\ BodyLen(e) = Len(y)
        /\ Body(e) = y /\ Framed(e)
    <3>1. Len(y) <= MaxBody + TmSize
      BY <2>4, Sizes
    <3>2. StatusResp \in Byte
      BY TagsAreBytes
    <3> QED BY <2>2, <2>4, <3>1, <3>2, EncodeFacts
  <2> HIDE DEF e
  <2>6. IsResp(e)
    BY <2>4, <2>5, Sizes DEF IsResp, Decodes, StatusResp, EchoTm
  <2>7. Payload(e) = y
    BY <2>5 DEF Payload, StatusResp, EchoTm
  <2>8. Accepted(e) = <<[tag |-> StatusResp, payload |-> y]>>
    BY <2>5, <2>6, <2>7 DEF Accepted
  <2>9. Expected(x) = <<[tag |-> StatusResp, payload |-> y]>>
    BY <1>3 DEF Expected, y, EchoReq, StatusReq
  <2> QED BY <2>3, <2>5, <2>8, <2>9
<1> QED BY <1>0, <1>2, <1>3

\* What is no request gets no answer.
LEMMA OthersUnanswered ==
  ASSUME NEW x, ~IsReq(x)
  PROVE  Dispatch(x) = <<>> /\ Expected(x) = <<>>
BY DEF Dispatch, Expected

-----------------------------------------------------------------------------
(* All frames of a stream *)

Dispatching == [x \in Frame |-> Dispatch(x)]
Accepting   == [x \in Frame |-> Accepted(x)]
Expecting   == [x \in Frame |-> Expected(x)]

\* What a client expects are answers.
LEMMA ExpectedType ==
  ASSUME NEW x \in Frame
  PROVE  Expected(x) \in Seq(Answer)
<1>1. CASE IsReq(x) /\ Tag(x) = EchoReq
  <2>1. Body(x) \in Frame
    BY <1>1, DecodesFacts DEF IsReq
  <2>2. [tag |-> EchoTm, payload |-> Body(x)] \in Answer
    BY <2>1, TagsAreBytes DEF Answer
  <2>3. Expected(x) = <<[tag |-> EchoTm, payload |-> Body(x)]>>
    BY <1>1 DEF Expected, EchoReq, StatusReq
  <2> QED BY <2>2, <2>3
<1>2. CASE IsReq(x) /\ Tag(x) = StatusReq
  <2>1. [tag |-> StatusResp, payload |-> Zeros(StatusSize)] \in Answer
    BY Sizes, ZerosType, TagsAreBytes DEF Answer
  <2>3. Expected(x) = <<[tag |-> StatusResp, payload |-> Zeros(StatusSize)]>>
    BY <1>2 DEF Expected, EchoReq, StatusReq
  <2> QED BY <2>1, <2>3
<1>3. CASE ~IsReq(x)
  BY <1>3, OthersUnanswered, EmptySeq
<1> QED BY <1>1, <1>2, <1>3 DEF IsReq

\* Responses of frames one after the other.
LEMMA ResponsesFacts ==
  /\ Responses(<<>>) = <<>>
  /\ \A s \in Seq(Frame) : Responses(s) \in Frame
  /\ \A s, t \in Seq(Frame) : Responses(s \o t) = Responses(s) \o Responses(t)
  /\ \A x \in Frame : Responses(<<x>>) = Dispatch(x)
<1>1. Takes(Dispatching, Frame, Seq(Byte))
  BY DispatchType DEF Takes, Dispatching, Frame
<1>2. ASSUME NEW s \in Seq(Frame) PROVE Responses(s) = FlatMap(Dispatching, s)
  <2>1. \A i \in DOMAIN s : s[i] \in Frame
    BY ElementOfSeq, LenProperties
  <2> QED BY <2>1 DEF Responses, FlatMap, Mapped, Dispatching
<1>3. /\ FlatMap(Dispatching, <<>>) = <<>>
      /\ \A s \in Seq(Frame) : FlatMap(Dispatching, s) \in Seq(Byte)
      /\ \A s, t \in Seq(Frame) :
           FlatMap(Dispatching, s \o t) = FlatMap(Dispatching, s) \o FlatMap(Dispatching, t)
      /\ \A x \in Frame : FlatMap(Dispatching, <<x>>) = Dispatching[x]
  BY <1>1, FlatMapFacts
<1>4. \A s, t \in Seq(Frame) : s \o t \in Seq(Frame)
  BY ConcatProperties
<1>5. <<>> \in Seq(Frame) /\ \A x \in Frame : <<x>> \in Seq(Frame)
  BY EmptySeq
<1>6. \A x \in Frame : Dispatching[x] = Dispatch(x)
  BY DEF Dispatching
<1> QED BY ZenonT(60), <1>2, <1>3, <1>4, <1>5, <1>6 DEF Frame

\* Answers taken from frames one after the other.
LEMMA TakenFacts ==
  /\ Taken(<<>>) = <<>>
  /\ \A s \in Seq(Frame) : Taken(s) \in Seq(Answer)
  /\ \A s, t \in Seq(Frame) : Taken(s \o t) = Taken(s) \o Taken(t)
  /\ \A x \in Frame : Taken(<<x>>) = Accepted(x)
<1>1. Takes(Accepting, Frame, Seq(Answer))
  BY AcceptedType DEF Takes, Accepting
<1>2. ASSUME NEW s \in Seq(Frame) PROVE Taken(s) = FlatMap(Accepting, s)
  <2>1. \A i \in DOMAIN s : s[i] \in Frame
    BY ElementOfSeq, LenProperties
  <2> QED BY <2>1 DEF Taken, FlatMap, Mapped, Accepting
<1>3. /\ FlatMap(Accepting, <<>>) = <<>>
      /\ \A s \in Seq(Frame) : FlatMap(Accepting, s) \in Seq(Answer)
      /\ \A s, t \in Seq(Frame) :
           FlatMap(Accepting, s \o t) = FlatMap(Accepting, s) \o FlatMap(Accepting, t)
      /\ \A x \in Frame : FlatMap(Accepting, <<x>>) = Accepting[x]
  BY <1>1, FlatMapFacts
<1>4. \A s, t \in Seq(Frame) : s \o t \in Seq(Frame)
  BY ConcatProperties
<1>5. <<>> \in Seq(Frame) /\ \A x \in Frame : <<x>> \in Seq(Frame)
  BY EmptySeq
<1>6. \A x \in Frame : Accepting[x] = Accepted(x)
  BY DEF Accepting
<1> QED BY ZenonT(60), <1>2, <1>3, <1>4, <1>5, <1>6

AllExpected(its) == FlattenSeq([i \in DOMAIN its |-> Expected(its[i])])

\* What is expected of items one after the other.
LEMMA AllExpectedFacts ==
  /\ AllExpected(<<>>) = <<>>
  /\ \A s \in Seq(Frame) : AllExpected(s) \in Seq(Answer)
  /\ \A s, t \in Seq(Frame) : AllExpected(s \o t) = AllExpected(s) \o AllExpected(t)
  /\ \A x \in Frame : AllExpected(<<x>>) = Expected(x)
<1>1. Takes(Expecting, Frame, Seq(Answer))
  BY ExpectedType DEF Takes, Expecting
<1>2. ASSUME NEW s \in Seq(Frame) PROVE AllExpected(s) = FlatMap(Expecting, s)
  <2>1. \A i \in DOMAIN s : s[i] \in Frame
    BY ElementOfSeq, LenProperties
  <2> QED BY <2>1 DEF AllExpected, FlatMap, Mapped, Expecting
<1>3. /\ FlatMap(Expecting, <<>>) = <<>>
      /\ \A s \in Seq(Frame) : FlatMap(Expecting, s) \in Seq(Answer)
      /\ \A s, t \in Seq(Frame) :
           FlatMap(Expecting, s \o t) = FlatMap(Expecting, s) \o FlatMap(Expecting, t)
      /\ \A x \in Frame : FlatMap(Expecting, <<x>>) = Expecting[x]
  BY <1>1, FlatMapFacts
<1>4. \A s, t \in Seq(Frame) : s \o t \in Seq(Frame)
  BY ConcatProperties
<1>5. <<>> \in Seq(Frame) /\ \A x \in Frame : <<x>> \in Seq(Frame)
  BY EmptySeq
<1>6. \A x \in Frame : Expecting[x] = Expected(x)
  BY DEF Expecting
<1> QED BY ZenonT(60), <1>2, <1>3, <1>4, <1>5, <1>6

-----------------------------------------------------------------------------
(* What a client writes *)

Item ==
  {Encode(EchoReq, Zeros(n)) : n \in 0..MaxBody} \cup {Encode(StatusReq, <<>>)}
    \cup {<<b>> : b \in JunkBytes}
    \cup {Length(HdrSize) \o <<0, 0>>, Length(HdrSize + 1) \o <<EchoReq, 0, 0>>}

\* An item is a single byte, which is no request, or a frame.
LEMMA ItemFacts ==
  ASSUME NEW x \in Item
  PROVE  /\ x \in Frame
         /\ ((\E b \in Byte : x = <<b>>) /\ ~IsReq(x)) \/ Framed(x)
<1>1. CASE \E n \in 0..MaxBody : x = Encode(EchoReq, Zeros(n))
  <2>1. PICK n \in 0..MaxBody : x = Encode(EchoReq, Zeros(n))
    BY <1>1
  <2> DEFINE z == Zeros(n)
  <2>2. z \in Frame /\ Len(z) <= MaxBody /\ Len(z) <= MaxBody + TmSize
    BY Sizes, ZerosType
  <2> HIDE DEF z
  <2>3. Encode(EchoReq, z) \in Frame /\ Framed(Encode(EchoReq, z))
    BY <2>2, TagsAreBytes, EncodeFacts
  <2> QED BY <2>1, <2>3 DEF z
<1>2. CASE x = Encode(StatusReq, <<>>)
  <2>1. <<>> \in Frame /\ Len(<<>>) <= MaxBody /\ Len(<<>>) <= MaxBody + TmSize
    BY Sizes, EmptySeq DEF Frame
  <2>2. Encode(StatusReq, <<>>) \in Frame /\ Framed(Encode(StatusReq, <<>>))
    BY <2>1, TagsAreBytes, EncodeFacts
  <2> QED BY <1>2, <2>2
<1>3. CASE \E b \in JunkBytes : x = <<b>>
  <2>1. PICK b \in JunkBytes : x = <<b>>
    BY <1>3
  <2>2. b \in Byte
    BY StreamAssumption
  <2>3. x \in Frame /\ Len(x) = 1
    BY <2>1, <2>2 DEF Frame
  <2>4. ~IsReq(x)
    BY <2>3, Sizes DEF IsReq, Decodes
  <2> QED BY <2>1, <2>2, <2>3, <2>4
<1>4. CASE x = Length(HdrSize) \o <<0, 0>>
  <2>1. <<0, 0>> \in Frame /\ Len(<<0, 0>>) = HdrSize /\ HdrSize \in Nat /\ HdrSize < Radix
        /\ HdrSize <= MaxTotal
    BY Sizes DEF Frame
  <2>2. Length(HdrSize) \o <<0, 0>> \in Frame /\ Framed(Length(HdrSize) \o <<0, 0>>)
    BY <2>1, LengthInFront
  <2> QED BY <1>4, <2>2
<1>5. CASE x = Length(HdrSize + 1) \o <<EchoReq, 0, 0>>
  <2> DEFINE n == HdrSize + 1
             s == <<EchoReq, 0, 0>>
  <2>1. s \in Frame /\ Len(s) = n /\ n \in Nat /\ n < Radix /\ n <= MaxTotal
    BY Sizes, TagsAreBytes DEF Frame
  <2> HIDE DEF n, s
  <2>2. Length(n) \o s \in Frame /\ Framed(Length(n) \o s)
    BY <2>1, LengthInFront
  <2> QED BY <1>5, <2>2 DEF n, s
<1> QED BY <1>1, <1>2, <1>3, <1>4, <1>5 DEF Item

\* An item of which EchoesReturn speaks.
Friend == {x \in Item : x # <<0>> /\ (IsReq(x) => Len(Body(x)) + TmSize <= MaxBody)}

\* The frames an item gives the server when others follow it.
LEMMA ItemFirst ==
  ASSUME NEW x \in Friend, NEW s \in Frame
  PROVE  \/ ~IsReq(x) /\ PopPdus[x \o s].frames = PopPdus[s].frames
         \/ PopPdus[x \o s].frames = <<x>> \o PopPdus[s].frames
<1>1. x \in Frame /\ (((\E b \in Byte : x = <<b>>) /\ ~IsReq(x)) \/ Framed(x)) /\ x # <<0>>
  BY ItemFacts DEF Friend
<1>2. CASE Framed(x)
  BY <1>1, <1>2, FrameFirst
<1>3. CASE (\E b \in Byte : x = <<b>>) /\ ~IsReq(x)
  <2>1. PICK b \in Byte : x = <<b>>
    BY <1>3
  <2>2. b # 0
    BY <1>1, <2>1
  <2>3. PopPdus[<<b>> \o s].frames = PopPdus[s].frames
    BY <2>2, JunkFirst
  <2> QED BY <1>3, <2>1, <2>3
<1> QED BY <1>1, <1>2, <1>3

\* What the client makes of the server's answers to frames.
Returned(frames) == Taken(PopPdus[Responses(frames)].frames)

\* Frames of one item in front of others.
LEMMA ReturnedFirst ==
  ASSUME NEW x \in Friend, NEW fs \in Seq(Frame)
  PROVE  Returned(<<x>> \o fs) = Expected(x) \o Returned(fs)
<1>1. x \in Frame /\ <<x>> \in Seq(Frame)
  BY ItemFacts DEF Friend
<1>2. Responses(<<x>> \o fs) = Dispatch(x) \o Responses(fs) /\ Responses(fs) \in Frame
  BY <1>1, ResponsesFacts
<1> DEFINE r == Responses(fs)
           g == PopPdus[r].frames
<1>3. g \in Seq(Frame)
  BY <1>2, PopPdusDef DEF Parse
<1>4. CASE IsReq(x)
  <2> DEFINE y == Dispatch(x)
  <2>1. y \in Frame /\ Framed(y) /\ Accepted(y) = Expected(x)
    BY <1>1, <1>4, DispatchType, RequestAnswered DEF Friend
  <2> HIDE DEF r, y
  <2>2. PopPdus[y \o r].frames = <<y>> \o g
    BY <1>2, <2>1, FrameFirst DEF r
  <2> HIDE DEF g
  <2>3. Taken(<<y>> \o g) = Accepted(y) \o Taken(g)
    <3>1. <<y>> \in Seq(Frame)
      BY <2>1
    <3> QED BY <1>3, <2>1, <3>1, TakenFacts
  <2> QED BY <1>2, <2>1, <2>2, <2>3 DEF Returned, y, r, g
<1>5. CASE ~IsReq(x)
  <2>1. Dispatch(x) = <<>> /\ Expected(x) = <<>>
    BY <1>5, OthersUnanswered
  <2>2. <<>> \o r = r
    BY <1>2, ConcatEmptySeq DEF Frame
  <2>3. <<>> \o Taken(g) = Taken(g)
    BY <1>3, TakenFacts, ConcatEmptySeq
  <2> QED BY <1>2, <2>1, <2>2, <2>3 DEF Returned
<1> QED BY <1>4, <1>5

\* What comes back when everything written has been read.
LEMMA RoundTrip ==
  ASSUME NEW its \in Seq(Friend)
  PROVE  Returned(PopPdus[FlattenSeq(its)].frames) = AllExpected(its)
<1> DEFINE Back(s) == Returned(PopPdus[FlattenSeq(s)].frames) = AllExpected(s)
           E == {s \in Seq(Friend) : Back(s)}
<1>0. Friend \subseteq Frame
  BY ItemFacts DEF Friend
<1>1. <<>> \in E
  <2>1. FlattenSeq(<<>>) = <<>> /\ PopPdus[<<>>].frames = <<>>
    BY FlattenEmpty, NothingInNothing
  <2>2. Returned(<<>>) = <<>>
    BY <2>1, ResponsesFacts, TakenFacts DEF Returned
  <2>3. <<>> \in Seq(Friend)
    BY EmptySeq
  <2> QED BY <2>1, <2>2, <2>3, AllExpectedFacts
<1>2. ASSUME NEW s \in Seq(Friend), s # <<>>, Tail(s) \in E PROVE s \in E
  <2> DEFINE x == Head(s)
             t == Tail(s)
             w == FlattenSeq(t)
             fs == PopPdus[w].frames
  <2>1. s = <<x>> \o t /\ x \in Friend /\ t \in Seq(Friend) /\ Back(t)
    BY <1>2, FirstAndOthers
  <2>2. x \in Frame /\ <<x>> \in Seq(Frame) /\ t \in Seq(Frame)
    BY <1>0, <2>1, SeqMonotonic
  <2> HIDE DEF x, t
  <2>3. FlattenSeq(s) = x \o w /\ w \in Frame
    <3>1. FlattenSeq(<<x>> \o t) = FlattenSeq(<<x>>) \o FlattenSeq(t)
      BY <2>2, FlattenConcat DEF Frame
    <3>2. FlattenSeq(<<x>>) = x
      BY <2>2, FlattenOne DEF Frame
    <3>3. FlattenSeq(t) \in Frame
      BY <2>2, FlattenType DEF Frame
    <3> QED BY <2>1, <3>1, <3>2, <3>3
  <2>4. AllExpected(s) = Expected(x) \o AllExpected(t) /\ AllExpected(t) \in Seq(Answer)
    BY <2>1, <2>2, AllExpectedFacts
  <2>5. Returned(fs) = AllExpected(t)
    BY <2>1
  <2> HIDE DEF w
  <2>6. fs \in Seq(Frame)
    BY <2>3, PopPdusDef DEF Parse
  <2>7. CASE ~IsReq(x) /\ PopPdus[x \o w].frames = fs
    <3>1. Expected(x) = <<>>
      BY <2>7, OthersUnanswered
    <3>2. <<>> \o AllExpected(t) = AllExpected(t)
      BY <2>4, ConcatEmptySeq
    <3> QED BY <2>1, <2>3, <2>4, <2>5, <2>7, <3>1, <3>2
  <2>8. CASE PopPdus[x \o w].frames = <<x>> \o fs
    <3>1. Returned(<<x>> \o fs) = Expected(x) \o Returned(fs)
      BY <2>1, <2>6, ReturnedFirst
    <3> QED BY <2>1, <2>3, <2>4, <2>5, <2>8, <3>1
  <2> QED BY <2>1, <2>3, <2>7, <2>8, ItemFirst
<1> HIDE DEF E
<1>3. Seq(Friend) \subseteq E
  BY <1>1, <1>2, SequenceInduction
<1> QED BY <1>3 DEF E

-----------------------------------------------------------------------------
(* The invariant *)

\* What was read is the parse of a first part of the stream; the rest is on its
\* way.
ServerParsed ==
  \E read \in Frame : /\ FlattenSeq(items) = read \o up
                      /\ [frames |-> popped, rest |-> sbuf] = PopPdus[read]
ClientParsed ==
  \E seen \in Frame : /\ Responses(popped) = seen \o down
                      /\ cbuf = PopPdus[seen].rest
                      /\ answers = Taken(PopPdus[seen].frames)

TypeOK ==
  /\ items \in Seq(Item) /\ up \in Frame /\ down \in Frame /\ sbuf \in Frame /\ cbuf \in Frame
  /\ popped \in Seq(Frame) /\ answers \in Seq(Answer)

Inv == TypeOK /\ ServerKeepsReading /\ ServerParsed /\ ClientParsed

\* The invariant holds at the start.
LEMMA InitInv == Init => Inv
<1> SUFFICES ASSUME Init PROVE Inv
  OBVIOUS
<1>1. TypeOK /\ ServerKeepsReading
  BY EmptySeq DEF Init, TypeOK, ServerKeepsReading, Frame
<1>2. <<>> \in Frame /\ <<>> \o <<>> = <<>>
  <2>1. <<>> \in Frame
    BY EmptySeq DEF Frame
  <2> QED BY <2>1, ConcatEmptySeq DEF Frame
<1>3. ServerParsed
  <2>1. FlattenSeq(items) = <<>> \o up /\ [frames |-> popped, rest |-> sbuf] = PopPdus[<<>>]
    BY <1>2, FlattenEmpty, NothingInNothing DEF Init
  <2> QED BY <1>2, <2>1 DEF ServerParsed
<1>4. ClientParsed
  <2>1. PopPdus[<<>>].rest = <<>> /\ PopPdus[<<>>].frames = <<>>
    BY NothingInNothing
  <2>2. /\ Responses(popped) = <<>> \o down
        /\ cbuf = PopPdus[<<>>].rest
        /\ answers = Taken(PopPdus[<<>>].frames)
    BY <1>2, <2>1, ResponsesFacts, TakenFacts DEF Init
  <2> QED BY <1>2, <2>2 DEF ClientParsed
<1> QED BY <1>1, <1>3, <1>4 DEF Inv

\* A write keeps the invariant.
LEMMA WriteInv ==
  ASSUME Inv, NEW item \in Item, Write(item)
  PROVE  Inv'
<1>1. item \in Frame
  BY ItemFacts
<1>2. /\ items \in Seq(Item) /\ items \in Seq(Frame) /\ up \in Frame
      /\ items' = Append(items, item) /\ up' = up \o item
      /\ UNCHANGED <<sbuf, serving, popped, down, cbuf, answers>>
  <2>1. Item \subseteq Frame
    BY ItemFacts
  <2>2. items \in Seq(Item) /\ up \in Frame
    BY DEF Inv, TypeOK
  <2> QED BY <2>1, <2>2, SeqMonotonic DEF Write
<1>3. TypeOK' /\ ServerKeepsReading'
  <2>1. Append(items, item) \in Seq(Item)
    BY <1>2, AppendProperties
  <2>2. up \o item \in Frame
    BY <1>1, <1>2, ConcatProperties DEF Frame
  <2> QED BY <1>2, <2>1, <2>2 DEF Inv, TypeOK, ServerKeepsReading
<1>4. ServerParsed'
  <2>1. PICK read \in Frame : /\ FlattenSeq(items) = read \o up
                              /\ [frames |-> popped, rest |-> sbuf] = PopPdus[read]
    BY DEF Inv, ServerParsed
  <2>2. FlattenSeq(items') = FlattenSeq(items) \o item
    BY <1>1, <1>2, FlattenAppend DEF Frame
  <2>3. (read \o up) \o item = read \o (up \o item)
    BY SMTT(30), <1>1, <1>2, ConcatAssociative DEF Frame
  <2> QED BY <1>2, <2>1, <2>2, <2>3 DEF ServerParsed
<1>5. ClientParsed'
  BY <1>2 DEF Inv, ClientParsed
<1> QED BY <1>3, <1>4, <1>5 DEF Inv

\* Taking n bytes off a queue of bytes.
LEMMA Received ==
  ASSUME NEW q \in Frame, NEW n \in 1..Len(q), NEW a \in Frame
  PROVE  /\ SubSeq(q, 1, n) \in Frame /\ Len(SubSeq(q, 1, n)) = n /\ Drop(q, n) \in Frame
         /\ a \o SubSeq(q, 1, n) \in Frame
         /\ a \o q = (a \o SubSeq(q, 1, n)) \o Drop(q, n)
<1>1. n \in 0..Len(q)
  BY LenProperties DEF Frame
<1> DEFINE f == SubSeq(q, 1, n)
           d == Drop(q, n)
<1>2. f \in Frame /\ Len(f) = n /\ d \in Frame /\ q = f \o d
  BY <1>1, DropFacts DEF Frame
<1> HIDE DEF f, d
<1>3. a \o f \in Frame
  BY <1>2, ConcatProperties DEF Frame
<1>4. (a \o f) \o d = a \o (f \o d)
  BY SMTT(30), <1>2, ConcatAssociative DEF Frame
<1> QED BY <1>2, <1>3, <1>4 DEF f, d

\* A read of the server keeps the invariant: this is where the parse in parts is
\* needed, and where the limit is not reached.
LEMMA ServeInv ==
  ASSUME Inv, NEW n \in 1..Len(up), n <= Chunk, Serve(n)
  PROVE  Inv'
<1> DEFINE f == SubSeq(up, 1, n)
           buf == sbuf \o f
           parsed == PopPdus[buf]
<1>1. PICK read \in Frame : /\ FlattenSeq(items) = read \o up
                            /\ [frames |-> popped, rest |-> sbuf] = PopPdus[read]
  BY DEF Inv, ServerParsed
<1>2. PICK seen \in Frame : /\ Responses(popped) = seen \o down
                            /\ cbuf = PopPdus[seen].rest
                            /\ answers = Taken(PopPdus[seen].frames)
  BY DEF Inv, ClientParsed
<1>3. up \in Frame /\ sbuf \in Frame /\ popped \in Seq(Frame) /\ down \in Frame /\ serving = TRUE
  BY DEF Inv, TypeOK, ServerKeepsReading, Init
<1>4. /\ f \in Frame /\ Len(f) = n /\ Drop(up, n) \in Frame
      /\ buf \in Frame /\ read \o f \in Frame /\ read \o up = (read \o f) \o Drop(up, n)
  BY <1>3, Received
<1>5. parsed \in Parse
  BY <1>4, PopPdusDef
<1>6. Len(buf) <= Cap
  <2>1. PopPdus[read].frames = popped /\ PopPdus[read].rest = sbuf
    BY <1>1
  <2>2. Waits(sbuf)
    BY <2>1, RestWaits
  <2>3. Len(sbuf) < LenSize + MaxTotal /\ Len(sbuf) \in Nat
    BY <1>3, <2>2, WaitsIsShort, LenProperties DEF Frame
  <2> HIDE DEF f
  <2>4. Len(buf) = Len(sbuf) + n
    BY <1>3, <1>4, ConcatProperties DEF Frame
  <2>5. n \in Nat /\ n <= Chunk /\ Chunk \in Nat /\ Cap \in Nat /\ Cap >= LenSize + MaxTotal - 1 + Chunk
    BY <1>3, LenProperties, StreamAssumption DEF Frame
  <2> HIDE DEF buf
  <2> QED BY <2>3, <2>4, <2>5, Sizes
<1>7. /\ up' = Drop(up, n) /\ sbuf' = parsed.rest /\ popped' = popped \o parsed.frames
      /\ down' = down \o Responses(parsed.frames)
      /\ UNCHANGED <<serving, items, cbuf, answers>>
  <2>1. ~(Len(buf) > Cap)
    <3>1. Len(buf) \in Nat /\ Cap \in Nat
      BY <1>4, LenProperties, StreamAssumption DEF Frame
    <3> HIDE DEF buf
    <3> QED BY <1>6, <3>1
  <2> QED BY <2>1 DEF Serve
<1> HIDE DEF parsed, buf, f
<1>8. parsed.frames \in Seq(Frame) /\ parsed.rest \in Frame
  BY <1>5 DEF Parse
<1>9. Responses(parsed.frames) \in Frame
      /\ Responses(popped \o parsed.frames) = Responses(popped) \o Responses(parsed.frames)
  BY <1>3, <1>8, ResponsesFacts
<1>10. TypeOK' /\ ServerKeepsReading'
  <2>1. popped \o parsed.frames \in Seq(Frame)
    BY <1>3, <1>8, ConcatProperties
  <2>2. down \o Responses(parsed.frames) \in Frame
    BY <1>3, <1>9, ConcatProperties DEF Frame
  <2> QED BY <1>4, <1>7, <1>8, <2>1, <2>2 DEF Inv, TypeOK, ServerKeepsReading
<1>11. ServerParsed'
  <2>1. PopPdus[read \o f] = Joined(PopPdus[read], PopPdus[PopPdus[read].rest \o f])
    BY <1>4, ParseInParts
  <2>2. PopPdus[read].frames = popped /\ PopPdus[read].rest = sbuf
    BY <1>1
  <2>3. PopPdus[read \o f] = Joined(PopPdus[read], parsed)
    BY <2>1, <2>2 DEF parsed, buf
  <2>4. PopPdus[read \o f] = [frames |-> popped \o parsed.frames, rest |-> parsed.rest]
    BY <2>2, <2>3 DEF Joined
  <2>5. FlattenSeq(items') = (read \o f) \o up' /\ [frames |-> popped', rest |-> sbuf'] = PopPdus[read \o f]
    BY <1>1, <1>4, <1>7, <2>4
  <2> QED BY <1>4, <2>5 DEF ServerParsed
<1>12. ClientParsed'
  <2> DEFINE r == Responses(parsed.frames)
  <2>1. (seen \o down) \o r = seen \o (down \o r)
    <3>1. seen \in Seq(Byte) /\ down \in Seq(Byte) /\ r \in Seq(Byte)
      BY <1>3, <1>9 DEF Frame
    <3> HIDE DEF r
    <3> QED BY ONLY SMTT(30), <3>1, ConcatAssociative
  <2>2. Responses(popped') = seen \o down'
    BY <1>2, <1>7, <1>9, <2>1
  <2> QED BY <1>2, <1>7, <2>2 DEF ClientParsed
<1> QED BY <1>10, <1>11, <1>12 DEF Inv

\* A read of the client keeps the invariant.
LEMMA CollectInv ==
  ASSUME Inv, NEW n \in 1..Len(down), n <= Chunk, Collect(n)
  PROVE  Inv'
<1> DEFINE f == SubSeq(down, 1, n)
           buf == cbuf \o f
           parsed == PopPdus[buf]
<1>2. PICK seen \in Frame : /\ Responses(popped) = seen \o down
                            /\ cbuf = PopPdus[seen].rest
                            /\ answers = Taken(PopPdus[seen].frames)
  BY DEF Inv, ClientParsed
<1>3. down \in Frame /\ cbuf \in Frame /\ answers \in Seq(Answer)
  BY DEF Inv, TypeOK
<1>4. /\ f \in Frame /\ Drop(down, n) \in Frame
      /\ buf \in Frame /\ seen \o f \in Frame /\ seen \o down = (seen \o f) \o Drop(down, n)
  BY <1>3, Received
<1>5. parsed \in Parse
  BY <1>4, PopPdusDef
<1>7. /\ cbuf' = parsed.rest /\ down' = Drop(down, n) /\ answers' = answers \o Taken(parsed.frames)
      /\ UNCHANGED <<items, up, sbuf, serving, popped>>
  BY DEF Collect
<1> HIDE DEF parsed, buf, f
<1>8. parsed.frames \in Seq(Frame) /\ parsed.rest \in Frame
  BY <1>5 DEF Parse
<1>10. TypeOK' /\ ServerKeepsReading'
  <2>1. Taken(parsed.frames) \in Seq(Answer)
    BY <1>8, TakenFacts
  <2>2. answers \o Taken(parsed.frames) \in Seq(Answer)
    BY <1>3, <2>1, ConcatProperties
  <2> QED BY <1>4, <1>7, <1>8, <2>2 DEF Inv, TypeOK, ServerKeepsReading
<1>11. ServerParsed'
  BY <1>7 DEF Inv, ServerParsed
<1>12. ClientParsed'
  <2> DEFINE p == PopPdus[seen]
  <2>1. PopPdus[seen \o f] = Joined(p, PopPdus[p.rest \o f])
    BY <1>4, ParseInParts
  <2>2. PopPdus[seen \o f] = Joined(p, parsed)
    BY <1>2, <2>1 DEF parsed, buf
  <2>3. PopPdus[seen \o f] = [frames |-> p.frames \o parsed.frames, rest |-> parsed.rest]
    BY <2>2 DEF Joined
  <2>4. PopPdus[seen \o f].frames = p.frames \o parsed.frames /\ PopPdus[seen \o f].rest = parsed.rest
    <3> DEFINE k == PopPdus[seen \o f]
               u == p.frames \o parsed.frames
               v == parsed.rest
    <3>1. k = [frames |-> u, rest |-> v]
      BY <2>3
    <3> HIDE DEF k, u, v
    <3>2. k.frames = u /\ k.rest = v
      BY <3>1
    <3> QED BY <3>2 DEF k, u, v
  <2>5. p.frames \in Seq(Frame)
    BY PopPdusDef DEF Parse
  <2>6. Taken(p.frames \o parsed.frames) = Taken(p.frames) \o Taken(parsed.frames)
    BY <1>8, <2>5, TakenFacts
  <2>7. /\ Responses(popped') = (seen \o f) \o down'
        /\ cbuf' = PopPdus[seen \o f].rest
        /\ answers' = Taken(PopPdus[seen \o f].frames)
    BY <1>2, <1>4, <1>7, <2>4, <2>6
  <2> QED BY <1>4, <2>7 DEF ClientParsed
<1> QED BY <1>10, <1>11, <1>12 DEF Inv

\* Every step keeps the invariant.
LEMMA NextInv == Inv /\ [Next]_vars => Inv'
<1> SUFFICES ASSUME Inv, [Next]_vars PROVE Inv'
  OBVIOUS
<1>1. CASE WriteRequest
  <2>1. \E item \in Item : Write(item)
    BY <1>1 DEF WriteRequest, Item
  <2> QED BY <2>1, WriteInv
<1>2. CASE WriteOther
  <2>1. \E item \in Item : Write(item)
    BY <1>2 DEF WriteOther, Item
  <2> QED BY <2>1, WriteInv
<1>3. CASE \E n \in 1..Len(up) : n <= Chunk /\ Serve(n)
  BY <1>3, ServeInv
<1>4. CASE \E n \in 1..Len(down) : n <= Chunk /\ Collect(n)
  BY <1>4, CollectInv
<1>5. CASE UNCHANGED vars
  BY <1>5 DEF vars, Inv, TypeOK, ServerKeepsReading, ServerParsed, ClientParsed
<1> QED BY <1>1, <1>2, <1>3, <1>4, <1>5 DEF Next, Done

\* The invariant.
THEOREM Invariance == Spec => []Inv
BY InitInv, NextInv, PTL DEF Spec

\* The limit on unparsed bytes never closes a connection, whatever is written.
THEOREM KeepsReading == Spec => []ServerKeepsReading
<1>1. Inv => ServerKeepsReading
  BY DEF Inv
<1> QED BY <1>1, Invariance, PTL

\* What the invariant says of the server's end, in the words of the property.
LEMMA InvCuts == Inv => CutsInvisible
<1> SUFFICES ASSUME Inv PROVE [frames |-> popped, rest |-> sbuf] = PopPdus[Delivered]
  BY DEF CutsInvisible
<1>1. PICK read \in Frame : /\ FlattenSeq(items) = read \o up
                            /\ [frames |-> popped, rest |-> sbuf] = PopPdus[read]
  BY DEF Inv, ServerParsed
<1>2. up \in Frame
  BY DEF Inv, TypeOK
<1> DEFINE stream == read \o up
<1>3. SubSeq(stream, 1, Len(stream) - Len(up)) = read
  <2>1. SubSeq(stream, 1, Len(read)) = read /\ Len(stream) - Len(up) = Len(read)
    BY <1>2, SplitAt DEF Frame
  <2> QED BY <2>1
<1>4. Delivered = read
  BY <1>1, <1>3 DEF Delivered
<1> QED BY <1>1, <1>4

\* The frames cut and the bytes kept are those of one parse, however TCP cuts
\* the stream.
THEOREM CutsNeverShow == Spec => []CutsInvisible
BY Invariance, InvCuts, PTL

\* A sequence is a prefix of itself with something after it.
LEMMA PrefixOfConcat ==
  ASSUME NEW S, NEW s \in Seq(S), NEW t \in Seq(S)
  PROVE  IsPrefix(s, s \o t)
<1>1. Len(s) <= Len(s \o t) /\ Len(s) \in Nat
  BY LenProperties, ConcatProperties
<1>2. SubSeq(s \o t, 1, Len(s)) = s /\ SubSeq(s, 1, Len(s)) = s
  BY SplitAt, SubSeqFull
<1> QED BY <1>1, <1>2 DEF IsPrefix

\* The invariant and what RoundTrip says of the whole stream.
LEMMA InvEchoes == Inv => EchoesReturn
<1> SUFFICES ASSUME Inv, NoZeroJunk, RoomForTrailer
             PROVE  /\ IsPrefix(answers, AllExpected(items))
                    /\ up = <<>> /\ down = <<>> => answers = AllExpected(items)
  BY DEF EchoesReturn, AllExpected
<1>1. PICK read \in Frame : /\ FlattenSeq(items) = read \o up
                            /\ [frames |-> popped, rest |-> sbuf] = PopPdus[read]
  BY DEF Inv, ServerParsed
<1>2. PICK seen \in Frame : /\ Responses(popped) = seen \o down
                            /\ cbuf = PopPdus[seen].rest
                            /\ answers = Taken(PopPdus[seen].frames)
  BY DEF Inv, ClientParsed
<1>3. /\ up \in Frame /\ sbuf \in Frame /\ popped \in Seq(Frame) /\ down \in Frame
      /\ answers \in Seq(Answer) /\ items \in Seq(Item)
  BY DEF Inv, TypeOK
<1>4. items \in Seq(Friend)
  <2>1. DOMAIN items = 1..Len(items) /\ Len(items) \in Nat /\ items \in [1..Len(items) -> Item]
    BY <1>3, LenProperties
  <2>2. \A i \in 1..Len(items) : items[i] \in Friend
    BY <2>1 DEF NoZeroJunk, RoomForTrailer, Friend
  <2>3. items \in [1..Len(items) -> Friend]
    BY <2>1, <2>2
  <2> QED BY <2>1, <2>3, SeqDef
<1>5. AllExpected(items) = Returned(PopPdus[read \o up].frames)
  BY <1>1, <1>4, RoundTrip
<1> DEFINE q == PopPdus[sbuf \o up]
           r == Responses(q.frames)
           p == PopPdus[seen]
           w == down \o r
           z == PopPdus[p.rest \o w]
<1>6. q.frames \in Seq(Frame)
  <2>1. sbuf \o up \in Frame
    BY <1>3, ConcatProperties DEF Frame
  <2> QED BY <2>1, PopPdusDef DEF Parse
<1>7. PopPdus[read \o up].frames = popped \o q.frames
  <2>1. PopPdus[read].frames = popped /\ PopPdus[read].rest = sbuf
    BY <1>1
  <2>2. PopPdus[read \o up] = Joined(PopPdus[read], PopPdus[PopPdus[read].rest \o up])
    BY <1>3, ParseInParts
  <2>3. PopPdus[read \o up] = Joined(PopPdus[read], q)
    BY <2>1, <2>2
  <2> HIDE DEF q
  <2>4. PopPdus[read \o up] = [frames |-> popped \o q.frames, rest |-> q.rest]
    BY <2>1, <2>3 DEF Joined
  <2> QED BY <2>4
<1> HIDE DEF q
<1>8. r \in Frame /\ Responses(popped \o q.frames) = Responses(popped) \o r
  BY <1>3, <1>6, ResponsesFacts
<1> HIDE DEF r
<1>9. Responses(popped \o q.frames) = seen \o w /\ w \in Frame
  <2>1. (seen \o down) \o r = seen \o w
    <3>1. seen \in Seq(Byte) /\ down \in Seq(Byte) /\ r \in Seq(Byte)
      BY <1>3, <1>8 DEF Frame
    <3> QED BY ONLY <3>1, ConcatAssociative DEF w
  <2>2. w \in Frame
    BY <1>3, <1>8, ConcatProperties DEF Frame
  <2> QED BY <1>2, <1>8, <2>1, <2>2
<1> HIDE DEF w
<1>10. p \in Parse /\ z \in Parse
  <2>1. p \in Parse
    BY PopPdusDef
  <2> HIDE DEF p
  <2>2. p.rest \o w \in Frame
    BY <1>9, <2>1, ConcatProperties DEF Frame, Parse
  <2> QED BY <2>1, <2>2, PopPdusDef
<1>11. PopPdus[seen \o w].frames = p.frames \o z.frames
  <2>1. PopPdus[seen \o w] = Joined(p, z)
    BY <1>9, ParseInParts
  <2> HIDE DEF p, z
  <2> DEFINE k == PopPdus[seen \o w]
             u == p.frames \o z.frames
             v == z.rest
  <2>2. k = [frames |-> u, rest |-> v]
    BY <2>1 DEF Joined
  <2> HIDE DEF k, u, v
  <2>3. k.frames = u
    BY <2>2
  <2> QED BY <2>3 DEF k, u
<1>12. p.frames \in Seq(Frame) /\ z.frames \in Seq(Frame)
  <2> HIDE DEF p, z
  <2> QED BY <1>10 DEF Parse
<1>13. Taken(z.frames) \in Seq(Answer) /\ Taken(p.frames \o z.frames) = answers \o Taken(z.frames)
  <2>1. Taken(p.frames) = answers
    BY <1>2
  <2> HIDE DEF p, z
  <2> QED BY <1>12, <2>1, TakenFacts
<1>14. AllExpected(items) = answers \o Taken(z.frames)
  <2> HIDE DEF p, z
  <2> QED BY <1>5, <1>7, <1>9, <1>11, <1>13 DEF Returned
<1>15. IsPrefix(answers, AllExpected(items))
  <2> HIDE DEF p, z
  <2> QED BY <1>3, <1>13, <1>14, PrefixOfConcat
<1>16. ASSUME up = <<>>, down = <<>> PROVE answers = AllExpected(items)
  <2>1. read \o <<>> = read /\ seen \o <<>> = seen
    BY ConcatEmptySeq DEF Frame
  <2>2. PopPdus[read].frames = popped
    BY <1>1
  <2>3. AllExpected(items) = Returned(popped)
    BY <1>5, <1>16, <2>1, <2>2
  <2> QED BY <1>2, <1>16, <2>1, <2>3 DEF Returned
<1> QED BY <1>15, <1>16

\* Every request between junk bytes and undecodable frames is answered, in order,
\* with the payload it carried.
THEOREM EchoesCome == Spec => []EchoesReturn
BY Invariance, InvEchoes, PTL
=============================================================================

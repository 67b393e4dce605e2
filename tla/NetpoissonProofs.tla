--------------------------- MODULE NetpoissonProofs ---------------------------
(***************************************************************************)
(* What a run over SSH guarantees, and what main() makes of it and of the  *)
(* command line, for any number of requests and command lines, pipes of    *)
(* any size, and whatever fails.                                           *)
(***************************************************************************)
EXTENDS Netpoisson, SequenceFacts, FiniteSetTheorems

-----------------------------------------------------------------------------
(* The two pipes: what the cells in a pipe and in the buffer at its end     *)
(* have to do with the lines written to it.                                *)

Kinds == {"begins", "ends", "whole"}

\* No line is torn: the end of a line follows its beginning, and only the last
\* cell can be a beginning that waits for its end.
Untorn(cells) ==
  /\ \A p \in DOMAIN cells : cells[p][2] = "ends" =>
                               p # 1 /\ cells[p - 1] = Half(cells[p][1], "begins")
  /\ \A p \in DOMAIN cells : cells[p][2] = "begins" /\ p # Len(cells) => cells[p + 1][2] = "ends"

\* The last line has begun.
Open(cells) == cells # <<>> /\ cells[Len(cells)][2] = "begins"

\* The lines that end in the cells are those of the messages, in order.
Carries(cells, msgs) ==
  /\ Untorn(cells)
  /\ \E f \in [DOMAIN msgs -> LineEnds(cells)] :
       /\ \A i, j \in DOMAIN msgs : i < j => f[i] < f[j]
       /\ \A p \in LineEnds(cells) : \E i \in DOMAIN msgs : f[i] = p
       /\ \A i \in DOMAIN msgs : cells[f[i]][1] = msgs[i]

-----------------------------------------------------------------------------

\* The beginning of a line ends none.
LEMMA BeginLine ==
  ASSUME NEW M, NEW cells \in Seq(M \X Kinds), NEW msgs \in Seq(M), NEW m \in M,
         Carries(cells, msgs), ~Open(cells), NEW a, a = Append(cells, Half(m, "begins"))
  PROVE  Carries(a, msgs) /\ Open(a) /\ a # <<>> /\ a[Len(a)] = Half(m, "begins")
<1>0. Half(m, "begins") \in M \X Kinds /\ Half(m, "begins")[2] = "begins"
  BY DEF Half, Kinds
<1>1. /\ a \in Seq(M \X Kinds) /\ Len(cells) \in Nat /\ Len(a) = Len(cells) + 1
      /\ DOMAIN cells = 1..Len(cells) /\ DOMAIN a = 1..(Len(cells) + 1)
      /\ a[Len(cells) + 1] = Half(m, "begins") /\ \A i \in 1..Len(cells) : a[i] = cells[i]
      /\ LineEnds(a) = LineEnds(cells) /\ LineEnds(cells) \subseteq 1..Len(cells)
  <2>1. /\ a \in Seq(M \X Kinds) /\ Len(a) = Len(cells) + 1
        /\ a[Len(cells) + 1] = Half(m, "begins") /\ \A i \in 1..Len(cells) : a[i] = cells[i]
    BY <1>0, AppendProperties
  <2>2. /\ Len(cells) \in Nat /\ DOMAIN cells = 1..Len(cells) /\ DOMAIN a = 1..(Len(cells) + 1)
    BY <2>1, LenProperties
  <2>3. LineEnds(a) = LineEnds(cells) /\ LineEnds(cells) \subseteq 1..Len(cells)
    BY <1>0, <2>1, <2>2 DEF LineEnds
  <2> QED BY <2>1, <2>2, <2>3
<1>2. Half(m, "begins")[2] = "begins"
  BY DEF Half
<1>3. Len(cells) # 0 => cells[Len(cells)][2] # "begins"
  BY EmptySeq DEF Open
<1>4. Untorn(a)
  <2>1. ASSUME NEW p \in DOMAIN a, a[p][2] = "ends"
        PROVE  p # 1 /\ a[p - 1] = Half(a[p][1], "begins")
    <3>1. p \in 1..Len(cells) /\ a[p] = cells[p]
      BY <1>1, <1>2, <2>1
    <3>2. p # 1 /\ cells[p - 1] = Half(cells[p][1], "begins")
      BY <1>1, <2>1, <3>1 DEF Carries, Untorn
    <3>3. a[p - 1] = cells[p - 1]
      BY <1>1, <3>1, <3>2
    <3> QED BY <3>1, <3>2, <3>3
  <2>2. ASSUME NEW p \in DOMAIN a, a[p][2] = "begins", p # Len(a) PROVE a[p + 1][2] = "ends"
    <3>1. p \in 1..Len(cells) /\ cells[p][2] = "begins"
      BY <1>1, <2>2
    <3>2. p # Len(cells)
      BY <1>1, <1>3, <3>1
    <3>3. cells[p + 1][2] = "ends" /\ a[p + 1] = cells[p + 1]
      BY <1>1, <3>1, <3>2 DEF Carries, Untorn
    <3> QED BY <3>3
  <2> QED BY <2>1, <2>2 DEF Untorn
<1>5. Carries(a, msgs)
  <2>1. PICK f \in [DOMAIN msgs -> LineEnds(cells)] :
          /\ \A i, j \in DOMAIN msgs : i < j => f[i] < f[j]
          /\ \A p \in LineEnds(cells) : \E i \in DOMAIN msgs : f[i] = p
          /\ \A i \in DOMAIN msgs : cells[f[i]][1] = msgs[i]
    BY DEF Carries
  <2>2. \A i \in DOMAIN msgs : a[f[i]][1] = msgs[i]
    BY <1>1, <2>1
  <2> QED BY <1>1, <1>4, <2>1, <2>2 DEF Carries
<1>6. a # <<>> /\ a[Len(a)] = Half(m, "begins") /\ Open(a)
  BY <1>1, <1>2, EmptySeq DEF Open
<1> QED BY <1>5, <1>6

\* The cell that ends a line adds its message to those carried.
LEMMA EndLine ==
  ASSUME NEW M, NEW cells \in Seq(M \X Kinds), NEW msgs \in Seq(M), NEW m \in M,
         NEW k \in {"ends", "whole"}, Carries(cells, msgs),
         k = "whole" => ~Open(cells),
         k = "ends" => cells # <<>> /\ cells[Len(cells)] = Half(m, "begins"),
         NEW a, a = Append(cells, Half(m, k))
  PROVE  Carries(a, Append(msgs, m)) /\ ~Open(a)
<1> DEFINE n == Len(cells) + 1
           l == Append(msgs, m)
<1>0. Half(m, k) \in M \X Kinds /\ Half(m, k)[2] = k
  BY DEF Half, Kinds
<1>1. /\ a \in Seq(M \X Kinds) /\ Len(cells) \in Nat /\ Len(a) = Len(cells) + 1
      /\ DOMAIN cells = 1..Len(cells) /\ DOMAIN a = 1..(Len(cells) + 1)
      /\ a[Len(cells) + 1] = Half(m, k) /\ \A i \in 1..Len(cells) : a[i] = cells[i]
      /\ LineEnds(a) = LineEnds(cells) \cup {n} /\ LineEnds(cells) \subseteq 1..Len(cells)
  <2>1. /\ a \in Seq(M \X Kinds) /\ Len(a) = Len(cells) + 1
        /\ a[Len(cells) + 1] = Half(m, k) /\ \A i \in 1..Len(cells) : a[i] = cells[i]
    BY <1>0, AppendProperties
  <2>2. /\ Len(cells) \in Nat /\ DOMAIN cells = 1..Len(cells) /\ DOMAIN a = 1..(Len(cells) + 1)
    BY <2>1, LenProperties
  <2>3. LineEnds(a) = LineEnds(cells) \cup {n} /\ LineEnds(cells) \subseteq 1..Len(cells)
    BY <1>0, <2>1, <2>2 DEF LineEnds
  <2> QED BY <2>1, <2>2, <2>3
<1>2. /\ Len(msgs) \in Nat /\ DOMAIN msgs = 1..Len(msgs) /\ DOMAIN l = 1..(Len(msgs) + 1)
      /\ l[Len(msgs) + 1] = m /\ \A i \in 1..Len(msgs) : l[i] = msgs[i]
  BY AppendProperties, LenProperties
<1> HIDE DEF l
<1>3. Half(m, k)[1] = m /\ Half(m, k)[2] = k /\ Half(m, "begins")[2] = "begins"
  BY DEF Half
<1>4. /\ k = "whole" /\ Len(cells) # 0 => cells[Len(cells)][2] # "begins"
      /\ k = "ends" => Len(cells) # 0
  BY <1>1, EmptySeq DEF Open
<1>5. Untorn(a)
  <2>1. ASSUME NEW p \in DOMAIN a, a[p][2] = "ends"
        PROVE  p # 1 /\ a[p - 1] = Half(a[p][1], "begins")
    <3>1. CASE p = n
      <4>1. k = "ends" /\ a[p][1] = m
        BY <1>1, <1>3, <2>1, <3>1
      <4>2. Len(cells) \in 1..Len(cells) /\ cells[Len(cells)] = Half(m, "begins")
        BY <1>1, <1>4, <4>1
      <4>3. p - 1 = Len(cells) /\ p # 1
        BY <1>1, <3>1, <4>2
      <4>4. a[p - 1] = Half(m, "begins")
        BY <1>1, <4>2, <4>3
      <4> QED BY <4>1, <4>3, <4>4
    <3>2. CASE p # n
      <4>1. p \in 1..Len(cells) /\ a[p] = cells[p]
        BY <1>1, <3>2
      <4>2. p # 1 /\ cells[p - 1] = Half(cells[p][1], "begins")
        BY <1>1, <2>1, <4>1 DEF Carries, Untorn
      <4>3. a[p - 1] = cells[p - 1]
        BY <1>1, <4>1, <4>2
      <4> QED BY <4>1, <4>2, <4>3
    <3> QED BY <3>1, <3>2
  <2>2. ASSUME NEW p \in DOMAIN a, a[p][2] = "begins", p # Len(a) PROVE a[p + 1][2] = "ends"
    <3>1. p \in 1..Len(cells) /\ cells[p][2] = "begins"
      BY <1>1, <2>2
    <3>2. CASE p = Len(cells)
      BY <1>1, <1>3, <1>4, <3>1, <3>2
    <3>3. CASE p # Len(cells)
      <4>1. cells[p + 1][2] = "ends" /\ a[p + 1] = cells[p + 1]
        BY <1>1, <3>1, <3>3 DEF Carries, Untorn
      <4> QED BY <4>1
    <3> QED BY <3>2, <3>3
  <2> QED BY <2>1, <2>2 DEF Untorn
<1>6. Carries(a, l)
  <2>1. PICK f \in [DOMAIN msgs -> LineEnds(cells)] :
          /\ \A i, j \in DOMAIN msgs : i < j => f[i] < f[j]
          /\ \A p \in LineEnds(cells) : \E i \in DOMAIN msgs : f[i] = p
          /\ \A i \in DOMAIN msgs : cells[f[i]][1] = msgs[i]
    BY DEF Carries
  <2> DEFINE g == [i \in DOMAIN l |-> IF i = Len(msgs) + 1 THEN n ELSE f[i]]
  <2>2. g \in [DOMAIN l -> LineEnds(a)]
    BY <1>1, <1>2
  <2>3. g[Len(msgs) + 1] = n /\ \A i \in DOMAIN msgs : g[i] = f[i] /\ f[i] \in 1..Len(cells)
    BY <1>1, <1>2, <2>1
  <2> HIDE DEF g
  <2>4. \A i, j \in DOMAIN l : i < j => g[i] < g[j]
    BY <1>1, <1>2, <2>1, <2>3
  <2>5. ASSUME NEW p \in LineEnds(a) PROVE \E i \in DOMAIN l : g[i] = p
    <3>1. CASE p = n
      BY <1>2, <2>3, <3>1
    <3>2. CASE p # n
      <4>1. PICK i \in DOMAIN msgs : f[i] = p
        BY <1>1, <2>1, <3>2
      <4> QED BY <1>2, <2>3, <4>1
    <3> QED BY <3>1, <3>2
  <2>6. \A i \in DOMAIN l : a[g[i]][1] = l[i]
    BY <1>1, <1>2, <1>3, <2>1, <2>3
  <2> QED BY <1>5, <2>2, <2>4, <2>5, <2>6 DEF Carries
<1>7. ~Open(a)
  BY <1>1, <1>3 DEF Open
<1> QED BY <1>6, <1>7 DEF l

\* The first line is cut off: the reader finds the message that was written
\* first, and what stays are the lines of the others.
LEMMA CutLine ==
  ASSUME NEW M, NEW b \in Seq(M \X Kinds), NEW r \in Seq(M \X Kinds), NEW msgs \in Seq(M),
         Carries(b \o r, msgs), LineEnds(b) # {}
  PROVE  /\ msgs # <<>> /\ FirstLine(b) = Head(msgs) /\ AfterLine(b) \in Seq(M \X Kinds)
         /\ Carries(AfterLine(b) \o r, Tail(msgs))
         /\ Open(AfterLine(b) \o r) <=> Open(b \o r)
         /\ AfterLine(b) \o r # <<>> =>
              (AfterLine(b) \o r)[Len(AfterLine(b) \o r)] = (b \o r)[Len(b \o r)]
<1> DEFINE cells == b \o r
           n == FirstEnd(b)
           d == AfterLine(b)
           rest == d \o r
           t == Tail(msgs)
<1>1. /\ Len(b) \in Nat /\ Len(r) \in Nat /\ DOMAIN b = 1..Len(b) /\ DOMAIN r = 1..Len(r)
      /\ Len(msgs) \in Nat /\ DOMAIN msgs = 1..Len(msgs)
  BY LenProperties
<1>2. /\ cells \in Seq(M \X Kinds) /\ Len(cells) = Len(b) + Len(r)
      /\ \A i \in 1..Len(b) : cells[i] = b[i]
      /\ \A i \in 1..Len(r) : cells[Len(b) + i] = r[i]
  <2>1. /\ cells \in Seq(M \X Kinds) /\ Len(cells) = Len(b) + Len(r)
        /\ \A i \in 1..(Len(b) + Len(r)) : cells[i] = IF i <= Len(b) THEN b[i] ELSE r[i - Len(b)]
    BY ConcatProperties
  <2> QED BY <1>1, <2>1
<1>3. DOMAIN cells = 1..Len(cells) /\ \A i \in 1..Len(cells) : cells[i] \in M \X Kinds
  BY <1>2, LenProperties, ElementOfSeq
<1>4. Carries(cells, msgs)
  OBVIOUS
<1> HIDE DEF cells
<1>5. PICK f \in [DOMAIN msgs -> LineEnds(cells)] :
        /\ \A i, j \in DOMAIN msgs : i < j => f[i] < f[j]
        /\ \A p \in LineEnds(cells) : \E i \in DOMAIN msgs : f[i] = p
        /\ \A i \in DOMAIN msgs : cells[f[i]][1] = msgs[i]
  BY <1>4 DEF Carries
<1>6. LineEnds(b) \subseteq LineEnds(cells) /\ LineEnds(b) \subseteq 1..Len(b)
  BY <1>1, <1>2, <1>3 DEF LineEnds
<1>7. Len(msgs) # 0 /\ 1 \in DOMAIN msgs
  <2>1. PICK p \in LineEnds(b) : TRUE
    OBVIOUS
  <2>2. PICK i \in DOMAIN msgs : f[i] = p
    BY <1>5, <1>6
  <2> QED BY <1>1, <2>2
<1>8. LineEnds(cells) \subseteq 1..Len(cells)
  BY <1>3 DEF LineEnds
<1>9. \A p \in LineEnds(cells) : f[1] <= p
  <2>1. ASSUME NEW p \in LineEnds(cells) PROVE f[1] <= p
    <3>1. PICK i \in DOMAIN msgs : f[i] = p
      BY <1>5
    <3>2. CASE i = 1
      BY <1>7, <1>8, <3>1, <3>2
    <3>3. CASE i # 1
      <4>1. 1 < i
        BY <1>1, <3>3
      <4>2. f[1] < f[i] /\ f[1] \in Int /\ f[i] \in Int
        BY <1>2, <1>5, <1>7, <1>8, <4>1
      <4> QED BY <3>1, <4>2
    <3> QED BY <3>2, <3>3
  <2> QED BY <2>1
<1>10. f[1] \in LineEnds(b)
  <2>1. PICK p \in LineEnds(b) : TRUE
    OBVIOUS
  <2>2. f[1] \in LineEnds(cells) /\ f[1] <= p
    BY <1>5, <1>6, <1>7, <1>9
  <2>3. f[1] \in 1..Len(b)
    BY <1>1, <1>6, <1>8, <2>1, <2>2
  <2> QED BY <1>1, <1>2, <1>3, <2>2, <2>3 DEF LineEnds
<1>11. n = f[1] /\ n \in LineEnds(b) /\ n \in 1..Len(b) /\ n \in LineEnds(cells)
  <2>1. n \in LineEnds(b) /\ \A j \in LineEnds(b) : n <= j
    BY <1>6, <1>9, <1>10 DEF FirstEnd
  <2>2. n <= f[1] /\ f[1] <= n
    BY <1>6, <1>9, <1>10, <2>1
  <2> QED BY <1>1, <1>6, <1>10, <2>1, <2>2
<1> HIDE DEF n
<1>12. /\ n \in Nat /\ 1 <= n /\ n <= Len(b) /\ Len(b) \in Nat /\ Len(r) \in Nat
        /\ Len(cells) = Len(b) + Len(r) /\ Len(cells) \in Nat
  BY <1>1, <1>2, <1>11
<1>13. \A p \in 1..(n - 1) : cells[p][2] = "begins"
  <2>1. ASSUME NEW p \in 1..(n - 1) PROVE cells[p][2] = "begins"
    <3>1. p \in 1..Len(cells) /\ ~(n <= p)
      BY <1>12
    <3>2. p \notin LineEnds(cells)
      BY <1>9, <1>11, <3>1
    <3>3. cells[p][2] \in Kinds
      BY <1>3, <3>1
    <3> QED BY <1>3, <3>1, <3>2, <3>3 DEF LineEnds, Kinds
  <2> QED BY <2>1
<1>14. cells[n] = <<msgs[1], cells[n][2]>> /\ cells[n][2] \in {"ends", "whole"} /\ n \in 1..Len(cells)
  <2>1. n \in 1..Len(cells) /\ cells[n][2] \in {"ends", "whole"}
    BY <1>3, <1>11 DEF LineEnds
  <2>2. cells[n] \in M \X Kinds
    BY <1>3, <2>1
  <2>3. cells[n][1] = msgs[1]
    BY <1>5, <1>7, <1>11
  <2> QED BY <2>1, <2>2, <2>3
<1>15. Untorn(cells)
  BY <1>4 DEF Carries
<1>16. \/ n = 1 /\ b[1] = Half(msgs[1], "whole")
       \/ n = 2 /\ b[1] = Half(msgs[1], "begins")
  <2>1. CASE cells[n][2] = "ends"
    <3>1. n # 1 /\ cells[n - 1] = Half(msgs[1], "begins")
      BY <1>3, <1>14, <1>15, <2>1 DEF Untorn
    <3>2. n = 2
      <4> SUFFICES ASSUME n # 2 PROVE FALSE
        OBVIOUS
      <4>1. n - 2 \in 1..(n - 1) /\ n - 1 \in 1..(n - 1) /\ n - 2 \in 1..Len(cells)
            /\ n - 2 # Len(cells) /\ (n - 2) + 1 = n - 1
        BY <1>12, <3>1
      <4>2. cells[n - 2][2] = "begins" /\ cells[n - 1][2] = "begins"
        BY <1>13, <4>1
      <4>3. cells[n - 1][2] = "ends"
        BY <1>3, <1>15, <4>1, <4>2 DEF Untorn
      <4> QED BY <4>2, <4>3
    <3>3. cells[1] = b[1]
      BY <1>1, <1>2, <1>11
    <3> QED BY <3>1, <3>2, <3>3
  <2>2. CASE cells[n][2] = "whole"
    <3>1. n = 1
      <4> SUFFICES ASSUME n # 1 PROVE FALSE
        OBVIOUS
      <4>1. n - 1 \in 1..(n - 1) /\ n - 1 \in 1..Len(cells) /\ n - 1 # Len(cells) /\ (n - 1) + 1 = n
        BY <1>12
      <4>2. cells[n - 1][2] = "begins"
        BY <1>13, <4>1
      <4>3. cells[n][2] = "ends"
        BY <1>3, <1>15, <4>1, <4>2 DEF Untorn
      <4> QED BY <2>2, <4>3
    <3>2. cells[1] = b[1]
      BY <1>1, <1>2, <1>11
    <3> QED BY <1>14, <2>2, <3>1, <3>2 DEF Half
  <2> QED BY <1>14, <2>1, <2>2
<1>17. msgs # <<>> /\ Head(msgs) = msgs[1]
  BY <1>1, <1>7, EmptySeq
<1>18. FirstLine(b) = msgs[1]
  <2>1. b[n] = cells[n] /\ b[n][1] = msgs[1]
    BY <1>2, <1>11, <1>14
  <2> QED BY <1>16, <2>1 DEF FirstLine, n
<1>19. /\ d \in Seq(M \X Kinds) /\ Len(d) = Len(b) - n /\ Len(d) \in Nat
       /\ \A i \in 1..(Len(b) - n) : d[i] = b[n + i]
  <2>1. d = SubSeq(b, n + 1, Len(b))
    BY DEF AfterLine, n
  <2> HIDE DEF d
  <2>2. n + 1 \in Int /\ Len(b) \in Int /\ \A i \in (n + 1)..Len(b) : b[i] \in M \X Kinds
    BY <1>1, <1>11, ElementOfSeq
  <2>3. /\ d \in Seq(M \X Kinds) /\ Len(d) = IF n + 1 <= Len(b) THEN Len(b) - (n + 1) + 1 ELSE 0
        /\ \A i \in 1..(Len(b) - (n + 1) + 1) : d[i] = b[(n + 1) + i - 1]
    BY <2>1, <2>2, SubSeqProperties
  <2>4. Len(d) = Len(b) - n /\ Len(b) - n \in Nat
    <3>1. Len(b) - n \in Nat /\ (n + 1 <= Len(b) => Len(b) - (n + 1) + 1 = Len(b) - n)
          /\ (~(n + 1 <= Len(b)) => Len(b) - n = 0)
      BY <1>12
    <3> QED BY <2>3, <3>1
  <2>5. ASSUME NEW i \in 1..(Len(b) - n) PROVE d[i] = b[n + i]
    <3>1. i \in 1..(Len(b) - (n + 1) + 1) /\ (n + 1) + i - 1 = n + i
      BY <1>12
    <3> QED BY <2>3, <3>1
  <2> QED BY <2>3, <2>4, <2>5
<1> HIDE DEF d
<1>20. /\ rest \in Seq(M \X Kinds) /\ Len(rest) = Len(cells) - n /\ Len(rest) \in Nat
       /\ DOMAIN rest = 1..(Len(cells) - n)
       /\ \A i \in 1..(Len(cells) - n) : rest[i] = cells[n + i]
  <2>1. /\ rest \in Seq(M \X Kinds) /\ Len(rest) = Len(d) + Len(r)
        /\ \A i \in 1..(Len(d) + Len(r)) : rest[i] = IF i <= Len(d) THEN d[i] ELSE r[i - Len(d)]
    BY <1>19, ConcatProperties
  <2>2. Len(rest) = Len(cells) - n /\ Len(rest) \in Nat /\ DOMAIN rest = 1..(Len(cells) - n)
    <3>1. Len(rest) = Len(cells) - n /\ Len(rest) \in Nat
      BY <1>12, <1>19, <2>1
    <3> QED BY <2>1, <3>1, LenProperties
  <2>3. ASSUME NEW i \in 1..(Len(cells) - n) PROVE rest[i] = cells[n + i]
    <3>1. i \in 1..(Len(d) + Len(r))
      BY <1>12, <1>19
    <3>2. CASE i <= Len(d)
      <4>1. i \in 1..(Len(b) - n) /\ n + i \in 1..Len(b)
        BY <1>12, <1>19, <3>1, <3>2
      <4> QED BY <1>2, <1>19, <2>1, <3>1, <3>2, <4>1
    <3>3. CASE ~(i <= Len(d))
      <4>0. Len(d) = Len(b) - n
        BY <1>19
      <4>1. i - Len(d) \in 1..Len(r) /\ Len(b) + (i - Len(d)) = n + i
        BY <1>12, <3>1, <3>3, <4>0
      <4>2. cells[Len(b) + (i - Len(d))] = r[i - Len(d)]
        BY <1>2, <4>1
      <4> QED BY <2>1, <3>1, <3>3, <4>1, <4>2
    <3> QED BY <3>2, <3>3
  <2> QED BY <2>1, <2>2, <2>3
<1> HIDE DEF rest
<1>21. /\ t \in Seq(M) /\ DOMAIN t = 1..(Len(msgs) - 1)
       /\ \A i \in 1..(Len(msgs) - 1) : t[i] = msgs[i + 1]
  <2>1. t \in Seq(M) /\ Len(t) = Len(msgs) - 1 /\ \A i \in 1..Len(t) : t[i] = msgs[i + 1]
    BY <1>17, HeadTailProperties
  <2> QED BY <2>1, LenProperties
<1> HIDE DEF t
<1>22. LineEnds(rest) = {p \in 1..(Len(cells) - n) : n + p \in LineEnds(cells)}
  <2>1. \A p \in 1..(Len(cells) - n) : n + p \in 1..Len(cells)
    BY <1>12
  <2> QED BY <1>3, <1>20, <2>1 DEF LineEnds
<1>23. Untorn(rest)
  <2>1. ASSUME NEW p \in DOMAIN rest, rest[p][2] = "ends"
        PROVE  p # 1 /\ rest[p - 1] = Half(rest[p][1], "begins")
    <3>1. n + p \in 1..Len(cells) /\ rest[p] = cells[n + p] /\ n + p # 1 /\ (n + p) - 1 = n + (p - 1)
      <4>1. p \in 1..(Len(cells) - n) /\ rest[p] = cells[n + p]
        BY <1>20
      <4> QED BY <1>12, <4>1
    <3>2. cells[n + (p - 1)] = Half(rest[p][1], "begins")
      BY <1>3, <1>15, <2>1, <3>1 DEF Untorn
    <3>3. p # 1
      <4>1. cells[n][2] # Half(rest[p][1], "begins")[2]
        BY <1>14 DEF Half
      <4>2. p = 1 => n + (p - 1) = n
        BY <1>11
      <4> QED BY <3>2, <4>1, <4>2
    <3>4. p - 1 \in 1..(Len(cells) - n)
      BY <1>20, <3>3
    <3> QED BY <1>20, <3>2, <3>3, <3>4
  <2>2. ASSUME NEW p \in DOMAIN rest, rest[p][2] = "begins", p # Len(rest)
        PROVE  rest[p + 1][2] = "ends"
    <3>1. /\ n + p \in 1..Len(cells) /\ rest[p] = cells[n + p] /\ n + p # Len(cells)
          /\ p + 1 \in 1..(Len(cells) - n) /\ (n + p) + 1 = n + (p + 1)
      <4>1. rest[p] = cells[n + p] /\ p \in 1..(Len(cells) - n) /\ p # Len(cells) - n
        BY <1>20, <2>2
      <4>2. n \in Nat /\ Len(cells) \in Nat /\ p \in Nat /\ 1 <= p /\ p < Len(cells) - n
        BY <1>12, <4>1
      <4>3. \A m \in Nat : p < m - n => /\ n + p \in 1..m /\ n + p # m
                                       /\ p + 1 \in 1..(m - n) /\ (n + p) + 1 = n + (p + 1)
        BY <4>2
      <4> QED BY <4>1, <4>2, <4>3
    <3>2. cells[n + (p + 1)][2] = "ends"
      BY <1>3, <1>15, <2>2, <3>1 DEF Untorn
    <3> QED BY <1>20, <3>1, <3>2
  <2> QED BY <2>1, <2>2 DEF Untorn
<1>24. Carries(rest, t)
  <2> DEFINE g == [i \in DOMAIN t |-> f[i + 1] - n]
  <2>1. \A i \in DOMAIN t : i + 1 \in DOMAIN msgs /\ f[i + 1] \in LineEnds(cells) /\ f[1] < f[i + 1]
    <3>1. ASSUME NEW i \in DOMAIN t
          PROVE  i + 1 \in DOMAIN msgs /\ f[i + 1] \in LineEnds(cells) /\ f[1] < f[i + 1]
      <4>1. i + 1 \in DOMAIN msgs /\ 1 < i + 1
        BY <1>1, <1>21
      <4> QED BY <1>5, <1>7, <4>1
    <3> QED BY <3>1
  <2>2. \A i \in DOMAIN t : f[i + 1] - n \in 1..(Len(cells) - n) /\ n + (f[i + 1] - n) = f[i + 1]
    BY <1>1, <1>2, <1>8, <1>11, <2>1
  <2>3. g \in [DOMAIN t -> LineEnds(rest)]
    BY <1>22, <2>1, <2>2
  <2>4. \A i \in DOMAIN t : g[i] = f[i + 1] - n
    OBVIOUS
  <2> HIDE DEF g
  <2>5. \A i, j \in DOMAIN t : i < j => g[i] < g[j]
    <3>1. ASSUME NEW i \in DOMAIN t, NEW j \in DOMAIN t, i < j PROVE g[i] < g[j]
      <4>1. i + 1 < j + 1
        BY <1>1, <1>21, <3>1
      <4>2. f[i + 1] < f[j + 1] /\ f[i + 1] \in Int /\ f[j + 1] \in Int
        BY <1>2, <1>5, <1>8, <2>1, <4>1
      <4> QED BY <1>11, <2>4, <4>2
    <3> QED BY <3>1
  <2>6. ASSUME NEW p \in LineEnds(rest) PROVE \E i \in DOMAIN t : g[i] = p
    <3>1. p \in 1..(Len(cells) - n) /\ n + p \in LineEnds(cells)
      BY <1>22
    <3>2. PICK k \in DOMAIN msgs : f[k] = n + p
      BY <1>5, <3>1
    <3>3. k # 1
      BY <1>1, <1>2, <1>11, <3>1, <3>2
    <3>4. k - 1 \in DOMAIN t /\ (k - 1) + 1 = k
      BY <1>1, <1>21, <3>3
    <3>5. g[k - 1] = p
      BY SMTT(30), <1>1, <1>11, <2>4, <3>1, <3>2, <3>4
    <3> QED BY <3>4, <3>5
  <2>7. ASSUME NEW i \in DOMAIN t PROVE rest[g[i]][1] = t[i]
    <3>1. g[i] \in 1..(Len(cells) - n) /\ n + g[i] = f[i + 1]
      BY <2>2, <2>4
    <3>2. rest[g[i]] = cells[f[i + 1]]
      BY <1>20, <3>1
    <3> QED BY <1>5, <1>21, <2>1, <3>2
  <2> QED BY <1>23, <2>3, <2>5, <2>6, <2>7 DEF Carries
<1>25. rest # <<>> => rest[Len(rest)] = cells[Len(cells)] /\ cells # <<>>
  <2>1. rest # <<>> => Len(rest) # 0
    BY <1>20, EmptySeq
  <2>2. Len(rest) # 0 => Len(rest) \in 1..(Len(cells) - n) /\ n + Len(rest) = Len(cells)
    BY <1>12, <1>20
  <2>3. cells # <<>>
    BY <1>2, <1>12, EmptySeq
  <2> QED BY <1>20, <2>1, <2>2, <2>3
<1>26. Open(rest) <=> Open(cells)
  <2>1. CASE rest = <<>>
    <3>1. Len(cells) = n
      BY <1>1, <1>2, <1>11, <1>20, <2>1, EmptySeq
    <3> QED BY <1>14, <2>1, <3>1 DEF Open
  <2>2. CASE rest # <<>>
    BY <1>25, <2>2 DEF Open
  <2> QED BY <2>1, <2>2
<1> QED BY <1>17, <1>18, <1>19, <1>24, <1>25, <1>26 DEF rest, d, t, cells

\* As many lines have ended as there are messages.
LEMMA LineCount ==
  ASSUME NEW M, NEW cells \in Seq(M \X Kinds), NEW msgs \in Seq(M), Carries(cells, msgs)
  PROVE  Cardinality(LineEnds(cells)) = Len(msgs)
<1>1. Len(msgs) \in Nat /\ DOMAIN msgs = 1..Len(msgs) /\ Len(cells) \in Nat /\ DOMAIN cells = 1..Len(cells)
  BY LenProperties
<1>2. PICK f \in [DOMAIN msgs -> LineEnds(cells)] :
        /\ \A i, j \in DOMAIN msgs : i < j => f[i] < f[j]
        /\ \A p \in LineEnds(cells) : \E i \in DOMAIN msgs : f[i] = p
  BY DEF Carries
<1>3. LineEnds(cells) \subseteq 1..Len(cells)
  BY <1>1 DEF LineEnds
<1>4. ASSUME NEW i \in DOMAIN msgs, NEW j \in DOMAIN msgs, f[i] = f[j] PROVE i = j
  <2>1. f[i] \in Int /\ f[j] \in Int
    BY <1>1, <1>2, <1>3
  <2> QED BY <1>1, <1>2, <1>4, <2>1
<1>5. f \in Bijection(1..Len(msgs), LineEnds(cells))
  BY <1>1, <1>2, <1>4, Zenon DEF Bijection, Injection, Surjection, IsInjective
<1> QED BY <1>1, <1>5, FS_CountingElements DEF ExistsBijection

\* The lines that end in a buffer and those that end in the pipe behind it.
LEMMA LinesSplit ==
  ASSUME NEW M, NEW b \in Seq(M \X Kinds), NEW r \in Seq(M \X Kinds)
  PROVE  /\ Cardinality(LineEnds(b \o r)) = Cardinality(LineEnds(b)) + Cardinality(LineEnds(r))
         /\ Cardinality(LineEnds(b)) \in Nat /\ Cardinality(LineEnds(r)) \in Nat
<1> DEFINE cells == b \o r
           far == {p \in LineEnds(cells) : p > Len(b)}
<1>1. /\ Len(b) \in Nat /\ Len(r) \in Nat /\ DOMAIN b = 1..Len(b) /\ DOMAIN r = 1..Len(r)
  BY LenProperties
<1>2. /\ DOMAIN cells = 1..(Len(b) + Len(r))
      /\ \A i \in 1..Len(b) : cells[i] = b[i]
      /\ \A i \in 1..Len(r) : cells[Len(b) + i] = r[i]
  <2>1. /\ cells \in Seq(M \X Kinds) /\ Len(cells) = Len(b) + Len(r)
        /\ \A i \in 1..(Len(b) + Len(r)) : cells[i] = IF i <= Len(b) THEN b[i] ELSE r[i - Len(b)]
    BY ConcatProperties
  <2> QED BY <1>1, <2>1, LenProperties
<1> HIDE DEF cells
<1>3. /\ LineEnds(b) = {p \in 1..Len(b) : b[p][2] \in {"ends", "whole"}}
      /\ LineEnds(r) = {p \in 1..Len(r) : r[p][2] \in {"ends", "whole"}}
      /\ LineEnds(cells) = {p \in 1..(Len(b) + Len(r)) : cells[p][2] \in {"ends", "whole"}}
  BY <1>1, <1>2 DEF LineEnds
<1>4. LineEnds(cells) = LineEnds(b) \cup far /\ LineEnds(b) \cap far = {}
  <2>1. \A p \in 1..(Len(b) + Len(r)) : p > Len(b) \/ p \in 1..Len(b)
    BY <1>1
  <2>2. 1..Len(b) \subseteq 1..(Len(b) + Len(r)) /\ \A p \in 1..Len(b) : ~(p > Len(b))
    BY <1>1
  <2> QED BY <1>2, <1>3, <2>1, <2>2
<1>5. IsFiniteSet(LineEnds(b)) /\ IsFiniteSet(LineEnds(r))
  <2>1. IsFiniteSet(1..Len(b)) /\ IsFiniteSet(1..Len(r))
    BY <1>1, FS_Interval
  <2>2. LineEnds(b) \subseteq 1..Len(b) /\ LineEnds(r) \subseteq 1..Len(r)
    BY <1>3
  <2> QED BY <2>1, <2>2, FS_Subset
<1>6. IsFiniteSet(far) /\ Cardinality(far) = Cardinality(LineEnds(r))
  <2> DEFINE h == [p \in LineEnds(r) |-> Len(b) + p]
  <2>1. \A p \in LineEnds(r) : Len(b) + p \in far
    BY <1>1, <1>2, <1>3
  <2>2. ASSUME NEW q \in far PROVE q - Len(b) \in LineEnds(r) /\ h[q - Len(b)] = q
    <3>1. q \in 1..(Len(b) + Len(r)) /\ q > Len(b) /\ cells[q][2] \in {"ends", "whole"}
      BY <1>3
    <3>2. q - Len(b) \in 1..Len(r) /\ Len(b) + (q - Len(b)) = q
      BY <1>1, <3>1
    <3>3. r[q - Len(b)] = cells[q]
      BY <1>2, <3>2
    <3> QED BY <1>3, <3>1, <3>2, <3>3
  <2>3. \A p, q \in LineEnds(r) : h[p] = h[q] => p = q
    BY <1>1, <1>3
  <2>4. h \in [LineEnds(r) -> far]
    BY <2>1
  <2> HIDE DEF h, far
  <2>5. h \in Bijection(LineEnds(r), far)
    BY <2>2, <2>3, <2>4, Zenon DEF Bijection, Injection, Surjection, IsInjective
  <2> QED BY <1>5, <2>5, FS_Bijection DEF ExistsBijection
<1> HIDE DEF far
<1>7. Cardinality(LineEnds(cells)) = Cardinality(LineEnds(b)) + Cardinality(far)
  <2>1. Cardinality(LineEnds(b) \cap far) = 0
    BY <1>4, FS_EmptySet
  <2>2. Cardinality(LineEnds(b) \cup far) =
          Cardinality(LineEnds(b)) + Cardinality(far) - Cardinality(LineEnds(b) \cap far)
    BY <1>5, <1>6, FS_Union
  <2>3. Cardinality(LineEnds(b)) \in Nat /\ Cardinality(far) \in Nat
    BY <1>5, <1>6, FS_CardinalityType
  <2> QED BY <1>4, <2>1, <2>2, <2>3
<1> QED BY <1>5, <1>6, <1>7, FS_CardinalityType DEF cells

-----------------------------------------------------------------------------
(* The inductive invariant of the session, part 1: types *)

Messages ==
  {"hello", "hello_ack", "noise", "garbled", "e", "s", "er", "sr"} \X Nat
Requests == {"hello", "e", "s"} \X Nat
Cells == Messages \X Kinds

Typed ==
  /\ outcome \in [Seqs -> Outcomes] /\ mtype \in [Seqs -> {ECHO, STATUS}]
  /\ main \in MainLabels /\ pc \in [Threads -> Labels]
  /\ offered \in Nat /\ wire_sent \in Nat /\ received \in Nat /\ late \in Nat
  /\ status_sent \in Nat /\ status_received \in Nat
  /\ remote_noise \in Nat /\ protocol_errors \in Nat
  /\ seq \in Nat /\ size \in Sizes /\ marked \subseteq Seqs /\ txq \in Seq(Seqs)
  /\ sched_stop \in BOOLEAN /\ stopped \in BOOLEAN
  /\ item \in [{"send", "probe"} -> Seqs \cup {0}]
  /\ stdio_lock \in {"free", "send", "probe"}
  /\ stdin_closed \in BOOLEAN /\ stdout_closed \in BOOLEAN /\ alive \in BOOLEAN
  /\ buf \in Seq(Cells) /\ to_client \in Seq(Cells)
  /\ server_buf \in Seq(Cells) /\ to_server \in Seq(Cells)
  /\ server \in ServerLabels /\ reply \in Messages
  /\ echo_rx \in Nat /\ echo_tx \in Nat
  /\ requests \in Seq(Requests) /\ replies \in Seq(Messages) /\ stray \in Nat

-----------------------------------------------------------------------------
(* Part 2: the phases of start() and stop(), and the lock of the pipe *)

Phases ==
  /\ main \in {"start", "hello", "hello lines", "gone"} => \A th \in Threads : pc[th] = "none"
  /\ main = "start" => requests = <<>> /\ to_server = <<>> /\ server_buf = <<>>
                       /\ server \in {"read", "returned"}
  /\ main \in {"grace", "close stdin", "terminate", "join", "stopped"} => sched_stop
  /\ main \in {"close stdin", "terminate", "join", "stopped"} => stopped
  /\ main \in {"join", "stopped"} => ~alive
  /\ main = "stopped" => WithOutcome("open") = {} /\ \A th \in Threads : Over(th)

Locked ==
  /\ \A th \in {"send", "probe"} : stdio_lock = th <=> pc[th] = "rest"
  /\ pc["read"] = "lines" => LineEnds(buf) # {}
  /\ server = "lines" => LineEnds(server_buf) # {}
  /\ pc["schedule"] \in {"none", "loop", "crashed"}

-----------------------------------------------------------------------------
(* Part 3: the lines in the pipes and in the buffers behind them *)

Up   == server_buf \o to_server
Down == buf \o to_client
Answering == server \in {"begin", "rest"}
Unread == IF Answering THEN Tail(requests) ELSE requests

\* The remote end writes one line at a time, and is inside one at "rest" only.
RepliesWhole ==
  /\ Carries(Down, replies)
  /\ alive => (Open(Down) <=> server = "rest")
  /\ alive /\ server = "rest" => Last(Down) = Half(reply, "begins")

\* Two threads write requests, the one that has the lock is inside a line.
RequestsWhole ==
  /\ Answering => requests # <<>> /\ reply = Response(Head(requests))
  /\ alive => Carries(Up, Unread)
  /\ alive /\ main # "gone" => (Open(Up) <=> stdio_lock # "free")
  /\ alive /\ stdio_lock # "free" => Last(Up) = Half(Request(item[stdio_lock]), "begins")

-----------------------------------------------------------------------------
(* Part 4: whose the requests are, and the counters *)

One(p) == IF p THEN 1 ELSE 0

Echoes == {s \in Seqs : outcome[s] # "idle" /\ mtype[s] = ECHO}

Numbered ==
  /\ \A s \in Seqs : s > seq => outcome[s] = "idle"
  /\ seq = offered + Cardinality(Probes)
  /\ offered <= MaxEchoes /\ Cardinality(Probes) <= MaxProbes

Genuine(m) ==
  /\ m[1] \in {"e", "er"} => m[2] \in Echoes
  /\ m[1] \in {"s", "sr"} => m[2] \in Probes

GenuineOf(M) == {m \in M : Genuine(m)}

Owned ==
  /\ txq \in Seq(Echoes)
  /\ pc["send"] \in {"write", "rest"} => item["send"] \in Echoes
  /\ pc["probe"] \in {"write", "rest"} => item["probe"] \in Probes
  /\ requests \in Seq(GenuineOf(Requests))
  /\ replies \in Seq(GenuineOf(Messages))

Done(T) == {s \in T : outcome[s] = "answered"}
LostOf(T) == {s \in T : outcome[s] = "lost"}

Settled ==
  /\ received = Cardinality(Done(Echoes))
  /\ status_received = Cardinality(Done(Probes))
  /\ lost = Cardinality(LostOf(Echoes))
  /\ Cardinality(Echoes) <= offered
  /\ main # "gone" => offered = Cardinality(Echoes) + One(pc["schedule"] = "crashed")

Sent ==
  /\ wire_sent + Len(txq) + One(pc["send"] \in {"write", "rest"}) <= Cardinality(Echoes)
  /\ status_sent + One(pc["probe"] \in {"write", "rest"}) <= Cardinality(Probes)
  /\ late <= received

Kind(msgs, K) == {i \in DOMAIN msgs : msgs[i][1] \in K}

Handled ==
  /\ received + Cardinality(Kind(replies, {"er"})) <= echo_tx
  /\ echo_tx + One(Answering /\ reply[1] = "er") <= echo_rx
  /\ remote_noise + protocol_errors + Cardinality(Kind(replies, {"noise", "garbled"})) <= stray

Bounded == Len(to_server) <= RequestCap /\ Len(to_client) <= ResponseCap

SInv ==
  /\ Typed /\ Phases /\ Locked /\ RepliesWhole /\ RequestsWhole
  /\ Numbered /\ Owned /\ Settled /\ Sent /\ Handled /\ Bounded

-----------------------------------------------------------------------------
(* Part 5: main() *)

Early == {"argv", "parsed"}
Untroubled == Early \cup {"usage", "serve", "popen", "security", "start", "pump", "report"}

Run ==
  /\ proc \in ProcLabels /\ stop \in BOOLEAN /\ unit \in BOOLEAN /\ code \in 0..2
  /\ plan = [mode |-> plan.mode, web |-> plan.web, tls |-> plan.tls]
  /\ plan.mode \in Modes /\ plan.web \in {"no", "yes", "unreadable"}
  /\ dash \in {"none", "open", "closed"} /\ peer \in {"none", "running", "failed", "stopped"}
  /\ proc \in Early => plan.mode = "none" /\ peer = "none" /\ main = "start"
  /\ proc = "usage" => plan.mode = "client"
  /\ proc = "serve" => plan.mode = "stdio server"
  /\ proc = "popen" => plan.mode = "ssh"
  /\ Ssh => peer = "none"
  /\ proc \in Untroubled => trouble = "none" /\ code = 0
  /\ proc = "stop" => trouble \in {"none", "start", "web"} /\ code = 0
  /\ dash = "open" => proc \in {"pump", "stop", "report"}

Unwound == {"popen", "security", "pump"}

Ending ==
  /\ Ssh /\ main = "gone" => proc = "exited" /\ trouble \in Unwound
  /\ Ssh /\ proc \in {"popen", "security"} => main = "start"
  /\ Ssh /\ proc = "report" => main = "stopped"
  /\ Ssh /\ proc = "exited" =>
       /\ code = IF trouble # "none" \/ (wire_sent > 0 /\ received = 0) THEN 1 ELSE 0
       /\ main = IF trouble \in Unwound THEN "gone" ELSE "stopped"

MInv == Run /\ Ending

-----------------------------------------------------------------------------
(* Steps *)

\* What main() lets happen to the session.
SessionStep == SessionNext \/ Gone(FALSE) \/ Gone(alive) \/ UNCHANGED sessionVars

\* Every step of the process is a step of the session, ends it, or leaves it
\* alone.
LEMMA MainSteps ==
  ASSUME [MainNext]_allVars
  PROVE  SessionStep
<1>1. CASE CommandLine
  BY <1>1 DEF CommandLine, Parse, ParseEnds, Dispatch, UsageExit, earlyRest, SessionStep
<1>2. CASE Popen \/ Security \/ PeerStart \/ Started \/ StartFailed \/ StartWebFails
  BY <1>2 DEF Popen, Security, PeerStart, Started, StartFailed, StartWebFails, SessionStep
<1>3. CASE StopPeer \/ Stopped \/ Report \/ ReportFails \/ Serve \/ Output \/ Pump \/ Signal \/ Finished
  BY <1>3 DEF StopPeer, Stopped, Report, ReportFails, Serve, Output, OutputBegins, OutputEnds, Pump, Signal,
     Finished, SessionStep, allVars
<1>4. CASE PopenFails \/ SecurityFails \/ PumpBroken
  BY <1>4 DEF PopenFails, SecurityFails, PumpBroken, SessionStep
<1>5. CASE Within(SessionNext)
  BY <1>5 DEF Within, SessionStep
<1>6. CASE UNCHANGED allVars
  BY <1>6 DEF allVars, SessionStep
<1> QED BY <1>1, <1>2, <1>3, <1>4, <1>5, <1>6 DEF MainNext, Main

-----------------------------------------------------------------------------
(* Lines *)

\* The numbers of the requests, and the kinds of request.
LEMMA SmallSets == Seqs \subseteq Nat /\ IsFiniteSet(Seqs) /\ ECHO # STATUS
<1>1. MaxEchoes + MaxProbes \in Nat /\ Seqs = 1..(MaxEchoes + MaxProbes) /\ ECHO # STATUS
  BY SessionAssumption
<1> QED BY <1>1, FS_Interval

\* The client splits off a line: it is the oldest reply.
LEMMA DownLine ==
  ASSUME Typed, RepliesWhole, LineEnds(buf) # {}
  PROVE  /\ replies # <<>> /\ FirstLine(buf) = Head(replies) /\ Head(replies) \in Messages
         /\ AfterLine(buf) \in Seq(Cells) /\ Tail(replies) \in Seq(Messages)
         /\ Carries(AfterLine(buf) \o to_client, Tail(replies))
         /\ Open(AfterLine(buf) \o to_client) <=> Open(Down)
         /\ AfterLine(buf) \o to_client # <<>> => Last(AfterLine(buf) \o to_client) = Last(Down)
<1>1. /\ buf \in Seq(Messages \X Kinds) /\ to_client \in Seq(Messages \X Kinds)
      /\ replies \in Seq(Messages) /\ Carries(buf \o to_client, replies)
  BY DEF Typed, Cells, RepliesWhole, Down
<1>2. /\ replies # <<>> /\ FirstLine(buf) = Head(replies) /\ AfterLine(buf) \in Seq(Messages \X Kinds)
      /\ Carries(AfterLine(buf) \o to_client, Tail(replies))
      /\ Open(AfterLine(buf) \o to_client) <=> Open(buf \o to_client)
      /\ AfterLine(buf) \o to_client # <<>> =>
            (AfterLine(buf) \o to_client)[Len(AfterLine(buf) \o to_client)]
              = (buf \o to_client)[Len(buf \o to_client)]
  BY ZenonT(60), <1>1, CutLine
<1>3. Head(replies) \in Messages /\ Tail(replies) \in Seq(Messages)
  BY <1>1, <1>2, HeadTailProperties
<1> QED BY <1>2, <1>3 DEF Down, Last, Cells

\* The server splits off a line: it is the oldest request not yet read.
LEMMA UpLine ==
  ASSUME Typed, RequestsWhole, alive, server = "lines", LineEnds(server_buf) # {}
  PROVE  /\ requests # <<>> /\ FirstLine(server_buf) = Head(requests) /\ Head(requests) \in Requests
         /\ AfterLine(server_buf) \in Seq(Cells) /\ Tail(requests) \in Seq(Requests)
         /\ Carries(AfterLine(server_buf) \o to_server, Tail(requests))
         /\ Open(AfterLine(server_buf) \o to_server) <=> Open(Up)
         /\ AfterLine(server_buf) \o to_server # <<>> =>
              Last(AfterLine(server_buf) \o to_server) = Last(Up)
<1>0. requests \in Seq(Requests)
  BY DEF Typed
<1>1. /\ server_buf \in Seq(Messages \X Kinds) /\ to_server \in Seq(Messages \X Kinds)
      /\ Carries(server_buf \o to_server, requests)
  BY DEF Typed, Cells, RequestsWhole, Up, Unread, Answering
<1>2. requests \in Seq(Messages)
  <2>1. Requests \subseteq Messages
    BY DEF Requests, Messages
  <2> QED BY <1>0, <2>1, SeqMonotonic
<1>3. /\ requests # <<>> /\ FirstLine(server_buf) = Head(requests)
      /\ AfterLine(server_buf) \in Seq(Messages \X Kinds)
      /\ Carries(AfterLine(server_buf) \o to_server, Tail(requests))
      /\ Open(AfterLine(server_buf) \o to_server) <=> Open(server_buf \o to_server)
      /\ AfterLine(server_buf) \o to_server # <<>> =>
            (AfterLine(server_buf) \o to_server)[Len(AfterLine(server_buf) \o to_server)]
              = (server_buf \o to_server)[Len(server_buf \o to_server)]
  BY ZenonT(60), <1>1, <1>2, CutLine
<1>4. Head(requests) \in Requests /\ Tail(requests) \in Seq(Requests)
  BY <1>0, <1>3, HeadTailProperties
<1> QED BY <1>3, <1>4 DEF Up, Last, Cells

\* A request has a response of its own, and is no noise.
LEMMA ResponseFacts ==
  ASSUME NEW m \in Requests
  PROVE  /\ Response(m) \in Messages /\ m # Noise /\ m \in Messages
         /\ m[1] \in {"hello", "e", "s"} /\ m[2] \in Nat
         /\ Response(m)[1] = "er" <=> m[1] = "e"
         /\ Response(m)[1] = "sr" <=> m[1] = "s"
         /\ Response(m)[1] \in {"hello_ack", "er", "sr"}
         /\ m[1] \in {"e", "s"} => Response(m)[2] = m[2]
<1>1. m = <<m[1], m[2]>> /\ m[1] \in {"hello", "e", "s"} /\ m[2] \in Nat
  BY DEF Requests
<1>2. CASE m[1] = "hello"
  <2>1. Response(m) = <<"hello_ack", 0>>
    BY <1>2 DEF Response
  <2> QED BY <1>1, <1>2, <2>1 DEF Messages, Noise
<1>3. CASE m[1] = "e"
  <2>1. Response(m) = <<"er", m[2]>>
    BY <1>3 DEF Response
  <2> QED BY <1>1, <1>3, <2>1 DEF Messages, Noise
<1>4. CASE m[1] = "s"
  <2>1. Response(m) = <<"sr", m[2]>>
    BY <1>4 DEF Response
  <2> QED BY <1>1, <1>4, <2>1 DEF Messages, Noise
<1> QED BY <1>1, <1>2, <1>3, <1>4

\* What a request looks like on the wire.
LEMMA RequestFacts ==
  ASSUME NEW s \in Seqs
  PROVE  Request(s) \in Requests /\ Request(s)[2] = s
         /\ (mtype[s] = ECHO => Request(s)[1] = "e") /\ (mtype[s] # ECHO => Request(s)[1] = "s")
<1>1. s \in Nat
  BY SmallSets
<1>2. CASE mtype[s] = ECHO
  BY <1>1, <1>2 DEF Request, Requests
<1>3. CASE mtype[s] # ECHO
  BY <1>1, <1>3 DEF Request, Requests
<1> QED BY <1>2, <1>3

\* The next number is one of Seqs: there is a bound on either kind.
LEMMA NextNumber ==
  ASSUME Typed, Numbered, offered < MaxEchoes \/ Cardinality(Probes) < MaxProbes
  PROVE  seq + 1 \in Seqs
<1>1. Probes \subseteq Seqs
  BY DEF Probes
<1>2. IsFiniteSet(Probes)
  BY <1>1, SmallSets, FS_Subset
<1>3. Cardinality(Probes) \in Nat
  BY <1>2, FS_CardinalityType
<1>4. seq \in Nat /\ offered \in Nat
  BY DEF Typed
<1>5. MaxEchoes \in Nat /\ MaxProbes \in Nat /\ Seqs = 1..(MaxEchoes + MaxProbes)
  BY SessionAssumption
<1> HIDE DEF Probes
<1> QED BY <1>3, <1>4, <1>5 DEF Numbered

\* The five threads of the client.
LEMMA ThreadIs == Threads = {"schedule", "send", "probe", "read", "reap"}
BY DEF Threads

\* A thread moves on, the others stay.
LEMMA StepTyped ==
  ASSUME Typed, NEW th \in Threads, NEW a, NEW b \in Labels, Step(th, a, b)
  PROVE  /\ pc' \in [Threads -> Labels] /\ pc[th] = a /\ pc'[th] = b
         /\ \A o \in Threads : o # th => pc'[o] = pc[o]
BY DEF Typed, Step

\* A sweep of the ledger keeps its type ...
LEMMA GiveUpTyped ==
  ASSUME Typed, NEW L, NEW U, GiveUp(L, U)
  PROVE  outcome' \in [Seqs -> Outcomes] /\ mtype' = mtype
BY DEF GiveUp, Typed, Outcomes

\* ... and so does an offer, which touches one request.
LEMMA OfferTyped ==
  ASSUME Typed, NEW s \in Seqs, NEW m \in {ECHO, STATUS}, Offer(s, m)
  PROVE  /\ outcome' \in [Seqs -> Outcomes] /\ mtype' \in [Seqs -> {ECHO, STATUS}]
         /\ outcome'[s] = "open" /\ mtype'[s] = m /\ outcome[s] = "idle"
         /\ \A r \in Seqs : r # s => outcome'[r] = outcome[r] /\ mtype'[r] = mtype[r]
BY DEF Typed, Offer, Outcomes

\* A half line is a cell.
LEMMA PutCell ==
  ASSUME NEW cells \in Seq(Cells), NEW m \in Messages, NEW k \in Kinds
  PROVE  Append(cells, Half(m, k)) \in Seq(Cells)
<1>1. Half(m, k) \in Cells
  BY DEF Half, Cells
<1> QED BY <1>1, AppendProperties

\* What a read takes from a pipe, and what it leaves.
LEMMA TakeCells ==
  ASSUME NEW S, NEW p \in Seq(S), NEW n \in 1..Len(p)
  PROVE  /\ SubSeq(p, 1, n) \in Seq(S) /\ SubSeq(p, n + 1, Len(p)) \in Seq(S)
         /\ SubSeq(p, 1, n) \o SubSeq(p, n + 1, Len(p)) = p
<1> DEFINE h == SubSeq(p, 1, n)
           t == SubSeq(p, n + 1, Len(p))
           c == h \o t
<1>1. Len(p) \in Nat /\ n \in Nat /\ 1 <= n /\ n <= Len(p) /\ DOMAIN p = 1..Len(p)
  BY LenProperties
<1>2. h \in Seq(S) /\ Len(h) = n /\ \A i \in 1..n : h[i] = p[i]
  <2>1. 1 \in Int /\ n \in Int /\ \A i \in 1..n : p[i] \in S
    BY <1>1, ElementOfSeq
  <2>2. h \in Seq(S) /\ Len(h) = (IF 1 <= n THEN n - 1 + 1 ELSE 0)
        /\ \A i \in 1..(n - 1 + 1) : h[i] = p[1 + i - 1]
    BY <2>1, SubSeqProperties
  <2> HIDE DEF h
  <2>3. ASSUME NEW i \in 1..n PROVE h[i] = p[i]
    <3>1. i \in 1..(n - 1 + 1) /\ 1 + i - 1 = i
      BY <1>1
    <3> QED BY <2>2, <3>1
  <2> QED BY <1>1, <2>2, <2>3
<1>3. t \in Seq(S) /\ Len(t) = Len(p) - n /\ \A i \in 1..(Len(p) - n) : t[i] = p[n + i]
  <2>1. n + 1 \in Int /\ Len(p) \in Int /\ \A i \in (n + 1)..Len(p) : p[i] \in S
    BY <1>1, ElementOfSeq
  <2>2. t \in Seq(S) /\ Len(t) = (IF n + 1 <= Len(p) THEN Len(p) - (n + 1) + 1 ELSE 0)
        /\ \A i \in 1..(Len(p) - (n + 1) + 1) : t[i] = p[(n + 1) + i - 1]
    BY <2>1, SubSeqProperties
  <2> HIDE DEF t
  <2>3. ASSUME NEW i \in 1..(Len(p) - n) PROVE t[i] = p[n + i]
    <3>1. i \in 1..(Len(p) - (n + 1) + 1) /\ (n + 1) + i - 1 = n + i
      BY <1>1
    <3> QED BY <2>2, <3>1
  <2>4. Len(t) = Len(p) - n
    <3>1. CASE n + 1 <= Len(p)
      <4>1. Len(t) = Len(p) - (n + 1) + 1
        BY <2>2, <3>1
      <4> QED BY <1>1, <4>1
    <3>2. CASE ~(n + 1 <= Len(p))
      <4>1. Len(t) = 0
        BY <2>2, <3>2
      <4>2. Len(p) \in Nat /\ n \in Nat /\ n <= Len(p)
        BY <1>1
      <4>3. Len(p) - n = 0
        BY <3>2, <4>2
      <4> QED BY <4>1, <4>3
    <3> QED BY <3>1, <3>2
  <2> QED BY <2>2, <2>3, <2>4
<1> HIDE DEF h, t
<1>4. c \in Seq(S) /\ Len(c) = Len(h) + Len(t)
      /\ \A i \in 1..(Len(h) + Len(t)) : c[i] = IF i <= Len(h) THEN h[i] ELSE t[i - Len(h)]
  BY <1>2, <1>3, ConcatProperties
<1> HIDE DEF c
<1>5. Len(c) = Len(p)
  BY <1>1, <1>2, <1>3, <1>4
<1>6. ASSUME NEW i \in 1..Len(c) PROVE c[i] = p[i]
  <2>1. i \in 1..(Len(h) + Len(t))
    BY <1>4
  <2>2. CASE i <= Len(h)
    <3>1. i \in 1..n
      BY <1>1, <1>2, <2>1, <2>2
    <3> QED BY <1>2, <1>4, <2>1, <2>2, <3>1
  <2>3. CASE ~(i <= Len(h))
    <3>1. i - n \in 1..(Len(p) - n) /\ n + (i - n) = i /\ Len(h) = n
      BY <1>1, <1>2, <1>3, <2>1, <2>3
    <3> QED BY <1>3, <1>4, <2>1, <2>3, <3>1
  <2> QED BY <2>2, <2>3
<1>7. c = p
  BY <1>4, <1>5, <1>6, SeqEqual
<1> QED BY <1>2, <1>3, <1>7 DEF h, t, c

\* Every step keeps the types; that a number drawn is a request follows from the
\* bounds on them, that an answer is, from whose the lines are.
LEMMA NextTyped ==
  ASSUME Typed, Locked, RepliesWhole, RequestsWhole, Numbered, Owned, SessionStep
  PROVE  Typed'
<1> USE DEF Typed
<1>1. CASE HelloWrite
  <2>1. Hello \in Requests /\ Hello \in Messages
    BY DEF Hello, Requests, Messages
  <2>2. Half(Hello, "whole") \in Cells
    BY <2>1 DEF Half, Cells, Kinds
  <2>3. <<Half(Hello, "whole")>> \in Seq(Cells) /\ <<Hello>> \in Seq(Requests)
    <3> DEFINE c == Half(Hello, "whole")
               h == Hello
    <3> HIDE DEF c, h
    <3>1. c \in Cells /\ h \in Requests
      BY <2>1, <2>2 DEF c, h
    <3>2. <<c>> \in Seq(Cells) /\ <<h>> \in Seq(Requests)
      BY <3>1
    <3> QED BY <3>2 DEF c, h
  <2>4. main' \in MainLabels
    BY <1>1 DEF HelloWrite, MainLabels
  <2>5. to_server' \in Seq(Cells)
    BY <1>1, <2>3 DEF HelloWrite
  <2>6. requests' \in Seq(Requests)
    BY <1>1, <2>3 DEF HelloWrite
  <2> QED BY <1>1, <2>4, <2>5, <2>6 DEF HelloWrite, mainRest, report, sendCounts, answerCounts, requestVars,
             serverVars, vars, noise, flags, ends
<1>2. CASE HelloRead
  <2>1. PICK n \in 1..Len(to_client) : /\ buf' = buf \o SubSeq(to_client, 1, n)
                                       /\ to_client' = SubSeq(to_client, n + 1, Len(to_client))
    BY <1>2 DEF HelloRead
  <2>2. buf' \in Seq(Cells) /\ to_client' \in Seq(Cells) /\ main' \in MainLabels
    BY <1>2, <2>1, TakeCells, ConcatProperties DEF HelloRead, MainLabels
  <2> QED BY <1>2, <2>2 DEF HelloRead, mainRest, report, sendCounts, answerCounts, requestVars,
             serverVars, vars, noise, flags, ends
<1>3. CASE HelloFail
  BY <1>3 DEF HelloFail, mainRest, report, sendCounts, answerCounts, requestVars,
     serverVars, vars, noise, flags, ends, MainLabels
<1>4. CASE HelloLine
  <2>1. main' \in MainLabels
    BY <1>4 DEF HelloLine, MainLabels
  <2>2. pc' \in [Threads -> Labels]
    <3>1. [th \in Threads |-> "loop"] \in [Threads -> Labels]
      BY DEF Labels
    <3> QED BY <1>4, <3>1 DEF HelloLine
  <2>3. remote_noise' \in Nat
    <3>1. remote_noise' = remote_noise \/ remote_noise' = remote_noise + 1
      BY <1>4 DEF HelloLine
    <3> QED BY <3>1
  <2>4. buf' \in Seq(Cells) /\ replies' \in Seq(Messages)
    BY <1>4, DownLine DEF HelloLine
  <2> QED BY <1>4, <2>1, <2>2, <2>3, <2>4 DEF HelloLine, mainRest, report, sendCounts, answerCounts,
         requestVars, serverVars, vars, noise, flags, ends
<1>5. CASE StopCall \/ StopSet \/ StopStdin \/ StopWait
  BY ZenonT(60), <1>5 DEF StopCall, StopSet, StopStdin, StopWait, Stop, stopRest, mainRest, report, sendCounts,
     answerCounts, requestVars, serverVars, vars, noise, flags, MainLabels
<1>6. CASE StopJoin
  <2>1. outcome' \in [Seqs -> Outcomes] /\ mtype' = mtype
    BY <1>6, GiveUpTyped DEF StopJoin
  <2> QED BY <1>6, <2>1 DEF StopJoin, Stop, stopRest, mainRest, report, sendCounts, answerCounts,
             requestVars, serverVars, noise, flags, MainLabels
<1>7. CASE SchedOffer
  <2>1. seq + 1 \in Seqs
    BY <1>7, NextNumber DEF SchedOffer
  <2>2. outcome' \in [Seqs -> Outcomes] /\ mtype' \in [Seqs -> {ECHO, STATUS}]
    BY <1>7, <2>1, OfferTyped DEF SchedOffer, vars
  <2>3. txq' \in Seq(Seqs)
    <3>1. txq' = txq \/ txq' = Append(txq, seq + 1)
      BY <1>7 DEF SchedOffer
    <3>2. Append(txq, seq + 1) \in Seq(Seqs)
      BY <2>1, AppendProperties
    <3> QED BY <3>1, <3>2
  <2>4. pc' \in [Threads -> Labels]
    <3>1. PICK b \in {"loop", "crashed"} : Step("schedule", "loop", b)
      BY <1>7 DEF SchedOffer
    <3> QED BY <3>1, ThreadIs, StepTyped DEF Labels
  <2>5. offered' \in Nat /\ seq' \in Nat
    BY <1>7 DEF SchedOffer
  <2> QED BY <1>7, <2>2, <2>3, <2>4, <2>5 DEF SchedOffer, offWire, writerRest, answerCounts, noise,
         ends, serverVars
<1>8. CASE SendGet
  <2>1. Head(txq) \in Seqs /\ Tail(txq) \in Seq(Seqs)
    BY <1>8, HeadTailProperties DEF SendGet
  <2>2. pc' \in [Threads -> Labels] /\ txq' \in Seq(Seqs) /\ item' \in [{"send", "probe"} -> Seqs \cup {0}]
    BY <1>8, <2>1 DEF SendGet, Step, Labels
  <2> QED BY <1>8, <2>2 DEF SendGet, offWire, writerRest, answerCounts, noise, ends, serverVars, vars
<1>9. CASE ProbeDue
  <2>1. seq + 1 \in Seqs
    BY <1>9, NextNumber DEF ProbeDue
  <2>2. outcome' \in [Seqs -> Outcomes] /\ mtype' \in [Seqs -> {ECHO, STATUS}]
    BY <1>9, <2>1, OfferTyped DEF ProbeDue
  <2>3. pc' \in [Threads -> Labels]
    BY <1>9, ThreadIs, StepTyped DEF ProbeDue, Labels
  <2>4. item' \in [{"send", "probe"} -> Seqs \cup {0}]
    BY <1>9, <2>1 DEF ProbeDue
  <2>5. seq' \in Nat
    BY <1>9 DEF ProbeDue
  <2> QED BY <1>9, <2>2, <2>3, <2>4, <2>5 DEF ProbeDue, offWire, writerRest, answerCounts, noise, ends,
         serverVars
<1>10. ASSUME NEW th \in {"send", "probe"}, Write(th) PROVE Typed'
  <2>1. CASE WriteClosed(th)
    BY <2>1 DEF WriteClosed, Step, Labels, offWire, writerRest, answerCounts, noise, ends, serverVars, vars
  <2>2. CASE WriteFail(th)
    <3>1. outcome' \in [Seqs -> Outcomes] /\ mtype' = mtype
      BY <2>2, GiveUpTyped DEF WriteFail
    <3>2. pc' \in [Threads -> Labels] /\ stdio_lock' = "free" /\ stopped' \in BOOLEAN
      <4>1. stopped' = (stopped \/ th = "send") /\ stdio_lock' = "free"
        BY <2>2 DEF WriteFail
      <4>2. pc' \in [Threads -> Labels]
        BY <2>2 DEF WriteFail, Step, Labels
      <4> QED BY <4>1, <4>2
    <3> QED BY <2>2, <3>1, <3>2 DEF WriteFail, writerRest, sendCounts, answerCounts, noise, ends, serverVars
  <2>3. CASE WriteBegin(th) \/ WriteRest(th)
    <3>1. item[th] \in Seqs
      <4>1. pc[th] \in {"write", "rest"}
        BY <2>3 DEF WriteBegin, WriteRest, Step
      <4> QED BY <4>1 DEF Owned, Echoes, Probes
    <3>2. Request(item[th]) \in Requests /\ Request(item[th]) \in Messages
      BY <3>1, RequestFacts, ResponseFacts
    <3>3. \A k \in Kinds : Append(to_server, Half(Request(item[th]), k)) \in Seq(Cells)
      BY <3>2, PutCell
    <3>4. to_server' \in Seq(Cells)
      BY <2>3, <3>3 DEF WriteBegin, WriteRest, Kinds
    <3>5. CASE WriteBegin(th)
      BY <3>4, <3>5 DEF WriteBegin, Step, Labels, writerRest, sendCounts, answerCounts, noise, ends,
         serverVars, vars
    <3>6. CASE WriteRest(th)
      <4>1. requests' \in Seq(Requests)
        BY <3>2, <3>6, AppendProperties DEF WriteRest
      <4>2. pc' \in [Threads -> Labels]
        BY <3>6 DEF WriteRest, Step, Labels
      <4>3. marked' \subseteq Seqs /\ wire_sent' \in Nat /\ status_sent' \in Nat
        BY SMTT(30), <3>1, <3>6 DEF WriteRest
      <4> QED BY <3>4, <3>6, <4>1, <4>2, <4>3 DEF WriteRest, writerRest, answerCounts, noise, ends,
                 serverVars, vars
    <3> QED BY <2>3, <3>5, <3>6
  <2> QED BY <1>10, <2>1, <2>2, <2>3 DEF Write
<1>11. CASE ReadChunk
  <2>1. buf' \in Seq(Cells) /\ to_client' \in Seq(Cells) /\ pc' \in [Threads -> Labels]
    <3>1. buf' \in Seq(Cells) /\ to_client' \in Seq(Cells)
      BY <1>11, ConcatProperties DEF ReadChunk
    <3>2. pc' \in [Threads -> Labels]
      BY <1>11 DEF ReadChunk, Step, AfterRead, Labels
    <3> QED BY <3>1, <3>2
  <2> QED BY <1>11, <2>1 DEF ReadChunk, readerRest, sendCounts, requestVars, ends, serverVars, vars,
             answerCounts, noise
<1>12. CASE ReadLine
  <2>1. buf' \in Seq(Cells) /\ replies' \in Seq(Messages)
    BY <1>12, DownLine DEF ReadLine, Locked
  <2>2. pc' \in [Threads -> Labels] /\ stopped' \in BOOLEAN
    BY <1>12 DEF ReadLine, Step, AfterRead, Labels
  <2>3. remote_noise' \in Nat /\ protocol_errors' \in Nat
    BY <1>12 DEF ReadLine, noise
  <2>4. \/ UNCHANGED <<vars, answerCounts>>
        \/ OnResponse(FirstLine(buf)[1], FirstLine(buf)[2])
    BY <1>12 DEF ReadLine
  <2>5. /\ outcome' \in [Seqs -> Outcomes] /\ mtype' = mtype
        /\ received' \in Nat /\ late' \in Nat /\ status_received' \in Nat
    <3>1. CASE UNCHANGED <<vars, answerCounts>>
      BY <3>1 DEF vars, answerCounts
    <3>2. CASE OnResponse(FirstLine(buf)[1], FirstLine(buf)[2]) /\ ~UNCHANGED <<vars, answerCounts>>
      <4>1. Answer(FirstLine(buf)[2])
        BY <3>2 DEF OnResponse
      <4>2. outcome' \in [Seqs -> Outcomes] /\ mtype' = mtype
        BY <4>1 DEF Answer, Outcomes
      <4>3. received' = received \/ received' = received + 1
        BY <3>2 DEF OnResponse
      <4>4. late' = late \/ late' = late + 1
        BY <3>2 DEF OnResponse
      <4>5. status_received' = status_received \/ status_received' = status_received + 1
        BY <3>2 DEF OnResponse
      <4> QED BY SMTT(30), <4>2, <4>3, <4>4, <4>5
    <3> QED BY <2>4, <3>1, <3>2
  <2> QED BY <1>12, <2>1, <2>2, <2>3, <2>5 DEF ReadLine, readerRest, sendCounts, requestVars, ends,
             serverVars
<1>13. CASE ReapSweep
  <2>1. outcome' \in [Seqs -> Outcomes] /\ mtype' = mtype
    BY <1>13, GiveUpTyped DEF ReapSweep
  <2> QED BY <1>13, <2>1 DEF ReapSweep, readerRest, sendCounts, requestVars, ends, serverVars,
         answerCounts, noise
<1>14. CASE ServerRead
  <2>1. server_buf' \in Seq(Cells) /\ to_server' \in Seq(Cells)
    BY <1>14, ConcatProperties DEF ServerRead
  <2>2. server' \in ServerLabels
    BY <1>14 DEF ServerRead, SStep, Rest, ServerLabels
  <2> QED BY <1>14, <2>1, <2>2 DEF ServerRead, remoteRest, vars, report, sendCounts, answerCounts, noise,
             requestVars, flags
<1>15. CASE ServerEof \/ ServerBroken
  BY <1>15 DEF ServerEof, ServerBroken, SStep, ServerLabels, remoteRest, vars, report, sendCounts,
     answerCounts, noise, requestVars, flags
<1>16. CASE ServerLine
  <2>1. alive /\ server = "lines"
    BY <1>16 DEF ServerLine, SStep
  <2>2. /\ FirstLine(server_buf) \in Requests /\ server_buf' \in Seq(Cells)
    BY <1>16, <2>1, UpLine DEF ServerLine, Locked
  <2>3. Response(FirstLine(server_buf)) \in Messages
    BY <2>2, ResponseFacts
  <2>4. reply' \in Messages
    <3>1. reply' = reply \/ reply' = Response(FirstLine(server_buf))
      BY <1>16 DEF ServerLine
    <3> QED BY <2>3, <3>1
  <2>5. echo_rx' \in Nat
    <3>1. echo_rx' = echo_rx \/ echo_rx' = echo_rx + 1
      BY <1>16 DEF ServerLine
    <3> QED BY <3>1
  <2>6. server' \in ServerLabels
    BY <1>16 DEF ServerLine, SStep, Rest, ServerLabels
  <2>7. alive' \in BOOLEAN
    BY <1>16 DEF ServerLine
  <2> QED BY <1>16, <2>2, <2>4, <2>5, <2>6, <2>7 DEF ServerLine, remoteRest, vars, report, sendCounts,
         answerCounts, noise, requestVars, flags
<1>17. CASE ServerBegin
  <2>1. to_client' \in Seq(Cells)
    BY <1>17, PutCell DEF ServerBegin, Kinds
  <2> QED BY <1>17, <2>1 DEF ServerBegin, SStep, ServerLabels, remoteRest, vars, report, sendCounts,
             answerCounts, noise, requestVars, flags
<1>18. CASE ServerRest
  <2>1. to_client' \in Seq(Cells) /\ replies' \in Seq(Messages)
    BY <1>18, PutCell, AppendProperties DEF ServerRest, Kinds
  <2>2. requests # <<>>
    BY <1>18 DEF ServerRest, SStep, RequestsWhole, Answering
  <2>3. requests' \in Seq(Requests)
    BY <1>18, <2>2, HeadTailProperties DEF ServerRest
  <2>4. reply' \in Messages /\ server' \in ServerLabels /\ echo_tx' \in Nat
    BY <1>18 DEF ServerRest, SStep, Rest, ServerLabels, Noise, Messages
  <2> QED BY <1>18, <2>1, <2>3, <2>4 DEF ServerRest, remoteRest, vars, report, sendCounts,
             answerCounts, noise, requestVars, flags
<1>19. CASE StrayLine
  <2>1. PICK k \in Strays : /\ to_client' = Append(to_client, Half(<<k, 0>>, "whole"))
                            /\ replies' = Append(replies, <<k, 0>>)
    BY <1>19 DEF StrayLine
  <2>2. <<k, 0>> \in Messages
    BY SessionAssumption DEF Messages
  <2>3. to_client' \in Seq(Cells)
    <3>1. "whole" \in Kinds
      BY DEF Kinds
    <3> QED BY <2>1, <2>2, <3>1, PutCell
  <2>4. replies' \in Seq(Messages)
    BY <2>1, <2>2, AppendProperties
  <2>5. stray' \in Nat
    BY <1>19 DEF StrayLine
  <2> QED BY <1>19, <2>3, <2>4, <2>5 DEF StrayLine, serverVars, remoteRest, vars, report, sendCounts,
             answerCounts, noise, requestVars, flags
<1>20. CASE SshDies \/ SshKilled
  BY <1>20 DEF SshDies, SshKilled, serverVars, remoteRest, vars, report, sendCounts,
     answerCounts, noise, requestVars, flags
<1>21. ASSUME NEW ssh \in BOOLEAN, Gone(ssh) PROVE Typed'
  BY <1>21 DEF Gone, MainLabels, Labels, vars, report, sendCounts, answerCounts, noise, requestVars,
     flags, serverVars
<1>22. CASE UNCHANGED sessionVars
  BY <1>22 DEF sessionVars, vars, report, sendCounts, answerCounts, noise, requestVars,
     flags, ends, serverVars
<1> QED
  <2>1. alive \in BOOLEAN /\ FALSE \in BOOLEAN
    OBVIOUS
  <2> QED BY <2>1, <1>1, <1>2, <1>3, <1>4, <1>5, <1>6, <1>7, <1>8, <1>9, <1>10, <1>11, <1>12, <1>13, <1>14,
             <1>15, <1>16, <1>17, <1>18, <1>19, <1>20, <1>21, <1>22
          DEF SessionStep, SessionNext, Start, StopStep, Send, Probe, Read, Server

-----------------------------------------------------------------------------
(* Part 2 is kept *)

ThreadStep == SchedOffer \/ Send \/ Probe \/ Read \/ ReapSweep
RemoteStep == Server \/ StrayLine \/ SshDies \/ SshKilled
OwnStep    == Start \/ StopCall \/ StopStep
Ended      == \E ssh \in BOOLEAN : (ssh => alive) /\ Gone(ssh)

\* Who takes a step.
LEMMA StepKinds ==
  ASSUME Typed, SessionStep
  PROVE  ThreadStep \/ RemoteStep \/ OwnStep \/ Ended \/ UNCHANGED sessionVars
BY DEF Typed, SessionStep, SessionNext, ThreadStep, RemoteStep, OwnStep, Ended

\* A thread takes a step: it is not before start() or after stop().
LEMMA ThreadSteps ==
  ASSUME Typed, Phases, ThreadStep
  PROVE  /\ main \notin {"start", "hello", "hello lines", "gone", "stopped"}
         /\ main' = main /\ sched_stop' = sched_stop /\ (stopped => stopped')
         /\ alive' = alive /\ UNCHANGED serverVars
         /\ stdin_closed' = stdin_closed /\ stdout_closed' = stdout_closed /\ size' = size /\ stray' = stray
<1>0. main = "stopped" => stopped /\ \A th \in Threads : Over(th)
  BY DEF Phases
<1>1. CASE SchedOffer
  <2>1. pc["schedule"] = "loop" /\ ~stopped
    BY <1>1 DEF SchedOffer, Step
  <2> QED BY <1>0, <1>1, <2>1, ThreadIs DEF Phases, SchedOffer, offWire, writerRest, ends
<1>2. CASE SendGet
  <2>1. pc["send"] = "loop" /\ txq # <<>>
    BY <1>2 DEF SendGet, Step
  <2>2. ~Over("send")
    BY <2>1 DEF Over
  <2> QED BY <1>0, <1>2, <2>1, <2>2, ThreadIs DEF Phases, SendGet, offWire, writerRest, ends
<1>3. CASE ProbeDue
  <2>1. pc["probe"] = "loop" /\ ~stopped
    BY <1>3 DEF ProbeDue, Step
  <2> QED BY <1>0, <1>3, <2>1, ThreadIs DEF Phases, ProbeDue, offWire, writerRest, ends
<1>4. ASSUME NEW th \in {"send", "probe"}, Write(th)
      PROVE  /\ main \notin {"start", "hello", "hello lines", "gone", "stopped"}
             /\ main' = main /\ sched_stop' = sched_stop /\ (stopped => stopped')
             /\ alive' = alive /\ UNCHANGED serverVars
             /\ stdin_closed' = stdin_closed /\ stdout_closed' = stdout_closed /\ size' = size
             /\ stray' = stray
  <2>1. pc[th] \in {"write", "rest"}
    BY <1>4 DEF Write, WriteClosed, WriteFail, WriteBegin, WriteRest, Step
  <2>2. ~Over(th)
    BY <2>1 DEF Over
  <2>3. main \notin {"start", "hello", "hello lines", "gone", "stopped"}
    BY <1>0, <2>1, <2>2, ThreadIs DEF Phases
  <2>4. UNCHANGED writerRest /\ (stopped => stopped')
    <3>1. CASE WriteClosed(th)
      BY <3>1 DEF WriteClosed, offWire
    <3>2. CASE WriteFail(th)
      BY <3>2 DEF WriteFail
    <3>3. CASE WriteBegin(th)
      BY <3>3 DEF WriteBegin
    <3>4. CASE WriteRest(th)
      BY <3>4 DEF WriteRest
    <3> QED BY <1>4, <3>1, <3>2, <3>3, <3>4 DEF Write
  <2> QED BY <2>3, <2>4 DEF writerRest, ends
<1>5. CASE ReadChunk
  <2>1. pc["read"] = "loop" /\ ~stopped
    BY <1>5 DEF ReadChunk, Step
  <2> QED BY <1>0, <1>5, <2>1, ThreadIs DEF Phases, ReadChunk, readerRest, requestVars, ends
<1>6. CASE ReadLine
  <2>1. pc["read"] = "lines"
    BY <1>6 DEF ReadLine
  <2>2. ~Over("read")
    BY <2>1 DEF Over
  <2>3. UNCHANGED readerRest /\ (stopped => stopped')
    BY <1>6 DEF ReadLine
  <2> QED BY <1>0, <2>1, <2>2, <2>3, ThreadIs DEF Phases, readerRest, requestVars, ends
<1>7. CASE ReapSweep
  <2>1. pc["reap"] = "loop" /\ ~stopped
    BY <1>7 DEF ReapSweep
  <2> QED BY <1>0, <1>7, <2>1, ThreadIs DEF Phases, ReapSweep, readerRest, requestVars, ends
<1> QED BY <1>1, <1>2, <1>3, <1>4, <1>5, <1>6, <1>7 DEF ThreadStep, Send, Probe, Read

\* The other side: it leaves the client alone.
LEMMA RemoteSteps ==
  ASSUME RemoteStep
  PROVE  UNCHANGED remoteRest /\ alive /\ (main = "start" /\ Phases =>
           requests' = <<>> /\ to_server' = <<>> /\ server_buf' = <<>> /\ server' \in {"read", "returned"})
<1>1. CASE ServerRead
  BY <1>1 DEF ServerRead, SStep, Phases
<1>2. CASE ServerEof
  BY <1>2 DEF ServerEof, SStep, Phases
<1>3. CASE ServerLine
  BY <1>3 DEF ServerLine, SStep, Phases
<1>4. CASE ServerBegin
  BY <1>4 DEF ServerBegin, SStep, Phases
<1>5. CASE ServerRest
  BY <1>5 DEF ServerRest, SStep, Phases
<1>6. CASE ServerBroken
  BY <1>6 DEF ServerBroken, Phases
<1>7. CASE StrayLine
  BY <1>7 DEF StrayLine, Phases, serverVars
<1>8. CASE SshDies
  BY <1>8 DEF SshDies, Phases, serverVars
<1>9. CASE SshKilled
  BY <1>9 DEF SshKilled, Phases, serverVars
<1> QED BY <1>1, <1>2, <1>3, <1>4, <1>5, <1>6, <1>7, <1>8, <1>9 DEF RemoteStep, Server

\* start() begins the phases and stop() ends them, whatever the threads do.
LEMMA NextPhases ==
  ASSUME Typed, Phases, SessionStep
  PROVE  Phases'
<1>1. CASE ThreadStep
  <2>1. /\ main \notin {"start", "hello", "hello lines", "gone", "stopped"}
        /\ main' = main /\ sched_stop' = sched_stop /\ (stopped => stopped') /\ alive' = alive
    BY <1>1, ThreadSteps
  <2> QED BY <2>1 DEF Phases
<1>2. CASE RemoteStep
  <2>1. UNCHANGED <<main, pc, sched_stop, stopped, outcome>> /\ alive
    BY <1>2, RemoteSteps DEF remoteRest, flags, vars
  <2>2. main \notin {"join", "stopped"}
    BY <2>1 DEF Phases
  <2>3. main = "start" => requests' = <<>> /\ to_server' = <<>> /\ server_buf' = <<>>
                          /\ server' \in {"read", "returned"}
    BY <1>2, RemoteSteps
  <2> QED BY <2>1, <2>2, <2>3 DEF Phases
<1>3. CASE HelloWrite \/ HelloRead \/ HelloFail
  <2>1. main \in {"start", "hello"} /\ main' \in {"hello", "hello lines", "failed"} /\ pc' = pc
    BY <1>3 DEF HelloWrite, HelloRead, HelloFail
  <2> QED BY <2>1 DEF Phases
<1>4. CASE HelloLine
  <2>1. main = "hello lines" /\ (main' = "running" \/ (main' \in {"hello", "hello lines"} /\ pc' = pc))
    <3>1. CASE LineEnds(buf) = {}
      BY <1>4, <3>1 DEF HelloLine
    <3>2. CASE LineEnds(buf) # {} /\ FirstLine(buf)[1] = "hello_ack"
      <4>1. main = "hello lines"
        BY <1>4 DEF HelloLine
      <4>2. main' = "running"
        BY <1>4, <3>2 DEF HelloLine
      <4> QED BY <4>1, <4>2
    <3>3. CASE LineEnds(buf) # {} /\ FirstLine(buf)[1] # "hello_ack"
      BY <1>4, <3>3 DEF HelloLine
    <3> QED BY <3>1, <3>2, <3>3
  <2> QED BY <2>1 DEF Phases
<1>5. CASE StopCall
  BY <1>5 DEF StopCall, Phases
<1>6. CASE StopSet
  BY <1>6 DEF StopSet, Stop, Phases
<1>7. CASE StopStdin
  BY <1>7 DEF StopStdin, Stop, Phases, flags
<1>8. CASE StopWait
  BY <1>8 DEF StopWait, Stop, Phases, flags, stopRest
<1>9. CASE StopJoin
  <2>1. main = "join" /\ main' = "stopped" /\ UNCHANGED <<flags, alive, stdout_closed, to_client, txq, pc>>
    BY <1>9 DEF StopJoin, Stop, stopRest, mainRest, requestVars
  <2>2. \A th \in Threads : Over(th)
    BY <1>9 DEF StopJoin
  <2>3. \A th \in Threads : Over(th)'
    BY <2>1, <2>2 DEF Over, flags
  <2>4. WithOutcome("open")' = {}
    <3>1. outcome' = [s \in Seqs |-> CASE s \in Marked -> "lost"
                                       [] s \in WithOutcome("open") \ Marked -> "unsent"
                                       [] OTHER -> outcome[s]]
      BY <1>9 DEF StopJoin, GiveUp
    <3>2. ASSUME NEW s \in Seqs PROVE outcome'[s] # "open"
      <4>1. CASE s \in Marked
        BY <3>1, <4>1 DEF Marked
      <4>2. CASE s \in WithOutcome("open") \ Marked
        BY <3>1, <4>2 DEF Marked
      <4>3. CASE s \notin WithOutcome("open") /\ s \notin Marked
        BY <3>1, <4>3 DEF WithOutcome
      <4> QED BY <4>1, <4>2, <4>3
    <3> QED BY <3>2 DEF WithOutcome
  <2> QED BY <2>1, <2>3, <2>4 DEF Phases, flags
<1>10. CASE Ended
  <2>1. main' = "gone" /\ pc' = [th \in Threads |-> "none"]
    BY <1>10 DEF Ended, Gone
  <2> QED BY <2>1 DEF Phases
<1>11. CASE UNCHANGED sessionVars
  <2>1. UNCHANGED <<main, pc, requests, to_server, server_buf, server, sched_stop, stopped, alive, outcome,
                    stdout_closed, to_client, txq>>
    BY <1>11 DEF sessionVars, vars, requestVars, flags, ends, serverVars
  <2> QED BY <2>1 DEF Phases, Over, WithOutcome
<1> QED BY StepKinds, <1>1, <1>2, <1>3, <1>4, <1>5, <1>6, <1>7, <1>8, <1>9, <1>10, <1>11
        DEF OwnStep, Start, StopStep

\* The two threads that write.
LEMMA Thread ==
  ASSUME NEW th \in {"send", "probe"}
  PROVE  th \in Threads /\ th # "free" /\ th # "read" /\ th # "schedule"
BY ThreadIs

\* A label of a thread is where it may lock the pipe.
LEMMA NextLocked ==
  ASSUME Typed, Phases, Locked, SessionStep
  PROVE  Locked'
<1>1. CASE SchedOffer
  <2>1. PICK b \in {"loop", "crashed"} : Step("schedule", "loop", b)
    BY <1>1 DEF SchedOffer
  <2>2. /\ pc' \in [Threads -> Labels] /\ pc'["schedule"] = b
        /\ \A o \in Threads : o # "schedule" => pc'[o] = pc[o]
    BY <2>1, ThreadIs, StepTyped DEF Labels
  <2>3. UNCHANGED <<stdio_lock, buf, server, server_buf>>
    BY <1>1 DEF SchedOffer, offWire, writerRest, serverVars
  <2> QED BY <2>2, <2>3, ThreadIs DEF Locked
<1>2. CASE SendGet
  <2>1. Step("send", "loop", "write")
    BY <1>2 DEF SendGet
  <2>2. /\ pc["send"] = "loop" /\ pc'["send"] = "write"
        /\ \A o \in Threads : o # "send" => pc'[o] = pc[o]
    BY <2>1, ThreadIs, StepTyped DEF Labels
  <2>3. UNCHANGED <<stdio_lock, buf, server, server_buf>>
    BY <1>2 DEF SendGet, offWire, writerRest, serverVars
  <2> QED BY <2>2, <2>3, ThreadIs DEF Locked
<1>3. CASE ProbeDue
  <2>1. Step("probe", "loop", "write")
    BY <1>3 DEF ProbeDue
  <2>2. /\ pc["probe"] = "loop" /\ pc'["probe"] = "write"
        /\ \A o \in Threads : o # "probe" => pc'[o] = pc[o]
    BY <2>1, ThreadIs, StepTyped DEF Labels
  <2>3. UNCHANGED <<stdio_lock, buf, server, server_buf>>
    BY <1>3 DEF ProbeDue, offWire, writerRest, serverVars
  <2> QED BY <2>2, <2>3, ThreadIs DEF Locked
<1>4. ASSUME NEW th \in {"send", "probe"}, Write(th) PROVE Locked'
  <2>1. UNCHANGED <<buf, server, server_buf>>
    BY <1>4 DEF Write, WriteClosed, WriteFail, WriteBegin, WriteRest, offWire, writerRest, serverVars
  <2>2. \E a, b \in Labels :
          /\ Step(th, a, b)
          /\ a \in {"write", "rest"} /\ (a = "write" => stdio_lock = "free")
          /\ \/ b = "rest" /\ stdio_lock' = th /\ stdio_lock = "free"
             \/ b # "rest" /\ stdio_lock' = "free"
    <3>1. CASE WriteClosed(th)
      <4>1. Step(th, "write", "crashed") /\ stdio_lock = "free" /\ stdio_lock' = "free"
        BY <3>1 DEF WriteClosed, offWire
      <4> QED BY <4>1 DEF Labels
    <3>2. CASE WriteFail(th)
      <4>1. PICK b \in {"done", "loop"} : \/ Step(th, "write", b) /\ stdio_lock = "free"
                                          \/ Step(th, "rest", b)
        BY <3>2 DEF WriteFail
      <4>2. stdio_lock' = "free"
        BY <3>2 DEF WriteFail
      <4> QED BY <4>1, <4>2 DEF Labels
    <3>3. CASE WriteBegin(th)
      <4>1. Step(th, "write", "rest") /\ stdio_lock = "free" /\ stdio_lock' = th
        BY <3>3 DEF WriteBegin
      <4> QED BY <4>1 DEF Labels
    <3>4. CASE WriteRest(th)
      <4>1. PICK b \in {"crashed", "loop"} : Step(th, "rest", b)
        BY <3>4 DEF WriteRest
      <4>2. stdio_lock' = "free"
        BY <3>4 DEF WriteRest
      <4> QED BY <4>1, <4>2 DEF Labels
    <3> QED BY <1>4, <3>1, <3>2, <3>3, <3>4 DEF Write
  <2>3. PICK a \in Labels, b \in Labels :
          /\ Step(th, a, b)
          /\ a \in {"write", "rest"} /\ (a = "write" => stdio_lock = "free")
          /\ \/ b = "rest" /\ stdio_lock' = th /\ stdio_lock = "free"
             \/ b # "rest" /\ stdio_lock' = "free"
    BY <2>2
  <2>4. pc[th] = a /\ pc'[th] = b /\ \A o \in Threads : o # th => pc'[o] = pc[o]
    BY <2>3, Thread, StepTyped
  <2>5. pc'["read"] = pc["read"] /\ pc'["schedule"] = pc["schedule"]
    BY <2>4, Thread, ThreadIs
  <2>6. ASSUME NEW o \in {"send", "probe"} PROVE stdio_lock' = o <=> pc'[o] = "rest"
    <3>1. CASE o = th
      BY <2>3, <2>4, <3>1, Thread
    <3>2. CASE o # th
      <4>1. pc'[o] = pc[o]
        BY <2>4, <3>2, Thread
      <4>2. stdio_lock # o
        BY <2>3, <2>4, <3>2, Thread DEF Locked
      <4> QED BY <2>3, <3>2, <4>1, <4>2, Thread DEF Locked
    <3> QED BY <3>1, <3>2
  <2> QED BY <2>1, <2>5, <2>6 DEF Locked
<1>5. CASE ReadChunk
  <2>1. Step("read", "loop", AfterRead(buf')) /\ AfterRead(buf') \in Labels
    BY <1>5 DEF ReadChunk, AfterRead, Labels
  <2>2. pc'["read"] = AfterRead(buf') /\ \A o \in Threads : o # "read" => pc'[o] = pc[o]
    BY <2>1, ThreadIs, StepTyped
  <2>3. pc'["read"] = "lines" => LineEnds(buf') # {}
    BY <2>2 DEF AfterRead
  <2>4. UNCHANGED <<stdio_lock, server, server_buf>>
    BY <1>5 DEF ReadChunk, readerRest, serverVars
  <2> QED BY <2>2, <2>3, <2>4, ThreadIs DEF Locked
<1>6. CASE ReadLine
  <2>1. PICK b \in {"done", AfterRead(buf')} : Step("read", "lines", b)
    BY <1>6 DEF ReadLine
  <2>2. b \in Labels
    BY DEF AfterRead, Labels
  <2>3. pc'["read"] = b /\ \A o \in Threads : o # "read" => pc'[o] = pc[o]
    BY <2>1, <2>2, ThreadIs, StepTyped
  <2>4. pc'["read"] = "lines" => LineEnds(buf') # {}
    BY <2>3 DEF AfterRead
  <2>5. UNCHANGED <<stdio_lock, server, server_buf>>
    BY <1>6 DEF ReadLine, readerRest, serverVars
  <2> QED BY <2>3, <2>4, <2>5, ThreadIs DEF Locked
<1>7. CASE ReapSweep
  BY <1>7 DEF ReapSweep, readerRest, serverVars, Locked
<1>8. CASE ServerRead
  BY <1>8 DEF ServerRead, SStep, Rest, remoteRest, Locked
<1>9. CASE ServerLine
  <2>1. UNCHANGED remoteRest /\ (server' = "lines" => LineEnds(server_buf') # {})
    BY <1>9 DEF ServerLine, SStep, Rest
  <2> QED BY <2>1 DEF remoteRest, Locked
<1>10. CASE ServerEof \/ ServerBegin \/ ServerBroken
  BY <1>10 DEF ServerEof, ServerBegin, ServerBroken, SStep, remoteRest, Locked
<1>11. CASE ServerRest
  BY <1>11 DEF ServerRest, SStep, Rest, remoteRest, Locked
<1>12. CASE StrayLine \/ SshDies \/ SshKilled
  BY <1>12 DEF StrayLine, SshDies, SshKilled, remoteRest, serverVars, Locked
<1>13. CASE HelloWrite \/ HelloRead \/ HelloFail \/ HelloLine
  <2>1. main \in {"start", "hello", "hello lines"}
    BY <1>13 DEF HelloWrite, HelloRead, HelloFail, HelloLine
  <2>2. \A th \in Threads : pc[th] = "none"
    BY <2>1 DEF Phases
  <2>3. pc' = pc \/ pc' = [th \in Threads |-> "loop"]
    BY <1>13 DEF HelloWrite, HelloRead, HelloFail, HelloLine
  <2>4. \A th \in Threads : pc'[th] \in {"none", "loop"}
    BY <2>2, <2>3
  <2>5. UNCHANGED mainRest
    BY <1>13 DEF HelloWrite, HelloRead, HelloFail, HelloLine
  <2>6. UNCHANGED <<stdio_lock, server, server_buf>>
    BY <2>5 DEF mainRest, serverVars
  <2> QED BY <2>2, <2>4, <2>6, ThreadIs DEF Locked
<1>14. CASE StopCall \/ StopStep
  BY <1>14 DEF StopCall, StopStep, StopSet, StopStdin, StopWait, StopJoin, stopRest, mainRest, serverVars,
     Locked
<1>15. CASE Ended
  <2>1. pc' = [th \in Threads |-> "none"] /\ stdio_lock' = "free" /\ UNCHANGED <<server, server_buf>>
    BY <1>15 DEF Ended, Gone, serverVars
  <2> QED BY <2>1, ThreadIs DEF Locked
<1>16. CASE UNCHANGED sessionVars
  BY <1>16 DEF sessionVars, serverVars, Locked
<1> QED BY StepKinds, <1>1, <1>2, <1>3, <1>4, <1>5, <1>6, <1>7, <1>8, <1>9, <1>10, <1>11, <1>12, <1>13,
           <1>14, <1>15, <1>16
        DEF ThreadStep, Send, Probe, Read, RemoteStep, Server, OwnStep, Start

-----------------------------------------------------------------------------
(* Part 3 is kept *)

\* The next cell goes to the end of the pipe.
LEMMA ConcatAppend ==
  ASSUME NEW S, NEW b \in Seq(S), NEW p \in Seq(S), NEW c \in S
  PROVE  b \o Append(p, c) = Append(b \o p, c)
<1>1. b \o p \in Seq(S)
  BY ConcatProperties
<1>2. Append(p, c) = p \o <<c>> /\ Append(b \o p, c) = (b \o p) \o <<c>>
  BY <1>1, AppendIsConcat
<1>3. <<c>> \in Seq(S)
  OBVIOUS
<1> QED BY <1>2, <1>3, ConcatAssociative

\* What is on the way to the client.
LEMMA DownTyped == ASSUME Typed PROVE Down \in Seq(Messages \X Kinds) /\ replies \in Seq(Messages)
BY ConcatProperties DEF Typed, Down, Cells

\* Reads move cells and cut lines off, the remote end appends to them: the pipe
\* and the buffer always hold the lines written and not yet split off.
LEMMA NextRepliesWhole ==
  ASSUME Typed, Phases, Locked, RepliesWhole, SessionStep
  PROVE  RepliesWhole'
<1>0. buf \in Seq(Cells) /\ to_client \in Seq(Cells)
  BY DEF Typed
<1>1. CASE HelloRead
  <2>1. PICK n \in 1..Len(to_client) : /\ buf' = buf \o SubSeq(to_client, 1, n)
                                       /\ to_client' = SubSeq(to_client, n + 1, Len(to_client))
    BY <1>1 DEF HelloRead
  <2>2. /\ SubSeq(to_client, 1, n) \in Seq(Cells) /\ to_client' \in Seq(Cells)
        /\ SubSeq(to_client, 1, n) \o to_client' = to_client
    BY <1>0, <2>1, TakeCells
  <2>3. Down' = Down
    <3> DEFINE h == SubSeq(to_client, 1, n)
               t == to_client'
    <3>1. buf \in Seq(Cells) /\ h \in Seq(Cells) /\ t \in Seq(Cells)
      BY <1>0, <2>1, <2>2
    <3>2. buf' = buf \o h /\ h \o t = to_client
      BY <2>1, <2>2
    <3> HIDE DEF h, t
    <3>3. (buf \o h) \o t = buf \o (h \o t)
      BY SMTT(30), <3>1, ConcatAssociative
    <3> QED BY <3>2, <3>3 DEF Down, t
  <2>4. UNCHANGED <<replies, alive, server, reply>>
    BY <1>1 DEF HelloRead, mainRest, serverVars, ends
  <2> QED BY <2>3, <2>4 DEF RepliesWhole
<1>2. CASE ReadChunk
  <2>1. buf' = buf \o to_client /\ to_client' = <<>>
    BY <1>2 DEF ReadChunk
  <2>2. Down' = Down
    <3>1. buf \o to_client \in Seq(Cells)
      BY <1>0, ConcatProperties
    <3> QED BY <2>1, <3>1, ConcatEmptySeq DEF Down
  <2>3. UNCHANGED <<replies, alive, server, reply>>
    BY <1>2 DEF ReadChunk, readerRest, serverVars, ends
  <2> QED BY <2>2, <2>3 DEF RepliesWhole
<1>3. CASE HelloLine \/ ReadLine
  <2>1. CASE LineEnds(buf) = {}
    <3>1. HelloLine
      BY <1>3, <2>1 DEF ReadLine, Locked
    <3>2. UNCHANGED <<buf, to_client, replies, alive, server, reply>>
      BY <2>1, <3>1 DEF HelloLine, mainRest, serverVars, ends
    <3> QED BY <3>2 DEF RepliesWhole, Down
  <2>2. CASE LineEnds(buf) # {}
    <3>1. buf' = AfterLine(buf) /\ replies' = Tail(replies)
      BY <1>3, <2>2 DEF HelloLine, ReadLine
    <3>2. UNCHANGED <<to_client, alive, server, reply>>
      BY <1>3 DEF HelloLine, ReadLine, mainRest, readerRest, serverVars, ends
    <3>3. Down' = AfterLine(buf) \o to_client
      BY <3>1, <3>2 DEF Down
    <3>4. /\ Carries(Down', replies') /\ (Open(Down') <=> Open(Down))
          /\ Down' # <<>> => Last(Down') = Last(Down)
      BY <2>2, <3>1, <3>3, DownLine
    <3>5. Open(Down') => Down' # <<>>
      BY DEF Open
    <3> QED BY <3>2, <3>4, <3>5 DEF RepliesWhole
  <2> QED BY <2>1, <2>2
<1>4. CASE ServerBegin
  <2>1. alive /\ server = "begin" /\ server' = "rest" /\ UNCHANGED <<alive, reply, replies, buf>>
        /\ to_client' = Append(to_client, Half(reply, "begins"))
    BY <1>4 DEF ServerBegin, SStep, remoteRest
  <2>2. reply \in Messages /\ Half(reply, "begins") \in Cells
    BY DEF Typed, Cells, Half, Kinds
  <2>3. Down' = Append(Down, Half(reply, "begins"))
    BY <1>0, <2>1, <2>2, ConcatAppend DEF Down
  <2>4. Carries(Down, replies) /\ ~Open(Down)
    BY <2>1 DEF RepliesWhole
  <2>5. Carries(Down', replies) /\ Open(Down') /\ Down'[Len(Down')] = Half(reply, "begins")
    <3> DEFINE m == reply
               d == Down
               a == Down'
    <3>1. /\ m \in Messages /\ d \in Seq(Messages \X Kinds) /\ replies \in Seq(Messages)
          /\ Carries(d, replies) /\ ~Open(d) /\ a = Append(d, Half(m, "begins"))
      BY <2>2, <2>3, <2>4, DownTyped
    <3> HIDE DEF m, d, a
    <3>2. Carries(a, replies) /\ Open(a)
      BY <3>1, BeginLine
    <3>3. a[Len(a)] = Half(m, "begins")
      BY <3>1, BeginLine
    <3> QED BY <3>2, <3>3 DEF m, a
  <2> QED BY <2>1, <2>5 DEF RepliesWhole, Last
<1>5. CASE ServerRest
  <2>1. alive /\ server = "rest" /\ server' # "rest" /\ alive' = alive /\ UNCHANGED buf
        /\ replies' = Append(replies, reply) /\ to_client' = Append(to_client, Half(reply, "ends"))
    BY <1>5 DEF ServerRest, SStep, Rest, remoteRest
  <2>2. reply \in Messages /\ Half(reply, "ends") \in Cells
    BY DEF Typed, Cells, Half, Kinds
  <2>3. Down' = Append(Down, Half(reply, "ends"))
    BY <1>0, <2>1, <2>2, ConcatAppend DEF Down
  <2>4. Carries(Down, replies) /\ Down # <<>> /\ Last(Down) = Half(reply, "begins")
    BY <2>1 DEF RepliesWhole, Open
  <2>5. Carries(Down', replies') /\ ~Open(Down')
    BY <2>1, <2>2, <2>3, <2>4, DownTyped, EndLine DEF Last
  <2> QED BY <2>1, <2>5 DEF RepliesWhole
<1>6. CASE StrayLine
  <2>1. PICK k \in Strays : /\ to_client' = Append(to_client, Half(<<k, 0>>, "whole"))
                            /\ replies' = Append(replies, <<k, 0>>)
    BY <1>6 DEF StrayLine
  <2>2. alive /\ server # "rest" /\ UNCHANGED <<alive, server, buf>>
    BY <1>6 DEF StrayLine, serverVars, remoteRest
  <2>3. <<k, 0>> \in Messages
    BY SessionAssumption DEF Messages
  <2> DEFINE m == <<k, 0>>
  <2> HIDE DEF m
  <2>4. m \in Messages /\ Half(m, "whole") \in Cells /\ to_client' = Append(to_client, Half(m, "whole"))
        /\ replies' = Append(replies, m)
    BY <2>1, <2>3 DEF Cells, Half, Kinds, m
  <2>5. Down' = Append(Down, Half(m, "whole"))
    BY <1>0, <2>2, <2>4, ConcatAppend DEF Down
  <2>6. Carries(Down, replies) /\ ~Open(Down)
    BY <2>2 DEF RepliesWhole
  <2>7. Carries(Down', replies') /\ ~Open(Down')
    BY <2>4, <2>5, <2>6, DownTyped, EndLine
  <2> QED BY <2>2, <2>7 DEF RepliesWhole
<1>7. CASE ServerRead \/ ServerLine \/ ServerEof \/ ServerBroken \/ SshDies \/ SshKilled
  <2>1. UNCHANGED <<buf, to_client, replies>>
    BY <1>7 DEF ServerRead, ServerLine, ServerEof, ServerBroken, SshDies, SshKilled, remoteRest
  <2>2. alive' => server # "rest" /\ server' # "rest" /\ alive
    BY <1>7 DEF ServerRead, ServerLine, ServerEof, ServerBroken, SshDies, SshKilled, SStep, Rest
  <2> QED BY <2>1, <2>2 DEF RepliesWhole, Down
<1>8. CASE HelloWrite \/ HelloFail \/ StopCall \/ StopStep
  <2>1. UNCHANGED <<buf, to_client, replies, alive, server, reply>>
    BY <1>8 DEF HelloWrite, HelloFail, StopCall, StopStep, StopSet, StopStdin, StopWait, StopJoin, stopRest,
       mainRest, serverVars, ends
  <2> QED BY <2>1 DEF RepliesWhole, Down
<1>9. CASE SchedOffer \/ Send \/ Probe \/ ReapSweep
  <2>1. UNCHANGED <<alive, serverVars>>
    BY <1>9, ThreadSteps DEF ThreadStep
  <2>2. UNCHANGED <<buf, to_client, replies>>
    BY <1>9 DEF SchedOffer, Send, SendGet, Probe, ProbeDue, Write, WriteClosed, WriteFail, WriteBegin,
       WriteRest, offWire, writerRest, ReapSweep, readerRest
  <2> QED BY <2>1, <2>2 DEF RepliesWhole, Down, serverVars
<1>10. CASE Ended
  <2>1. UNCHANGED <<buf, to_client, replies, server, reply>> /\ (alive' => alive)
    BY <1>10 DEF Ended, Gone, serverVars
  <2> QED BY <2>1 DEF RepliesWhole, Down
<1>11. CASE UNCHANGED sessionVars
  BY <1>11 DEF sessionVars, serverVars, ends, RepliesWhole, Down
<1> QED BY StepKinds, <1>1, <1>2, <1>3, <1>4, <1>5, <1>6, <1>7, <1>8, <1>9, <1>10, <1>11
        DEF ThreadStep, Read, RemoteStep, Server, OwnStep, Start

\* What is on the way to the server.
LEMMA UpTyped ==
  ASSUME Typed, RequestsWhole
  PROVE  /\ Up \in Seq(Messages \X Kinds) /\ Unread \in Seq(Messages)
         /\ server_buf \in Seq(Cells) /\ to_server \in Seq(Cells) /\ requests \in Seq(Requests)
<1>1. server_buf \in Seq(Cells) /\ to_server \in Seq(Cells) /\ requests \in Seq(Requests)
  BY DEF Typed
<1>2. Up \in Seq(Messages \X Kinds)
  BY <1>1, ConcatProperties DEF Up, Cells
<1>3. Unread \in Seq(Requests)
  <2>1. CASE Answering
    BY <1>1, <2>1, HeadTailProperties DEF RequestsWhole, Unread
  <2>2. CASE ~Answering
    BY <1>1, <2>2 DEF Unread
  <2> QED BY <2>1, <2>2
<1>4. Requests \subseteq Messages
  BY DEF Requests, Messages
<1>5. Unread \in Seq(Messages)
  BY <1>3, <1>4, SeqMonotonic
<1> QED BY <1>1, <1>2, <1>5

\* The pipe to the server is not touched, and the request that is being
\* written stays what it is.
LEMMA RequestStays ==
  ASSUME stdio_lock' = stdio_lock, item'[stdio_lock] = item[stdio_lock],
         mtype'[item[stdio_lock]] = mtype[item[stdio_lock]]
  PROVE  Request(item[stdio_lock])' = Request(item[stdio_lock])
BY DEF Request

\* A step that is not about requests.
LEMMA RequestsKept ==
  ASSUME RequestsWhole, UNCHANGED <<server, reply, requests, server_buf, to_server, stdio_lock>>,
         alive' => alive, main = "gone" => main' = "gone",
         stdio_lock # "free" => Request(item[stdio_lock])' = Request(item[stdio_lock])
  PROVE  RequestsWhole'
<1>1. Up' = Up /\ Unread' = Unread /\ Answering' = Answering
  BY DEF Up, Unread, Answering
<1> QED BY <1>1 DEF RequestsWhole

\* Whoever is inside a line has a request in hand that was numbered before.
LEMMA LockHolder ==
  ASSUME Typed, Locked, Owned, stdio_lock # "free"
  PROVE  /\ stdio_lock \in {"send", "probe"} /\ pc[stdio_lock] = "rest"
         /\ item[stdio_lock] \in Seqs /\ outcome[item[stdio_lock]] # "idle"
<1>1. stdio_lock \in {"send", "probe"}
  BY DEF Typed
<1>2. CASE stdio_lock = "send"
  BY <1>2 DEF Locked, Owned, Echoes
<1>3. CASE stdio_lock = "probe"
  BY <1>3 DEF Locked, Owned, Probes
<1> QED BY <1>1, <1>2, <1>3

\* One thread at a time is inside a line: what is on the way to the server are
\* the requests it has not yet read, in order.
LEMMA NextRequestsWhole ==
  ASSUME Typed, Phases, Locked, RequestsWhole, Numbered, Owned, SessionStep
  PROVE  RequestsWhole'
<1>0. server_buf \in Seq(Cells) /\ to_server \in Seq(Cells) /\ requests \in Seq(Requests)
  BY DEF Typed
<1>1. CASE HelloWrite
  <2>1. /\ main = "start" /\ requests = <<>> /\ to_server = <<>> /\ server_buf = <<>>
        /\ server \in {"read", "returned"} /\ UNCHANGED <<server, server_buf, reply, stdio_lock, alive>>
    BY <1>1 DEF HelloWrite, Phases, mainRest, serverVars, ends
  <2>2. stdio_lock = "free"
    <3>1. pc["send"] = "none" /\ pc["probe"] = "none"
      BY <2>1, ThreadIs DEF Phases
    <3> QED BY <3>1 DEF Locked, Typed
  <2>3. CASE alive
    <3>1. to_server' = <<Half(Hello, "whole")>> /\ requests' = <<Hello>>
      BY <1>1, <2>3 DEF HelloWrite
    <3>2. Carries(Up, Unread) /\ Up = <<>> \o <<>> /\ Unread = <<>> /\ ~Open(Up)
      BY <2>1, <2>2, <2>3 DEF RequestsWhole, Up, Unread, Answering
    <3> DEFINE m == Hello
               c == Half(Hello, "whole")
               e == Up
    <3>3. m \in Messages /\ c \in Messages \X Kinds /\ c = Half(m, "whole")
      BY DEF Hello, Messages, Half, Kinds
    <3>4. e = <<>> /\ e \in Seq(Messages \X Kinds) /\ <<>> \in Seq(Messages)
      BY <3>2
    <3>5. to_server' = <<c>> /\ requests' = <<m>> /\ Carries(e, <<>>) /\ ~Open(e)
      BY <3>1, <3>2
    <3> HIDE DEF m, c, e
    <3>6. Append(e, c) = <<c>> /\ Append(<<>>, m) = <<m>> /\ <<>> \o <<c>> = <<c>>
      BY <3>4
    <3>7. Carries(<<c>>, <<m>>) /\ ~Open(<<c>>)
      <4> DEFINE a == <<c>>
      <4>1. a = Append(e, Half(m, "whole")) /\ <<m>> = Append(<<>>, m)
        BY <3>3, <3>6
      <4> HIDE DEF a
      <4>2. Carries(a, Append(<<>>, m)) /\ ~Open(a)
        BY <3>3, <3>4, <3>5, <4>1, EndLine
      <4> QED BY <4>1, <4>2 DEF a
    <3>8. Up' = <<c>> /\ Unread' = <<m>>
      BY <2>1, <3>5, <3>6 DEF Up, Unread, Answering
    <3> QED BY <2>1, <2>2, <3>7, <3>8 DEF RequestsWhole, Answering
  <2>4. CASE ~alive
    BY <2>1, <2>4 DEF RequestsWhole, Answering
  <2> QED BY <2>3, <2>4
<1>2. ASSUME NEW th \in {"send", "probe"}, WriteBegin(th) PROVE RequestsWhole'
  <2>1. /\ alive /\ stdio_lock = "free" /\ stdio_lock' = th
        /\ to_server' = Append(to_server, Half(Request(item[th]), "begins"))
        /\ UNCHANGED <<server, server_buf, reply, requests, main, alive, item, mtype>>
    BY <1>2 DEF WriteBegin, writerRest, serverVars, vars, ends
  <2>2. main # "gone"
    BY <1>2, ThreadSteps DEF ThreadStep, Send, Probe, Write
  <2>3. item[th] \in Seqs
    <3>1. pc[th] = "write"
      BY <1>2 DEF WriteBegin, Step
    <3> QED BY <3>1 DEF Owned, Echoes, Probes
  <2> DEFINE m == Request(item[th])
             u == Up
             a == Up'
  <2>4. m \in Messages /\ Half(m, "begins") \in Cells
    BY <2>3, RequestFacts, ResponseFacts DEF Cells, Half, Kinds
  <2>5. a = Append(u, Half(m, "begins"))
    BY <1>0, <2>1, <2>4, ConcatAppend DEF Up
  <2>6. Carries(u, Unread) /\ ~Open(u) /\ u \in Seq(Messages \X Kinds) /\ Unread \in Seq(Messages)
    BY <2>1, <2>2, UpTyped DEF RequestsWhole
  <2> HIDE DEF m, u, a
  <2>7. Carries(a, Unread) /\ Open(a)
    BY <2>4, <2>5, <2>6, BeginLine
  <2>8. a[Len(a)] = Half(m, "begins")
    BY <2>4, <2>5, <2>6, BeginLine
  <2>9. Unread' = Unread /\ Answering' = Answering
    BY <2>1 DEF Unread, Answering
  <2>10. Request(item[stdio_lock])' = m
    BY <2>1 DEF Request, m
  <2>11. (stdio_lock # "free")'
    BY <2>1
  <2> QED BY <2>1, <2>7, <2>8, <2>9, <2>10, <2>11 DEF RequestsWhole, a, Last
<1>3. ASSUME NEW th \in {"send", "probe"}, WriteRest(th) PROVE RequestsWhole'
  <2>1. /\ alive /\ pc[th] = "rest" /\ stdio_lock' = "free"
        /\ to_server' = Append(to_server, Half(Request(item[th]), "ends"))
        /\ requests' = Append(requests, Request(item[th]))
        /\ UNCHANGED <<server, server_buf, reply, main, alive>>
    BY <1>3 DEF WriteRest, writerRest, serverVars, ends
  <2>2. main # "gone" /\ stdio_lock = th
    BY <1>3, <2>1, ThreadSteps DEF ThreadStep, Send, Probe, Write, Locked
  <2>3. item[th] \in Seqs
    BY <2>1 DEF Owned, Echoes, Probes
  <2> DEFINE m == Request(item[th])
             u == Up
             a == Up'
             q == Unread
  <2>4. m \in Messages /\ m \in Requests /\ Half(m, "ends") \in Cells
    BY <2>3, RequestFacts, ResponseFacts DEF Cells, Half, Kinds
  <2>5. a = Append(u, Half(m, "ends"))
    BY <1>0, <2>1, <2>4, ConcatAppend DEF Up
  <2>6. Carries(u, q) /\ u \in Seq(Messages \X Kinds) /\ q \in Seq(Messages)
    BY <2>1, UpTyped DEF RequestsWhole
  <2>7. u # <<>> /\ u[Len(u)] = Half(m, "begins")
    BY <2>1, <2>2 DEF RequestsWhole, Open, Last
  <2>8. /\ Unread' = Append(q, m)
        /\ Answering => /\ requests # <<>> /\ requests' # <<>>
                         /\ Head(requests') = Head(requests)
    <3>1. requests' = Append(requests, m)
      BY <2>1
    <3> HIDE DEF m
    <3>2. requests' # <<>> /\ (requests # <<>> => /\ Head(requests') = Head(requests)
                                                  /\ Tail(requests') = Append(Tail(requests), m))
      BY <1>0, <2>4, <3>1, AppendProperties, HeadTailAppend
    <3>3. Answering' = Answering /\ (Answering => requests # <<>>)
      BY <2>1 DEF Answering, RequestsWhole
    <3> QED BY <3>1, <3>2, <3>3 DEF Unread
  <2> HIDE DEF m, u, a, q
  <2>9. Carries(a, Append(q, m)) /\ ~Open(a)
    BY <2>4, <2>5, <2>6, <2>7, EndLine
  <2>10. Answering' = Answering
    BY <2>1 DEF Answering
  <2> QED BY <2>1, <2>8, <2>9, <2>10 DEF RequestsWhole, a
<1>4. ASSUME NEW th \in {"send", "probe"}, WriteClosed(th) \/ WriteFail(th) PROVE RequestsWhole'
  <2>1. UNCHANGED <<server, server_buf, reply, requests, to_server, main, alive, item, mtype>>
    BY <1>4 DEF WriteClosed, WriteFail, offWire, writerRest, serverVars, ends, vars, GiveUp
  <2>2. CASE WriteClosed(th)
    <3>1. stdio_lock = "free" /\ stdio_lock' = "free"
      BY <2>2 DEF WriteClosed, offWire
    <3> QED BY <2>1, <3>1, RequestsKept
  <2>3. CASE WriteFail(th)
    <3>1. ~alive
      BY <2>3 DEF WriteFail
    <3> QED BY <2>1, <3>1 DEF RequestsWhole, Answering
  <2> QED BY <1>4, <2>2, <2>3
<1>5. CASE SchedOffer \/ ProbeDue \/ SendGet
  <2>1. /\ UNCHANGED <<server, server_buf, reply, requests, to_server, main, alive, stdio_lock>>
        /\ \/ mtype' = mtype
           \/ Offer(seq + 1, ECHO) \/ Offer(seq + 1, STATUS)
        /\ \A th \in {"send", "probe"} : pc[th] = "rest" => item'[th] = item[th]
    <3>1. CASE SchedOffer
      BY <3>1 DEF SchedOffer, offWire, writerRest, serverVars, ends, vars
    <3>2. CASE ProbeDue
      <4>1. item' = [item EXCEPT !["probe"] = seq + 1] /\ pc["probe"] = "loop"
        BY <3>2 DEF ProbeDue, Step
      <4>2. \A th \in {"send", "probe"} : pc[th] = "rest" => item'[th] = item[th]
        BY <4>1 DEF Typed
      <4> QED BY <3>2, <4>2 DEF ProbeDue, offWire, writerRest, serverVars, ends, vars
    <3>3. CASE SendGet
      <4>1. item' = [item EXCEPT !["send"] = Head(txq)] /\ pc["send"] = "loop"
        BY <3>3 DEF SendGet, Step
      <4>2. \A th \in {"send", "probe"} : pc[th] = "rest" => item'[th] = item[th]
        BY <4>1 DEF Typed
      <4> QED BY <3>3, <4>2 DEF SendGet, offWire, writerRest, serverVars, ends, vars
    <3> QED BY <1>5, <3>1, <3>2, <3>3
  <2>2. stdio_lock # "free" => Request(item[stdio_lock])' = Request(item[stdio_lock])
    <3> SUFFICES ASSUME stdio_lock # "free" PROVE Request(item[stdio_lock])' = Request(item[stdio_lock])
      OBVIOUS
    <3>1. /\ stdio_lock \in {"send", "probe"} /\ pc[stdio_lock] = "rest"
          /\ item[stdio_lock] \in Seqs /\ outcome[item[stdio_lock]] # "idle"
      BY LockHolder
    <3>2. item'[stdio_lock] = item[stdio_lock]
      BY <2>1, <3>1
    <3>3. mtype'[item[stdio_lock]] = mtype[item[stdio_lock]]
      BY <2>1, <3>1 DEF Offer, Typed
    <3> QED BY <2>1, <3>2, <3>3, RequestStays
  <2> QED BY <2>1, <2>2, RequestsKept
<1>6. CASE Read \/ ReapSweep
  <2>1. UNCHANGED <<server, server_buf, reply, requests, to_server, main, alive, stdio_lock, item, mtype>>
    <3>1. CASE ReadChunk \/ ReapSweep
      BY <3>1 DEF ReadChunk, ReapSweep, GiveUp, readerRest, serverVars, requestVars, ends, vars
    <3>2. CASE ReadLine
      BY <3>2 DEF ReadLine, OnResponse, Answer, readerRest, serverVars, requestVars, ends, vars
    <3> QED BY <1>6, <3>1, <3>2 DEF Read
  <2>2. Request(item[stdio_lock])' = Request(item[stdio_lock])
    BY <2>1, RequestStays
  <2> QED BY <2>1, <2>2, RequestsKept
<1>7. CASE HelloRead \/ HelloFail \/ HelloLine \/ StopCall \/ StopStep
  <2>1. UNCHANGED <<server, server_buf, reply, requests, to_server, alive, stdio_lock, item, mtype>>
    BY <1>7 DEF HelloRead, HelloFail, HelloLine, StopCall, StopStep, StopSet, StopStdin, StopWait, StopJoin,
       GiveUp, stopRest, mainRest, serverVars, requestVars, ends, vars
  <2>2. main # "gone"
    BY <1>7 DEF HelloRead, HelloFail, HelloLine, StopCall, StopStep, StopSet, StopStdin, StopWait, StopJoin,
       Stop
  <2>3. Request(item[stdio_lock])' = Request(item[stdio_lock])
    BY <2>1, RequestStays
  <2> QED BY <2>1, <2>2, <2>3, RequestsKept
<1>8. CASE StrayLine \/ SshDies \/ SshKilled
  <2>1. /\ UNCHANGED <<server, server_buf, reply, requests, to_server, stdio_lock, item, mtype, main>>
        /\ (alive' => alive)
    BY <1>8 DEF StrayLine, SshDies, SshKilled, remoteRest, serverVars, requestVars, vars
  <2>2. Request(item[stdio_lock])' = Request(item[stdio_lock])
    BY <2>1, RequestStays
  <2> QED BY <2>1, <2>2, RequestsKept
<1>9. CASE ServerRead
  <2>1. /\ server = "read" /\ server' \in {"read", "lines"} /\ server_buf' = server_buf \o to_server
        /\ to_server' = <<>> /\ UNCHANGED <<reply, requests, stdio_lock, item, mtype, main, alive>>
    BY <1>9 DEF ServerRead, SStep, Rest, remoteRest, requestVars, vars
  <2>2. Up' = Up
    <3>1. server_buf \o to_server \in Seq(Cells)
      BY <1>0, ConcatProperties
    <3> QED BY <2>1, <3>1, ConcatEmptySeq DEF Up
  <2>3. Unread' = Unread /\ ~Answering'
    BY <2>1 DEF Unread, Answering
  <2>4. Request(item[stdio_lock])' = Request(item[stdio_lock])
    BY <2>1, RequestStays
  <2> QED BY <2>1, <2>2, <2>3, <2>4 DEF RequestsWhole
<1>10. CASE ServerLine
  <2>1. /\ alive /\ server = "lines" /\ server_buf' = AfterLine(server_buf)
        /\ UNCHANGED <<to_server, requests, stdio_lock, item, mtype, main>>
    BY <1>10 DEF ServerLine, SStep, remoteRest, requestVars, vars
  <2>2. /\ requests # <<>> /\ FirstLine(server_buf) = Head(requests) /\ Head(requests) \in Requests
        /\ Carries(Up', Tail(requests)) /\ (Open(Up') <=> Open(Up))
        /\ (Up' # <<>> => Last(Up') = Last(Up))
    <3>1. Up' = AfterLine(server_buf) \o to_server
      BY <2>1 DEF Up
    <3> QED BY <2>1, <3>1, UpLine DEF Locked
  <2>3. Head(requests) # Noise
    BY <2>2, ResponseFacts
  <2>4. CASE alive'
    <3>1. server' = "begin" /\ reply' = Response(Head(requests))
      BY <1>10, <2>2, <2>3, <2>4 DEF ServerLine, SStep
    <3>2. Unread' = Tail(requests) /\ Answering'
      BY <2>1, <3>1 DEF Unread, Answering
    <3>3. Request(item[stdio_lock])' = Request(item[stdio_lock])
      BY <2>1, RequestStays
    <3>4. Open(Up') => Up' # <<>>
      BY DEF Open
    <3>5. Carries(Up', Unread') /\ (main' # "gone" => (Open(Up') <=> stdio_lock' # "free"))
      BY <2>1, <2>2, <3>2 DEF RequestsWhole
    <3>6. stdio_lock' # "free" => Last(Up') = Half(Request(item[stdio_lock])', "begins")
      <4> SUFFICES ASSUME stdio_lock # "free"
                   PROVE  Last(Up') = Half(Request(item[stdio_lock]), "begins")
        BY <2>1, <3>3
      <4>1. main # "gone"
        BY LockHolder, ThreadIs DEF Phases
      <4>2. Open(Up) /\ Last(Up) = Half(Request(item[stdio_lock]), "begins")
        BY <2>1, <4>1 DEF RequestsWhole
      <4> QED BY <2>2, <3>4, <4>2
    <3>7. requests' # <<>> /\ reply' = Response(Head(requests'))
      BY <2>1, <2>2, <3>1
    <3> QED BY <3>5, <3>6, <3>7 DEF RequestsWhole
  <2>5. CASE ~alive'
    <3>1. server' = "returned" \/ (server' = "begin" /\ reply' = Response(Head(requests)))
      BY <1>10, <2>2, <2>3 DEF ServerLine, SStep
    <3> QED BY <2>1, <2>2, <2>5, <3>1 DEF RequestsWhole, Answering
  <2> QED BY <2>4, <2>5
<1>11. CASE ServerBegin
  <2>1. /\ server = "begin" /\ server' = "rest"
        /\ UNCHANGED <<server_buf, to_server, reply, requests, stdio_lock, item, mtype, main, alive>>
    BY <1>11 DEF ServerBegin, SStep, remoteRest, requestVars, vars
  <2>2. Up' = Up /\ Unread' = Unread /\ Answering
    BY <2>1 DEF Up, Unread, Answering
  <2>3. Request(item[stdio_lock])' = Request(item[stdio_lock])
    BY <2>1, RequestStays
  <2> QED BY <2>1, <2>2, <2>3 DEF RequestsWhole
<1>12. CASE ServerRest
  <2>1. /\ server = "rest" /\ server' \in {"read", "lines"} /\ requests' = Tail(requests)
        /\ UNCHANGED <<server_buf, to_server, stdio_lock, item, mtype, main, alive>>
    BY <1>12 DEF ServerRest, SStep, Rest, remoteRest, requestVars, vars
  <2>2. Up' = Up /\ Unread' = Unread /\ ~Answering'
    BY <2>1 DEF Up, Unread, Answering
  <2>3. Request(item[stdio_lock])' = Request(item[stdio_lock])
    BY <2>1, RequestStays
  <2> QED BY <2>1, <2>2, <2>3 DEF RequestsWhole
<1>13. CASE ServerEof \/ ServerBroken
  <2>1. ~alive' /\ server' = "returned"
    BY <1>13 DEF ServerEof, ServerBroken, SStep
  <2> QED BY <2>1 DEF RequestsWhole, Answering
<1>14. CASE Ended
  <2>1. /\ UNCHANGED <<server, server_buf, reply, requests, to_server>>
        /\ stdio_lock' = "free" /\ main' = "gone" /\ (alive' => alive)
    BY <1>14 DEF Ended, Gone, serverVars
  <2>2. Up' = Up /\ Unread' = Unread /\ Answering' = Answering
    BY <2>1 DEF Up, Unread, Answering
  <2> QED BY <2>1, <2>2 DEF RequestsWhole
<1>15. CASE UNCHANGED sessionVars
  <2>1. UNCHANGED <<server, server_buf, reply, requests, to_server, alive, stdio_lock, item, mtype, main>>
    BY <1>15 DEF sessionVars, serverVars, requestVars, ends, vars
  <2>2. Request(item[stdio_lock])' = Request(item[stdio_lock])
    BY <2>1, RequestStays
  <2> QED BY <2>1, <2>2, RequestsKept
<1> QED BY StepKinds, <1>1, <1>2, <1>3, <1>4, <1>5, <1>6, <1>7, <1>8, <1>9, <1>10, <1>11, <1>12, <1>13,
           <1>14, <1>15
        DEF ThreadStep, Send, Probe, Write, RemoteStep, Server, OwnStep, Start

-----------------------------------------------------------------------------
(* Part 4 is kept *)

\* Requests can be counted.
LEMMA Counts ==
  ASSUME NEW S \in SUBSET Seqs
  PROVE  IsFiniteSet(S) /\ Cardinality(S) \in Nat
BY SmallSets, FS_Subset, FS_CardinalityType

\* One more request in a set counts one more.
LEMMA OneMore ==
  ASSUME NEW S \in SUBSET Seqs, NEW x \in Seqs, x \notin S
  PROVE  Cardinality(S \cup {x}) = Cardinality(S) + 1
BY Counts, FS_AddElement

\* A request that is offered is new, and of one kind.
LEMMA NewEcho ==
  ASSUME Typed, Numbered, SchedOffer, size # "huge"
  PROVE  /\ seq + 1 \in Seqs \ Echoes /\ Echoes' = Echoes \cup {seq + 1} /\ Probes' = Probes
         /\ \A s \in Seqs : s # seq + 1 => outcome'[s] = outcome[s] /\ mtype'[s] = mtype[s]
         /\ outcome'[seq + 1] = "open" /\ mtype'[seq + 1] = ECHO /\ outcome[seq + 1] = "idle" /\ Recount
<1>1. seq + 1 \in Seqs
  BY NextNumber DEF SchedOffer
<1>2. Offer(seq + 1, ECHO)
  BY DEF SchedOffer
<1>3. /\ outcome'[seq + 1] = "open" /\ mtype'[seq + 1] = ECHO /\ outcome[seq + 1] = "idle"
      /\ \A r \in Seqs : r # seq + 1 => outcome'[r] = outcome[r] /\ mtype'[r] = mtype[r]
  BY <1>1, <1>2, OfferTyped
<1>4. Recount
  BY <1>2 DEF Offer
<1>5. Echoes' = Echoes \cup {seq + 1} /\ Probes' = Probes
  BY <1>1, <1>3, SmallSets DEF Echoes, Probes
<1>6. seq + 1 \notin Echoes
  BY <1>3 DEF Echoes
<1> QED BY <1>1, <1>3, <1>4, <1>5, <1>6

\* A probe is new, and of one kind.
LEMMA NewProbe ==
  ASSUME Typed, Numbered, ProbeDue
  PROVE  /\ seq + 1 \in Seqs \ Probes /\ Probes' = Probes \cup {seq + 1} /\ Echoes' = Echoes
         /\ \A s \in Seqs : s # seq + 1 => outcome'[s] = outcome[s] /\ mtype'[s] = mtype[s]
         /\ outcome'[seq + 1] = "open" /\ mtype'[seq + 1] = STATUS /\ outcome[seq + 1] = "idle" /\ Recount
<1>1. seq + 1 \in Seqs
  BY NextNumber DEF ProbeDue
<1>2. Offer(seq + 1, STATUS)
  BY DEF ProbeDue
<1>3. /\ outcome'[seq + 1] = "open" /\ mtype'[seq + 1] = STATUS /\ outcome[seq + 1] = "idle"
      /\ \A r \in Seqs : r # seq + 1 => outcome'[r] = outcome[r] /\ mtype'[r] = mtype[r]
  BY <1>1, <1>2, OfferTyped
<1>4. Recount
  BY <1>2 DEF Offer
<1>5. Echoes' = Echoes /\ Probes' = Probes \cup {seq + 1}
  BY <1>1, <1>3, SmallSets DEF Echoes, Probes
<1>6. seq + 1 \notin Probes
  BY <1>3 DEF Probes
<1> QED BY <1>1, <1>3, <1>4, <1>5, <1>6

\* A sweep changes neither who was offered nor who was answered.
LEMMA GiveUpKeeps ==
  ASSUME Typed, NEW L, NEW U, GiveUp(L, U)
  PROVE  /\ mtype' = mtype /\ Recount
         /\ \A s \in Seqs : /\ outcome'[s] = "idle" <=> outcome[s] = "idle"
                            /\ outcome'[s] = "answered" <=> outcome[s] = "answered"
<1>1. /\ outcome' = [s \in Seqs |-> CASE s \in L -> "lost" [] s \in U -> "unsent" [] OTHER -> outcome[s]]
      /\ mtype' = mtype /\ Recount /\ L \cup U \subseteq WithOutcome("open") /\ L \cap U = {}
  BY DEF GiveUp
<1>2. ASSUME NEW s \in Seqs
      PROVE  /\ outcome'[s] = "idle" <=> outcome[s] = "idle"
             /\ outcome'[s] = "answered" <=> outcome[s] = "answered"
  <2>1. CASE s \in L
    BY <1>1, <2>1 DEF WithOutcome
  <2>2. CASE s \in U
    BY <1>1, <2>2 DEF WithOutcome
  <2>3. CASE s \notin L /\ s \notin U
    BY <1>1, <2>3
  <2> QED BY <2>1, <2>2, <2>3
<1> QED BY <1>1, <1>2

\* Every other step leaves the numbers, and who has one, alone.
LEMMA SameRequests ==
  ASSUME Typed, SessionStep, ~SchedOffer, ~ProbeDue
  PROVE  /\ mtype' = mtype /\ seq' = seq /\ offered' = offered
         /\ \A s \in Seqs : outcome'[s] = "idle" <=> outcome[s] = "idle"
         /\ Echoes' = Echoes /\ Probes' = Probes
<1> DEFINE Same == mtype' = mtype /\ seq' = seq /\ offered' = offered
                   /\ \A s \in Seqs : outcome'[s] = "idle" <=> outcome[s] = "idle"
<1>1. ASSUME SendGet PROVE Same
  BY <1>1 DEF SendGet, offWire, vars
<1>2. ASSUME NEW th \in {"send", "probe"}, Write(th) PROVE Same
  <2>1. CASE WriteClosed(th)
    BY <2>1 DEF WriteClosed, offWire, vars
  <2>2. CASE WriteFail(th)
    <3>1. GiveUp({}, {item[th]}) /\ seq' = seq /\ offered' = offered
      BY <2>2 DEF WriteFail, sendCounts
    <3> QED BY <3>1, GiveUpKeeps
  <2>3. CASE WriteBegin(th)
    BY <2>3 DEF WriteBegin, vars, sendCounts
  <2>4. CASE WriteRest(th)
    BY <2>4 DEF WriteRest, vars
  <2> QED BY <1>2, <2>1, <2>2, <2>3, <2>4 DEF Write
<1>3. ASSUME ReadChunk PROVE Same
  BY <1>3 DEF ReadChunk, readerRest, vars, requestVars, sendCounts
<1>4. ASSUME ReadLine PROVE Same
  <2>1. UNCHANGED vars \/ Answer(FirstLine(buf)[2])
    BY <1>4 DEF ReadLine, OnResponse
  <2>2. mtype' = mtype /\ \A s \in Seqs : outcome'[s] = "idle" <=> outcome[s] = "idle"
    <3>1. CASE UNCHANGED vars
      BY <3>1 DEF vars
    <3>2. CASE Answer(FirstLine(buf)[2])
      BY <3>2 DEF Answer, Typed
    <3> QED BY <2>1, <3>1, <3>2
  <2> QED BY <1>4, <2>2 DEF ReadLine, readerRest, requestVars, sendCounts
<1>5. ASSUME ReapSweep PROVE Same
  <2>1. PICK L : GiveUp(L, {})
    BY <1>5 DEF ReapSweep
  <2> QED BY <1>5, <2>1, GiveUpKeeps DEF ReapSweep, readerRest, requestVars, sendCounts
<1>6. ASSUME StopJoin PROVE Same
  <2>1. GiveUp(Marked, WithOutcome("open") \ Marked)
    BY <1>6 DEF StopJoin
  <2> QED BY <1>6, <2>1, GiveUpKeeps DEF StopJoin, stopRest, mainRest, requestVars, report, sendCounts
<1>7. ASSUME Start \/ StopCall \/ StopSet \/ StopStdin \/ StopWait PROVE Same
  BY <1>7 DEF Start, HelloWrite, HelloRead, HelloFail, HelloLine, StopCall, StopSet, StopStdin, StopWait,
     stopRest, mainRest, requestVars, report, sendCounts, vars
<1>8. ASSUME RemoteStep PROVE Same
  BY <1>8, RemoteSteps DEF remoteRest, vars, report, sendCounts, requestVars
<1>9. ASSUME Ended PROVE Same
  BY <1>9 DEF Ended, Gone, vars, report, sendCounts, requestVars
<1>10. ASSUME UNCHANGED sessionVars PROVE Same
  BY <1>10 DEF sessionVars, vars, report, sendCounts, requestVars
<1>11. Same
  BY StepKinds, <1>1, <1>2, <1>3, <1>4, <1>5, <1>6, <1>7, <1>8, <1>9, <1>10
     DEF ThreadStep, Send, Probe, Read, OwnStep, StopStep
<1>12. Echoes' = Echoes /\ Probes' = Probes
  BY <1>11 DEF Echoes, Probes
<1> QED BY <1>11, <1>12

\* A number is drawn for each offer and for each probe, and for nothing else.
LEMMA NextNumbered ==
  ASSUME Typed, Numbered, SessionStep
  PROVE  Numbered'
<1>0. /\ seq \in Nat /\ offered \in Nat /\ MaxEchoes \in Nat /\ MaxProbes \in Nat /\ Seqs \subseteq Nat
      /\ Cardinality(Probes) \in Nat
  <2>1. Cardinality(Probes) \in Nat
    BY Counts DEF Probes
  <2> QED BY <2>1, SmallSets, SessionAssumption DEF Typed
<1>1. CASE SchedOffer
  <2>1. seq' = seq + 1 /\ offered' = offered + 1 /\ offered < MaxEchoes
    BY <1>1 DEF SchedOffer
  <2>2. Probes' = Probes /\ \A s \in Seqs : s # seq + 1 => outcome'[s] = outcome[s]
    <3>1. CASE size = "huge"
      BY <1>1, <3>1 DEF SchedOffer, vars, Probes
    <3>2. CASE size # "huge"
      BY <1>1, <3>2, NewEcho
    <3> QED BY <3>1, <3>2
  <2>3. \A s \in Seqs : s > seq' => outcome'[s] = "idle"
    BY <1>0, <2>1, <2>2 DEF Numbered
  <2>4. seq' = offered' + Cardinality(Probes')
    BY <1>0, <2>1, <2>2 DEF Numbered
  <2>5. offered' <= MaxEchoes /\ Cardinality(Probes') <= MaxProbes
    BY <1>0, <2>1, <2>2 DEF Numbered
  <2> QED BY <2>3, <2>4, <2>5 DEF Numbered
<1>2. CASE ProbeDue
  <2>1. seq' = seq + 1 /\ offered' = offered /\ Cardinality(Probes) < MaxProbes
    BY <1>2 DEF ProbeDue
  <2>2. /\ seq + 1 \in Seqs \ Probes /\ Probes' = Probes \cup {seq + 1}
        /\ \A s \in Seqs : s # seq + 1 => outcome'[s] = outcome[s]
    BY <1>2, NewProbe
  <2>3. Cardinality(Probes') = Cardinality(Probes) + 1
    BY <2>2, OneMore DEF Probes
  <2>4. \A s \in Seqs : s > seq' => outcome'[s] = "idle"
    BY <1>0, <2>1, <2>2 DEF Numbered
  <2>5. seq' = offered' + Cardinality(Probes')
    BY <1>0, <2>1, <2>3 DEF Numbered
  <2>6. offered' <= MaxEchoes /\ Cardinality(Probes') <= MaxProbes
    BY <1>0, <2>1, <2>3 DEF Numbered
  <2> QED BY <2>4, <2>5, <2>6 DEF Numbered
<1>3. CASE ~SchedOffer /\ ~ProbeDue
  <2>1. /\ seq' = seq /\ offered' = offered /\ Probes' = Probes
        /\ \A s \in Seqs : outcome'[s] = "idle" <=> outcome[s] = "idle"
    BY <1>3, SameRequests
  <2> QED BY <2>1 DEF Numbered
<1> QED BY <1>1, <1>2, <1>3

\* A request that has a number keeps it: what was a request's own stays so.
LEMMA Grows ==
  ASSUME Typed, Numbered, SessionStep
  PROVE  /\ Echoes \subseteq Echoes' /\ Probes \subseteq Probes'
         /\ GenuineOf(Requests) \subseteq GenuineOf(Requests)'
         /\ GenuineOf(Messages) \subseteq GenuineOf(Messages)'
<1>1. Echoes \subseteq Echoes' /\ Probes \subseteq Probes'
  <2>1. CASE SchedOffer /\ size = "huge"
    BY <2>1 DEF SchedOffer, vars, Echoes, Probes
  <2>2. CASE SchedOffer /\ size # "huge"
    BY <2>2, NewEcho
  <2>3. CASE ProbeDue
    BY <2>3, NewProbe
  <2>4. CASE ~SchedOffer /\ ~ProbeDue
    BY <2>4, SameRequests
  <2> QED BY <2>1, <2>2, <2>3, <2>4
<1> QED BY <1>1 DEF GenuineOf, Genuine

HandsKept ==
  \A th \in {"send", "probe"} :
    pc'[th] \in {"write", "rest"} => pc[th] \in {"write", "rest"} /\ item'[th] = item[th]

\* Only two steps put a request into a writer's hand.
LEMMA Hands ==
  ASSUME Typed, SessionStep, ~SendGet, ~ProbeDue
  PROVE  HandsKept
<1>1. CASE SchedOffer
  <2>1. PICK b \in {"loop", "crashed"} : Step("schedule", "loop", b)
    BY <1>1 DEF SchedOffer
  <2>2. \A o \in Threads : o # "schedule" => pc'[o] = pc[o]
    BY <2>1, ThreadIs, StepTyped DEF Labels
  <2> QED BY <1>1, <2>2, ThreadIs DEF SchedOffer, HandsKept
<1>2. ASSUME NEW th \in {"send", "probe"}, Write(th) PROVE HandsKept
  <2>1. item' = item /\ pc[th] \in {"write", "rest"}
    BY <1>2 DEF Write, WriteClosed, WriteFail, WriteBegin, WriteRest, Step
  <2>2. \A o \in Threads : o # th => pc'[o] = pc[o]
    BY <1>2 DEF Write, WriteClosed, WriteFail, WriteBegin, WriteRest, Step, Typed
  <2> QED BY <2>1, <2>2, Thread DEF HandsKept
<1>3. CASE ReadChunk
  <2>1. \A o \in Threads : o # "read" => pc'[o] = pc[o]
    BY <1>3 DEF ReadChunk, Step, Typed
  <2>2. item' = item
    BY <1>3 DEF ReadChunk, readerRest, requestVars
  <2> QED BY <2>1, <2>2, ThreadIs DEF HandsKept
<1>4. CASE ReadLine
  <2>1. PICK b : Step("read", "lines", b)
    BY <1>4 DEF ReadLine
  <2>2. \A o \in Threads : o # "read" => pc'[o] = pc[o]
    BY <2>1 DEF Step, Typed
  <2>3. item' = item
    BY <1>4 DEF ReadLine, readerRest, requestVars
  <2> QED BY <2>2, <2>3, ThreadIs DEF HandsKept
<1>5. CASE ReapSweep
  BY <1>5 DEF ReapSweep, readerRest, requestVars, HandsKept
<1>6. CASE HelloLine
  <2>1. item' = item /\ (pc' = pc \/ pc' = [th \in Threads |-> "loop"])
    BY <1>6 DEF HelloLine, mainRest, requestVars
  <2> QED BY <2>1, ThreadIs DEF HandsKept
<1>7. CASE HelloWrite \/ HelloRead \/ HelloFail \/ StopCall \/ StopStep
  BY <1>7 DEF HelloWrite, HelloRead, HelloFail, StopCall, StopStep, StopSet, StopStdin, StopWait, StopJoin,
     stopRest, mainRest, requestVars, HandsKept
<1>8. CASE RemoteStep
  BY <1>8, RemoteSteps DEF remoteRest, requestVars, HandsKept
<1>9. CASE Ended
  BY <1>9, ThreadIs DEF Ended, Gone, HandsKept
<1>10. CASE UNCHANGED sessionVars
  BY <1>10 DEF sessionVars, requestVars, HandsKept
<1> QED BY StepKinds, <1>1, <1>2, <1>3, <1>4, <1>5, <1>6, <1>7, <1>8, <1>9, <1>10
        DEF ThreadStep, Send, Probe, Read, OwnStep, Start

\* What is in a queue or in a writer's hand or on its way stays somebody's.
LEMMA OwnedStays ==
  ASSUME Typed, Numbered, Owned, SessionStep
  PROVE  /\ txq \in Seq(Echoes') /\ requests \in Seq(GenuineOf(Requests)')
         /\ replies \in Seq(GenuineOf(Messages)')
         /\ HandsKept => /\ pc'["send"] \in {"write", "rest"} => item'["send"] \in Echoes'
                         /\ pc'["probe"] \in {"write", "rest"} => item'["probe"] \in Probes'
<1>1. /\ Echoes \subseteq Echoes' /\ Probes \subseteq Probes'
      /\ GenuineOf(Requests) \subseteq GenuineOf(Requests)'
      /\ GenuineOf(Messages) \subseteq GenuineOf(Messages)'
  BY Grows
<1>2. txq \in Seq(Echoes')
  BY <1>1, SeqMonotonic DEF Owned
<1>3. requests \in Seq(GenuineOf(Requests)')
  BY <1>1, SeqMonotonic DEF Owned
<1>4. replies \in Seq(GenuineOf(Messages)')
  BY <1>1, SeqMonotonic DEF Owned
<1>5. HandsKept => /\ pc'["send"] \in {"write", "rest"} => item'["send"] \in Echoes'
                   /\ pc'["probe"] \in {"write", "rest"} => item'["probe"] \in Probes'
  BY <1>1 DEF Owned, HandsKept
<1> QED BY <1>2, <1>3, <1>4, <1>5

\* A step that moves no request keeps their owners.
LEMMA OwnedKept ==
  ASSUME Typed, Numbered, Owned, SessionStep, ~SendGet, ~ProbeDue, UNCHANGED <<txq, requests, replies>>
  PROVE  Owned'
<1>1. HandsKept
  BY Hands
<1>2. /\ txq' \in Seq(Echoes') /\ requests' \in Seq(GenuineOf(Requests)')
      /\ replies' \in Seq(GenuineOf(Messages)')
      /\ (pc'["send"] \in {"write", "rest"} => item'["send"] \in Echoes')
      /\ (pc'["probe"] \in {"write", "rest"} => item'["probe"] \in Probes')
  BY <1>1, OwnedStays
<1> QED BY <1>2 DEF Owned

\* Whatever is queued, in hand, written or on its way back was offered before.
LEMMA NextOwned ==
  ASSUME Typed, Locked, RepliesWhole, RequestsWhole, Numbered, Owned, SessionStep
  PROVE  Owned'
<1>0. /\ txq \in Seq(Echoes') /\ requests \in Seq(GenuineOf(Requests)')
      /\ replies \in Seq(GenuineOf(Messages)')
      /\ HandsKept => /\ pc'["send"] \in {"write", "rest"} => item'["send"] \in Echoes'
                      /\ pc'["probe"] \in {"write", "rest"} => item'["probe"] \in Probes'
  BY OwnedStays
<1>1. CASE SchedOffer
  <2>1. HandsKept /\ UNCHANGED <<requests, replies>>
    <3>1. ~SendGet /\ ~ProbeDue
      BY <1>1 DEF SchedOffer, SendGet, ProbeDue, Typed
    <3> QED BY <1>1, <3>1, Hands DEF SchedOffer, offWire, writerRest
  <2>2. txq' \in Seq(Echoes')
    <3>1. CASE size = "huge"
      BY <1>0, <1>1, <3>1 DEF SchedOffer
    <3>2. CASE size # "huge"
      <4>1. seq + 1 \in Echoes' /\ txq' = Append(txq, seq + 1)
        BY <1>1, <3>2, NewEcho DEF SchedOffer
      <4> QED BY <1>0, <4>1, AppendProperties
    <3> QED BY <3>1, <3>2
  <2> QED BY <1>0, <2>1, <2>2 DEF Owned
<1>2. CASE SendGet
  <2>1. /\ txq # <<>> /\ txq' = Tail(txq) /\ item' = [item EXCEPT !["send"] = Head(txq)]
        /\ UNCHANGED <<requests, replies>> /\ Step("send", "loop", "write")
    BY <1>2 DEF SendGet, offWire, writerRest
  <2>2. Head(txq) \in Echoes' /\ Tail(txq) \in Seq(Echoes')
    BY <1>0, <2>1, HeadTailProperties
  <2>3. item'["send"] = Head(txq) /\ item'["probe"] = item["probe"]
    BY <2>1 DEF Typed
  <2>4. pc'["probe"] = pc["probe"]
    BY <2>1 DEF Step, Typed
  <2>5. pc'["probe"] \in {"write", "rest"} => item'["probe"] \in Probes'
    BY <2>3, <2>4, Grows DEF Owned
  <2> QED BY <1>0, <2>1, <2>2, <2>3, <2>5 DEF Owned
<1>3. CASE ProbeDue
  <2>1. /\ item' = [item EXCEPT !["probe"] = seq + 1]
        /\ UNCHANGED <<txq, requests, replies>> /\ Step("probe", "loop", "write")
    BY <1>3 DEF ProbeDue, offWire, writerRest
  <2>2. seq + 1 \in Probes'
    BY <1>3, NewProbe
  <2>3. item'["probe"] = seq + 1 /\ item'["send"] = item["send"]
    BY <2>1 DEF Typed
  <2>4. pc'["send"] = pc["send"]
    BY <2>1 DEF Step, Typed
  <2>5. pc'["send"] \in {"write", "rest"} => item'["send"] \in Echoes'
    BY <2>3, <2>4, Grows DEF Owned
  <2> QED BY <1>0, <2>1, <2>2, <2>3, <2>5 DEF Owned
<1>4. ASSUME NEW th \in {"send", "probe"}, WriteRest(th) PROVE Owned'
  <2>1. /\ pc[th] = "rest" /\ requests' = Append(requests, Request(item[th]))
        /\ UNCHANGED <<txq, replies, mtype, outcome, item>>
    BY <1>4 DEF WriteRest, writerRest, vars
  <2>2. ~SendGet /\ ~ProbeDue
    <3>1. requests' # requests
      <4>1. item[th] \in Seqs
        BY <2>1 DEF Owned, Echoes, Probes
      <4>2. requests \in Seq(Requests) /\ Request(item[th]) \in Requests
        BY <4>1, RequestFacts DEF Typed
      <4>3. Len(requests') = Len(requests) + 1 /\ Len(requests) \in Nat
        BY <2>1, <4>2, AppendProperties, LenProperties
      <4> QED BY <4>3
    <3> QED BY <3>1 DEF SendGet, ProbeDue, offWire
  <2>3. HandsKept
    BY <2>2, Hands
  <2>4. Request(item[th]) \in GenuineOf(Requests)'
    <3>1. CASE th = "send"
      <4>1. item[th] \in Echoes
        BY <2>1, <3>1 DEF Owned
      <4>2. item[th] \in Seqs /\ mtype[item[th]] = ECHO
        BY <4>1 DEF Echoes
      <4>3. /\ Request(item[th]) \in Requests /\ Request(item[th])[2] = item[th]
            /\ Request(item[th])[1] = "e"
        BY <4>2, RequestFacts
      <4>4. Request(item[th]) \in GenuineOf(Requests)
        BY <4>1, <4>3 DEF GenuineOf, Genuine
      <4> QED BY <4>4, Grows
    <3>2. CASE th = "probe"
      <4>1. item[th] \in Probes
        BY <2>1, <3>2 DEF Owned
      <4>2. item[th] \in Seqs /\ mtype[item[th]] = STATUS /\ ECHO # STATUS
        BY <4>1, SmallSets DEF Probes
      <4>3. /\ Request(item[th]) \in Requests /\ Request(item[th])[2] = item[th]
            /\ Request(item[th])[1] = "s"
        BY <4>2, RequestFacts
      <4>4. Request(item[th]) \in GenuineOf(Requests)
        BY <4>1, <4>3 DEF GenuineOf, Genuine
      <4> QED BY <4>4, Grows
    <3> QED BY <3>1, <3>2
  <2>5. requests' \in Seq(GenuineOf(Requests)')
    BY <1>0, <2>1, <2>4, AppendProperties
  <2> QED BY <1>0, <2>1, <2>3, <2>5 DEF Owned
<1>5. CASE HelloWrite
  <2>1. UNCHANGED <<txq, replies, pc, item>>
    BY <1>5 DEF HelloWrite, mainRest, requestVars
  <2>2. requests' \in Seq(GenuineOf(Requests)')
    <3>1. Hello \in GenuineOf(Requests)
      BY DEF Hello, GenuineOf, Genuine, Requests
    <3>2. Hello \in GenuineOf(Requests)'
      BY <3>1, Grows
    <3>3. requests' = requests \/ requests' = <<Hello>>
      BY <1>5 DEF HelloWrite
    <3> DEFINE h == Hello
               G == GenuineOf(Requests)'
    <3> HIDE DEF h, G
    <3>4. h \in G
      BY <3>2 DEF h, G
    <3>5. <<h>> \in Seq(G)
      BY <3>4
    <3> QED BY <1>0, <3>3, <3>5 DEF h, G
  <2>3. HandsKept
    BY <2>1 DEF HandsKept
  <2> QED BY <1>0, <2>1, <2>2, <2>3 DEF Owned
<1>6. CASE (HelloLine \/ ReadLine) /\ ~SendGet /\ ~ProbeDue
  <2>1. UNCHANGED <<txq, requests>>
    BY <1>6 DEF HelloLine, ReadLine, mainRest, readerRest, requestVars
  <2>2. replies' \in Seq(GenuineOf(Messages)')
    <3>1. CASE LineEnds(buf) = {}
      <4>1. replies' = replies
        BY <1>6, <3>1 DEF HelloLine, ReadLine, Locked
      <4> QED BY <1>0, <4>1
    <3>2. CASE LineEnds(buf) # {}
      <4>1. replies' = Tail(replies) /\ replies # <<>>
        BY <1>6, <3>2, DownLine DEF HelloLine, ReadLine
      <4> QED BY <1>0, <4>1, HeadTailProperties
    <3> QED BY <3>1, <3>2
  <2>3. HandsKept
    BY <1>6, Hands
  <2> QED BY <1>0, <2>1, <2>2, <2>3 DEF Owned
<1>7. CASE ServerRest
  <2>1. /\ server = "rest" /\ replies' = Append(replies, reply) /\ requests' = Tail(requests)
        /\ UNCHANGED <<txq, pc, item>>
    BY <1>7 DEF ServerRest, SStep, remoteRest, requestVars
  <2>2. requests # <<>> /\ reply = Response(Head(requests))
    BY <2>1 DEF RequestsWhole, Answering
  <2>3. requests' \in Seq(GenuineOf(Requests)')
    BY <1>0, <2>1, <2>2, HeadTailProperties
  <2>4. Head(requests) \in GenuineOf(Requests)
    BY <2>2, HeadTailProperties DEF Owned
  <2>5. reply \in GenuineOf(Messages)
    BY <2>2, <2>4, ResponseFacts DEF GenuineOf, Genuine
  <2>6. replies' \in Seq(GenuineOf(Messages)')
    BY <1>0, <2>1, <2>5, Grows, AppendProperties
  <2>7. HandsKept
    BY <2>1 DEF HandsKept
  <2> QED BY <1>0, <2>1, <2>3, <2>6, <2>7 DEF Owned
<1>8. CASE StrayLine
  <2>1. PICK k \in Strays : replies' = Append(replies, <<k, 0>>)
    BY <1>8 DEF StrayLine
  <2>2. UNCHANGED <<txq, requests, pc, item>>
    BY <1>8 DEF StrayLine, remoteRest, requestVars
  <2>3. <<k, 0>> \in GenuineOf(Messages)
    BY SessionAssumption DEF GenuineOf, Genuine, Messages
  <2>4. replies' \in Seq(GenuineOf(Messages)')
    BY <1>0, <2>1, <2>3, Grows, AppendProperties
  <2>5. HandsKept
    BY <2>2 DEF HandsKept
  <2> QED BY <1>0, <2>2, <2>4, <2>5 DEF Owned
<1>9. ASSUME NEW th \in {"send", "probe"}, WriteClosed(th) \/ WriteFail(th) \/ WriteBegin(th),
             ~SendGet, ~ProbeDue
      PROVE  Owned'
  <2>1. UNCHANGED <<txq, requests, replies>>
    BY <1>9 DEF WriteClosed, WriteFail, WriteBegin, offWire, writerRest
  <2> QED BY <1>9, <2>1, OwnedKept
<1>10. CASE (ReadChunk \/ ReapSweep) /\ ~SendGet /\ ~ProbeDue
  <2>1. UNCHANGED <<txq, requests, replies>>
    BY <1>10 DEF ReadChunk, ReapSweep, readerRest, requestVars
  <2> QED BY <1>10, <2>1, OwnedKept
<1>11. CASE (HelloRead \/ HelloFail \/ StopCall \/ StopStep) /\ ~SendGet /\ ~ProbeDue
  <2>1. UNCHANGED <<txq, requests, replies>>
    BY <1>11 DEF HelloRead, HelloFail, StopCall, StopStep, StopSet, StopStdin, StopWait, StopJoin,
       stopRest, mainRest, requestVars
  <2> QED BY <1>11, <2>1, OwnedKept
<1>12. CASE (ServerRead \/ ServerLine \/ ServerEof \/ ServerBegin \/ ServerBroken) /\ ~SendGet /\ ~ProbeDue
  <2>1. UNCHANGED <<txq, requests, replies>>
    BY <1>12 DEF ServerRead, ServerLine, ServerEof, ServerBegin, ServerBroken, remoteRest, requestVars
  <2> QED BY <1>12, <2>1, OwnedKept
<1>13. CASE (SshDies \/ SshKilled \/ Ended \/ UNCHANGED sessionVars) /\ ~SendGet /\ ~ProbeDue
  <2>1. UNCHANGED <<txq, requests, replies>>
    BY <1>13 DEF SshDies, SshKilled, Ended, Gone, sessionVars, remoteRest, requestVars
  <2> QED BY <1>13, <2>1, OwnedKept
<1> QED BY StepKinds, <1>1, <1>2, <1>3, <1>4, <1>5, <1>6, <1>7, <1>8, <1>9, <1>10, <1>11, <1>12, <1>13
        DEF ThreadStep, Send, Probe, Read, Write, RemoteStep, Server, OwnStep, Start

\* Messages of a kind can be counted.
LEMMA KindFinite ==
  ASSUME NEW S, NEW q \in Seq(S), NEW K
  PROVE  IsFiniteSet(Kind(q, K)) /\ Cardinality(Kind(q, K)) \in Nat
<1>1. DOMAIN q = 1..Len(q) /\ Len(q) \in Nat
  BY LenProperties
<1>2. Kind(q, K) \subseteq 1..Len(q) /\ IsFiniteSet(1..Len(q))
  BY <1>1, FS_Interval DEF Kind
<1> QED BY <1>2, FS_Subset, FS_CardinalityType

\* A message put at the end counts for its kind ...
LEMMA KindAppend ==
  ASSUME NEW S, NEW q \in Seq(S), NEW m \in S, NEW K
  PROVE  Cardinality(Kind(Append(q, m), K)) = Cardinality(Kind(q, K)) + One(m[1] \in K)
<1> DEFINE a == Append(q, m)
           n == Len(q) + 1
<1>1. /\ DOMAIN q = 1..Len(q) /\ Len(q) \in Nat /\ DOMAIN a = 1..n
      /\ a[n] = m /\ \A i \in 1..Len(q) : a[i] = q[i]
  BY AppendProperties, LenProperties
<1>2. 1..n = 1..Len(q) \cup {n} /\ n \notin 1..Len(q)
  BY <1>1
<1>3. IsFiniteSet(Kind(q, K)) /\ Cardinality(Kind(q, K)) \in Nat /\ n \notin Kind(q, K)
  BY <1>1, <1>2, KindFinite DEF Kind
<1> HIDE DEF a, n
<1>4. CASE m[1] \in K
  <2>1. Kind(a, K) = Kind(q, K) \cup {n}
    BY <1>1, <1>2, <1>4 DEF Kind
  <2>2. Cardinality(Kind(q, K) \cup {n}) = Cardinality(Kind(q, K)) + 1
    BY <1>3, FS_AddElement
  <2> QED BY <1>4, <2>1, <2>2 DEF One, a
<1>5. CASE m[1] \notin K
  <2>1. Kind(a, K) = Kind(q, K)
    BY <1>1, <1>2, <1>5 DEF Kind
  <2> QED BY <1>3, <1>5, <2>1 DEF One, a
<1> QED BY <1>4, <1>5

\* ... and one taken from the front no more.
LEMMA KindTail ==
  ASSUME NEW S, NEW q \in Seq(S), q # <<>>, NEW K
  PROVE  Cardinality(Kind(q, K)) = Cardinality(Kind(Tail(q), K)) + One(Head(q)[1] \in K)
<1> DEFINE t == Tail(q)
           L == Kind(q, K) \ {1}
<1>1. /\ Len(q) \in Nat /\ Len(q) # 0 /\ DOMAIN q = 1..Len(q) /\ DOMAIN t = 1..(Len(q) - 1)
      /\ Head(q) = q[1] /\ t \in Seq(S) /\ \A i \in 1..(Len(q) - 1) : t[i] = q[i + 1]
  BY HeadTailProperties, LenProperties, EmptySeq
<1>2. /\ IsFiniteSet(Kind(q, K)) /\ IsFiniteSet(Kind(t, K))
      /\ Cardinality(Kind(t, K)) \in Nat /\ Cardinality(Kind(q, K)) \in Nat
  BY <1>1, KindFinite
<1> HIDE DEF t
<1>3. /\ Kind(q, K) = {i \in 1..Len(q) : q[i][1] \in K}
      /\ Kind(t, K) = {i \in 1..(Len(q) - 1) : q[i + 1][1] \in K}
      /\ L = {i \in 1..Len(q) : i # 1 /\ q[i][1] \in K}
  BY <1>1 DEF Kind
<1>4. IsFiniteSet(L)
  BY <1>2, FS_Subset
<1> HIDE DEF L
<1>5. Cardinality(L) = Cardinality(Kind(t, K))
  <2> DEFINE h == [i \in Kind(t, K) |-> i + 1]
  <2>1. \A i \in Kind(t, K) : i + 1 \in L
    BY <1>1, <1>3
  <2>2. ASSUME NEW j \in L PROVE j - 1 \in Kind(t, K) /\ h[j - 1] = j
    <3>1. j \in 1..Len(q) /\ j # 1 /\ q[j][1] \in K
      BY <1>3
    <3>2. j - 1 \in 1..(Len(q) - 1) /\ (j - 1) + 1 = j
      BY <1>1, <3>1
    <3> QED BY <1>3, <3>1, <3>2
  <2>3. \A i, j \in Kind(t, K) : h[i] = h[j] => i = j
    BY <1>1, <1>3
  <2>4. h \in [Kind(t, K) -> L]
    BY <2>1
  <2> HIDE DEF h
  <2>5. h \in Bijection(Kind(t, K), L)
    BY <2>2, <2>3, <2>4, Zenon DEF Bijection, Injection, Surjection, IsInjective
  <2> QED BY <1>2, <2>5, FS_Bijection DEF ExistsBijection
<1>6. CASE Head(q)[1] \in K
  <2>1. Kind(q, K) = L \cup {1} /\ 1 \notin L
    BY <1>1, <1>3, <1>6
  <2>2. Cardinality(L \cup {1}) = Cardinality(L) + 1
    BY <1>4, <2>1, FS_AddElement
  <2> QED BY <1>5, <1>6, <2>1, <2>2 DEF One, t
<1>7. CASE Head(q)[1] \notin K
  <2>1. Kind(q, K) = L
    BY <1>1, <1>3, <1>7
  <2> QED BY <1>2, <1>5, <1>7, <2>1 DEF One, t
<1> QED BY <1>6, <1>7

-----------------------------------------------------------------------------

\* The ledger counts what is lost.
LEMMA LostCounted ==
  ASSUME Recount PROVE lost' = Cardinality(LostOf(Echoes)')
<1>1. LostOf(Echoes)' = {s \in Seqs : outcome'[s] = "lost" /\ mtype'[s] = ECHO}
  BY DEF LostOf, Echoes
<1> QED BY <1>1 DEF Recount

\* Apart from offers and responses no step changes who was answered, or counts it.
LEMMA SameAnswers ==
  ASSUME Typed, Phases, Locked, SessionStep, ~SchedOffer, ~ProbeDue, ~ReadLine
  PROVE  /\ received' = received /\ late' = late /\ status_received' = status_received
         /\ \A s \in Seqs : outcome'[s] = "answered" <=> outcome[s] = "answered"
         /\ Recount \/ UNCHANGED vars
         /\ main' # "gone" => /\ main # "gone"
                              /\ pc'["schedule"] = "crashed" <=> pc["schedule"] = "crashed"
<1> DEFINE Kept == UNCHANGED answerCounts /\ (UNCHANGED vars \/ \E L, U : GiveUp(L, U))
           Calm == main' # "gone" => /\ main # "gone"
                                     /\ pc'["schedule"] = "crashed" <=> pc["schedule"] = "crashed"
<1>1. ASSUME SendGet PROVE Kept /\ Calm
  <2>1. main' = main /\ pc'["schedule"] = pc["schedule"]
    BY <1>1 DEF SendGet, Step, Typed, offWire, writerRest
  <2> QED BY <1>1, <2>1 DEF SendGet, offWire, writerRest
<1>2. ASSUME NEW th \in {"send", "probe"}, Write(th) PROVE Kept /\ Calm
  <2>1. pc'["schedule"] = pc["schedule"]
    <3>1. \A o \in Threads : o # th => pc'[o] = pc[o]
      BY <1>2 DEF Write, WriteClosed, WriteFail, WriteBegin, WriteRest, Step, Typed
    <3> QED BY <3>1, Thread, ThreadIs
  <2>2. UNCHANGED writerRest /\ (UNCHANGED vars \/ GiveUp({}, {item[th]}))
    BY <1>2 DEF Write, WriteClosed, WriteFail, WriteBegin, WriteRest, offWire
  <2> QED BY <2>1, <2>2 DEF writerRest
<1>3. ASSUME ReadChunk PROVE Kept /\ Calm
  <2>1. main' = main /\ pc'["schedule"] = pc["schedule"]
    BY <1>3 DEF ReadChunk, Step, Typed, readerRest
  <2> QED BY <1>3, <2>1 DEF ReadChunk
<1>4. ASSUME ReapSweep PROVE Kept /\ Calm
  <2>1. PICK L : GiveUp(L, {})
    BY <1>4 DEF ReapSweep
  <2> QED BY <1>4, <2>1 DEF ReapSweep, readerRest
<1>5. ASSUME StopJoin PROVE Kept /\ Calm
  <2>1. GiveUp(Marked, WithOutcome("open") \ Marked)
    BY <1>5 DEF StopJoin
  <2> QED BY <1>5, <2>1 DEF StopJoin, Stop, stopRest, mainRest, report
<1>6. ASSUME HelloLine PROVE Kept /\ Calm
  <2>1. UNCHANGED <<vars, answerCounts>> /\ main = "hello lines"
    BY <1>6 DEF HelloLine, mainRest, report
  <2>2. pc' = pc \/ pc' = [th \in Threads |-> "loop"]
    BY <1>6 DEF HelloLine
  <2>3. pc["schedule"] = "none"
    BY <2>1, ThreadIs DEF Phases
  <2> QED BY <2>1, <2>2, <2>3, ThreadIs
<1>7. ASSUME HelloWrite \/ HelloRead \/ HelloFail PROVE Kept /\ Calm
  BY <1>7 DEF HelloWrite, HelloRead, HelloFail, mainRest, report
<1>8. ASSUME StopCall \/ StopSet \/ StopStdin \/ StopWait PROVE Kept /\ Calm
  BY <1>8 DEF StopCall, StopSet, StopStdin, StopWait, Stop, stopRest, mainRest, report
<1>9. ASSUME RemoteStep PROVE Kept /\ Calm
  BY <1>9, RemoteSteps DEF remoteRest, report
<1>10. ASSUME Ended PROVE Kept /\ Calm
  BY <1>10 DEF Ended, Gone, report
<1>11. ASSUME UNCHANGED sessionVars PROVE Kept /\ Calm
  BY <1>11 DEF sessionVars, report
<1>12. Kept /\ Calm
  BY StepKinds, <1>1, <1>2, <1>3, <1>4, <1>5, <1>6, <1>7, <1>8, <1>9, <1>10, <1>11
     DEF ThreadStep, Send, Probe, Read, OwnStep, Start, StopStep
<1>13. CASE UNCHANGED vars
  BY <1>12, <1>13 DEF vars, answerCounts
<1>14. ASSUME NEW L, NEW U, GiveUp(L, U)
       PROVE  Recount /\ \A s \in Seqs : outcome'[s] = "answered" <=> outcome[s] = "answered"
  BY <1>14, GiveUpKeeps
<1> QED BY <1>12, <1>13, <1>14 DEF answerCounts

\* A response to a request of this kind is the answer to one of T, or to none.
LEMMA OneDone ==
  ASSUME Typed, NEW T \in SUBSET Seqs, NEW s \in T, Answer(s)
  PROVE  Cardinality({r \in T : outcome'[r] = "answered"}) = Cardinality(Done(T)) + 1
<1>1. /\ \A r \in Seqs : outcome'[r] = IF r = s THEN "answered" ELSE outcome[r]
      /\ outcome[s] # "answered"
  BY DEF Answer, Typed
<1>2. {r \in T : outcome'[r] = "answered"} = Done(T) \cup {s} /\ s \notin Done(T) /\ Done(T) \subseteq Seqs
  BY <1>1 DEF Done
<1> QED BY <1>2, OneMore

\* An answer to a request elsewhere changes nothing here.
LEMMA NoneDone ==
  ASSUME Typed, NEW T \in SUBSET Seqs, NEW s \in Seqs \ T, Answer(s)
  PROVE  {r \in T : outcome'[r] = "answered"} = Done(T)
<1>1. \A r \in Seqs : outcome'[r] = IF r = s THEN "answered" ELSE outcome[r]
  BY DEF Answer, Typed
<1> QED BY <1>1 DEF Done

\* What one line does to the counters.
LEMMA LineCounts ==
  ASSUME Typed, Locked, RepliesWhole, Owned, ReadLine
  PROVE  LET m == Head(replies) IN
         /\ replies # <<>> /\ m \in Messages /\ replies' = Tail(replies)
         /\ \/ UNCHANGED <<vars, answerCounts>>
            \/ /\ m[1] = "er" /\ m[2] \in Echoes /\ Answer(m[2]) /\ received' = received + 1
               /\ late' \in {late, late + 1} /\ status_received' = status_received
            \/ /\ m[1] = "sr" /\ m[2] \in Probes /\ Answer(m[2]) /\ received' = received
               /\ late' = late /\ status_received' = status_received + 1
<1> DEFINE m == Head(replies)
<1>1. LineEnds(buf) # {}
  BY DEF ReadLine, Locked
<1>2. replies # <<>> /\ FirstLine(buf) = m /\ m \in Messages
  BY <1>1, DownLine
<1>3. replies' = Tail(replies)
  BY DEF ReadLine
<1>4. m \in GenuineOf(Messages)
  BY <1>2, HeadTailProperties DEF Owned
<1> HIDE DEF m
<1>5. \/ UNCHANGED <<vars, answerCounts>>
      \/ m[1] \in {"er", "sr"} /\ OnResponse(m[1], m[2])
  BY <1>2 DEF ReadLine
<1>6. CASE UNCHANGED <<vars, answerCounts>>
  BY <1>2, <1>3, <1>6 DEF m
<1>7. CASE m[1] = "er" /\ OnResponse(m[1], m[2]) /\ ~UNCHANGED <<vars, answerCounts>>
  <2>1. m[2] \in Echoes
    BY <1>4, <1>7 DEF GenuineOf, Genuine
  <2>2. /\ Answer(m[2]) /\ received' = received + 1 /\ late' \in {late, late + 1}
        /\ status_received' = status_received
    BY <1>7 DEF OnResponse
  <2> QED BY <1>2, <1>3, <1>7, <2>1, <2>2 DEF m
<1>8. CASE m[1] = "sr" /\ OnResponse(m[1], m[2]) /\ ~UNCHANGED <<vars, answerCounts>>
  <2>1. m[2] \in Probes
    BY <1>4, <1>8 DEF GenuineOf, Genuine
  <2>2. /\ Answer(m[2]) /\ received' = received /\ late' = late
        /\ status_received' = status_received + 1
    BY <1>8 DEF OnResponse
  <2> QED BY <1>2, <1>3, <1>8, <2>1, <2>2 DEF m
<1> QED BY <1>5, <1>6, <1>7, <1>8

\* The counters of answers and losses are those of the ledger, and no offer is
\* counted and not in it, but the one that was too long.
LEMMA NextSettled ==
  ASSUME Typed, Phases, Locked, RepliesWhole, Numbered, Owned, Settled, SessionStep
  PROVE  Settled'
<1>0. /\ Echoes \subseteq Seqs /\ Probes \subseteq Seqs /\ offered \in Nat /\ ECHO # STATUS
      /\ Cardinality(Echoes) \in Nat /\ Echoes \cap Probes = {}
  <2>1. Echoes \subseteq Seqs /\ Probes \subseteq Seqs /\ ECHO # STATUS
    BY SmallSets DEF Echoes, Probes
  <2>2. Echoes \cap Probes = {}
    BY <2>1 DEF Echoes, Probes
  <2> QED BY <2>1, <2>2, Counts DEF Typed
<1>1. CASE SchedOffer
  <2>1. /\ offered' = offered + 1 /\ UNCHANGED answerCounts /\ main' = main /\ pc["schedule"] = "loop"
        /\ pc'["schedule"] = (IF size = "huge" THEN "crashed" ELSE "loop")
    BY <1>1, ThreadIs DEF SchedOffer, Step, Typed, offWire, writerRest
  <2>2. main # "gone"
    BY <1>1, ThreadSteps DEF ThreadStep
  <2>3. offered = Cardinality(Echoes)
    BY <1>0, <2>1, <2>2 DEF Settled, One
  <2>4. CASE size = "huge"
    <3>1. UNCHANGED vars
      BY <1>1, <2>4 DEF SchedOffer
    <3>2. Echoes' = Echoes /\ Done(Echoes)' = Done(Echoes) /\ Done(Probes)' = Done(Probes)
          /\ LostOf(Echoes)' = LostOf(Echoes) /\ lost' = lost
      BY <3>1 DEF vars, Echoes, Probes, Done, LostOf
    <3>3. UNCHANGED <<received, status_received>> /\ pc'["schedule"] = "crashed"
      BY <2>1, <2>4 DEF answerCounts
    <3>4. /\ Cardinality(Echoes') <= offered'
          /\ offered' = Cardinality(Echoes') + One(pc'["schedule"] = "crashed")
      BY <1>0, <2>1, <2>3, <3>2, <3>3 DEF One
    <3> QED BY <3>2, <3>3, <3>4 DEF Settled
  <2>5. CASE size # "huge"
    <3>1. /\ seq + 1 \in Seqs \ Echoes /\ Echoes' = Echoes \cup {seq + 1} /\ Probes' = Probes
          /\ \A s \in Seqs : s # seq + 1 => outcome'[s] = outcome[s]
          /\ outcome'[seq + 1] = "open" /\ outcome[seq + 1] = "idle" /\ Recount
      BY <1>1, <2>5, NewEcho
    <3>2. Done(Echoes)' = Done(Echoes) /\ Done(Probes)' = Done(Probes)
      BY <1>0, <3>1 DEF Done
    <3>3. Cardinality(Echoes') = Cardinality(Echoes) + 1
      BY <1>0, <3>1, OneMore
    <3>4. UNCHANGED <<received, status_received>> /\ pc'["schedule"] = "loop"
      BY <2>1, <2>5 DEF answerCounts
    <3>5. /\ Cardinality(Echoes') <= offered'
          /\ offered' = Cardinality(Echoes') + One(pc'["schedule"] = "crashed")
      BY <1>0, <2>1, <2>3, <3>3, <3>4 DEF One
    <3> QED BY <3>1, <3>2, <3>4, <3>5, LostCounted DEF Settled
  <2> QED BY <2>4, <2>5
<1>2. CASE ProbeDue
  <2>1. /\ offered' = offered /\ UNCHANGED answerCounts /\ main' = main
        /\ pc'["schedule"] = pc["schedule"]
    BY <1>2, ThreadIs DEF ProbeDue, Step, Typed, offWire, writerRest
  <2>2. /\ seq + 1 \in Seqs \ Probes /\ Probes' = Probes \cup {seq + 1} /\ Echoes' = Echoes
        /\ \A s \in Seqs : s # seq + 1 => outcome'[s] = outcome[s]
        /\ outcome'[seq + 1] = "open" /\ outcome[seq + 1] = "idle" /\ Recount
    BY <1>2, NewProbe
  <2>3. Done(Echoes)' = Done(Echoes) /\ Done(Probes)' = Done(Probes)
    BY <1>0, <2>2 DEF Done
  <2>4. UNCHANGED <<received, status_received>>
    BY <2>1 DEF answerCounts
  <2> QED BY <2>1, <2>2, <2>3, <2>4, LostCounted DEF Settled
<1>3. CASE ReadLine /\ ~SchedOffer /\ ~ProbeDue
  <2>1. main' = main /\ pc'["schedule"] = pc["schedule"]
    <3>1. PICK b : Step("read", "lines", b)
      BY <1>3 DEF ReadLine
    <3> QED BY <1>3, <3>1, ThreadIs DEF ReadLine, readerRest, Step, Typed
  <2>2. Echoes' = Echoes /\ Probes' = Probes /\ offered' = offered
    BY <1>3, SameRequests
  <2>3. received' = Cardinality(Done(Echoes)') /\ status_received' = Cardinality(Done(Probes)')
        /\ lost' = Cardinality(LostOf(Echoes)')
    <3> DEFINE s == Head(replies)[2]
    <3>1. /\ \/ UNCHANGED <<vars, answerCounts>>
             \/ /\ s \in Echoes /\ Answer(s) /\ received' = received + 1
                /\ status_received' = status_received
             \/ /\ s \in Probes /\ Answer(s) /\ received' = received
                /\ status_received' = status_received + 1
      BY <1>3, LineCounts
    <3> HIDE DEF s
    <3>2. CASE UNCHANGED <<vars, answerCounts>>
      <4>1. UNCHANGED <<outcome, mtype, lost, received, status_received>>
        BY <3>2 DEF vars, answerCounts
      <4>2. Done(Echoes)' = Done(Echoes) /\ Done(Probes)' = Done(Probes) /\ LostOf(Echoes)' = LostOf(Echoes)
        BY <2>2, <4>1 DEF Done, LostOf
      <4> QED BY <4>1, <4>2 DEF Settled
    <3>3. CASE s \in Echoes /\ Answer(s) /\ received' = received + 1 /\ status_received' = status_received
      <4>1. Cardinality(Done(Echoes)') = Cardinality(Done(Echoes)) + 1
        BY <1>0, <2>2, <3>3, OneDone DEF Done
      <4>2. Done(Probes)' = Done(Probes)
        BY <1>0, <2>2, <3>3, NoneDone DEF Done
      <4>3. Recount
        BY <3>3 DEF Answer
      <4> QED BY <3>3, <4>1, <4>2, <4>3, LostCounted DEF Settled
    <3>4. CASE s \in Probes /\ Answer(s) /\ received' = received /\ status_received' = status_received + 1
      <4>1. Cardinality(Done(Probes)') = Cardinality(Done(Probes)) + 1
        BY <1>0, <2>2, <3>4, OneDone DEF Done
      <4>2. Done(Echoes)' = Done(Echoes)
        BY <1>0, <2>2, <3>4, NoneDone DEF Done
      <4>3. Recount
        BY <3>4 DEF Answer
      <4> QED BY <3>4, <4>1, <4>2, <4>3, LostCounted DEF Settled
    <3> QED BY <3>1, <3>2, <3>3, <3>4
  <2> QED BY <2>1, <2>2, <2>3 DEF Settled
<1>4. CASE ~SchedOffer /\ ~ProbeDue /\ ~ReadLine
  <2>1. /\ received' = received /\ status_received' = status_received
        /\ \A s \in Seqs : outcome'[s] = "answered" <=> outcome[s] = "answered"
        /\ Recount \/ UNCHANGED vars
        /\ main' # "gone" => /\ main # "gone"
                             /\ pc'["schedule"] = "crashed" <=> pc["schedule"] = "crashed"
    BY <1>4, SameAnswers
  <2>2. Echoes' = Echoes /\ Probes' = Probes /\ offered' = offered
    BY <1>4, SameRequests
  <2>3. Done(Echoes)' = Done(Echoes) /\ Done(Probes)' = Done(Probes)
    BY <1>0, <2>1, <2>2 DEF Done
  <2>4. lost' = Cardinality(LostOf(Echoes)')
    <3>1. CASE Recount
      BY <3>1, LostCounted
    <3>2. CASE UNCHANGED vars
      <4>1. lost' = lost /\ LostOf(Echoes)' = LostOf(Echoes)
        BY <2>2, <3>2 DEF vars, LostOf
      <4> QED BY <4>1 DEF Settled
    <3> QED BY <2>1, <3>1, <3>2
  <2>5. main' # "gone" => offered' = Cardinality(Echoes') + One(pc'["schedule"] = "crashed")
    BY <2>1, <2>2 DEF Settled, One
  <2> QED BY <2>1, <2>2, <2>3, <2>4, <2>5 DEF Settled
<1> QED BY <1>1, <1>2, <1>3, <1>4

\* A thread's writes and counts, one thread at a time.
LEMMA NextSent ==
  ASSUME Typed, Phases, Locked, RepliesWhole, Numbered, Owned, Sent, SessionStep
  PROVE  Sent'
<1> DEFINE Busy(th) == pc[th] \in {"write", "rest"}
<1>0. /\ wire_sent \in Nat /\ status_sent \in Nat /\ late \in Nat /\ received \in Nat
      /\ Len(txq) \in Nat /\ Cardinality(Echoes) \in Nat /\ Cardinality(Probes) \in Nat
      /\ Echoes \subseteq Seqs /\ Probes \subseteq Seqs
  <2>1. Echoes \subseteq Seqs /\ Probes \subseteq Seqs
    BY DEF Echoes, Probes
  <2>2. Cardinality(Echoes) \in Nat /\ Cardinality(Probes) \in Nat
    BY <2>1, Counts
  <2>3. Len(txq) \in Nat
    BY LenProperties DEF Typed
  <2> QED BY <2>1, <2>2, <2>3 DEF Typed
<1>1. CASE SchedOffer
  <2>1. /\ UNCHANGED <<wire_sent, status_sent, answerCounts>>
        /\ pc'["send"] = pc["send"] /\ pc'["probe"] = pc["probe"]
    BY <1>1, ThreadIs DEF SchedOffer, offWire, writerRest, Step, Typed
  <2>2. UNCHANGED <<late, received>>
    BY <2>1 DEF answerCounts
  <2>3. CASE size = "huge"
    <3>1. txq' = txq /\ Echoes' = Echoes /\ Probes' = Probes
      BY <1>1, <2>3 DEF SchedOffer, vars, Echoes, Probes
    <3> QED BY <2>1, <2>2, <3>1 DEF Sent, One
  <2>4. CASE size # "huge"
    <3>1. /\ seq + 1 \in Seqs \ Echoes /\ Echoes' = Echoes \cup {seq + 1} /\ Probes' = Probes
      BY <1>1, <2>4, NewEcho
    <3>2. Cardinality(Echoes') = Cardinality(Echoes) + 1
      BY <1>0, <3>1, OneMore
    <3>3. Len(txq') = Len(txq) + 1
      BY <1>1, <2>4, <3>1, AppendProperties DEF SchedOffer, Typed
    <3> QED BY <1>0, <2>1, <2>2, <3>1, <3>2, <3>3 DEF Sent, One
  <2> QED BY <2>3, <2>4
<1>2. CASE SendGet
  <2>1. /\ UNCHANGED <<wire_sent, status_sent, answerCounts>> /\ UNCHANGED vars
        /\ pc["send"] = "loop" /\ pc'["send"] = "write" /\ pc'["probe"] = pc["probe"]
        /\ txq # <<>> /\ txq' = Tail(txq)
    BY <1>2, ThreadIs DEF SendGet, offWire, writerRest, Step, Typed
  <2>2. UNCHANGED <<late, received>> /\ Echoes' = Echoes /\ Probes' = Probes
    BY <2>1 DEF answerCounts, vars, Echoes, Probes
  <2>3. Len(txq') = Len(txq) - 1
    BY <2>1, HeadTailProperties DEF Typed
  <2> QED BY <1>0, <2>1, <2>2, <2>3 DEF Sent, One
<1>3. CASE ProbeDue
  <2>1. /\ UNCHANGED <<wire_sent, status_sent, answerCounts, txq>>
        /\ pc["probe"] = "loop" /\ pc'["probe"] = "write" /\ pc'["send"] = pc["send"]
    BY <1>3, ThreadIs DEF ProbeDue, offWire, writerRest, Step, Typed
  <2>2. UNCHANGED <<late, received>>
    BY <2>1 DEF answerCounts
  <2>3. /\ seq + 1 \in Seqs \ Probes /\ Probes' = Probes \cup {seq + 1} /\ Echoes' = Echoes
    BY <1>3, NewProbe
  <2>4. Cardinality(Probes') = Cardinality(Probes) + 1
    BY <1>0, <2>3, OneMore
  <2> QED BY <1>0, <2>1, <2>2, <2>3, <2>4 DEF Sent, One
<1>4. ASSUME NEW th \in {"send", "probe"}, Write(th), ~SchedOffer, ~ProbeDue PROVE Sent'
  <2>1. Echoes' = Echoes /\ Probes' = Probes
    BY <1>4, SameRequests DEF SessionStep, SessionNext, Send, Probe
  <2>2. UNCHANGED <<late, received, txq>>
    BY <1>4 DEF Write, WriteClosed, WriteFail, WriteBegin, WriteRest, offWire, writerRest, answerCounts
  <2>3. Busy(th) /\ \A o \in Threads : o # th => pc'[o] = pc[o]
    BY <1>4 DEF Write, WriteClosed, WriteFail, WriteBegin, WriteRest, Step, Typed
  <2>4. \/ UNCHANGED <<wire_sent, status_sent>>
        \/ /\ pc'[th] = "loop"
           /\ wire_sent' = wire_sent + (IF th = "send" THEN 1 ELSE 0)
           /\ status_sent' = status_sent + (IF th = "probe" THEN 1 ELSE 0)
    <3>1. CASE WriteClosed(th)
      BY <3>1 DEF WriteClosed, offWire
    <3>2. CASE WriteFail(th)
      BY <3>2 DEF WriteFail, sendCounts
    <3>3. CASE WriteBegin(th)
      BY <3>3 DEF WriteBegin, sendCounts
    <3>4. CASE WriteRest(th)
      <4>1. CASE stdin_closed
        BY <3>4, <4>1 DEF WriteRest
      <4>2. CASE ~stdin_closed
        <5>1. pc'[th] = "loop"
          BY <3>4, <4>2, Thread DEF WriteRest, Step, Typed
        <5> QED BY <3>4, <4>2, <5>1 DEF WriteRest
      <4> QED BY <4>1, <4>2
    <3> QED BY <1>4, <3>1, <3>2, <3>3, <3>4 DEF Write
  <2>5. CASE th = "send"
    <3>1. pc'["probe"] = pc["probe"] /\ Busy("send")
      BY <2>3, <2>5, ThreadIs
    <3>2. /\ UNCHANGED status_sent
          /\ wire_sent' = wire_sent \/ (wire_sent' = wire_sent + 1 /\ pc'["send"] = "loop")
      BY <1>0, <2>4, <2>5
    <3> QED BY <1>0, <2>1, <2>2, <3>1, <3>2 DEF Sent, One
  <2>6. CASE th = "probe"
    <3>1. pc'["send"] = pc["send"] /\ Busy("probe")
      BY <2>3, <2>6, ThreadIs
    <3>2. /\ UNCHANGED wire_sent
          /\ status_sent' = status_sent \/ (status_sent' = status_sent + 1 /\ pc'["probe"] = "loop")
      BY <1>0, <2>4, <2>6
    <3> QED BY <1>0, <2>1, <2>2, <3>1, <3>2 DEF Sent, One
  <2> QED BY <2>5, <2>6
<1>5. CASE ReadLine /\ ~SchedOffer /\ ~ProbeDue
  <2>1. Echoes' = Echoes /\ Probes' = Probes
    BY <1>5, SameRequests
  <2>2. /\ UNCHANGED <<wire_sent, status_sent, txq>>
        /\ pc'["send"] = pc["send"] /\ pc'["probe"] = pc["probe"]
    <3>1. PICK b : Step("read", "lines", b)
      BY <1>5 DEF ReadLine
    <3> QED BY <1>5, <3>1, ThreadIs DEF ReadLine, readerRest, sendCounts, requestVars, Step, Typed
  <2>3. late' <= received'
    <3>1. \/ received' = received /\ late' = late
          \/ received' = received + 1 /\ late' \in {late, late + 1}
      BY <1>5, LineCounts DEF answerCounts
    <3> QED BY <1>0, <3>1 DEF Sent
  <2> QED BY <2>1, <2>2, <2>3 DEF Sent, One
<1>6. CASE ReadChunk \/ ReapSweep
  <2>1. ~SchedOffer /\ ~ProbeDue
    BY <1>6 DEF ReadChunk, ReapSweep, readerRest, requestVars, SchedOffer, ProbeDue, Typed
  <2>2. Echoes' = Echoes /\ Probes' = Probes
    BY <2>1, SameRequests
  <2>3. /\ UNCHANGED <<wire_sent, status_sent, txq, late, received>>
        /\ pc'["send"] = pc["send"] /\ pc'["probe"] = pc["probe"]
    BY <1>6, ThreadIs DEF ReadChunk, ReapSweep, readerRest, requestVars, sendCounts, answerCounts, Step, Typed
  <2> QED BY <2>2, <2>3 DEF Sent, One
<1>7. CASE Start /\ ~SchedOffer /\ ~ProbeDue
  <2>1. Echoes' = Echoes /\ Probes' = Probes
    BY <1>7, SameRequests
  <2>2. UNCHANGED <<report, txq>> /\ (pc' = pc \/ pc' = [th \in Threads |-> "loop"])
    BY <1>7 DEF Start, HelloWrite, HelloRead, HelloFail, HelloLine, mainRest, requestVars
  <2>3. UNCHANGED <<wire_sent, status_sent, txq, late, received>>
    BY <2>2 DEF report, sendCounts, answerCounts
  <2>4. (Busy("send"))' => Busy("send")
    BY <2>2, ThreadIs
  <2>5. (Busy("probe"))' => Busy("probe")
    BY <2>2, ThreadIs
  <2> QED BY <1>0, <2>1, <2>3, <2>4, <2>5 DEF Sent, One
<1>8. CASE (StopCall \/ StopStep \/ RemoteStep \/ UNCHANGED sessionVars) /\ ~SchedOffer /\ ~ProbeDue
  <2>1. Echoes' = Echoes /\ Probes' = Probes
    BY <1>8, SameRequests
  <2>2. UNCHANGED <<report, txq, pc>>
    BY <1>8, RemoteSteps DEF StopCall, StopStep, StopSet, StopStdin, StopWait, StopJoin, stopRest, mainRest,
       requestVars, remoteRest, sessionVars
  <2>3. UNCHANGED <<wire_sent, status_sent, txq, late, received>>
    BY <2>2 DEF report, sendCounts, answerCounts
  <2> QED BY <2>1, <2>2, <2>3 DEF Sent, One
<1>9. CASE Ended /\ ~SchedOffer /\ ~ProbeDue
  <2>1. Echoes' = Echoes /\ Probes' = Probes
    BY <1>9, SameRequests
  <2>2. UNCHANGED <<wire_sent, status_sent, txq, late, received>>
    BY <1>9 DEF Ended, Gone, report, sendCounts, answerCounts, requestVars
  <2>3. ~(Busy("send"))' /\ ~(Busy("probe"))'
    BY <1>9, ThreadIs DEF Ended, Gone
  <2> QED BY <1>0, <2>1, <2>2, <2>3 DEF Sent, One
<1> QED BY StepKinds, <1>1, <1>2, <1>3, <1>4, <1>5, <1>6, <1>7, <1>8, <1>9
        DEF ThreadStep, Send, Probe, Read, OwnStep

\* What the client counts, the server has counted before.
LEMMA NextHandled ==
  ASSUME Typed, Phases, Locked, RepliesWhole, RequestsWhole, Numbered, Owned, Handled, SessionStep
  PROVE  Handled'
<1> DEFINE Er(q) == Cardinality(Kind(q, {"er"}))
           No(q) == Cardinality(Kind(q, {"noise", "garbled"}))
           Owing == Answering /\ reply[1] = "er"
<1>0. /\ replies \in Seq(Messages) /\ received \in Nat /\ echo_tx \in Nat /\ echo_rx \in Nat
      /\ remote_noise \in Nat /\ protocol_errors \in Nat /\ stray \in Nat
      /\ Er(replies) \in Nat /\ No(replies) \in Nat
  BY KindFinite DEF Typed
<1>1. Handled <=> /\ received + Er(replies) <= echo_tx
                  /\ echo_tx + One(Owing) <= echo_rx
                  /\ remote_noise + protocol_errors + No(replies) <= stray
  BY DEF Handled
<1>2. Handled' <=> /\ received' + Er(replies') <= echo_tx'
                   /\ echo_tx' + One(Owing') <= echo_rx'
                   /\ remote_noise' + protocol_errors' + No(replies') <= stray'
  BY DEF Handled
<1>3. CASE HelloLine /\ LineEnds(buf) # {}
  <2> DEFINE m == Head(replies)
  <2>1. replies # <<>> /\ FirstLine(buf) = m /\ replies' = Tail(replies) /\ Tail(replies) \in Seq(Messages)
    BY <1>3, DownLine DEF HelloLine
  <2>2. /\ UNCHANGED <<received, echo_tx, echo_rx, reply, server, protocol_errors, stray>>
        /\ remote_noise' = IF m = Noise THEN remote_noise + 1 ELSE remote_noise
    BY <1>3, <2>1 DEF HelloLine, mainRest, report, answerCounts, serverVars
  <2>3. /\ Er(replies) = Er(replies') + One(m[1] \in {"er"})
        /\ No(replies) = No(replies') + One(m[1] \in {"noise", "garbled"})
    BY <1>0, <2>1, KindTail
  <2>4. Er(replies') \in Nat /\ No(replies') \in Nat
    BY <2>1, KindFinite
  <2>5. m = Noise => m[1] \in {"noise", "garbled"}
    BY DEF Noise
  <2>6. Owing' = Owing
    BY <2>2 DEF Answering
  <2> HIDE DEF m, Er, No, Owing
  <2>7. received' + Er(replies') <= echo_tx'
    BY <1>0, <1>1, <2>2, <2>3, <2>4 DEF One
  <2>8. echo_tx' + One(Owing') <= echo_rx'
    BY <1>0, <1>1, <2>2, <2>6 DEF One
  <2>9. remote_noise' + protocol_errors' + No(replies') <= stray'
    BY <1>0, <1>1, <2>2, <2>3, <2>4, <2>5 DEF One
  <2> QED BY <1>2, <2>7, <2>8, <2>9
<1>4. CASE ReadLine
  <2> DEFINE m == Head(replies)
  <2>1. replies # <<>> /\ FirstLine(buf) = m /\ Tail(replies) \in Seq(Messages)
    BY <1>4, DownLine DEF ReadLine, Locked
  <2>2. /\ replies' = Tail(replies)
        /\ received' = received \/ (received' = received + 1 /\ m[1] = "er")
    BY <1>4, LineCounts DEF answerCounts
  <2>3. /\ UNCHANGED <<echo_tx, echo_rx, reply, server, stray>>
        /\ \/ UNCHANGED noise
           \/ /\ remote_noise' = remote_noise + (IF m = Noise THEN 1 ELSE 0)
              /\ protocol_errors' = protocol_errors + (IF m = Garbled THEN 1 ELSE 0)
    BY <1>4, <2>1 DEF ReadLine, readerRest, serverVars
  <2>4. /\ Er(replies) = Er(replies') + One(m[1] \in {"er"})
        /\ No(replies) = No(replies') + One(m[1] \in {"noise", "garbled"})
    BY <1>0, <2>1, <2>2, KindTail
  <2>5. Er(replies') \in Nat /\ No(replies') \in Nat
    BY <2>1, <2>2, KindFinite
  <2>6. (m = Noise => m[1] \in {"noise", "garbled"}) /\ (m = Garbled => m[1] \in {"noise", "garbled"})
        /\ ~(m = Noise /\ m = Garbled)
    BY DEF Noise, Garbled
  <2>7. Owing' = Owing
    BY <2>3 DEF Answering
  <2>8. remote_noise' + protocol_errors'
          <= remote_noise + protocol_errors + One(m[1] \in {"noise", "garbled"})
    BY <1>0, <2>3, <2>6 DEF One, noise
  <2> HIDE DEF m, Er, No, Owing
  <2>9. received' + Er(replies') <= echo_tx'
    BY <1>0, <1>1, <2>2, <2>3, <2>4, <2>5 DEF One
  <2>10. echo_tx' + One(Owing') <= echo_rx'
    BY <1>0, <1>1, <2>3, <2>7 DEF One
  <2>11. remote_noise' + protocol_errors' + No(replies') <= stray'
    <3> DEFINE b == One(m[1] \in {"noise", "garbled"})
               rn == remote_noise'
               pe == protocol_errors'
               no == No(replies')
    <3>1. stray' = stray /\ remote_noise + protocol_errors + No(replies) <= stray
      BY <1>1, <2>3
    <3>2. b \in Nat
      BY DEF One
    <3>3. No(replies) = no + b /\ rn + pe <= remote_noise + protocol_errors + b
      BY <2>4, <2>8
    <3>4. Typed'
      BY NextTyped
    <3>5. rn \in Nat /\ pe \in Nat
      BY <3>4 DEF Typed
    <3>6. /\ remote_noise \in Nat /\ protocol_errors \in Nat /\ stray \in Nat
          /\ No(replies) \in Nat /\ no \in Nat
      BY <1>0, <2>5
    <3>7. rn + pe + no <= stray
      <4> HIDE DEF b, rn, pe, no
      <4> QED BY <3>1, <3>2, <3>3, <3>5, <3>6
    <3> QED BY <3>1, <3>7
  <2> QED BY <1>2, <2>9, <2>10, <2>11
<1>5. CASE ServerRest
  <2>1. /\ server = "rest" /\ server' \in {"read", "lines"} /\ replies' = Append(replies, reply)
        /\ echo_tx' = (IF reply[1] = "er" THEN echo_tx + 1 ELSE echo_tx)
        /\ UNCHANGED <<echo_rx, received, remote_noise, protocol_errors, stray>>
    BY <1>5 DEF ServerRest, SStep, Rest, remoteRest, report, answerCounts, noise
  <2>2. requests # <<>> /\ reply = Response(Head(requests)) /\ Head(requests) \in Requests
    BY <2>1, HeadTailProperties DEF RequestsWhole, Answering, Typed
  <2>3. reply[1] \in {"hello_ack", "er", "sr"}
    BY <2>2, ResponseFacts
  <2>4. reply \in Messages
    BY DEF Typed
  <2>5. Er(replies') = Er(replies) + One(reply[1] \in {"er"})
        /\ No(replies') = No(replies) + One(reply[1] \in {"noise", "garbled"})
    BY <1>0, <2>1, <2>4, KindAppend
  <2>6. ~Owing' /\ Owing = (reply[1] = "er")
    BY <2>1 DEF Answering
  <2> HIDE DEF Er, No, Owing
  <2>7. received' + Er(replies') <= echo_tx'
    BY <1>0, <1>1, <2>1, <2>5 DEF One
  <2>8. echo_tx' + One(Owing') <= echo_rx'
    <3>1. One(Owing') = 0 /\ One(Owing) = (IF reply[1] = "er" THEN 1 ELSE 0)
      BY <2>6 DEF One
    <3> QED BY <1>0, <1>1, <2>1, <3>1
  <2>9. remote_noise' + protocol_errors' + No(replies') <= stray'
    BY <1>0, <1>1, <2>1, <2>3, <2>5 DEF One
  <2> QED BY <1>2, <2>7, <2>8, <2>9
<1>6. CASE StrayLine
  <2>1. PICK k \in Strays : replies' = Append(replies, <<k, 0>>)
    BY <1>6 DEF StrayLine
  <2>2. /\ UNCHANGED <<echo_tx, echo_rx, received, remote_noise, protocol_errors, reply, server>>
        /\ stray' = stray + 1
    BY <1>6 DEF StrayLine, remoteRest, report, answerCounts, noise, serverVars
  <2>3. <<k, 0>> \in Messages /\ <<k, 0>>[1] \in {"noise", "garbled"}
    BY SessionAssumption DEF Messages
  <2>4. Er(replies') = Er(replies) + One(<<k, 0>>[1] \in {"er"})
        /\ No(replies') = No(replies) + One(<<k, 0>>[1] \in {"noise", "garbled"})
    BY <1>0, <2>1, <2>3, KindAppend
  <2>5. Er(replies') = Er(replies) /\ No(replies') = No(replies) + 1
    BY <1>0, <2>3, <2>4 DEF One
  <2>6. Owing' = Owing
    BY <2>2 DEF Answering
  <2> HIDE DEF Er, No, Owing
  <2> QED BY <1>0, <1>1, <1>2, <2>2, <2>5, <2>6
<1>7. CASE ServerLine
  <2>1. /\ alive /\ server = "lines"
        /\ echo_rx' = (IF FirstLine(server_buf)[1] = "e" /\ size # "long" THEN echo_rx + 1 ELSE echo_rx)
        /\ UNCHANGED <<echo_tx, received, remote_noise, protocol_errors, replies, stray>>
    BY <1>7 DEF ServerLine, SStep, remoteRest, report, answerCounts, noise
  <2>2. FirstLine(server_buf) \in Requests
    BY <2>1, UpLine DEF Locked
  <2>3. Owing' => FirstLine(server_buf)[1] = "e" /\ size # "long"
    <3>1. CASE FirstLine(server_buf)[1] = "e" /\ size = "long"
      <4>1. server' = "returned"
        BY <1>7, <3>1 DEF ServerLine, SStep
      <4> QED BY <4>1 DEF Answering
    <3>2. CASE ~(FirstLine(server_buf)[1] = "e" /\ size = "long")
      <4>1. FirstLine(server_buf) # Noise
        BY <2>2, ResponseFacts
      <4>2. reply' = Response(FirstLine(server_buf))
        BY <1>7, <3>2, <4>1 DEF ServerLine
      <4> QED BY <2>2, <3>2, <4>2, ResponseFacts
    <3> QED BY <3>1, <3>2
  <2>4. ~Owing
    BY <2>1 DEF Answering
  <2> HIDE DEF Er, No, Owing
  <2> QED BY <1>0, <1>1, <1>2, <2>1, <2>3, <2>4 DEF One
<1>8. CASE ServerRead \/ ServerEof \/ ServerBegin \/ ServerBroken
  <2>1. UNCHANGED <<echo_tx, echo_rx, reply, received, remote_noise, protocol_errors, replies, stray>>
    BY <1>8 DEF ServerRead, ServerEof, ServerBegin, ServerBroken, remoteRest, report, answerCounts, noise
  <2>2. Answering' => Answering
    BY <1>8 DEF ServerRead, ServerEof, ServerBegin, ServerBroken, SStep, Rest, Answering
  <2>3. Owing' => Owing
    BY <2>1, <2>2
  <2> HIDE DEF Er, No, Owing
  <2> QED BY <1>0, <1>1, <1>2, <2>1, <2>3 DEF One
<1>9. CASE SshDies \/ SshKilled \/ Ended \/ UNCHANGED sessionVars
  <2>1. UNCHANGED <<serverVars, report, noise, replies, stray>>
    BY <1>9 DEF SshDies, SshKilled, Ended, Gone, sessionVars, remoteRest
  <2>2. UNCHANGED <<server, echo_tx, echo_rx, reply, received, remote_noise, protocol_errors, replies, stray>>
    BY <2>1 DEF serverVars, report, answerCounts, noise
  <2>3. Owing' = Owing
    BY <2>2 DEF Answering
  <2> HIDE DEF Er, No, Owing
  <2> QED BY <1>0, <1>1, <1>2, <2>2, <2>3 DEF One
<1>10. CASE HelloWrite \/ HelloRead \/ HelloFail \/ (HelloLine /\ LineEnds(buf) = {}) \/ StopCall \/ StopStep
  <2>1. UNCHANGED <<serverVars, report, noise, replies, stray>>
    BY <1>10 DEF HelloWrite, HelloRead, HelloFail, HelloLine, StopCall, StopStep, StopSet, StopStdin,
       StopWait, StopJoin, stopRest, mainRest, noise
  <2>2. UNCHANGED <<server, echo_tx, echo_rx, reply, received, remote_noise, protocol_errors, replies, stray>>
    BY <2>1 DEF serverVars, report, answerCounts, noise
  <2>3. Owing' = Owing
    BY <2>2 DEF Answering
  <2> HIDE DEF Er, No, Owing
  <2> QED BY <1>0, <1>1, <1>2, <2>2, <2>3 DEF One
<1>11. CASE SchedOffer \/ Send \/ Probe \/ ReadChunk \/ ReapSweep
  <2>1. UNCHANGED serverVars /\ stray' = stray
    BY <1>11, ThreadSteps DEF ThreadStep, Read
  <2>2. UNCHANGED <<answerCounts, noise, replies>>
    BY <1>11 DEF SchedOffer, Send, SendGet, Probe, ProbeDue, Write, WriteClosed, WriteFail, WriteBegin,
       WriteRest, offWire, writerRest, ReadChunk, ReapSweep, readerRest
  <2>3. UNCHANGED <<server, echo_tx, echo_rx, reply, received, remote_noise, protocol_errors, replies, stray>>
    BY <2>1, <2>2 DEF serverVars, answerCounts, noise
  <2>4. Owing' = Owing
    BY <2>3 DEF Answering
  <2> HIDE DEF Er, No, Owing
  <2> QED BY <1>0, <1>1, <1>2, <2>3, <2>4 DEF One
<1> QED BY StepKinds, <1>3, <1>4, <1>5, <1>6, <1>7, <1>8, <1>9, <1>10, <1>11
        DEF ThreadStep, Read, RemoteStep, Server, OwnStep, Start

-----------------------------------------------------------------------------
(* The invariant of the session holds *)

\* A pipe takes a cell when it has room only, and a read makes room.
LEMMA NextBounded ==
  ASSUME Typed, Bounded, SessionStep
  PROVE  Bounded'
<1>0. /\ to_server \in Seq(Cells) /\ to_client \in Seq(Cells) /\ Len(to_server) \in Nat
      /\ Len(to_client) \in Nat
      /\ Len(to_server) <= RequestCap /\ Len(to_client) <= ResponseCap
      /\ RequestCap \in Nat \ {0} /\ ResponseCap \in Nat \ {0}
  BY LenProperties, SessionAssumption DEF Typed, Bounded
<1> DEFINE Shorter(p, q) == Len(q) <= Len(p)
           Longer(p, q, cap) == Len(p) < cap /\ \E c : q = Append(p, c)
<1>1. /\ \/ Shorter(to_server, to_server')
         \/ Longer(to_server, to_server', RequestCap)
         \/ Len(to_server') = 1
      /\ \/ Shorter(to_client, to_client')
         \/ Longer(to_client, to_client', ResponseCap)
  <2>1. CASE HelloWrite
    <3>1. to_client' = to_client /\ (to_server' = <<Half(Hello, "whole")>> \/ to_server' = to_server)
      BY <2>1 DEF HelloWrite
    <3>2. Len(<<Half(Hello, "whole")>>) = 1
      OBVIOUS
    <3> QED BY <1>0, <3>1, <3>2
  <2>2. CASE HelloRead
    <3>1. PICK n \in 1..Len(to_client) : to_client' = SubSeq(to_client, n + 1, Len(to_client))
      BY <2>2 DEF HelloRead
    <3>2. Len(to_client') <= Len(to_client)
      BY <1>0, <3>1, SubSeqProperties
    <3>3. to_server' = to_server
      BY <2>2 DEF HelloRead
    <3> QED BY <1>0, <3>2, <3>3
  <2>3. CASE \E th \in {"send", "probe"} : WriteBegin(th) \/ WriteRest(th)
    <3>1. to_client' = to_client
      BY <2>3 DEF WriteBegin, WriteRest, writerRest
    <3>2. Longer(to_server, to_server', RequestCap)
      BY <2>3 DEF WriteBegin, WriteRest
    <3> QED BY <1>0, <3>1, <3>2
  <2>4. CASE SchedOffer \/ SendGet \/ ProbeDue
             \/ \E th \in {"send", "probe"} : WriteClosed(th) \/ WriteFail(th)
    <3>1. to_client' = to_client /\ to_server' = to_server
      BY <2>4 DEF SchedOffer, SendGet, ProbeDue, WriteClosed, WriteFail, offWire, writerRest
    <3> QED BY <1>0, <3>1
  <2>5. CASE ReadChunk
    <3>1. to_client' = <<>> /\ to_server' = to_server
      BY <2>5 DEF ReadChunk, readerRest
    <3>2. Len(to_client') = 0
      BY <3>1
    <3> QED BY <1>0, <3>1, <3>2
  <2>6. CASE ServerRead
    <3>1. to_server' = <<>> /\ to_client' = to_client
      BY <2>6 DEF ServerRead
    <3>2. Len(to_server') = 0
      BY <3>1
    <3> QED BY <1>0, <3>1, <3>2
  <2>7. CASE ServerBegin \/ ServerRest \/ StrayLine
    <3>1. to_server' = to_server
      BY <2>7 DEF ServerBegin, ServerRest, StrayLine
    <3>2. Longer(to_client, to_client', ResponseCap)
      BY <2>7 DEF ServerBegin, ServerRest, StrayLine
    <3> QED BY <1>0, <3>1, <3>2
  <2>8. CASE HelloFail \/ HelloLine \/ StopCall \/ StopStep \/ ReadLine \/ ReapSweep
    <3>1. to_client' = to_client /\ to_server' = to_server
      BY <2>8 DEF HelloFail, HelloLine, StopCall, StopStep, StopSet, StopStdin, StopWait, StopJoin, stopRest,
         ReadLine, ReapSweep, readerRest
    <3> QED BY <1>0, <3>1
  <2>9. CASE ServerEof \/ ServerLine \/ ServerBroken \/ SshDies \/ SshKilled \/ Ended \/ UNCHANGED sessionVars
    <3>1. to_client' = to_client /\ to_server' = to_server
      BY <2>9 DEF ServerEof, ServerLine, ServerBroken, SshDies, SshKilled, Ended, Gone, sessionVars
    <3> QED BY <1>0, <3>1
  <2> HIDE DEF Shorter, Longer
  <2> QED BY StepKinds, <2>1, <2>2, <2>3, <2>4, <2>5, <2>6, <2>7, <2>8, <2>9
          DEF ThreadStep, Send, Probe, Write, Read, RemoteStep, Server, OwnStep, Start
<1>2. ASSUME NEW p \in Seq(Cells), NEW q, NEW cap \in Nat, Longer(p, q, cap) PROVE Len(q) <= cap
  <2>1. PICK c : q = Append(p, c)
    BY <1>2
  <2>2. Len(q) = Len(p) + 1 /\ Len(p) \in Nat /\ Len(p) < cap
    BY <1>2, <2>1, LenProperties
  <2> QED BY <2>2
<1>3. Len(to_client') <= ResponseCap
  <2>1. CASE Longer(to_client, to_client', ResponseCap)
    BY <1>0, <1>2, <2>1
  <2>2. CASE Shorter(to_client, to_client')
    <3>1. Len(to_client') <= Len(to_client)
      BY <2>2
    <3> QED BY <1>0, <3>1
  <2> QED BY <1>1, <2>1, <2>2
<1>4. Len(to_server') <= RequestCap
  <2>1. CASE Longer(to_server, to_server', RequestCap)
    BY <1>0, <1>2, <2>1
  <2>2. CASE Shorter(to_server, to_server')
    <3>1. Len(to_server') <= Len(to_server)
      BY <2>2
    <3> QED BY <1>0, <3>1
  <2>3. CASE Len(to_server') = 1
    BY <1>0, <2>3
  <2> QED BY <1>1, <2>1, <2>2, <2>3
<1> QED BY <1>3, <1>4 DEF Bounded

\* All parts together are inductive.
LEMMA SessionStepInv ==
  ASSUME SInv, SessionStep PROVE SInv'
<1>1. /\ Typed /\ Phases /\ Locked /\ RepliesWhole /\ RequestsWhole
      /\ Numbered /\ Owned /\ Settled /\ Sent /\ Handled /\ Bounded
  BY DEF SInv
<1>2. Typed' /\ Phases' /\ Locked' /\ RepliesWhole' /\ RequestsWhole'
  BY <1>1, NextTyped, NextPhases, NextLocked, NextRepliesWhole, NextRequestsWhole
<1>3. Numbered' /\ Owned' /\ Settled' /\ Sent' /\ Handled' /\ Bounded'
  BY <1>1, NextNumbered, NextOwned, NextSettled, NextSent, NextHandled, NextBounded
<1> QED BY <1>2, <1>3 DEF SInv

\* Nothing has begun: everything is empty, or zero.
LEMMA SessionInitInv ==
  ASSUME SessionInit PROVE SInv
<1>1. /\ outcome = [s \in Seqs |-> "idle"] /\ mtype = [s \in Seqs |-> ECHO] /\ lost = 0
      /\ main = "start" /\ pc = [th \in Threads |-> "none"]
      /\ offered = 0 /\ wire_sent = 0 /\ received = 0 /\ late = 0 /\ status_sent = 0 /\ status_received = 0
      /\ remote_noise = 0 /\ protocol_errors = 0 /\ seq = 0 /\ txq = <<>> /\ stdio_lock = "free"
      /\ buf = <<>> /\ alive = TRUE /\ to_server = <<>> /\ to_client = <<>>
      /\ server = "read" /\ server_buf = <<>> /\ echo_rx = 0 /\ echo_tx = 0
      /\ requests = <<>> /\ replies = <<>> /\ stray = 0
  BY DEF SessionInit, Init
<1>2. Typed
  <2>1. Noise \in Messages
    BY DEF Noise, Messages
  <2>2. /\ outcome \in [Seqs -> Outcomes] /\ mtype \in [Seqs -> {ECHO, STATUS}]
        /\ main \in MainLabels /\ pc \in [Threads -> Labels]
    BY <1>1 DEF Outcomes, MainLabels, Labels
  <2>3. /\ size \in Sizes /\ marked = {} /\ sched_stop = FALSE /\ stopped = FALSE /\ reply = Noise
        /\ item = [th \in {"send", "probe"} |-> 0] /\ stdin_closed = FALSE /\ stdout_closed = FALSE
    BY DEF SessionInit
  <2>4. item \in [{"send", "probe"} -> Seqs \cup {0}]
    BY <2>3
  <2>5. \A S : <<>> \in Seq(S)
    OBVIOUS
  <2>6. /\ buf \in Seq(Cells) /\ to_client \in Seq(Cells) /\ server_buf \in Seq(Cells)
        /\ to_server \in Seq(Cells) /\ requests \in Seq(Requests) /\ replies \in Seq(Messages)
        /\ txq \in Seq(Seqs)
    BY <1>1, <2>5
  <2>7. /\ stdio_lock \in {"free", "send", "probe"} /\ server \in ServerLabels /\ reply \in Messages
        /\ marked \subseteq Seqs
    BY <1>1, <2>1, <2>3 DEF ServerLabels
  <2> QED BY <1>1, <2>2, <2>3, <2>4, <2>6, <2>7 DEF Typed
<1>3. Phases
  <2>1. \A th \in Threads : pc[th] = "none"
    BY <1>1
  <2> QED BY <1>1, <2>1 DEF Phases
<1>4. Locked
  <2>1. \A th \in Threads : pc[th] = "none"
    BY <1>1
  <2> QED BY <1>1, <2>1, ThreadIs DEF Locked
<1>5. ~Answering /\ Up = <<>> /\ Down = <<>> /\ Unread = <<>>
  BY <1>1 DEF Answering, Up, Down, Unread
<1>6. Carries(<<>>, <<>>) /\ ~Open(<<>>)
  <2>1. Untorn(<<>>) /\ LineEnds(<<>>) = {}
    BY DEF Untorn, LineEnds
  <2>2. PICK f : f \in [{} -> LineEnds(<<>>)]
    <3>1. [i \in {} |-> 0] \in [{} -> LineEnds(<<>>)]
      OBVIOUS
    <3> QED BY <3>1
  <2>3. DOMAIN <<>> = {}
    OBVIOUS
  <2>4. \E g \in [DOMAIN <<>> -> LineEnds(<<>>)] :
          /\ \A i, j \in DOMAIN <<>> : i < j => g[i] < g[j]
          /\ \A p \in LineEnds(<<>>) : \E i \in DOMAIN <<>> : g[i] = p
          /\ \A i \in DOMAIN <<>> : <<>>[g[i]][1] = <<>>[i]
    BY <2>1, <2>2, <2>3
  <2> QED BY <2>1, <2>4 DEF Carries, Open
<1>7. RepliesWhole
  BY <1>1, <1>5, <1>6 DEF RepliesWhole
<1>8. RequestsWhole
  BY <1>1, <1>5, <1>6 DEF RequestsWhole
<1>9. Echoes = {} /\ Probes = {} /\ Cardinality({}) = 0
  BY <1>1, FS_EmptySet DEF Echoes, Probes
<1>10. \A th \in Threads : pc[th] = "none"
  BY <1>1
<1>11. Numbered
  BY <1>1, <1>9, SessionAssumption DEF Numbered
<1>12. Owned
  BY <1>1, <1>10, ThreadIs DEF Owned
<1>13. Settled
  <2>1. Done(Echoes) = {} /\ Done(Probes) = {} /\ LostOf(Echoes) = {}
    BY <1>9 DEF Done, LostOf
  <2>2. /\ Cardinality(Done(Echoes)) = 0 /\ Cardinality(Done(Probes)) = 0
        /\ Cardinality(LostOf(Echoes)) = 0 /\ Cardinality(Echoes) = 0
    BY <1>9, <2>1
  <2>3. One(pc["schedule"] = "crashed") = 0
    BY <1>10, ThreadIs DEF One
  <2> QED BY <1>1, <2>2, <2>3 DEF Settled
<1>14. Sent
  BY <1>1, <1>9, <1>10, ThreadIs DEF Sent, One
<1>15. Handled
  <2>1. DOMAIN replies = {}
    BY <1>1
  <2>2. Kind(replies, {"er"}) = {} /\ Kind(replies, {"noise", "garbled"}) = {}
    BY <2>1 DEF Kind
  <2>3. Cardinality(Kind(replies, {"er"})) = 0 /\ Cardinality(Kind(replies, {"noise", "garbled"})) = 0
    BY <1>9, <2>2
  <2>4. One(Answering /\ reply[1] = "er") = 0
    BY <1>5 DEF One
  <2> QED BY <1>1, <2>3, <2>4 DEF Handled
<1>16. Bounded
  BY <1>1, SessionAssumption DEF Bounded
<1> QED BY <1>2, <1>3, <1>4, <1>7, <1>8, <1>11, <1>12, <1>13, <1>14, <1>15, <1>16 DEF SInv

\* After the end nothing moves that the exit status looks at.
LEMMA OverStays ==
  ASSUME Typed, Phases, SessionNext, main \in {"stopped", "gone"}
  PROVE  main' = main /\ wire_sent' = wire_sent /\ received' = received
<1>1. CASE ThreadStep
  BY <1>1, ThreadSteps
<1>2. CASE RemoteStep
  BY <1>2, RemoteSteps DEF remoteRest, report, sendCounts, answerCounts
<1>3. ~OwnStep
  BY DEF OwnStep, Start, HelloWrite, HelloRead, HelloFail, HelloLine, StopCall, StopStep, StopSet, StopStdin,
     StopWait, StopJoin, Stop
<1> QED BY <1>1, <1>2, <1>3 DEF SessionNext, ThreadStep, RemoteStep, OwnStep

-----------------------------------------------------------------------------
(* The invariant of main() holds *)

\* Before the command line is read.
LEMMA MainInitInv ==
  ASSUME MainInit PROVE MInv
<1>1. /\ main = "start" /\ proc = "argv" /\ plan = NoPlan /\ stop = FALSE /\ peer = "none" /\ dash = "none"
      /\ unit = FALSE /\ trouble = "none" /\ code = 0
  BY DEF MainInit, SessionInit
<1>2. plan = [mode |-> plan.mode, web |-> plan.web, tls |-> plan.tls] /\ plan.mode = "none" /\ plan.web = "no"
  BY <1>1 DEF NoPlan
<1>3. Run
  <2>0. code \in 0..2
    BY <1>1
  <2>1. /\ proc \in ProcLabels /\ plan.mode \in Modes
    BY <1>1, <1>2 DEF ProcLabels, Modes
  <2>2. /\ stop \in BOOLEAN /\ unit \in BOOLEAN
    BY <1>1
  <2>3. plan.web \in {"no", "yes", "unreadable"} /\ dash \in {"none", "open", "closed"} /\ dash # "open"
        /\ peer \in {"none", "running", "failed", "stopped"} /\ ~Ssh
        /\ proc \notin {"usage", "serve", "popen", "stop"}
    BY <1>1, <1>2 DEF Ssh
  <2> QED BY <1>1, <1>2, <2>0, <2>1, <2>2, <2>3 DEF Run
<1>4. Ending
  BY <1>1, <1>2 DEF Ending, Ssh
<1> QED BY <1>3, <1>4 DEF MInv

Quiet == UNCHANGED <<main, wire_sent, received>>

\* What main() looks at of the session.
LEMMA QuietSession == ASSUME UNCHANGED sessionVars PROVE Quiet
BY DEF sessionVars, report, sendCounts, answerCounts, Quiet

\* main() exits.
LEMMA ExitRun ==
  ASSUME Run, Exit(code'), code' \in 0..2, unit' \in BOOLEAN, UNCHANGED peer,
         plan' = plan \/ plan' = [plan EXCEPT !.web = "no"]
  PROVE  Run' /\ Ssh' = Ssh
<1>1. proc' = "exited" /\ stop' = FALSE /\ dash' = IF dash = "open" THEN "closed" ELSE dash
  BY DEF Exit
<1>2. /\ plan = [mode |-> plan.mode, web |-> plan.web, tls |-> plan.tls]
      /\ plan.mode \in Modes /\ plan.web \in {"no", "yes", "unreadable"}
      /\ dash \in {"none", "open", "closed"} /\ peer \in {"none", "running", "failed", "stopped"}
      /\ unit \in BOOLEAN /\ (Ssh => peer = "none")
  BY DEF Run
<1>3. /\ plan' = [mode |-> plan'.mode, web |-> plan'.web, tls |-> plan'.tls]
      /\ plan'.mode = plan.mode /\ plan'.web \in {"no", "yes", "unreadable"}
  BY <1>2
<1>4. Ssh' = Ssh
  BY <1>3 DEF Ssh
<1>5. /\ proc' \in ProcLabels /\ stop' \in BOOLEAN /\ unit' \in BOOLEAN
      /\ dash' \in {"none", "closed"} /\ peer' = peer
      /\ proc' \notin {"usage", "serve", "popen", "stop"} /\ proc' \notin Early /\ proc' \notin Untroubled
  BY <1>1, <1>2 DEF ProcLabels, Early, Untroubled
<1> QED BY <1>2, <1>3, <1>4, <1>5 DEF Run

\* main() goes on with the plan it has.
LEMMA OnRun ==
  ASSUME Run, proc' \in {"security", "start", "pump", "stop", "report"} \/ proc' = proc,
         stop' \in BOOLEAN, UNCHANGED unit, code' = code,
         plan'.mode = plan.mode, plan' = [mode |-> plan'.mode, web |-> plan'.web, tls |-> plan'.tls],
         plan'.web \in {"no", "yes", "unreadable"},
         peer' = peer \/ (~Ssh /\ peer' \in {"none", "running", "failed", "stopped"} /\ proc \notin Early),
         dash' = dash \/ dash' = "open", dash' = "open" => proc' \in {"pump", "stop", "report"},
         proc' \in Untroubled => proc \in Untroubled \cup {"stop"} /\ trouble' = "none",
         proc' = "stop" => proc \in Untroubled \cup {"stop"} /\ trouble' \in {"none", "start", "web"},
         proc' \in Early => main' = main
  PROVE  Run' /\ Ssh' = Ssh
<1>1. Ssh' = Ssh
  BY DEF Ssh
<1>2. /\ proc' \in ProcLabels /\ stop' \in BOOLEAN /\ unit' \in BOOLEAN /\ code' \in 0..2
      /\ plan'.mode \in Modes /\ dash' \in {"none", "open", "closed"}
      /\ peer' \in {"none", "running", "failed", "stopped"} /\ (Ssh' => peer' = "none")
  BY <1>1 DEF Run, ProcLabels
<1>3. proc' \in Early => plan'.mode = "none" /\ peer' = "none" /\ main' = "start"
  BY DEF Run, Early
<1>4. /\ proc' = "usage" => plan'.mode = "client"
      /\ proc' = "serve" => plan'.mode = "stdio server"
      /\ proc' = "popen" => plan'.mode = "ssh"
  BY DEF Run
<1>5. /\ proc' \in Untroubled => trouble' = "none" /\ code' = 0
      /\ proc' = "stop" => trouble' \in {"none", "start", "web"} /\ code' = 0
  BY DEF Run
<1> QED BY <1>1, <1>2, <1>3, <1>4, <1>5 DEF Run

\* The command line is looked at before there is a session.
LEMMA CommandLineInv ==
  ASSUME MInv, CommandLine PROVE MInv'
<1>0. Run /\ Ending
  BY DEF MInv
<1>1. CASE Parse
  <2>1. /\ proc = "argv" /\ proc' = "parsed" /\ Quiet
        /\ UNCHANGED <<stop, peer, dash, trouble, plan, unit, code>>
    BY <1>1, QuietSession DEF Parse, Go, earlyRest
  <2>2. plan'.mode = "none" /\ peer' = "none" /\ main' = "start" /\ trouble' = "none" /\ code' = 0 /\ ~Ssh'
    BY <1>0, <2>1 DEF Run, Ssh, Early, Untroubled, Quiet
  <2>3. Run'
    BY <1>0, <2>1, <2>2 DEF Run, ProcLabels
  <2>4. Ending'
    BY <2>2 DEF Ending
  <2> QED BY <2>3, <2>4 DEF MInv
<1>2. CASE ParseEnds
  <2>1. proc = "parsed" /\ UNCHANGED <<peer, trouble, plan>>
    BY <1>2 DEF ParseEnds
  <2>2. unit' \in BOOLEAN /\ code' \in {0, 1} /\ Exit(code')
    <3>1. CASE parsed.kind = "value"
      BY <1>2, <3>1 DEF ParseEnds, Exit
    <3>2. CASE parsed.kind # "value"
      BY <1>0, <1>2, <3>2 DEF ParseEnds, Exit, Run
    <3> QED BY <3>1, <3>2
  <2>3. ~Ssh
    BY <1>0, <2>1 DEF Run, Ssh, Early
  <2>4. Run' /\ ~Ssh'
    BY <1>0, <2>1, <2>2, <2>3, ExitRun
  <2>5. Ending'
    BY <2>4 DEF Ending
  <2> QED BY <2>4, <2>5 DEF MInv
<1>3. CASE Dispatch
  <2> DEFINE mode == Mode(parsed.value)
             web == Web(parsed.value)
             tls == parsed.value.tls /\ ~parsed.value.udp
  <2>1. /\ proc = "parsed" /\ plan' = [mode |-> mode, web |-> web, tls |-> tls]
        /\ mode \notin {"install", "remove"}
        /\ proc' = CASE mode = "stdio server" -> "serve"
                     [] mode = "ssh" -> "popen"
                     [] mode = "client" /\ target.kind # "value" -> "usage"
                     [] OTHER -> "security"
        /\ Quiet /\ UNCHANGED <<stop, peer, dash, trouble, unit, code>>
    BY <1>3, QuietSession DEF Dispatch, earlyRest
  <2>2. mode \in {"install", "remove", "stdio server", "daemon", "ssh", "client"}
    BY DEF Mode
  <2>3. web \in {"no", "yes", "unreadable"}
    BY DEF Web
  <2> HIDE DEF mode, web, tls
  <2>4. plan'.mode = mode /\ plan'.web = web /\ plan'.tls = tls
    BY <2>1
  <2>5. \/ mode = "stdio server" /\ proc' = "serve"
        \/ mode = "ssh" /\ proc' = "popen"
        \/ mode = "client" /\ proc' = "usage"
        \/ mode \in {"client", "daemon"} /\ proc' = "security"
    <3>1. CASE mode = "stdio server"
      BY <2>1, <3>1
    <3>2. CASE mode = "ssh"
      BY <2>1, <3>2
    <3>3. CASE mode = "client"
      BY <2>1, <3>3
    <3>4. CASE mode = "daemon"
      BY <2>1, <3>4
    <3> QED BY <2>1, <2>2, <3>1, <3>2, <3>3, <3>4
  <2>6. main' = "start" /\ peer' = "none" /\ trouble' = "none" /\ code' = 0 /\ dash' # "open"
    BY <1>0, <2>1 DEF Run, Early, Untroubled, Quiet
  <2>7. plan' = [mode |-> plan'.mode, web |-> plan'.web, tls |-> plan'.tls]
    BY <2>1, <2>4
  <2>8. /\ stop' \in BOOLEAN /\ unit' \in BOOLEAN /\ plan'.mode \in Modes /\ proc' \in ProcLabels
        /\ dash' \in {"none", "open", "closed"}
    BY <1>0, <2>1, <2>2, <2>4, <2>5 DEF Run, Modes, ProcLabels
  <2>9. Ssh' <=> mode = "ssh"
    BY <2>4 DEF Ssh
  <2>10. /\ proc' \notin Early \cup {"stop"} /\ (proc' = "usage" => plan'.mode = "client")
         /\ (proc' = "serve" => plan'.mode = "stdio server") /\ (proc' = "popen" => plan'.mode = "ssh")
    BY <2>4, <2>5 DEF Early
  <2>11. Run'
    <3>1. code' \in 0..2
      BY <2>6
    <3>2. plan'.web \in {"no", "yes", "unreadable"}
      BY <2>3, <2>4
    <3>3. proc' # "stop" /\ proc' \notin Early
      BY <2>10
    <3>4. peer' \in {"none", "running", "failed", "stopped"}
      BY <2>6
    <3> QED BY <2>6, <2>7, <2>8, <2>10, <3>1, <3>2, <3>3, <3>4 DEF Run
  <2>12. Ending'
    BY <2>5, <2>6, <2>9 DEF Ending
  <2> QED BY <2>11, <2>12 DEF MInv
<1>4. CASE UsageExit
  <2>1. proc = "usage" /\ Exit(1) /\ UNCHANGED <<peer, trouble, plan, unit>>
    BY <1>4 DEF UsageExit
  <2>2. code' = 1 /\ ~Ssh /\ unit \in BOOLEAN
    BY <1>0, <2>1 DEF Run, Ssh, Exit
  <2>3. Run' /\ ~Ssh'
    BY <1>0, <2>1, <2>2, ExitRun
  <2>4. Ending'
    BY <2>3 DEF Ending
  <2> QED BY <2>3, <2>4 DEF MInv
<1> QED BY <1>1, <1>2, <1>3, <1>4 DEF CommandLine

\* A run that main() cuts short leaves a session that is gone, and a trouble.
LEMMA CutShortInv ==
  ASSUME MInv, PopenFails \/ SecurityFails \/ PumpBroken PROVE MInv'
<1>0. Run /\ Ending
  BY DEF MInv
<1>1. Exit(1) /\ UNCHANGED <<peer, plan, unit>> /\ main' = "gone"
  BY DEF PopenFails, SecurityFails, PumpBroken, Gone, peerRest
<1>2. trouble' \in Unwound /\ trouble' # "none"
  BY DEF PopenFails, SecurityFails, PumpBroken, Unwound
<1>3. code' = 1 /\ proc' = "exited" /\ unit \in BOOLEAN
  BY <1>0, <1>1 DEF Exit, Run
<1>4. Run'
  BY <1>0, <1>1, <1>3, ExitRun
<1>5. Ending'
  BY <1>1, <1>2, <1>3 DEF Ending
<1> QED BY <1>4, <1>5 DEF MInv

\* main() goes on from one phase to the next, or ends.
LEMMA MainInv ==
  ASSUME MInv, Popen \/ Security \/ PeerStart \/ Started \/ StartFailed \/ StartWebFails
                 \/ StopPeer \/ Stopped \/ Report \/ ReportFails \/ Serve \/ Output \/ Pump
                 \/ Signal
  PROVE  MInv'
<1>0. Run /\ Ending
  BY DEF MInv
<1>1. Quiet
  BY QuietSession DEF Popen, Security, PeerStart, Started, StartFailed, StartWebFails, StopPeer, Stopped,
     Report, ReportFails, Serve, Output, OutputBegins, OutputEnds, Pump, Signal
<1>2. ASSUME NEW w, plan' = [plan EXCEPT !.web = w]
      PROVE  /\ plan' = [mode |-> plan'.mode, web |-> plan'.web, tls |-> plan'.tls]
             /\ plan'.mode = plan.mode /\ plan'.web = w
  <2>1. plan = [mode |-> plan.mode, web |-> plan.web, tls |-> plan.tls]
    BY <1>0 DEF Run
  <2> QED BY <1>2, <2>1
<1>3. ASSUME NEW t, plan' = [plan EXCEPT !.tls = t]
      PROVE  /\ plan' = [mode |-> plan'.mode, web |-> plan'.web, tls |-> plan'.tls]
             /\ plan'.mode = plan.mode /\ plan'.web = plan.web
  <2>1. plan = [mode |-> plan.mode, web |-> plan.web, tls |-> plan.tls]
    BY <1>0 DEF Run
  <2> QED BY <1>3, <2>1
<1>4. /\ plan = [mode |-> plan.mode, web |-> plan.web, tls |-> plan.tls]
      /\ plan.web \in {"no", "yes", "unreadable"} /\ stop \in BOOLEAN
      /\ (dash = "open" => proc \in {"pump", "stop", "report"})
  BY <1>0 DEF Run
<1>5. CASE Popen \/ Signal \/ Output
  <2>1. /\ UNCHANGED <<plan, peer, dash, trouble, code, unit>> /\ stop' \in BOOLEAN
        /\ \/ proc = "popen" /\ proc' = "security"
           \/ proc' = proc /\ proc \in {"popen", "security", "start", "pump", "serve"}
    BY <1>4, <1>5 DEF Popen, Signal, Output, OutputBegins, OutputEnds, Go, peerRest
  <2>2. /\ proc \in Untroubled /\ proc' \in Untroubled /\ proc' \notin Early /\ proc' # "stop"
        /\ (dash' = "open" => proc' \in {"pump", "stop", "report"})
    BY <1>4, <2>1 DEF Untroubled, Early
  <2>3. trouble' = "none"
    BY <1>0, <2>1, <2>2 DEF Run
  <2>4. Run' /\ Ssh' = Ssh
    BY <1>0, <1>4, <2>1, <2>2, <2>3, OnRun
  <2>5. Ending'
    BY <1>0, <1>1, <2>1, <2>4 DEF Ending, Quiet
  <2> QED BY <2>4, <2>5 DEF MInv
<1>6. CASE Security
  <2>1. /\ UNCHANGED <<peer, dash, trouble, code, unit, stop>> /\ proc = "security" /\ proc' = "start"
        /\ plan' = [plan EXCEPT !.tls = FALSE]
    BY <1>6 DEF Security, Go
  <2>2. /\ plan' = [mode |-> plan'.mode, web |-> plan'.web, tls |-> plan'.tls]
        /\ plan'.mode = plan.mode /\ plan'.web \in {"no", "yes", "unreadable"}
    BY <1>3, <1>4, <2>1
  <2>3. proc \in Untroubled /\ proc' \in Untroubled /\ proc' \notin Early /\ dash # "open"
    BY <1>4, <2>1 DEF Untroubled, Early
  <2>4. trouble' = "none"
    BY <1>0, <2>1, <2>3 DEF Run
  <2>5. Run' /\ Ssh' = Ssh
    BY <1>0, <1>4, <2>1, <2>2, <2>3, <2>4, OnRun
  <2>6. Ending'
    BY <1>0, <1>1, <2>1, <2>5 DEF Ending, Quiet
  <2> QED BY <2>5, <2>6 DEF MInv
<1>7. CASE PeerStart \/ StopPeer
  <2>1. /\ UNCHANGED <<plan, dash, trouble, code, unit, stop, proc>> /\ ~Ssh /\ proc \in {"start", "stop"}
        /\ peer' \in {"none", "running", "failed", "stopped"}
    BY <1>7 DEF PeerStart, StopPeer, peerRest
  <2>2. proc \in Untroubled \cup {"stop"} /\ proc \notin Early
    BY <2>1 DEF Untroubled, Early
  <2>3. /\ proc' \in Untroubled => trouble' = "none"
        /\ proc' = "stop" => trouble' \in {"none", "start", "web"}
    BY <1>0, <2>1 DEF Run
  <2>4. Run' /\ Ssh' = Ssh
    BY <1>0, <1>4, <2>1, <2>2, <2>3, OnRun
  <2>5. Ending'
    BY <2>1, <2>4 DEF Ending
  <2> QED BY <2>4, <2>5 DEF MInv
<1>8. CASE Started
  <2>1. /\ UNCHANGED <<peer, trouble, code, unit, stop>> /\ proc = "start" /\ proc' = "pump"
        /\ plan' = [plan EXCEPT !.web = "no"] /\ (dash' = dash \/ dash' = "open")
    BY <1>8 DEF Started
  <2>2. /\ plan' = [mode |-> plan'.mode, web |-> plan'.web, tls |-> plan'.tls]
        /\ plan'.mode = plan.mode /\ plan'.web \in {"no", "yes", "unreadable"}
    BY <1>2, <2>1
  <2>3. proc \in Untroubled /\ proc' \in Untroubled /\ proc' \notin Early
    BY <2>1 DEF Untroubled, Early
  <2>4. trouble' = "none"
    BY <1>0, <2>1, <2>3 DEF Run
  <2>5. Run' /\ Ssh' = Ssh
    BY <1>0, <1>4, <2>1, <2>2, <2>3, <2>4, OnRun
  <2>6. Ending'
    BY <1>0, <1>1, <2>1, <2>5 DEF Ending, Quiet
  <2> QED BY <2>5, <2>6 DEF MInv
<1>9. CASE StartWebFails \/ (StartFailed /\ plan.mode # "daemon")
  <2>1. /\ UNCHANGED <<peer, dash, code, unit>> /\ stop' = FALSE /\ proc = "start" /\ proc' = "stop"
        /\ plan' = [plan EXCEPT !.web = "no"] /\ trouble' \in {"start", "web"}
    BY <1>9 DEF StartWebFails, StartFailed
  <2>2. /\ plan' = [mode |-> plan'.mode, web |-> plan'.web, tls |-> plan'.tls]
        /\ plan'.mode = plan.mode /\ plan'.web \in {"no", "yes", "unreadable"}
    BY <1>2, <2>1
  <2>3. proc \in Untroubled /\ proc' \notin Untroubled /\ proc' \notin Early
    BY <2>1 DEF Untroubled, Early
  <2>4. Run' /\ Ssh' = Ssh
    BY <1>0, <1>4, <2>1, <2>2, <2>3, OnRun
  <2>5. Ending'
    BY <1>0, <1>1, <2>1, <2>4 DEF Ending, Quiet
  <2> QED BY <2>4, <2>5 DEF MInv
<1>10. CASE StartFailed /\ plan.mode = "daemon"
  <2>1. /\ UNCHANGED <<peer, unit>> /\ Exit(1) /\ plan' = [plan EXCEPT !.web = "no"]
    BY <1>10 DEF StartFailed
  <2>2. code' = 1 /\ ~Ssh /\ unit \in BOOLEAN
    BY <1>0, <1>10, <2>1 DEF Exit, Run, Ssh
  <2>3. Run' /\ ~Ssh'
    BY <1>0, <2>1, <2>2, ExitRun
  <2>4. Ending'
    BY <2>3 DEF Ending
  <2> QED BY <2>3, <2>4 DEF MInv
<1>11. CASE Pump
  <2>1. /\ UNCHANGED <<plan, peer, dash, trouble, code, unit>> /\ stop' = FALSE
        /\ proc = "pump" /\ proc' = "stop"
    BY <1>11 DEF Pump, Go, peerRest
  <2>2. proc \in Untroubled /\ proc' \notin Untroubled /\ proc' \notin Early
    BY <2>1 DEF Untroubled, Early
  <2>3. trouble' = "none"
    BY <1>0, <2>1, <2>2 DEF Run
  <2>4. Run' /\ Ssh' = Ssh
    BY <1>0, <1>4, <2>1, <2>2, <2>3, OnRun
  <2>5. Ending'
    BY <1>0, <1>1, <2>1, <2>4 DEF Ending, Quiet
  <2> QED BY <2>4, <2>5 DEF MInv
<1>12. CASE Stopped
  <2>1. proc = "stop" /\ "stopped" \in {main, peer} /\ UNCHANGED <<plan, peer, trouble, unit>>
    BY <1>12 DEF Stopped, peerRest
  <2>2. /\ Ssh => main = "stopped"
        /\ trouble \in {"none", "start", "web"} /\ unit \in BOOLEAN
    BY <1>0, <2>1 DEF Run
  <2>3. CASE trouble = "none"
    <3>1. proc' = "report" /\ UNCHANGED <<dash, code, stop>>
      BY <1>12, <2>3 DEF Stopped
    <3>2. proc' \in Untroubled /\ proc' \notin Early
      BY <3>1 DEF Untroubled, Early
    <3>3. Run' /\ Ssh' = Ssh
      BY <1>0, <1>4, <2>1, <2>3, <3>1, <3>2, OnRun
    <3>4. Ending'
      BY <1>1, <2>2, <3>1, <3>3 DEF Ending, Quiet
    <3> QED BY <3>3, <3>4 DEF MInv
  <2>4. CASE trouble # "none"
    <3>1. Exit(1) /\ code' = 1 /\ proc' = "exited"
      BY <1>12, <2>4 DEF Stopped, Exit
    <3>2. Run' /\ Ssh' = Ssh
      BY <1>0, <2>1, <2>2, <3>1, ExitRun
    <3>3. trouble' \notin Unwound /\ trouble' # "none"
      BY <2>1, <2>2, <2>4 DEF Unwound
    <3>4. Ending'
      BY <1>1, <2>2, <3>1, <3>2, <3>3 DEF Ending, Quiet
    <3> QED BY <3>2, <3>4 DEF MInv
  <2> QED BY <2>3, <2>4
<1>13. CASE Report
  <2>1. proc = "report" /\ UNCHANGED <<plan, peer, trouble, unit>>
    BY <1>13 DEF Report, peerRest
  <2>2. trouble = "none" /\ unit \in BOOLEAN /\ (Ssh => main = "stopped")
    BY <1>0, <2>1 DEF Run, Ending, Untroubled
  <2>3. PICK none_back \in BOOLEAN :
          /\ Ssh => none_back = (wire_sent > 0 /\ received = 0)
          /\ Exit(IF none_back THEN 1 ELSE 0)
    <3>1. CASE Ssh
      BY <1>13, <3>1 DEF Report
    <3>2. CASE ~Ssh
      BY <1>13, <3>2 DEF Report
    <3> QED BY <3>1, <3>2
  <2>4. proc' = "exited" /\ code' = (IF none_back THEN 1 ELSE 0)
    BY <2>3 DEF Exit
  <2>5. Exit(code') /\ code' \in 0..2
    BY <2>3, <2>4
  <2>6. Run' /\ Ssh' = Ssh
    BY <1>0, <2>1, <2>2, <2>5, ExitRun
  <2>7. trouble' = "none" /\ trouble' \notin Unwound
    BY <2>1, <2>2 DEF Unwound
  <2>8. Ending'
    BY <1>1, <2>2, <2>3, <2>4, <2>6, <2>7 DEF Ending, Quiet
  <2> QED BY <2>6, <2>8 DEF MInv
<1>14. CASE ReportFails
  <2>1. /\ proc = "report" /\ Exit(1) /\ trouble' = "report" /\ UNCHANGED <<plan, peer, unit>>
    BY <1>14 DEF ReportFails, peerRest
  <2>2. code' = 1 /\ proc' = "exited" /\ unit \in BOOLEAN /\ (Ssh => main = "stopped")
    BY <1>0, <2>1 DEF Exit, Run, Ending
  <2>3. Run' /\ Ssh' = Ssh
    BY <1>0, <2>1, <2>2, ExitRun
  <2>4. Ending'
    BY <1>1, <2>1, <2>2, <2>3 DEF Ending, Quiet, Unwound
  <2> QED BY <2>3, <2>4 DEF MInv
<1>15. CASE Serve
  <2>1. PICK c \in 0..2 : proc = "serve" /\ Exit(c)
    BY <1>15 DEF Serve
  <2>2. code' = c /\ UNCHANGED <<plan, peer, unit>> /\ ~Ssh /\ unit \in BOOLEAN
    BY <1>0, <1>15, <2>1 DEF Serve, Exit, Run, Ssh
  <2>3. Run' /\ ~Ssh'
    BY <1>0, <2>1, <2>2, ExitRun
  <2>4. Ending'
    BY <2>3 DEF Ending
  <2> QED BY <2>3, <2>4 DEF MInv
<1> QED BY <1>5, <1>6, <1>7, <1>8, <1>9, <1>10, <1>11, <1>12, <1>13, <1>14, <1>15

\* The session goes on under main(), and is over before main() looks at it.
LEMMA WithinInv ==
  ASSUME SInv, MInv, Within(SessionNext) PROVE MInv'
<1>0. Run /\ Ending /\ Typed /\ Phases
  BY DEF MInv, SInv
<1>1. /\ Ssh /\ SessionNext /\ UNCHANGED <<proc, plan, stop, peer, dash, unit, trouble, code>>
      /\ (main = "start" => proc = "start")
  BY DEF Within, mainVars
<1>2. proc \notin Early
  BY <1>0, <1>1 DEF Run, Ssh
<1>3. Run'
  BY <1>0, <1>1, <1>2 DEF Run, Ssh
<1>4. main \in {"stopped", "gone"} => main' = main /\ wire_sent' = wire_sent /\ received' = received
  BY <1>0, <1>1, OverStays
<1>5. main' = "gone" => main = "gone"
  <2>1. CASE ThreadStep
    BY <1>0, <2>1, ThreadSteps
  <2>2. CASE RemoteStep
    BY <2>2, RemoteSteps DEF remoteRest
  <2>3. CASE OwnStep
    BY <2>3 DEF OwnStep, Start, HelloWrite, HelloRead, HelloFail, HelloLine, StopCall, StopStep, StopSet,
       StopStdin, StopWait, StopJoin, Stop
  <2> QED BY <1>1, <2>1, <2>2, <2>3 DEF SessionNext, ThreadStep, RemoteStep, OwnStep
<1>6. proc \notin {"popen", "security"}
  BY <1>0, <1>1 DEF Ending
<1>7. proc \in {"report", "exited"} => main \in {"stopped", "gone"}
  BY <1>0, <1>1 DEF Ending
<1>8. Ending'
  BY <1>0, <1>1, <1>4, <1>5, <1>6, <1>7 DEF Ending, Ssh
<1> QED BY <1>3, <1>8 DEF MInv

\* The session's invariant and main()'s are inductive together.
LEMMA MainStepInv ==
  ASSUME SInv, MInv, [MainNext]_allVars PROVE SInv' /\ MInv'
<1>1. SInv'
  BY MainSteps, SessionStepInv
<1>2. CASE UNCHANGED allVars
  <2>1. UNCHANGED <<main, wire_sent, received, proc, plan, stop, peer, dash, unit, trouble, code>>
    BY <1>2, QuietSession DEF allVars, mainVars, Quiet
  <2>2. Run'
    <3>1. Run
      BY DEF MInv
    <3>2. (Ssh' <=> Ssh) /\ plan' = plan /\ proc' = proc /\ code' = code /\ trouble' = trouble
      BY <2>1 DEF Ssh
    <3>3. main' = main /\ stop' = stop /\ unit' = unit /\ dash' = dash /\ peer' = peer
      BY <2>1
    <3> QED BY <3>1, <3>2, <3>3, ZenonT(60) DEF Run
  <2>3. Ending'
    BY <2>1 DEF MInv, Ending, Ssh
  <2> QED BY <1>1, <2>2, <2>3 DEF MInv
<1>3. CASE CommandLine
  BY <1>1, <1>3, CommandLineInv
<1>4. CASE PopenFails \/ SecurityFails \/ PumpBroken
  BY <1>1, <1>4, CutShortInv
<1>5. CASE Within(SessionNext)
  BY <1>1, <1>5, WithinInv
<1>6. CASE Finished
  BY <1>2, <1>6 DEF Finished
<1>7. CASE (Main /\ ~PopenFails /\ ~SecurityFails) \/ Serve \/ Output \/ Pump \/ Signal
  BY <1>1, <1>7, MainInv DEF Main
<1> QED BY <1>2, <1>3, <1>4, <1>5, <1>6, <1>7 DEF MainNext, Main

\* The inductive invariant holds in every state of every run.
THEOREM Invariance == MainSpec => [](SInv /\ MInv)
<1>1. MainInit => SInv /\ MInv
  BY SessionInitInv, MainInitInv DEF MainInit
<1>2. SInv /\ MInv /\ [MainNext]_allVars => (SInv /\ MInv)'
  BY MainStepInv
<1> QED BY <1>1, <1>2, PTL DEF MainSpec

-----------------------------------------------------------------------------
(* The theorems *)

\* No line between the remote stdout and the client is lost, repeated or torn.
THEOREM NoLineLost == MainSpec => []LinesIntact
<1>1. ASSUME SInv PROVE LinesIntact
  <2>1. Typed /\ RepliesWhole
    BY <1>1 DEF SInv
  <2>2. Down \in Seq(Messages \X Kinds) /\ replies \in Seq(Messages) /\ Carries(Down, replies)
    BY <2>1, DownTyped DEF RepliesWhole
  <2>3. Cardinality(LineEnds(Down)) = Len(replies)
    BY <2>2, LineCount
  <2>4. buf \in Seq(Messages \X Kinds) /\ to_client \in Seq(Messages \X Kinds)
    BY <2>1 DEF Typed, Cells
  <2>5. Cardinality(LineEnds(Down)) = Cardinality(LineEnds(buf)) + Cardinality(LineEnds(to_client))
    BY <2>4, LinesSplit DEF Down
  <2>6. LineEnds(buf) # {} => FirstLine(buf) = Head(replies)
    BY <2>1, DownLine
  <2> QED BY <2>3, <2>5, <2>6 DEF LinesIntact
<1> QED BY <1>1, Invariance, PTL

\* Two writers, one line at a time: the server reads whole requests and answers
\* them in order; the client never counts more responses than the server had
\* requests.
THEOREM RequestsInOrder == MainSpec => []AnsweredInOrder
<1>1. ASSUME SInv PROVE AnsweredInOrder
  <2>1. Typed /\ RequestsWhole /\ Handled
    BY <1>1 DEF SInv
  <2>2. Answering => requests # <<>> /\ reply = Response(Head(requests))
    BY <2>1 DEF RequestsWhole
  <2>3. /\ Up \in Seq(Messages \X Kinds) /\ Unread \in Seq(Messages)
        /\ server_buf \in Seq(Messages \X Kinds) /\ to_server \in Seq(Messages \X Kinds)
        /\ requests \in Seq(Requests)
    BY <2>1, UpTyped DEF Cells
  <2>4. /\ Cardinality(LineEnds(Up)) = Cardinality(LineEnds(server_buf)) + Cardinality(LineEnds(to_server))
        /\ Cardinality(LineEnds(server_buf)) \in Nat /\ Cardinality(LineEnds(to_server)) \in Nat
    BY <2>3, LinesSplit DEF Up
  <2>5. Len(requests) = Len(Unread) + (IF Answering THEN 1 ELSE 0)
    <3>1. CASE Answering
      <4>1. Len(Tail(requests)) = Len(requests) - 1 /\ Len(requests) \in Nat /\ Unread = Tail(requests)
        BY <2>2, <2>3, <3>1, HeadTailProperties, LenProperties DEF Unread
      <4> QED BY <3>1, <4>1
    <3>2. CASE ~Answering
      <4>1. Unread = requests /\ Len(requests) \in Nat
        BY <2>3, <3>2, LenProperties DEF Unread
      <4> QED BY <3>2, <4>1
    <3> QED BY <3>1, <3>2
  <2>6. alive => Len(requests) = Cardinality(LineEnds(to_server)) + Cardinality(LineEnds(server_buf))
                                  + (IF Answering THEN 1 ELSE 0)
    <3>1. ASSUME alive PROVE Cardinality(LineEnds(Up)) = Len(Unread)
      BY <2>1, <2>3, <3>1, LineCount DEF RequestsWhole
    <3> QED BY <2>4, <2>5, <3>1
  <2>7. received <= echo_rx
    <3>1. /\ received \in Nat /\ echo_tx \in Nat /\ echo_rx \in Nat
          /\ Cardinality(Kind(replies, {"er"})) \in Nat
      BY <2>1, KindFinite DEF Typed
    <3>2. received + Cardinality(Kind(replies, {"er"})) <= echo_tx
      BY <2>1 DEF Handled
    <3>3. /\ echo_tx + One(Answering /\ reply[1] = "er") <= echo_rx
          /\ One(Answering /\ reply[1] = "er") \in {0, 1}
      BY <2>1 DEF Handled, One
    <3> QED BY <3>1, <3>2, <3>3
  <2> QED BY <2>2, <2>6, <2>7 DEF AnsweredInOrder, Answering
<1> QED BY <1>1, Invariance, PTL

\* After stop() every ECHO offered has its fate, and the counters say which.
THEOREM EveryEchoAccounted == MainSpec => []FinalAccounting
<1>1. ASSUME SInv, main = "stopped" PROVE FinalAccounting
  <2> DEFINE Left == {s \in WithOutcome("unsent") : mtype[s] = ECHO}
             D == Done(Echoes)
             L == LostOf(Echoes)
  <2>1. Typed /\ Phases /\ Settled
    BY <1>1 DEF SInv
  <2>2. \A s \in Seqs : outcome[s] \in {"idle", "answered", "lost", "unsent"}
    <3>1. WithOutcome("open") = {}
      BY <1>1, <2>1 DEF Phases
    <3> QED BY <2>1, <3>1 DEF Typed, Outcomes, WithOutcome
  <2>3. Echoes = (D \cup L) \cup Left
    BY <2>2 DEF Echoes, Done, LostOf, WithOutcome
  <2>4. D \cap L = {} /\ (D \cup L) \cap Left = {}
    BY DEF Done, LostOf, WithOutcome
  <2>5. D \in SUBSET Seqs /\ L \in SUBSET Seqs /\ Left \in SUBSET Seqs /\ D \cup L \in SUBSET Seqs
    BY DEF Done, LostOf, Echoes, WithOutcome
  <2> HIDE DEF D, L, Left
  <2>6. /\ IsFiniteSet(D) /\ IsFiniteSet(L) /\ IsFiniteSet(Left) /\ IsFiniteSet(D \cup L)
        /\ Cardinality(D) \in Nat /\ Cardinality(L) \in Nat /\ Cardinality(Left) \in Nat
    BY <2>5, Counts
  <2>7. Cardinality({}) = 0
    BY FS_EmptySet
  <2>8. Cardinality(D \cup L) = Cardinality(D) + Cardinality(L) - Cardinality(D \cap L)
    BY <2>6, FS_Union
  <2>9. Cardinality((D \cup L) \cup Left)
          = Cardinality(D \cup L) + Cardinality(Left) - Cardinality((D \cup L) \cap Left)
    BY <2>6, FS_Union
  <2>10. Cardinality(Echoes) = Cardinality(D) + Cardinality(L) + Cardinality(Left)
    <3>1. Cardinality(D \cap L) = 0 /\ Cardinality((D \cup L) \cap Left) = 0
      BY <2>4, <2>7
    <3>2. Cardinality(D \cup L) = Cardinality(D) + Cardinality(L)
      BY <2>6, <2>8, <3>1
    <3>3. Cardinality(Echoes) = Cardinality((D \cup L) \cup Left)
      BY <2>3
    <3> QED BY <2>6, <2>9, <3>1, <3>2, <3>3
  <2>11. /\ offered = Cardinality(Echoes) + One(pc["schedule"] = "crashed")
         /\ received = Cardinality(D) /\ lost = Cardinality(L)
    BY <1>1, <2>1 DEF Settled, D, L
  <2>12. offered = received + lost + (IF pc["schedule"] = "crashed" THEN 1 ELSE 0) + Cardinality(Left)
    <3>1. One(pc["schedule"] = "crashed") = IF pc["schedule"] = "crashed" THEN 1 ELSE 0
      BY DEF One
    <3>2. (IF pc["schedule"] = "crashed" THEN 1 ELSE 0) \in Nat
      OBVIOUS
    <3> QED BY <2>6, <2>10, <2>11, <3>1, <3>2
  <2> QED BY <2>12 DEF FinalAccounting, Left
<1>2. SInv => FinalAccounting
  BY <1>1 DEF FinalAccounting
<1> QED BY <1>2, Invariance, PTL

\* The exit status, the dashboard and ssh, at the end of the process.
THEOREM ExitsInOrder == MainSpec => []OrderlyExit
<1>1. ASSUME SInv, MInv PROVE OrderlyExit
  <2>1. Phases /\ Run /\ Ending
    BY <1>1 DEF SInv, MInv
  <2>2. proc = "exited" => dash # "open"
    BY <2>1 DEF Run
  <2>3. main = "stopped" => ~alive
    BY <2>1 DEF Phases
  <2>4. proc = "exited" /\ Ssh =>
          /\ code = IF trouble # "none" \/ (wire_sent > 0 /\ received = 0) THEN 1 ELSE 0
          /\ (trouble \notin {"popen", "security", "pump"} => main = "stopped")
    BY <2>1 DEF Ending, Unwound
  <2> QED BY <2>2, <2>3, <2>4 DEF OrderlyExit
<1> QED BY <1>1, Invariance, PTL

\* Whether main() is in a write is a Boolean that no step of the session touches.
WriteFlag == writing \in BOOLEAN

LEMMA WritingTyped == MainSpec => []WriteFlag
<1>1. MainInit => WriteFlag
  BY DEF MainInit, WriteFlag
<1>2. ASSUME WriteFlag, [MainNext]_allVars PROVE WriteFlag'
  <2> USE DEF WriteFlag
  <2>1. CASE CommandLine
    BY <1>2, <2>1 DEF CommandLine, Parse, ParseEnds, Dispatch, UsageExit, Exit, earlyRest
  <2>2. CASE Main
    <3>1. CASE Popen \/ Security \/ PeerStart \/ Started \/ StartWebFails \/ StopPeer
      BY <1>2, <3>1 DEF Popen, Security, PeerStart, Started, StartWebFails, StopPeer
    <3>2. CASE PopenFails \/ SecurityFails \/ StartFailed \/ Report \/ ReportFails
      BY <1>2, <3>2 DEF PopenFails, SecurityFails, StartFailed, Report, ReportFails, Exit
    <3>3. CASE Stopped
      BY <1>2, <3>3 DEF Stopped, Exit
    <3> QED BY <2>2, <3>1, <3>2, <3>3 DEF Main
  <2>3. CASE Serve \/ Output \/ Pump \/ PumpBroken \/ Signal
    BY <1>2, <2>3 DEF Serve, Output, OutputBegins, OutputEnds, Pump, PumpBroken, Signal, Exit
  <2>4. CASE Within(SessionNext)
    BY <1>2, <2>4 DEF Within, mainVars
  <2>5. CASE UNCHANGED allVars
    BY <1>2, <2>5 DEF allVars, mainVars
  <2> QED BY <1>2, <2>1, <2>2, <2>3, <2>4, <2>5 DEF MainNext, Finished
<1> QED BY <1>1, <1>2, PTL DEF MainSpec

\* The counters bound one another, and the pipes are never overfull.
THEOREM MainTypeCorrect == MainSpec => []MainTypeOK
<1>1. ASSUME SInv, MInv, WriteFlag PROVE MainTypeOK
  <2>1. /\ Typed /\ Numbered /\ Settled /\ Sent /\ Handled /\ Bounded /\ Run /\ Owned
    BY <1>1 DEF SInv, MInv
  <2>2. /\ offered \in Nat /\ wire_sent \in Nat /\ received \in Nat /\ late \in Nat
        /\ status_sent \in Nat /\ status_received \in Nat /\ remote_noise \in Nat /\ protocol_errors \in Nat
        /\ stray \in Nat /\ seq \in Nat /\ echo_rx \in Nat /\ echo_tx \in Nat
        /\ txq \in Seq(Seqs) /\ replies \in Seq(Messages)
    BY <2>1 DEF Typed
  <2>3. Echoes \in SUBSET Seqs /\ Probes \in SUBSET Seqs
    BY DEF Echoes, Probes
  <2>4. /\ Done(Echoes) \subseteq Echoes /\ Done(Probes) \subseteq Probes
        /\ IsFiniteSet(Echoes) /\ IsFiniteSet(Probes)
        /\ Cardinality(Echoes) \in Nat /\ Cardinality(Probes) \in Nat
    BY <2>3, Counts DEF Done
  <2>5. Cardinality(Done(Echoes)) <= Cardinality(Echoes) /\ Cardinality(Done(Probes)) <= Cardinality(Probes)
    BY <2>4, FS_Subset
  <2>6. /\ received <= Cardinality(Echoes)
        /\ status_received <= Cardinality(Probes)
        /\ Cardinality(Echoes) <= offered
    BY <2>1, <2>5 DEF Settled
  <2>7. MaxEchoes \in Nat /\ MaxProbes \in Nat
    BY SessionAssumption
  <2>8. offered <= MaxEchoes /\ Cardinality(Probes) <= MaxProbes /\ seq = offered + Cardinality(Probes)
    BY <2>1 DEF Numbered
  <2>9. wire_sent <= offered /\ status_sent <= MaxProbes /\ late <= received
    <3>1. /\ One(pc["send"] \in {"write", "rest"}) \in Nat /\ One(pc["probe"] \in {"write", "rest"}) \in Nat
          /\ Len(txq) \in Nat
      BY <2>2, LenProperties DEF One
    <3>2. /\ wire_sent + Len(txq) + One(pc["send"] \in {"write", "rest"}) <= Cardinality(Echoes)
          /\ status_sent + One(pc["probe"] \in {"write", "rest"}) <= Cardinality(Probes)
          /\ late <= received
      BY <2>1 DEF Sent
    <3> QED BY SMTT(30), <2>2, <2>4, <2>6, <2>7, <2>8, <3>1, <3>2
  <2>10. seq <= Cardinality(Seqs) /\ Cardinality(Seqs) \in Nat
    <3>1. Seqs = 1..(MaxEchoes + MaxProbes)
      BY SessionAssumption
    <3>2. Cardinality(Seqs) = MaxEchoes + MaxProbes
      <4>1. 1 \in Int /\ MaxEchoes + MaxProbes \in Int /\ MaxEchoes + MaxProbes \in Nat
        BY <2>7
      <4>2. Cardinality(1..(MaxEchoes + MaxProbes))
              = IF 1 > MaxEchoes + MaxProbes THEN 0 ELSE (MaxEchoes + MaxProbes) - 1 + 1
        BY <4>1, FS_Interval
      <4> QED BY <2>7, <3>1, <4>1, <4>2
    <3> QED BY <2>2, <2>4, <2>7, <2>8, <3>2
  <2>11. echo_tx <= echo_rx /\ remote_noise + protocol_errors <= stray
    <3>1. /\ One(Answering /\ reply[1] = "er") \in Nat
          /\ Cardinality(Kind(replies, {"noise", "garbled"})) \in Nat
      BY <2>2, KindFinite DEF One
    <3>2. /\ echo_tx + One(Answering /\ reply[1] = "er") <= echo_rx
          /\ remote_noise + protocol_errors + Cardinality(Kind(replies, {"noise", "garbled"})) <= stray
      BY <2>1 DEF Handled
    <3> QED BY <2>2, <3>1, <3>2
  <2>12. /\ offered \in 0..MaxEchoes /\ wire_sent \in 0..offered /\ received \in 0..offered
         /\ late \in 0..received /\ status_sent \in 0..MaxProbes /\ status_received \in 0..MaxProbes
         /\ echo_tx \in 0..echo_rx /\ seq \in 0..Cardinality(Seqs)
    BY <2>2, <2>4, <2>6, <2>7, <2>8, <2>9, <2>10, <2>11
  <2>13. SessionTypeOK
    BY <2>1, <2>11, <2>12 DEF SessionTypeOK, Typed, Bounded
  <2> QED BY <1>1, <2>1, <2>13 DEF MainTypeOK, Run, WriteFlag
<1> QED BY <1>1, Invariance, WritingTyped, PTL

\* The session keeps its requests as the ledger promises: every step of it is
\* an offer, an answer, a sweep, or no concern of the ledger.
THEOREM SessionKeepsTheLedger == MainSpec => Spec
<1>1. MainInit => Init
  BY DEF MainInit, SessionInit
<1>2. ASSUME SInv, [MainNext]_allVars PROVE [Next]_vars
  <2>1. Typed /\ Phases /\ Locked /\ RepliesWhole /\ Numbered /\ Owned /\ SessionStep
    BY <1>2, MainSteps DEF SInv
  <2>2. CASE SchedOffer
    <3>1. seq + 1 \in Seqs
      BY <2>1, <2>2, NextNumber DEF SchedOffer
    <3>2. Offer(seq + 1, ECHO) \/ UNCHANGED vars
      BY <2>2 DEF SchedOffer
    <3> QED BY <3>1, <3>2 DEF Next
  <2>3. CASE ProbeDue
    <3>1. seq + 1 \in Seqs
      BY <2>1, <2>3, NextNumber DEF ProbeDue
    <3>2. Offer(seq + 1, STATUS)
      BY <2>3 DEF ProbeDue
    <3> QED BY <3>1, <3>2 DEF Next
  <2>4. CASE ReadLine
    <3>1. Echoes \subseteq Seqs /\ Probes \subseteq Seqs
      BY DEF Echoes, Probes
    <3>2. UNCHANGED vars \/ (Head(replies)[2] \in Seqs /\ Answer(Head(replies)[2]))
      BY <2>1, <2>4, <3>1, LineCounts
    <3> QED BY <3>2 DEF Next
  <2>5. ASSUME NEW L, NEW U, GiveUp(L, U) PROVE Next
    <3>1. L \in SUBSET WithOutcome("open") /\ U \in SUBSET WithOutcome("open")
      BY <2>5 DEF GiveUp
    <3> QED BY <2>5, <3>1 DEF Next
  <2>6. CASE ReapSweep
    BY <2>5, <2>6 DEF ReapSweep
  <2>7. CASE SendGet \/ ReadChunk
    BY <2>7 DEF SendGet, ReadChunk
  <2>8. ASSUME NEW th \in {"send", "probe"}, Write(th) PROVE [Next]_vars
    BY <2>5, <2>8 DEF Write, WriteClosed, WriteFail, WriteBegin, WriteRest
  <2>9. CASE OwnStep
    BY <2>5, <2>9 DEF OwnStep, Start, HelloWrite, HelloRead, HelloFail, HelloLine, StopCall, StopStep,
       StopSet, StopStdin, StopWait, StopJoin
  <2>10. CASE RemoteStep
    BY <2>10, RemoteSteps DEF remoteRest
  <2>11. CASE Ended \/ UNCHANGED sessionVars
    BY <2>11 DEF Ended, Gone, sessionVars
  <2> QED BY <2>1, StepKinds, <2>2, <2>3, <2>4, <2>6, <2>7, <2>8, <2>9, <2>10, <2>11
          DEF ThreadStep, Send, Probe, Read
<1> QED BY <1>1, <1>2, Invariance, PTL DEF MainSpec, Spec

-----------------------------------------------------------------------------
(* The command line *)

\* The results of reading the first options of a command line, for each number
\* of them.
Readings(h, line) ==
  /\ h[0] = NoOptions
  /\ \A k \in 1..Len(line) : h[k] = ParseOption(h[k - 1], line[k])

\* parse_args reads one option after the other.
LEMMA ReadOptions ==
  ASSUME NEW S, NEW line \in Seq(S)
  PROVE  \E h : Readings(h, line) /\ ParseArgs(line) = Finish(h[Len(line)])
<1> DEFINE n == Len(line)
           Sets(m) == SUBSET (1..m)
           Fold(g, s) == IF s = {} THEN NoOptions ELSE ParseOption(g[s \ {Max(s)}], line[Max(s)])
           Iter(g, m) == g = [s \in Sets(m) |-> Fold(g, s)]
           N == {m \in Nat : \E g : Iter(g, m)}
<1>0. n \in Nat /\ DOMAIN line = 1..n
  BY LenProperties
<1>1. ASSUME NEW m \in Nat, NEW s \in Sets(m), m \in s
      PROVE  Max(s) = m
  <2>1. \A y \in s : m >= y
    BY <1>1
  <2>2. PICK x \in s : x = Max(s) /\ \A y \in s : x >= y
    BY <1>1, <2>1 DEF Max
  <2> QED BY <1>1, <2>1, <2>2
<1>2. ASSUME NEW m \in Nat, NEW g, Iter(g, m)
      PROVE  \E f : Iter(f, m + 1)
  <2> DEFINE f == [s \in Sets(m + 1) |->
                     IF m + 1 \in s THEN ParseOption(g[s \ {m + 1}], line[m + 1]) ELSE g[s]]
  <2>1. ASSUME NEW s \in Sets(m + 1) PROVE f[s] = Fold(f, s)
    <3>1. CASE m + 1 \in s
      <4>1. Max(s) = m + 1
        BY <1>1, <3>1
      <4>2. s \ {m + 1} \in Sets(m) /\ s \ {m + 1} \in Sets(m + 1) /\ m + 1 \notin s \ {m + 1} /\ s # {}
        BY <3>1
      <4>3. f[s \ {m + 1}] = g[s \ {m + 1}]
        BY <4>2
      <4>4. f[s] = ParseOption(g[s \ {m + 1}], line[m + 1])
        BY <3>1
      <4> HIDE DEF f
      <4> QED BY <4>1, <4>2, <4>3, <4>4
    <3>2. CASE m + 1 \notin s
      <4>1. s \in Sets(m)
        BY <3>2
      <4>2. f[s] = g[s]
        BY <3>2
      <4>3. g[s] = Fold(g, s)
        BY <1>2, <4>1
      <4>4. ASSUME s # {} PROVE f[s \ {Max(s)}] = g[s \ {Max(s)}]
        <5>1. m + 1 \notin s \ {Max(s)} /\ s \ {Max(s)} \in Sets(m + 1)
          BY <3>2
        <5> QED BY <5>1
      <4> HIDE DEF f
      <4> QED BY <4>2, <4>3, <4>4
    <3> QED BY <3>1, <3>2
  <2>2. f = [s \in Sets(m + 1) |-> Fold(f, s)]
    <3>1. f = [s \in Sets(m + 1) |-> f[s]]
      OBVIOUS
    <3> HIDE DEF f, Fold, Sets
    <3> QED BY <2>1, <3>1
  <2> HIDE DEF f
  <2> QED BY <2>2
<1>3. \E g : Iter(g, 0)
  <2> DEFINE g == [s \in Sets(0) |-> NoOptions]
  <2>1. Sets(0) = {{}}
    OBVIOUS
  <2>2. g = [s \in Sets(0) |-> Fold(g, s)]
    BY <2>1
  <2> HIDE DEF g
  <2> QED BY <2>2
<1>4. N = Nat
  <2>1. ASSUME NEW k \in Nat, \A m \in Nat : m < k => m \in N PROVE k \in N
    <3>1. CASE k = 0
      BY <1>3, <3>1
    <3>2. CASE k # 0
      <4>1. k - 1 \in Nat /\ k - 1 < k /\ (k - 1) + 1 = k
        BY <3>2
      <4>2. k - 1 \in N
        BY <2>1, <4>1
      <4> DEFINE m == k - 1
      <4>3. m \in Nat /\ m + 1 = k /\ \E g : Iter(g, m)
        BY <4>1, <4>2
      <4> HIDE DEF m, Iter
      <4>4. \E f : Iter(f, m + 1)
        BY <1>2, <4>3
      <4> QED BY <4>3, <4>4
    <3> QED BY <3>1, <3>2
  <2> HIDE DEF N
  <2>2. N \in SUBSET Nat
    BY DEF N
  <2> QED BY <2>1, <2>2, NumberInduction
<1> DEFINE c == CHOOSE g : Iter(g, n)
<1>5. FoldLeft(ParseOption, NoOptions, line) = c[1..n]
  BY <1>0 DEF FoldLeft, MapThenFoldSet
<1>6. Iter(c, n)
  <2>1. \E g : Iter(g, n)
    BY <1>0, <1>4
  <2> HIDE DEF Iter
  <2> QED BY <2>1
<1> HIDE DEF c
<1> DEFINE h == [k \in 0..n |-> c[1..k]]
<1>7. h[0] = NoOptions
  <2>1. 1..0 = {} /\ {} \in Sets(n) /\ 0 \in 0..n
    BY <1>0
  <2>2. h[0] = c[1..0]
    BY <2>1
  <2>3. c[{}] = NoOptions
    BY <1>6, <2>1
  <2> HIDE DEF h
  <2> QED BY <2>1, <2>2, <2>3
<1>8. ASSUME NEW k \in 1..n PROVE h[k] = ParseOption(h[k - 1], line[k])
  <2>1. k \in 0..n /\ k - 1 \in 0..n /\ k \in Nat
    BY <1>0
  <2>2. h[k] = c[1..k] /\ h[k - 1] = c[1..(k - 1)]
    BY <2>1
  <2>3. 1..k \in Sets(n) /\ k \in 1..k /\ 1..k \in Sets(k) /\ (1..k) \ {k} = 1..(k - 1) /\ 1..k # {}
    BY <1>0
  <2>4. Max(1..k) = k
    BY <1>1, <2>1, <2>3
  <2>5. c[1..k] = ParseOption(c[(1..k) \ {k}], line[k])
    BY <1>6, <2>3, <2>4
  <2> HIDE DEF h
  <2> QED BY <2>2, <2>3, <2>5
<1>9. ParseArgs(line) = Finish(h[n])
  <2>1. n \in 0..n
    BY <1>0
  <2>2. h[n] = c[1..n]
    BY <2>1
  <2> HIDE DEF h
  <2> QED BY <1>5, <2>2 DEF ParseArgs
<1> HIDE DEF h
<1>10. Readings(h, line)
  BY <1>7, <1>8 DEF Readings
<1> QED BY <1>9, <1>10

-----------------------------------------------------------------------------
(* What an option sets *)

\* The fields an option sets.
FieldsOf(opt) ==
  CASE opt \in {"verbose", "quiet"} -> {"verbose"}
    [] opt = "web_addr" -> {"web", "web_addr"}
    [] opt = "host" -> {"host", "host_set"}
    [] opt = "port" -> {"port", "port_set"}
    [] opt = "lam" -> {"lam", "lam_set"}
    [] opt = "window_ms" -> {"window_ms", "window_set"}
    [] OTHER -> {opt}

\* No option is named like a field that only main() or another option sets.
LEMMA OptionNames ==
  Options \cap {"host_set", "port_set", "lam_set", "window_set", "server"} = {}
BY DEF Options

\* The fields of an option are fields of the arguments.
LEMMA FieldsAreArguments ==
  ASSUME NEW opt \in Options, opt \notin {"help", "version", "unknown", "SERVER"}
  PROVE  FieldsOf(opt) \subseteq DOMAIN Defaults
BY DEF FieldsOf, Options, Defaults

\* What an option changes is its fields, and depends on no other.
LEMMA ChangesFacts ==
  ASSUME NEW opt \in Options, NEW a, NEW b, NEW v, \A f \in FieldsOf(opt) : a[f] = b[f]
  PROVE  DOMAIN Changes(a, opt, v) = FieldsOf(opt) /\ Changes(a, opt, v) = Changes(b, opt, v)
<1>1. CASE opt \in {"verbose", "quiet"}
  BY <1>1 DEF Changes, FieldsOf, Flags
<1>2. CASE opt \in {"web_addr", "host", "port", "lam", "window_ms"}
  BY <1>2 DEF Changes, FieldsOf, Flags
<1>3. CASE opt = "ssh_options"
  BY <1>3 DEF Changes, FieldsOf, Flags
<1>4. CASE opt \notin {"verbose", "quiet", "web_addr", "host", "port", "lam", "window_ms", "ssh_options"}
  BY <1>4 DEF Changes, FieldsOf, Flags
<1> QED BY <1>1, <1>2, <1>3, <1>4

\* Options of different fields set different fields.
LEMMA FieldsApart ==
  ASSUME NEW p, NEW o, p.opt \in Options, o.opt \in Options, Field(p) # Field(o)
  PROVE  FieldsOf(p.opt) \cap FieldsOf(o.opt) = {}
<1> DEFINE P == p.opt
           O == o.opt
<1>1. P \in Options /\ O \in Options
  OBVIOUS
<1>2. /\ P \notin {"host_set", "port_set", "lam_set", "window_set"}
      /\ O \notin {"host_set", "port_set", "lam_set", "window_set"}
  BY <1>1, OptionNames
<1>3. (CASE P \in {"verbose", "quiet"} -> "verbose"
         [] P \in {"web", "web_addr"} -> "web"
         [] OTHER -> P) #
      (CASE O \in {"verbose", "quiet"} -> "verbose"
         [] O \in {"web", "web_addr"} -> "web"
         [] OTHER -> O)
  BY DEF Field
<1> HIDE DEF P, O
<1>4. FieldsOf(P) \cap FieldsOf(O) = {}
  BY <1>2, <1>3 DEF FieldsOf
<1> QED BY <1>4 DEF P, O

\* The result of reading options, if it is no failure.
Sound(r) ==
  r.kind = "value" =>
    /\ r = [kind |-> "value", value |-> r.value, positionals |-> r.positionals]
    /\ DOMAIN r.value = DOMAIN Defaults

\* The option can be read, and what it makes of the result so far.
Readable(o) ==
  /\ o.opt \notin {"help", "version", "unknown"} /\ o.raw # Missing
  /\ o.opt # "SERVER" => Convert(o.opt, o.raw).kind = "value"

Values(r, o) ==
  IF o.opt = "SERVER" THEN r.value
  ELSE With(r.value, Changes(r.value, o.opt, Convert(o.opt, o.raw).value))
Words(r, o) == IF o.opt = "SERVER" THEN Append(r.positionals, o.raw) ELSE r.positionals

Reading(r, o) == [kind |-> "value", value |-> Values(r, o), positionals |-> Words(r, o)]

\* What one option makes of a result.
LEMMA OneOption ==
  ASSUME NEW r, NEW o, Sound(r)
  PROVE  /\ r.kind = "value" /\ Readable(o) => ParseOption(r, o) = Reading(r, o)
         /\ ParseOption(r, o).kind = "value" => r.kind = "value" /\ Readable(o)
         /\ Sound(ParseOption(r, o))
<1> DEFINE c == Convert(o.opt, o.raw)
           p == ParseOption(r, o)
<1>1. r.kind # "value" => p = r
  BY DEF ParseOption
<1>2. ASSUME r.kind = "value", o.opt \in {"help", "version"} PROVE p.kind = o.opt /\ p.kind # "value"
  BY <1>2 DEF ParseOption
<1>3. ASSUME r.kind = "value", o.opt \notin {"help", "version"}, o.opt = "unknown" \/ o.raw = Missing
      PROVE  p.kind # "value"
  BY <1>3 DEF ParseOption, Usage
<1>4. ASSUME r.kind = "value", o.opt \notin {"help", "version", "unknown"}, o.raw # Missing
      PROVE  /\ o.opt = "SERVER" \/ c.kind = "value" => p = Reading(r, o)
             /\ o.opt # "SERVER" /\ c.kind # "value" => p = c
  <2> DEFINE w == With(r.value, Changes(r.value, o.opt, c.value))
  <2>1. r = [kind |-> "value", value |-> r.value, positionals |-> r.positionals]
    BY <1>4 DEF Sound
  <2>2. CASE o.opt = "SERVER"
    <3>1. p = [r EXCEPT !.positionals = Append(r.positionals, o.raw)]
      BY <1>4, <2>2 DEF ParseOption
    <3>2. [r EXCEPT !.positionals = Append(r.positionals, o.raw)]
            = [kind |-> "value", value |-> r.value, positionals |-> Append(r.positionals, o.raw)]
      BY SMTT(30), <2>1
    <3> QED BY <2>2, <3>1, <3>2 DEF Reading, Values, Words
  <2>3. CASE o.opt # "SERVER" /\ c.kind = "value"
    <3>1. p = [r EXCEPT !.value = w]
      BY <1>4, <2>3 DEF ParseOption
    <3>2. [r EXCEPT !.value = w] = [kind |-> "value", value |-> w, positionals |-> r.positionals]
      <4> HIDE DEF w
      <4> QED BY <2>1
    <3> QED BY <2>3, <3>1, <3>2 DEF Reading, Values, Words
  <2>4. CASE o.opt # "SERVER" /\ c.kind # "value"
    BY <1>4, <2>4 DEF ParseOption
  <2> QED BY <2>2, <2>3, <2>4
<1>5. r.kind = "value" => Sound(Reading(r, o))
  <2>1. DOMAIN Values(r, o) = DOMAIN r.value
    BY DEF Values, With
  <2> DEFINE d == Reading(r, o)
  <2>2. d.value = Values(r, o) /\ d.positionals = Words(r, o) /\ d.kind = "value"
        /\ d = [kind |-> "value", value |-> Values(r, o), positionals |-> Words(r, o)]
    BY DEF Reading
  <2> QED BY <2>1, <2>2 DEF Sound
<1>6. r.kind = "value" /\ Readable(o) => p = Reading(r, o)
  BY <1>4 DEF Readable
<1> HIDE DEF p, c
<1>7. p.kind = "value" => r.kind = "value" /\ Readable(o)
  BY <1>1, <1>2, <1>3, <1>4 DEF Readable, c
<1>8. Sound(p)
  <2>1. CASE p.kind # "value"
    BY <2>1 DEF Sound
  <2>2. CASE p.kind = "value"
    BY <1>5, <1>6, <1>7, <2>2
  <2> QED BY <2>1, <2>2
<1> QED BY <1>6, <1>7, <1>8 DEF p

\* Two changes of different fields.
LEMMA ChangesCommute ==
  ASSUME NEW a, NEW f, NEW g, DOMAIN f \cap DOMAIN g = {}
  PROVE  With(With(a, f), g) = With(With(a, g), f)
BY DEF With

\* A field that is not changed.
LEMMA Elsewhere ==
  ASSUME NEW a, NEW f, NEW x \in DOMAIN a, x \notin DOMAIN f
  PROVE  With(a, f)[x] = a[x]
BY DEF With

\* Options that do not set the same field can be read in either order.
LEMMA OptionsCommute ==
  ASSUME NEW r, Sound(r), NEW p, NEW o, p.opt \in Options, o.opt \in Options, Field(p) # Field(o),
         ParseOption(ParseOption(r, p), o).kind = "value"
  PROVE  ParseOption(ParseOption(r, p), o) = ParseOption(ParseOption(r, o), p)
<1>1. Sound(ParseOption(r, p)) /\ ParseOption(r, p).kind = "value" /\ Readable(o)
  BY OneOption
<1>2. r.kind = "value" /\ Readable(p)
  BY <1>1, OneOption
<1>3. ParseOption(r, p) = Reading(r, p) /\ ParseOption(r, o) = Reading(r, o)
  BY <1>1, <1>2, OneOption
<1> DEFINE d == Reading(r, p)
           e == Reading(r, o)
<1>4. d.kind = "value" /\ e.kind = "value" /\ d.value = Values(r, p) /\ e.value = Values(r, o)
      /\ d.positionals = Words(r, p) /\ e.positionals = Words(r, o)
  BY DEF Reading
<1>5. Sound(d) /\ Sound(e)
  BY <1>3, OneOption
<1> HIDE DEF d, e
<1>6. ParseOption(d, o) = Reading(d, o) /\ ParseOption(e, p) = Reading(e, p)
  BY <1>1, <1>2, <1>4, <1>5, OneOption
<1>7. p.opt # "SERVER" \/ o.opt # "SERVER"
  BY DEF Field
<1>8. Words(d, o) = Words(e, p)
  BY <1>4, <1>7 DEF Words
<1>9. Values(d, o) = Values(e, p)
  <2>1. CASE p.opt = "SERVER" \/ o.opt = "SERVER"
    BY <1>4, <1>7, <2>1 DEF Values
  <2>2. CASE p.opt # "SERVER" /\ o.opt # "SERVER"
    <3> DEFINE a == r.value
               u == Convert(p.opt, p.raw).value
               v == Convert(o.opt, o.raw).value
               f == Changes(a, p.opt, u)
               g == Changes(a, o.opt, v)
    <3>1. d.value = With(a, f) /\ e.value = With(a, g)
      BY <1>4, <2>2 DEF Values
    <3>2. FieldsOf(p.opt) \cap FieldsOf(o.opt) = {}
      BY FieldsApart
    <3>3. DOMAIN f = FieldsOf(p.opt) /\ DOMAIN g = FieldsOf(o.opt)
      BY ChangesFacts
    <3>4. DOMAIN a = DOMAIN Defaults /\ DOMAIN d.value = DOMAIN a /\ DOMAIN e.value = DOMAIN a
      BY <1>2, <3>1 DEF Sound, With
    <3> HIDE DEF f, g
    <3>0. FieldsOf(o.opt) \subseteq DOMAIN a /\ FieldsOf(p.opt) \subseteq DOMAIN a
      BY <1>1, <1>2, <2>2, <3>4, FieldsAreArguments DEF Readable
    <3>5. \A x \in FieldsOf(o.opt) : d.value[x] = a[x]
      BY <3>0, <3>1, <3>2, <3>3, Elsewhere
    <3>6. \A x \in FieldsOf(p.opt) : e.value[x] = a[x]
      BY <3>0, <3>1, <3>2, <3>3, Elsewhere
    <3>7. Changes(d.value, o.opt, v) = g
      BY <3>5, ChangesFacts DEF g
    <3>8. Changes(e.value, p.opt, u) = f
      BY <3>6, ChangesFacts DEF f
    <3>9. Values(d, o) = With(d.value, g) /\ Values(e, p) = With(e.value, f)
      BY <2>2, <3>7, <3>8 DEF Values
    <3>10. With(With(a, f), g) = With(With(a, g), f)
      BY <3>2, <3>3, ChangesCommute
    <3> QED BY <3>1, <3>9, <3>10
  <2> QED BY <2>1, <2>2
<1>10. Reading(d, o) = Reading(e, p)
  BY <1>8, <1>9 DEF Reading
<1> QED BY <1>3, <1>6, <1>10 DEF d, e

\* Every option of the line is one that netpoisson knows, or none.
Known(line) == \A i \in 1..Len(line) : line[i].opt \in Options

\* Where the reading starts.
LEMMA NoOptionsFacts ==
  /\ Sound(NoOptions) /\ NoOptions.kind = "value" /\ NoOptions.value = Defaults
  /\ NoOptions.positionals = <<>>
BY DEF Sound, NoOptions

\* What was read without a failure was read option by option.
LEMMA ReadingsFacts ==
  ASSUME NEW S, NEW line \in Seq(S), NEW h, Readings(h, line), h[Len(line)].kind = "value"
  PROVE  /\ \A k \in 0..Len(line) : h[k].kind = "value" /\ Sound(h[k])
         /\ \A k \in 1..Len(line) : Readable(line[k]) /\ h[k] = Reading(h[k - 1], line[k])
<1> DEFINE n == Len(line)
           Good1(m) == m \in 0..n => Sound(h[m])
           E == {m \in Nat : Good1(m)}
           F == {m \in Nat : m \in 0..n => h[n - m].kind = "value"}
<1>0. n \in Nat
  BY LenProperties
<1>1. h[0] = NoOptions /\ \A k \in 1..n : h[k] = ParseOption(h[k - 1], line[k])
  BY DEF Readings
<1>2. E = Nat
  <2>1. ASSUME NEW k \in Nat, \A m \in Nat : m < k => m \in E PROVE Good1(k)
    <3>1. CASE k = 0
      BY <1>1, <3>1, NoOptionsFacts
    <3>2. CASE k # 0 /\ k \in 0..n
      <4>1. k - 1 \in Nat /\ k - 1 < k /\ k - 1 \in 0..n /\ k \in 1..n
        BY <1>0, <3>2
      <4>2. Sound(h[k - 1])
        BY <2>1, <4>1
      <4>3. h[k] = ParseOption(h[k - 1], line[k])
        BY <1>1, <4>1
      <4> QED BY <4>2, <4>3, OneOption
    <3>3. CASE k \notin 0..n
      BY <3>3
    <3> QED BY <3>1, <3>2, <3>3
  <2>2. \A k \in Nat : Good1(k) => k \in E
    OBVIOUS
  <2>3. E \in SUBSET Nat
    OBVIOUS
  <2> HIDE DEF E, Good1
  <2> QED BY <2>1, <2>2, <2>3, NumberInduction
<1>3. ASSUME NEW k \in 0..n PROVE Sound(h[k])
  <2>1. k \in E
    BY <1>0, <1>2
  <2> QED BY <2>1
<1>4. F = Nat
  <2>1. ASSUME NEW k \in Nat, \A m \in Nat : m < k => m \in F PROVE k \in F
    <3>1. CASE k = 0
      BY <1>0, <3>1
    <3>2. CASE k # 0 /\ k \in 0..n
      <4> DEFINE j == n - k + 1
      <4>1. k - 1 \in Nat /\ k - 1 < k /\ k - 1 \in 0..n /\ n - (k - 1) = j /\ j - 1 = n - k
            /\ j \in 1..n /\ j - 1 \in 0..n
        BY <1>0, <3>2
      <4>2. h[n - (k - 1)].kind = "value"
        BY <2>1, <4>1
      <4> HIDE DEF j
      <4>3. h[j].kind = "value" /\ h[j] = ParseOption(h[j - 1], line[j])
        BY <1>1, <4>1, <4>2
      <4>4. h[j - 1].kind = "value"
        BY <1>3, <4>1, <4>3, OneOption
      <4> QED BY <4>1, <4>4
    <3>3. CASE k \notin 0..n
      BY <3>3
    <3> QED BY <3>1, <3>2, <3>3
  <2>3. F \in SUBSET Nat
    OBVIOUS
  <2> HIDE DEF F
  <2> QED BY <2>1, <2>3, NumberInduction
<1>5. ASSUME NEW k \in 0..n PROVE h[k].kind = "value"
  <2> DEFINE j == n - k
  <2>1. j \in Nat /\ j \in 0..n /\ n - j = k
    BY <1>0
  <2> HIDE DEF j
  <2>2. j \in F
    BY <1>4, <2>1
  <2> QED BY <2>1, <2>2
<1>6. ASSUME NEW k \in 1..n PROVE Readable(line[k]) /\ h[k] = Reading(h[k - 1], line[k])
  <2>1. k \in 0..n /\ k - 1 \in 0..n
    BY <1>0
  <2>2. Sound(h[k - 1]) /\ h[k - 1].kind = "value" /\ h[k].kind = "value"
    BY <1>3, <1>5, <2>1
  <2> QED BY <1>1, <2>2, OneOption
<1> QED BY <1>3, <1>5, <1>6

\* Neighbours that do not set the same field, exchanged.
LEMMA NeighboursExchanged ==
  ASSUME NEW S, NEW line \in Seq(S), Known(line), NEW i \in 1..(Len(line) - 1),
         Field(line[i]) # Field(line[i + 1]), ParseArgs(line).kind = "value"
  PROVE  ParseArgs([line EXCEPT ![i] = line[i + 1], ![i + 1] = line[i]]) = ParseArgs(line)
<1> DEFINE n == Len(line)
           other == [line EXCEPT ![i] = line[i + 1], ![i + 1] = line[i]]
<1>0. n \in Nat /\ i \in 1..n /\ i + 1 \in 1..n /\ i \in Nat /\ line[i] \in S /\ line[i + 1] \in S
  BY LenProperties, ElementOfSeq
<1>1. /\ other \in Seq(S) /\ Len(other) = n
      /\ \A k \in 1..n : other[k] = IF k = i THEN line[i + 1] ELSE IF k = i + 1 THEN line[i] ELSE line[k]
  <2> DEFINE first == [line EXCEPT ![i] = line[i + 1]]
  <2>1. first \in Seq(S) /\ Len(first) = n /\ \A k \in 1..n : first[k] = IF k = i THEN line[i + 1] ELSE line[k]
    BY <1>0, ExceptSeq
  <2> DEFINE second == [first EXCEPT ![i + 1] = line[i]]
  <2> HIDE DEF first
  <2>2. /\ second \in Seq(S) /\ Len(second) = n
        /\ \A k \in 1..n : second[k] = IF k = i + 1 THEN line[i] ELSE first[k]
    <3>1. i + 1 \in 1..Len(first) /\ Len(first) = n
      BY <1>0, <2>1
    <3> HIDE DEF n
    <3> QED BY <1>0, <2>1, <3>1, ExceptSeq
  <2>3. other = second
    BY DEF first
  <2> HIDE DEF other, second
  <2> QED BY <1>0, <2>1, <2>2, <2>3
<1> HIDE DEF other
<1>2. PICK h : Readings(h, line) /\ ParseArgs(line) = Finish(h[n])
  BY ReadOptions
<1>3. PICK g : Readings(g, other) /\ ParseArgs(other) = Finish(g[n])
  BY <1>1, ReadOptions
<1>4. h[n].kind = "value"
  BY <1>2 DEF Finish
<1>5. \A k \in 0..n : h[k].kind = "value" /\ Sound(h[k])
  BY <1>2, <1>4, ReadingsFacts
<1>6. h[0] = NoOptions /\ \A k \in 1..n : h[k] = ParseOption(h[k - 1], line[k])
  BY <1>2 DEF Readings
<1>7. g[0] = NoOptions /\ \A k \in 1..n : g[k] = ParseOption(g[k - 1], other[k])
  BY <1>1, <1>3 DEF Readings
<1> DEFINE Same(k) == k \in 0..n /\ k # i => g[k] = h[k]
           E == {k \in Nat : Same(k)}
<1>8. ASSUME NEW k \in Nat, \A m \in Nat : m < k => m \in E PROVE Same(k)
  <2>1. CASE k = 0
    BY <1>6, <1>7, <2>1
  <2>2. CASE k = i + 1
    <3> DEFINE r == h[i - 1]
    <3>1. i - 1 \in Nat /\ i - 1 < k /\ i - 1 # i /\ i - 1 \in 0..n
      BY <1>0, <2>2
    <3>2. g[i - 1] = r
      BY <1>8, <3>1
    <3>3. g[i] = ParseOption(g[i - 1], line[i + 1]) /\ (i + 1) - 1 = i /\ i + 1 # i
      BY <1>0, <1>1, <1>7
    <3>4. g[i + 1] = ParseOption(g[i], line[i])
      BY <1>0, <1>1, <1>7, <3>3
    <3>5. h[i] = ParseOption(r, line[i])
      BY <1>0, <1>6
    <3>6. h[i + 1] = ParseOption(h[i], line[i + 1])
      BY <1>0, <1>6, <3>3
    <3>7. Sound(r) /\ h[i + 1].kind = "value"
      BY <1>0, <1>5, <3>1
    <3>8. line[i].opt \in Options /\ line[i + 1].opt \in Options
      BY <1>0 DEF Known
    <3> HIDE DEF r
    <3>9. ParseOption(ParseOption(r, line[i]), line[i + 1]) = ParseOption(ParseOption(r, line[i + 1]), line[i])
      BY <3>5, <3>6, <3>7, <3>8, OptionsCommute
    <3> QED BY <2>2, <3>2, <3>3, <3>4, <3>5, <3>6, <3>9
  <2>3. CASE k # 0 /\ k # i + 1 /\ k # i /\ k \in 0..n
    <3>1. k - 1 \in Nat /\ k - 1 < k /\ k - 1 # i /\ k - 1 \in 0..n /\ k \in 1..n
      BY <1>0, <2>3
    <3>2. g[k - 1] = h[k - 1]
      BY <1>8, <3>1
    <3>3. other[k] = line[k]
      BY <1>1, <2>3, <3>1
    <3> QED BY <1>6, <1>7, <3>1, <3>2, <3>3
  <2> QED BY <2>1, <2>2, <2>3
<1>9. E = Nat
  <2>1. \A k \in Nat : Same(k) => k \in E
    OBVIOUS
  <2>2. E \in SUBSET Nat
    OBVIOUS
  <2> HIDE DEF E, Same
  <2> QED BY <1>8, <2>1, <2>2, NumberInduction
<1>10. g[n] = h[n]
  <2>1. n \in E /\ n \in 0..n /\ n # i
    BY <1>0, <1>9
  <2> QED BY <2>1
<1> QED BY <1>2, <1>3, <1>10 DEF other

\* A field keeps its value while no option sets it.
LEMMA FieldKept ==
  ASSUME NEW S, NEW line \in Seq(S), Known(line), NEW h, Readings(h, line), h[Len(line)].kind = "value",
         NEW x \in DOMAIN Defaults, NEW i \in 0..Len(line),
         \A k \in (i + 1)..Len(line) : x \notin FieldsOf(line[k].opt)
  PROVE  h[Len(line)].value[x] = h[i].value[x]
<1> DEFINE n == Len(line)
           Kept(k) == k \in i..n => h[k].value[x] = h[i].value[x]
           E == {k \in Nat : Kept(k)}
<1>0. n \in Nat /\ i \in Nat
  BY LenProperties
<1>1. /\ \A k \in 0..n : h[k].kind = "value" /\ Sound(h[k])
      /\ \A k \in 1..n : Readable(line[k]) /\ h[k] = Reading(h[k - 1], line[k])
  BY ReadingsFacts
<1>2. ASSUME NEW k \in Nat, \A m \in Nat : m < k => m \in E PROVE Kept(k)
  <2>1. CASE k = i \/ k \notin i..n
    BY <2>1
  <2>2. CASE k # i /\ k \in i..n
    <3> DEFINE r == h[k - 1]
               o == line[k]
               c == Changes(r.value, o.opt, Convert(o.opt, o.raw).value)
    <3>1. k - 1 \in Nat /\ k - 1 < k /\ k - 1 \in i..n /\ k - 1 \in 0..n /\ k \in 1..n /\ k \in (i + 1)..n
      BY <1>0, <2>2
    <3>2. r.value[x] = h[i].value[x]
      BY <1>2, <3>1
    <3>3. h[k] = Reading(r, o)
      BY <1>1, <3>1
    <3>4. h[k].value = Values(r, o)
      BY <3>3 DEF Reading
    <3>5. DOMAIN r.value = DOMAIN Defaults
      BY <1>1, <3>1 DEF Sound
    <3>6. DOMAIN c = FieldsOf(o.opt)
      <4>1. o.opt \in Options
        BY <3>1 DEF Known
      <4> QED BY <4>1, ChangesFacts
    <3>7. x \notin FieldsOf(o.opt)
      BY <3>1
    <3> HIDE DEF r, o, c
    <3>8. With(r.value, c)[x] = r.value[x]
      BY <3>5, <3>6, <3>7, Elsewhere
    <3> QED BY <3>2, <3>4, <3>8 DEF Values, c
  <2> QED BY <2>1, <2>2
<1>3. E = Nat
  <2>1. \A k \in Nat : Kept(k) => k \in E
    OBVIOUS
  <2>2. E \in SUBSET Nat
    OBVIOUS
  <2> HIDE DEF E, Kept
  <2> QED BY <1>2, <2>1, <2>2, NumberInduction
<1>4. n \in E /\ n \in i..n
  BY <1>0, <1>3
<1> QED BY <1>4

\* No profile sets these fields.
LEMMA ProfileFields ==
  ASSUME NEW p \in DOMAIN PROFILES
  PROVE  DOMAIN PROFILES[p] \cap {"server", "port", "port_set", "lam_set"} = {}
BY DEF PROFILES

\* A profile leaves the address alone, and a rate given with --lambda.
LEMMA ProfileApplied ==
  ASSUME NEW a, DOMAIN a = DOMAIN Defaults, a.profile = None \/ a.profile \in DOMAIN PROFILES
  PROVE  /\ ApplyProfile(a).server = a.server /\ ApplyProfile(a).port = a.port
         /\ ApplyProfile(a).port_set = a.port_set
         /\ a.lam_set = TRUE => ApplyProfile(a).lam = a.lam
<1>1. CASE a.profile = None
  BY <1>1 DEF ApplyProfile
<1>2. CASE a.profile # None
  <2> DEFINE p == PROFILES[a.profile]
             w == [f \in DOMAIN p |-> IF f = "lam" /\ a.lam_set THEN a.lam ELSE p[f]]
  <2>1. ApplyProfile(a) = With(a, w)
    BY <1>2 DEF ApplyProfile
  <2>2. DOMAIN p \cap {"server", "port", "port_set", "lam_set"} = {}
    BY <1>2, ProfileFields
  <2> HIDE DEF p
  <2>3. DOMAIN w = DOMAIN p /\ ("lam" \in DOMAIN w /\ a.lam_set = TRUE => w["lam"] = a.lam)
    OBVIOUS
  <2> HIDE DEF w
  <2>4. {"server", "port", "port_set", "lam"} \subseteq DOMAIN a
    BY DEF Defaults
  <2> QED BY <2>1, <2>2, <2>3, <2>4 DEF With
<1> QED BY <1>1, <1>2

\* What a value of parse_args() has of the result of reading the options.
LEMMA FinishFacts ==
  ASSUME NEW r, Sound(r), Finish(r).kind = "value"
  PROVE  /\ r.kind = "value"
         /\ Finish(r).value.port = r.value.port /\ Finish(r).value.port_set = r.value.port_set
         /\ Finish(r).value.server = IF r.positionals = <<>> THEN r.value.server ELSE r.positionals[1]
         /\ r.value.lam_set = TRUE => Finish(r).value.lam = r.value.lam
<1> DEFINE v == r.value
           a == IF r.positionals = <<>> THEN v ELSE [v EXCEPT !.server = r.positionals[1]]
           unknown == a.profile # None /\ a.profile \notin DOMAIN PROFILES
<1>1. r.kind = "value"
  BY DEF Finish
<1>2. DOMAIN v = DOMAIN Defaults
  BY <1>1 DEF Sound
<1>3. Finish(r) = IF Len(r.positionals) > 1 \/ unknown \/ Conflict(a) THEN Usage ELSE Good(ApplyProfile(a))
  BY <1>1 DEF Finish
<1>4. Usage.kind # "value"
  BY DEF Usage
<1>5. Finish(r) = Good(ApplyProfile(a)) /\ ~unknown
  BY <1>3, <1>4
<1>6. Finish(r).value = ApplyProfile(a)
  BY <1>5 DEF Good
<1>7. {"server", "port", "port_set", "lam", "lam_set", "profile"} \subseteq DOMAIN v
  BY <1>2 DEF Defaults
<1>8. /\ DOMAIN a = DOMAIN Defaults /\ a.port = v.port /\ a.port_set = v.port_set
      /\ a.lam = v.lam /\ a.lam_set = v.lam_set
      /\ a.server = IF r.positionals = <<>> THEN v.server ELSE r.positionals[1]
  BY <1>2, <1>7
<1> HIDE DEF a, v
<1>9. a.profile = None \/ a.profile \in DOMAIN PROFILES
  BY <1>5
<1> QED BY ZenonT(60), <1>1, <1>6, <1>8, <1>9, ProfileApplied DEF v

\* A rate given with --lambda, and not again after it, is the rate of the run.
LEMMA LambdaWins ==
  ASSUME NEW S, NEW line \in Seq(S), Known(line), ParseArgs(line).kind = "value",
         NEW i \in 1..Len(line), line[i].opt = "lam", line[i].raw \in Int \cup {NotANumber, Missing},
         \A j \in 1..Len(line) : j > i => line[j].opt # "lam"
  PROVE  ParseArgs(line).value.lam = line[i].raw
<1> DEFINE n == Len(line)
           o == line[i]
<1>0. n \in Nat /\ i \in 0..n /\ i - 1 \in 0..n
  BY LenProperties
<1>1. PICK h : Readings(h, line) /\ ParseArgs(line) = Finish(h[n])
  BY ReadOptions
<1>2. h[n].kind = "value"
  BY <1>1 DEF Finish
<1>3. /\ \A k \in 0..n : h[k].kind = "value" /\ Sound(h[k])
      /\ \A k \in 1..n : Readable(line[k]) /\ h[k] = Reading(h[k - 1], line[k])
  BY <1>1, <1>2, ReadingsFacts
<1> DEFINE r == h[i - 1]
<1>4. Readable(o) /\ h[i] = Reading(r, o) /\ Sound(r) /\ r.kind = "value"
  BY <1>0, <1>3
<1>5. Convert(o.opt, o.raw) = Positive(o.raw, 1) /\ o.raw # Missing /\ Positive(o.raw, 1).kind = "value"
  BY <1>4 DEF Readable, Convert
<1>6. Positive(o.raw, 1) = Good(o.raw * 1) /\ o.raw # NotANumber
  BY <1>5 DEF Positive, Usage
<1>7. o.raw * 1 = o.raw
  <2>1. o.raw \in Int
    BY <1>5, <1>6
  <2> QED BY <2>1
<1>8. Convert(o.opt, o.raw).value = o.raw
  BY <1>5, <1>6, <1>7 DEF Good
<1> DEFINE c == Changes(r.value, "lam", o.raw)
<1>9. c = [lam |-> o.raw, lam_set |-> TRUE]
  BY DEF Changes, Flags
<1>10. DOMAIN r.value = DOMAIN Defaults
  BY <1>4 DEF Sound
<1>11. {"lam", "lam_set"} \subseteq DOMAIN r.value
  BY <1>10 DEF Defaults
<1>12. h[i].value = With(r.value, c)
  BY <1>4, <1>8 DEF Reading, Values
<1>13. DOMAIN c = {"lam", "lam_set"} /\ c["lam"] = o.raw /\ c["lam_set"] = TRUE
  BY <1>9
<1> HIDE DEF c, r, o
<1>14. h[i].value["lam"] = o.raw /\ h[i].value["lam_set"] = TRUE
  BY <1>11, <1>12, <1>13 DEF With
<1>15. ASSUME NEW k \in (i + 1)..n
       PROVE  "lam" \notin FieldsOf(line[k].opt) /\ "lam_set" \notin FieldsOf(line[k].opt)
  <2> DEFINE q == line[k].opt
  <2>1. q \in Options /\ q # "lam"
    BY <1>0 DEF Known
  <2>2. q \notin {"host_set", "port_set", "lam_set", "window_set"}
    BY <2>1, OptionNames
  <2> HIDE DEF q
  <2> QED BY <2>1, <2>2 DEF FieldsOf, q
<1>16. h[n].value["lam"] = h[i].value["lam"]
  <2>1. "lam" \in DOMAIN Defaults
    BY DEF Defaults
  <2> QED BY <1>0, <1>1, <1>2, <1>15, <2>1, FieldKept
<1>17. h[n].value["lam_set"] = h[i].value["lam_set"]
  <2>1. "lam_set" \in DOMAIN Defaults
    BY DEF Defaults
  <2> QED BY <1>0, <1>1, <1>2, <1>15, <2>1, FieldKept
<1>18. Sound(h[n])
  BY <1>0, <1>3
<1>19. Finish(h[n]).value.lam = h[n].value.lam
  BY <1>1, <1>14, <1>17, <1>18, FinishFacts
<1> QED BY <1>1, <1>14, <1>16, <1>19 DEF o

\* The texts given for SERVER.
Servers(line) == {line[k].raw : k \in {j \in 1..Len(line) : line[j].opt = "SERVER"}}

\* What the fields of the address are after some of the options.
PortKnown(r) == r.value.port_set = TRUE \/ r.value.port = DEFAULT_PORT

\* An option keeps this: either --port was given or the port is the default.
LEMMA PortRead ==
  ASSUME NEW r, Sound(r), r.kind = "value", PortKnown(r), NEW o, o.opt \in Options, Readable(o)
  PROVE  PortKnown(Reading(r, o))
<1> DEFINE d == Reading(r, o)
           c == Changes(r.value, o.opt, Convert(o.opt, o.raw).value)
<1>1. d.value = IF o.opt = "SERVER" THEN r.value ELSE With(r.value, c)
  BY DEF Reading, Values
<1>2. DOMAIN r.value = DOMAIN Defaults
  BY DEF Sound
<1>3. {"port", "port_set"} \subseteq DOMAIN r.value
  BY <1>2 DEF Defaults
<1>4. CASE o.opt = "SERVER"
  BY <1>1, <1>4 DEF PortKnown
<1>5. CASE o.opt = "port"
  <2>1. c = [port |-> Convert(o.opt, o.raw).value, port_set |-> TRUE]
    BY <1>5 DEF Changes, Flags
  <2>2. DOMAIN c = {"port", "port_set"} /\ c["port_set"] = TRUE
    BY <2>1
  <2> HIDE DEF c, d
  <2>3. d.value["port_set"] = TRUE
    BY <1>1, <1>3, <1>5, <2>2 DEF With
  <2> QED BY <2>3 DEF PortKnown, d
<1>6. CASE o.opt # "SERVER" /\ o.opt # "port"
  <2>1. DOMAIN c = FieldsOf(o.opt)
    BY ChangesFacts
  <2> DEFINE q == o.opt
  <2>2. q \in Options /\ q # "port" /\ q \notin {"host_set", "port_set", "lam_set", "window_set"}
    BY <1>6, OptionNames
  <2> HIDE DEF q
  <2>3. "port" \notin FieldsOf(q) /\ "port_set" \notin FieldsOf(q)
    BY <2>2 DEF FieldsOf
  <2>4. "port" \notin DOMAIN c /\ "port_set" \notin DOMAIN c
    BY <2>1, <2>3 DEF q
  <2> HIDE DEF c, d
  <2>5. d.value["port"] = r.value["port"] /\ d.value["port_set"] = r.value["port_set"]
    BY <1>1, <1>3, <1>6, <2>4, Elsewhere
  <2> QED BY <2>5 DEF PortKnown, d
<1> QED BY <1>4, <1>5, <1>6

\* The server and the port of a command line that can be read.
LEMMA AddressGiven ==
  ASSUME NEW S, NEW line \in Seq(S), Known(line), ParseArgs(line).kind = "value"
  PROVE  LET args == ParseArgs(line).value IN
         /\ args.server \in Servers(line) \cup {None}
         /\ args.port_set = TRUE \/ args.port = DEFAULT_PORT
<1> DEFINE n == Len(line)
           T == Servers(line)
<1>0. n \in Nat
  BY LenProperties
<1>1. PICK h : Readings(h, line) /\ ParseArgs(line) = Finish(h[n])
  BY ReadOptions
<1>2. h[n].kind = "value"
  BY <1>1 DEF Finish
<1>3. /\ \A k \in 0..n : h[k].kind = "value" /\ Sound(h[k])
      /\ \A k \in 1..n : Readable(line[k]) /\ h[k] = Reading(h[k - 1], line[k])
  BY <1>1, <1>2, ReadingsFacts
<1> DEFINE Given(k) == k \in 0..n => PortKnown(h[k]) /\ h[k].positionals \in Seq(T)
           E == {k \in Nat : Given(k)}
<1>4. ASSUME NEW k \in Nat, \A m \in Nat : m < k => m \in E PROVE Given(k)
  <2>1. CASE k = 0
    <3>1. h[0] = NoOptions
      BY <1>1 DEF Readings
    <3>2. <<>> \in Seq(T)
      BY EmptySeq
    <3>3. PortKnown(NoOptions)
      <4>1. NoOptions.value.port = Defaults.port /\ Defaults.port = DEFAULT_PORT
        BY DEF NoOptions, Defaults
      <4> QED BY <4>1 DEF PortKnown
    <3> QED BY <2>1, <3>1, <3>2, <3>3, NoOptionsFacts
  <2>2. CASE k # 0 /\ k \in 0..n
    <3> DEFINE r == h[k - 1]
               o == line[k]
    <3>1. k - 1 \in Nat /\ k - 1 < k /\ k - 1 \in 0..n /\ k \in 1..n
      BY <1>0, <2>2
    <3>2. PortKnown(r) /\ r.positionals \in Seq(T)
      BY <1>4, <3>1
    <3>3. h[k] = Reading(r, o) /\ Readable(o) /\ Sound(r) /\ r.kind = "value"
      BY <1>3, <3>1
    <3>4. o.opt \in Options /\ (o.opt = "SERVER" => o.raw \in T)
      BY <3>1 DEF Known, Servers
    <3> HIDE DEF r, o, T
    <3>5. PortKnown(h[k])
      BY <3>2, <3>3, <3>4, PortRead
    <3>6. h[k].positionals = Words(r, o)
      BY <3>3 DEF Reading
    <3>7. Words(r, o) \in Seq(T)
      BY <3>2, <3>4, AppendProperties DEF Words
    <3> QED BY <3>5, <3>6, <3>7
  <2>3. CASE k \notin 0..n
    BY <2>3
  <2> QED BY <2>1, <2>2, <2>3
<1>5. E = Nat
  <2>1. \A k \in Nat : Given(k) => k \in E
    OBVIOUS
  <2>2. E \in SUBSET Nat
    OBVIOUS
  <2> HIDE DEF E, Given
  <2> QED BY <1>4, <2>1, <2>2, NumberInduction
<1>6. PortKnown(h[n]) /\ h[n].positionals \in Seq(T) /\ Sound(h[n])
  <2>1. n \in E /\ n \in 0..n
    BY <1>0, <1>5
  <2> QED BY <1>3, <2>1
<1>7. h[n].value["server"] = None
  <2>1. "server" \in DOMAIN Defaults /\ Defaults["server"] = None
    BY DEF Defaults
  <2>2. ASSUME NEW k \in (0 + 1)..n PROVE "server" \notin FieldsOf(line[k].opt)
    <3> DEFINE q == line[k].opt
    <3>1. q \in Options
      BY <1>0 DEF Known
    <3>2. q # "server"
      BY <3>1, OptionNames
    <3> HIDE DEF q
    <3> QED BY <3>1, <3>2 DEF FieldsOf, q
  <2>3. 0 \in 0..n
    BY <1>0
  <2>4. h[n].value["server"] = h[0].value["server"]
    BY <1>1, <1>2, <2>1, <2>2, <2>3, FieldKept
  <2> QED BY <1>1, <2>1, <2>4, NoOptionsFacts DEF Readings
<1> DEFINE p == h[n].positionals
           args == Finish(h[n]).value
<1>8. /\ args.port = h[n].value.port /\ args.port_set = h[n].value.port_set
      /\ args.server = IF p = <<>> THEN h[n].value.server ELSE p[1]
  BY <1>1, <1>6, FinishFacts
<1>9. p # <<>> => p[1] \in T
  BY <1>6, HeadTailProperties
<1> HIDE DEF T
<1> QED BY <1>1, <1>6, <1>7, <1>8, <1>9 DEF PortKnown, T

\* What stands before the i-th symbol.
LEMMA SymbolsBefore ==
  ASSUME NEW S, NEW text \in Seq(S), NEW i \in 1..Len(text)
  PROVE  /\ SubSeq(text, 1, i - 1) \in Seq(S) /\ Len(SubSeq(text, 1, i - 1)) = i - 1
         /\ \A j \in 1..(i - 1) : SubSeq(text, 1, i - 1)[j] = text[j]
<1> DEFINE host == SubSeq(text, 1, i - 1)
<1>0. Len(text) \in Nat /\ i \in Nat /\ \A j \in 1..Len(text) : text[j] \in S
  BY LenProperties, ElementOfSeq
<1>1. 1 \in Int /\ i - 1 \in Int /\ \A j \in 1..(i - 1) : text[j] \in S
  BY <1>0
<1>2. /\ host \in Seq(S) /\ Len(host) = IF 1 <= i - 1 THEN (i - 1) - 1 + 1 ELSE 0
      /\ \A j \in 1..((i - 1) - 1 + 1) : host[j] = text[1 + j - 1]
  BY <1>1, SubSeqProperties
<1> HIDE DEF host
<1>3. host \in Seq(S) /\ Len(host) = i - 1 /\ \A j \in 1..(i - 1) : host[j] = text[j]
  BY <1>0, <1>2
<1> QED BY <1>3 DEF host

\* A port that can be read is the number written.
LEMMA PortFacts ==
  ASSUME NEW q, Port(q).kind = "value"
  PROVE  Port(q).value = q
<1>1. Port(q) = Good(q) \/ Port(q) = Usage
  <2>1. CASE q # NotANumber /\ 0 <= q /\ q <= MaxPort
    BY <2>1, Zenon DEF Port
  <2>2. CASE ~(q # NotANumber /\ 0 <= q /\ q <= MaxPort)
    BY <2>2, Zenon DEF Port
  <2> QED BY <2>1, <2>2
<1>2. Usage.kind # "value" /\ Good(q).value = q
  BY DEF Usage, Good
<1> QED BY <1>1, <1>2

\* The text is the host and the digits of the port after a colon.
LEMMA ColonSplit ==
  ASSUME NEW S, NEW text \in Seq(S), NEW i \in 1..Len(text), text[i] = ":",
         PortOf(After(text, i)).kind = "value"
  PROVE  \E d \in DOMAIN Digits :
           /\ Digits[d] = PortOf(After(text, i)).value /\ i + 1 = Len(text)
           /\ text = SubSeq(text, 1, i - 1) \o <<":", d>>
<1> DEFINE n == Len(text)
           rest == After(text, i)
           host == SubSeq(text, 1, i - 1)
           d == rest[1]
<1>0. n \in Nat /\ i \in Nat /\ \A j \in 1..n : text[j] \in S
  BY LenProperties, ElementOfSeq
<1>1. IsNumber(rest) /\ PortOf(rest) = Port(Digits[d])
  BY DEF PortOf, Usage
<1>2. PortOf(rest).value = Digits[d] /\ d \in DOMAIN Digits
  <2> DEFINE q == Digits[d]
  <2>1. d \in DOMAIN Digits
    BY <1>1 DEF IsNumber
  <2>2. Port(q).kind = "value" /\ PortOf(rest) = Port(q)
    BY <1>1
  <2> HIDE DEF q, d, rest
  <2>3. PortOf(rest).value = q
    BY <2>2, PortFacts
  <2> QED BY <2>1, <2>3 DEF q
<1>3. /\ rest \in Seq(S) /\ Len(rest) = IF i + 1 <= n THEN n - (i + 1) + 1 ELSE 0
      /\ \A j \in 1..(n - (i + 1) + 1) : rest[j] = text[(i + 1) + j - 1]
  <2>1. i + 1 \in Int /\ n \in Int /\ \A j \in (i + 1)..n : text[j] \in S
    BY <1>0
  <2> QED BY <2>1, SubSeqProperties DEF After
<1>4. Len(rest) = 1
  BY <1>1 DEF IsNumber
<1> HIDE DEF rest
<1>5. i + 1 = n
  <2>1. 1 = IF i + 1 <= n THEN n - (i + 1) + 1 ELSE 0
    BY <1>3, <1>4
  <2> HIDE DEF n
  <2> QED BY <1>0, <2>1
<1>6. d = text[n]
  BY <1>0, <1>3, <1>5
<1>7. host \in Seq(S) /\ Len(host) = i - 1 /\ \A j \in 1..(i - 1) : host[j] = text[j]
  BY SymbolsBefore
<1> HIDE DEF host, d
<1> DEFINE tail == <<":", d>>
<1>8. tail \in Seq(S) /\ Len(tail) = 2 /\ tail[1] = ":" /\ tail[2] = d
  BY <1>0, <1>5, <1>6
<1> HIDE DEF tail
<1>9. text = host \o tail
  <2>1. /\ host \o tail \in Seq(S) /\ Len(host \o tail) = n
        /\ \A j \in 1..n : (host \o tail)[j] = IF j <= i - 1 THEN text[j] ELSE tail[j - (i - 1)]
    <3>1. (i - 1) + 2 = n
      BY <1>0, <1>5
    <3>2. /\ host \o tail \in Seq(S) /\ Len(host \o tail) = Len(host) + Len(tail)
          /\ \A j \in 1..(Len(host) + Len(tail)) :
               (host \o tail)[j] = IF j <= Len(host) THEN host[j] ELSE tail[j - Len(host)]
      BY ZenonT(60), <1>7, <1>8, ConcatProperties
    <3>3. Len(host) + Len(tail) = n
      BY <1>7, <1>8, <3>1
    <3>4. \A j \in 1..n : (host \o tail)[j] = IF j <= i - 1 THEN host[j] ELSE tail[j - (i - 1)]
      BY <1>7, <3>2, <3>3
    <3>5. \A j \in 1..n : j <= i - 1 => j \in 1..(i - 1)
      BY <1>0
    <3> QED BY <1>7, <3>2, <3>3, <3>4, <3>5
  <2>2. ASSUME NEW j \in 1..n PROVE (host \o tail)[j] = text[j]
    <3>1. j <= i - 1 \/ j = i \/ j = i + 1
      BY <1>0, <1>5
    <3>2. CASE j <= i - 1
      BY <2>1, <3>2
    <3>3. CASE j = i
      <4>1. ~(j <= i - 1) /\ j - (i - 1) = 1
        BY <1>0, <3>3
      <4> QED BY <1>8, <2>1, <3>3, <4>1
    <3>4. CASE j = i + 1
      <4>1. ~(j <= i - 1) /\ j - (i - 1) = 2 /\ j = n
        BY <1>0, <1>5, <3>4
      <4> QED BY <1>6, <1>8, <2>1, <4>1
    <3> QED BY <3>1, <3>2, <3>3, <3>4
  <2> QED BY <2>1, <2>2, SeqEqual
<1> QED BY <1>2, <1>5, <1>9 DEF rest, tail, host

\* An address that can be read is written like that, with its port or with none.
ReadAs(text, default, host, port) ==
  LET bracketed == <<"[">> \o host \o <<"]">> IN
  \/ port = default /\ text \in {host, bracketed}
  \/ \E d \in DOMAIN Digits :
       /\ Digits[d] = port
       /\ text = bracketed \o <<":", d>> \/ (":" \notin ToSet(host) /\ text = host \o <<":", d>>)

\* The result of an address with a port.
LEMMA WithPortFacts ==
  ASSUME NEW host, NEW port, WithPort(host, port).kind = "value"
  PROVE  port.kind = "value" /\ WithPort(host, port) = Good(<<host, port.value>>)
BY DEF WithPort

\* A value, and its value.
LEMMA GoodFacts == ASSUME NEW v PROVE Good(v).kind = "value" /\ Good(v).value = v
BY DEF Good

\* Without brackets.
LEMMA PlainAddress ==
  ASSUME NEW S, NEW text \in Seq(S), text # <<>>, text[1] # "[", NEW default,
         ParseServer(text, default).kind = "value"
  PROVE  ReadAs(text, default, ParseServer(text, default).value[1], ParseServer(text, default).value[2])
<1> DEFINE n == Len(text)
           t == ParseServer(text, default)
           Colon(i) == Places(text, ":") = {i} /\ IsNumber(After(text, i))
<1>0. n \in Nat /\ DOMAIN text = 1..n
  BY LenProperties
<1>1. CASE ~\E i \in Places(text, ":") : Colon(i)
  <2>1. t = Good(<<text, default>>)
    BY <1>1 DEF ParseServer
  <2>2. t.value = <<text, default>>
    BY <2>1, GoodFacts
  <2> HIDE DEF t
  <2>3. t.value[1] = text /\ t.value[2] = default
    BY <2>2
  <2> QED BY <2>3 DEF ReadAs, t
<1>2. ASSUME NEW i \in Places(text, ":"), Colon(i) PROVE ReadAs(text, default, t.value[1], t.value[2])
  <2> DEFINE host == SubSeq(text, 1, i - 1)
             port == PortOf(After(text, i))
  <2>1. (CHOOSE k \in Places(text, ":") : TRUE) = i
    BY <1>2
  <2>2. t = WithPort(host, port)
    BY <1>2, <2>1 DEF ParseServer
  <2>3. port.kind = "value" /\ t = Good(<<host, port.value>>)
    BY <2>2, WithPortFacts
  <2>4. t.value = <<host, port.value>>
    BY <2>3, GoodFacts
  <2>5. i \in 1..n /\ text[i] = ":" /\ \A j \in 1..n : text[j] = ":" => j = i
    BY <1>0, <1>2 DEF Places
  <2>6. PICK d \in DOMAIN Digits : Digits[d] = port.value /\ i + 1 = n /\ text = host \o <<":", d>>
    BY <2>3, <2>5, ColonSplit
  <2>7. ":" \notin ToSet(host)
    <3>1. host \in Seq(S) /\ Len(host) = i - 1 /\ \A j \in 1..(i - 1) : host[j] = text[j]
      BY <2>5, SymbolsBefore
    <3>2. DOMAIN host = 1..(i - 1)
      BY <3>1, LenProperties
    <3> HIDE DEF host
    <3>3. ASSUME NEW j \in DOMAIN host PROVE host[j] # ":"
      <4>1. j \in 1..(i - 1) /\ j \in 1..n /\ j # i
        BY <1>0, <2>5, <3>2
      <4> QED BY <2>5, <3>1, <4>1
    <3> QED BY <3>3 DEF ToSet
  <2> HIDE DEF host, port, t
  <2>8. t.value[1] = host /\ t.value[2] = port.value
    BY <2>4
  <2> QED BY <2>6, <2>7, <2>8 DEF ReadAs
<1> QED BY <1>1, <1>2

\* A host in brackets, with what is in front of it in the text.
LEMMA SymbolsInside ==
  ASSUME NEW S, NEW text \in Seq(S), NEW i \in 1..Len(text), NEW host \in Seq(S),
         Len(host) = i - 2, \A j \in 1..(i - 2) : host[j] = text[j + 1],
         text[1] = "[", text[i] = "]"
  PROVE  /\ <<"[">> \o host \o <<"]">> \in Seq(S) /\ Len(<<"[">> \o host \o <<"]">>) = i
         /\ \A j \in 1..i : (<<"[">> \o host \o <<"]">>)[j] = text[j]
<1> DEFINE a == <<"[">>
           b == <<"]">>
           c == a \o host
           e == c \o b
<1>0. Len(text) \in Nat /\ i \in Nat /\ \A j \in 1..Len(text) : text[j] \in S
  BY LenProperties, ElementOfSeq
<1>1. a \in Seq(S) /\ Len(a) = 1 /\ a[1] = "["
  BY <1>0
<1>2. b \in Seq(S) /\ Len(b) = 1 /\ b[1] = "]"
  BY <1>0
<1>3. Len(host) \in Nat
  BY LenProperties
<1> HIDE DEF a, b
<1>4. /\ c \in Seq(S) /\ Len(c) = Len(a) + Len(host)
      /\ \A j \in 1..(Len(a) + Len(host)) : c[j] = IF j <= Len(a) THEN a[j] ELSE host[j - Len(a)]
  <2>1. a \in Seq(S) /\ host \in Seq(S)
    BY <1>1
  <2> QED BY ONLY <2>1, ConcatProperties DEF c
<1> HIDE DEF c
<1>5. /\ e \in Seq(S) /\ Len(e) = Len(c) + Len(b)
      /\ \A j \in 1..(Len(c) + Len(b)) : e[j] = IF j <= Len(c) THEN c[j] ELSE b[j - Len(c)]
  <2>1. c \in Seq(S) /\ b \in Seq(S)
    BY <1>2, <1>4
  <2> QED BY ONLY <2>1, ConcatProperties DEF e
<1> HIDE DEF e
<1>6. Len(c) = i - 1 /\ Len(c) + Len(b) = i /\ Len(a) + Len(host) = i - 1
  BY <1>0, <1>1, <1>2, <1>3, <1>4
<1>7. ASSUME NEW j \in 1..i PROVE e[j] = text[j]
  <2>1. e[j] = IF j <= i - 1 THEN c[j] ELSE b[j - (i - 1)]
    BY <1>5, <1>6
  <2>2. CASE j = i
    <3>1. ~(j <= i - 1) /\ j - (i - 1) = 1
      BY <1>0, <2>2
    <3> QED BY <1>2, <2>1, <2>2, <3>1
  <2>3. CASE j # i
    <3>1. j \in 1..(i - 1) /\ j <= i - 1
      BY <1>0, <2>3
    <3>2. c[j] = IF j <= 1 THEN a[j] ELSE host[j - 1]
      BY <1>1, <1>4, <1>6, <3>1
    <3>3. CASE j = 1
      BY <1>1, <2>1, <3>1, <3>2, <3>3
    <3>4. CASE j # 1
      <4>1. j - 1 \in 1..(i - 2) /\ (j - 1) + 1 = j /\ ~(j <= 1)
        BY <1>0, <3>1, <3>4
      <4>2. host[j - 1] = text[(j - 1) + 1]
        BY <4>1
      <4> QED BY <2>1, <3>1, <3>2, <4>1, <4>2
    <3> QED BY <3>3, <3>4
  <2> QED BY <2>2, <2>3
<1>8. e \in Seq(S) /\ Len(e) = i
  BY <1>5, <1>6
<1> QED BY <1>7, <1>8 DEF e, c, a, b

\* In brackets.
LEMMA BracketedAddress ==
  ASSUME NEW S, NEW text \in Seq(S), text # <<>>, text[1] = "[", NEW default,
         ParseServer(text, default).kind = "value"
  PROVE  ReadAs(text, default, ParseServer(text, default).value[1], ParseServer(text, default).value[2])
<1> DEFINE n == Len(text)
           t == ParseServer(text, default)
           places == Places(text, "]")
           end == CHOOSE i \in places : \A j \in places : i <= j
           host == SubSeq(text, 2, end - 1)
           bracketed == <<"[">> \o host \o <<"]">>
           port == PortOf(After(text, end + 1))
<1>0. n \in Nat /\ DOMAIN text = 1..n /\ n # 0
  BY LenProperties, EmptySeq
<1>1. Usage.kind # "value"
  BY DEF Usage
<1>2. places # {}
  BY <1>1 DEF ParseServer
<1>3. t = CASE end = n -> Good(<<host, default>>)
            [] end < n /\ text[end + 1] = ":" -> WithPort(host, port)
            [] OTHER -> Usage
  BY <1>2 DEF ParseServer
<1>4. end \in places
  <2>1. places \in SUBSET Nat
    BY <1>0 DEF Places
  <2>2. \E i \in places : \A j \in places : i <= j
    BY <1>2, <2>1, LeastNumber
  <2> HIDE DEF places
  <2> QED BY <2>2
<1>5. end \in 1..n /\ text[end] = "]"
  BY <1>0, <1>4 DEF Places
<1>6. end # 1
  BY <1>5
<1> HIDE DEF end, t
<1>7. host \in Seq(S) /\ Len(host) = end - 2 /\ \A j \in 1..(end - 2) : host[j] = text[j + 1]
  <2>1. 2 \in Int /\ end - 1 \in Int /\ \A j \in 2..(end - 1) : text[j] \in S
    BY <1>0, <1>5, ElementOfSeq
  <2>2. /\ host \in Seq(S) /\ Len(host) = IF 2 <= end - 1 THEN (end - 1) - 2 + 1 ELSE 0
        /\ \A j \in 1..((end - 1) - 2 + 1) : host[j] = text[2 + j - 1]
    BY <2>1, SubSeqProperties
  <2> HIDE DEF host
  <2>3. Len(host) = end - 2
    BY <1>0, <1>5, <1>6, <2>2
  <2>4. ASSUME NEW j \in 1..(end - 2) PROVE host[j] = text[j + 1]
    <3>1. j \in 1..((end - 1) - 2 + 1) /\ 2 + j - 1 = j + 1
      BY <1>0, <1>5
    <3> QED BY <2>2, <3>1
  <2> QED BY <2>2, <2>3, <2>4
<1> HIDE DEF host
<1>8. bracketed \in Seq(S) /\ Len(bracketed) = end /\ \A j \in 1..end : bracketed[j] = text[j]
  BY <1>5, <1>7, SymbolsInside
<1> HIDE DEF bracketed
<1>9. CASE end = n
  <2>1. t = Good(<<host, default>>)
    BY <1>3, <1>9
  <2>2. t.value[1] = host /\ t.value[2] = default
    BY <2>1, GoodFacts
  <2>3. text = bracketed
    BY <1>8, <1>9, SeqEqual
  <2> QED BY <2>2, <2>3 DEF ReadAs, t, bracketed
<1>10. CASE end # n /\ text[end + 1] = ":"
  <2>1. end < n /\ end + 1 \in 1..n
    <3> HIDE DEF n
    <3>1. end \in 1..n /\ n \in Nat /\ end # n
      BY <1>0, <1>5, <1>10
    <3> QED BY ONLY <3>1
  <2>2. t = WithPort(host, port)
    BY <1>3, <1>10, <2>1
  <2>3. port.kind = "value" /\ t = Good(<<host, port.value>>)
    BY <2>2, WithPortFacts DEF t
  <2>4. t.value[1] = host /\ t.value[2] = port.value
    BY <2>3, GoodFacts
  <2>5. PICK d \in DOMAIN Digits :
          /\ Digits[d] = port.value /\ (end + 1) + 1 = n
          /\ text = SubSeq(text, 1, (end + 1) - 1) \o <<":", d>>
    BY <1>10, <2>1, <2>3, ColonSplit
  <2>6. SubSeq(text, 1, (end + 1) - 1) = bracketed
    <3> DEFINE before == SubSeq(text, 1, (end + 1) - 1)
    <3>1. before \in Seq(S) /\ Len(before) = (end + 1) - 1 /\ \A j \in 1..((end + 1) - 1) : before[j] = text[j]
      BY <2>1, SymbolsBefore
    <3> HIDE DEF before
    <3>2. (end + 1) - 1 = end
      BY <1>0, <1>5
    <3>3. Len(before) = Len(bracketed) /\ \A j \in 1..Len(before) : before[j] = bracketed[j]
      BY <1>8, <3>1, <3>2
    <3> QED BY <1>8, <3>1, <3>3, SeqEqual DEF before
  <2> HIDE DEF port
  <2> QED BY <2>4, <2>5, <2>6 DEF ReadAs, t, bracketed
<1>11. CASE end # n /\ text[end + 1] # ":"
  BY <1>1, <1>3, <1>11 DEF t
<1> QED BY <1>9, <1>10, <1>11

\* With or without brackets.
LEMMA AddressRead ==
  ASSUME NEW S, NEW text \in Seq(S), text # <<>>, NEW default,
         ParseServer(text, default).kind = "value"
  PROVE  ReadAs(text, default, ParseServer(text, default).value[1], ParseServer(text, default).value[2])
BY PlainAddress, BracketedAddress

-----------------------------------------------------------------------------
(* What main() makes of the command line *)

\* Until a mode is chosen, what is known is what parse_args and parse_server
\* made of one of the command lines.
Understood ==
  /\ proc = "argv" => argv \in CommandLines
  /\ proc = "parsed" =>
       /\ argv \in CommandLines /\ parsed = ParseArgs(argv)
       /\ target = IF parsed.kind = "value" THEN Target(parsed.value) ELSE Usage

\* Only Parse makes anything of the command line.
LEMMA CommandLineStep ==
  ASSUME [MainNext]_allVars
  PROVE  Parse \/ proc' \notin {"argv", "parsed"} \/ UNCHANGED <<proc, argv, parsed, target>>
<1> USE DEF parseRest, mainVars
<1>1. CASE CommandLine
  BY <1>1 DEF CommandLine, ParseEnds, Dispatch, UsageExit, Exit
<1>2. CASE Main
  <2> USE DEF Go, Exit, peerRest
  <2>1. CASE Popen \/ PopenFails \/ Security \/ SecurityFails \/ PeerStart
    BY <2>1 DEF Popen, PopenFails, Security, SecurityFails, PeerStart
  <2>2. CASE Started \/ StartFailed \/ StartWebFails
    BY <2>2 DEF Started, StartFailed, StartWebFails
  <2>3. CASE StopPeer \/ Stopped \/ Report \/ ReportFails
    BY <2>3 DEF StopPeer, Stopped, Report, ReportFails
  <2> QED BY <1>2, <2>1, <2>2, <2>3 DEF Main
<1>3. CASE Serve \/ Output \/ Pump \/ PumpBroken \/ Signal
  BY <1>3 DEF Serve, Output, OutputBegins, OutputEnds, Pump, PumpBroken, Signal, Go, Exit, peerRest
<1>4. CASE Within(SessionNext) \/ Finished \/ UNCHANGED allVars
  BY <1>4 DEF Within, Finished, allVars
<1> QED BY <1>1, <1>2, <1>3, <1>4 DEF MainNext

\* The invariant.
LEMMA UnderstoodAlways == MainSpec => []Understood
<1>1. MainInit => Understood
  BY DEF MainInit, Understood
<1>2. Understood /\ [MainNext]_allVars => Understood'
  <2> SUFFICES ASSUME Understood, [MainNext]_allVars PROVE Understood'
    OBVIOUS
  <2>1. CASE Parse
    BY <2>1 DEF Parse, Go, Understood
  <2>2. CASE proc' \notin {"argv", "parsed"}
    BY <2>2 DEF Understood
  <2>3. CASE UNCHANGED <<proc, argv, parsed, target>>
    BY <2>3 DEF Understood
  <2> QED BY <2>1, <2>2, <2>3, CommandLineStep
<1> QED BY <1>1, <1>2, PTL DEF MainSpec

\* What is assumed of a command line.
LEMMA CommandLineFacts ==
  ASSUME NEW line \in CommandLines
  PROVE  /\ line \in Seq(ToSet(line)) /\ DOMAIN line = 1..Len(line) /\ Len(line) \in Nat /\ Known(line)
         /\ \A i \in 1..Len(line) : line[i].opt = "lam" => line[i].raw \in Int \cup {NotANumber, Missing}
         /\ \A text \in Servers(line) : text \in Seq(ToSet(text)) /\ text # <<>>
<1>1. line \in Seq(ToSet(line))
  BY CommandLinesAssumption
<1>2. DOMAIN line = 1..Len(line) /\ Len(line) \in Nat
  BY <1>1, LenProperties
<1>3. \A i \in 1..Len(line) :
        /\ line[i].opt \in Options
        /\ line[i].opt = "lam" => line[i].raw \in Int \cup {NotANumber, Missing}
        /\ line[i].opt = "SERVER" => line[i].raw \in Seq(ToSet(line[i].raw)) \ {<<>>}
  BY <1>2, CommandLinesAssumption
<1>4. ASSUME NEW text \in Servers(line) PROVE text \in Seq(ToSet(text)) /\ text # <<>>
  <2>1. PICK k \in 1..Len(line) : line[k].opt = "SERVER" /\ text = line[k].raw
    BY DEF Servers
  <2> QED BY <1>3, <2>1
<1> QED BY <1>1, <1>2, <1>3, <1>4 DEF Known

\* Options that set different fields may stand in any order, and --lambda is
\* the rate of the run, wherever a profile stands.
THEOREM OptionsMeanTheSame == MainSpec => []OptionsKeepMeaning
<1>1. Understood => OptionsKeepMeaning
  <2> SUFFICES ASSUME Understood, proc = "parsed", parsed.kind = "value"
               PROVE  /\ \A i \in 1..(Len(argv) - 1) :
                           Field(argv[i]) # Field(argv[i + 1]) =>
                             ParseArgs([argv EXCEPT ![i] = argv[i + 1], ![i + 1] = argv[i]]) = parsed
                      /\ \A i \in DOMAIN argv :
                           argv[i].opt = "lam" /\ (\A j \in DOMAIN argv : j > i => argv[j].opt # "lam") =>
                             parsed.value.lam = argv[i].raw
    BY DEF OptionsKeepMeaning
  <2>1. argv \in CommandLines /\ parsed = ParseArgs(argv)
    BY DEF Understood
  <2>2. /\ argv \in Seq(ToSet(argv)) /\ DOMAIN argv = 1..Len(argv) /\ Known(argv)
        /\ \A i \in 1..Len(argv) : argv[i].opt = "lam" => argv[i].raw \in Int \cup {NotANumber, Missing}
    BY <2>1, CommandLineFacts
  <2>3. ASSUME NEW i \in 1..(Len(argv) - 1), Field(argv[i]) # Field(argv[i + 1])
        PROVE  ParseArgs([argv EXCEPT ![i] = argv[i + 1], ![i + 1] = argv[i]]) = parsed
    BY <2>1, <2>2, <2>3, NeighboursExchanged
  <2>4. ASSUME NEW i \in DOMAIN argv, argv[i].opt = "lam", \A j \in DOMAIN argv : j > i => argv[j].opt # "lam"
        PROVE  parsed.value.lam = argv[i].raw
    BY <2>1, <2>2, <2>4, LambdaWins
  <2> QED BY <2>3, <2>4
<1> QED BY <1>1, UnderstoodAlways, PTL

\* The server that main() connects to.
LEMMA TargetFacts ==
  ASSUME NEW args, Target(args).kind = "value"
  PROVE  LET t == ParseServer(args.server, args.port) IN
         /\ args.server # None /\ t.kind = "value"
         /\ ~args.port_set => Target(args) = t
         /\ args.port_set => Target(args).value = <<t.value[1], args.port>>
<1> DEFINE t == ParseServer(args.server, args.port)
<1>1. Usage.kind # "value"
  BY DEF Usage
<1>2. args.server # None
  BY <1>1 DEF Target
<1>3. CASE t.kind = "value" /\ args.port_set
  <2>1. Target(args) = Good(<<t.value[1], args.port>>)
    BY <1>2, <1>3 DEF Target
  <2> QED BY <1>2, <1>3, <2>1, GoodFacts
<1>4. CASE ~(t.kind = "value" /\ args.port_set)
  <2>1. Target(args) = t
    BY <1>2, <1>4 DEF Target
  <2> QED BY <1>2, <1>4, <2>1
<1> QED BY <1>3, <1>4

\* The ways to write an address, as in the property.
LEMMA ReadAsWritten ==
  ASSUME NEW text, NEW default, NEW host, NEW port, ReadAs(text, default, host, port)
  PROVE  /\ port = default /\ default = DEFAULT_PORT => text \in Writings(host, port)
         /\ port # default => text \in Writings(host, port)
         /\ \E p \in {DEFAULT_PORT} \cup {Digits[d] : d \in DOMAIN Digits} : text \in Writings(host, p)
<1> DEFINE bracketed == <<"[">> \o host \o <<"]">>
           colon == ":" \in ToSet(host)
<1>1. ASSUME text \in {host, bracketed} PROVE text \in Writings(host, DEFAULT_PORT)
  BY <1>1 DEF Writings
<1>2. ASSUME NEW d \in DOMAIN Digits,
             text = bracketed \o <<":", d>> \/ (~colon /\ text = host \o <<":", d>>)
      PROVE  text \in Writings(host, Digits[d])
  <2> HIDE DEF colon
  <2> DEFINE digits == {e \in DOMAIN Digits : Digits[e] = Digits[d]}
  <2>1. d \in digits
    OBVIOUS
  <2>2. CASE text = bracketed \o <<":", d>>
    BY <2>1, <2>2 DEF Writings
  <2>3. CASE ~colon /\ text = host \o <<":", d>>
    BY <2>1, <2>3 DEF Writings, colon
  <2> QED BY <1>2, <2>2, <2>3
<1>3. \/ port = default /\ text \in {host, bracketed}
      \/ \E d \in DOMAIN Digits :
           /\ Digits[d] = port
           /\ text = bracketed \o <<":", d>> \/ (~colon /\ text = host \o <<":", d>>)
  BY DEF ReadAs
<1> HIDE DEF bracketed, colon
<1> QED BY <1>1, <1>2, <1>3

\* The host and port that main() connects to are those written in SERVER, but
\* for a port given with --port.
THEOREM AddressAsWritten == MainSpec => []TargetAsWritten
<1>1. Understood => TargetAsWritten
  <2> DEFINE args == parsed.value
             host == target.value[1]
             port == target.value[2]
  <2> SUFFICES ASSUME Understood, proc = "parsed", target.kind = "value"
               PROVE  IF args.port_set
                        THEN port = args.port /\ \E p \in {DEFAULT_PORT} \cup {Digits[d] : d \in DOMAIN Digits} :
                                                   args.server \in Writings(host, p)
                        ELSE args.server \in Writings(host, port)
    BY DEF TargetAsWritten
  <2> DEFINE t == ParseServer(args.server, args.port)
  <2>1. argv \in CommandLines /\ parsed = ParseArgs(argv)
    BY DEF Understood
  <2>2. Usage.kind # "value"
    BY DEF Usage
  <2>3. parsed.kind = "value" /\ target = Target(args)
    BY <2>2 DEF Understood
  <2>4. args.server # None /\ t.kind = "value"
        /\ (~args.port_set => target = t) /\ (args.port_set => target.value = <<t.value[1], args.port>>)
    BY <2>3, TargetFacts
  <2>5. args.server \in Servers(argv) /\ (args.port_set = TRUE \/ args.port = DEFAULT_PORT)
    <3>1. argv \in Seq(ToSet(argv)) /\ Known(argv)
      BY <2>1, CommandLineFacts
    <3>2. args.server \in Servers(argv) \cup {None} /\ (args.port_set = TRUE \/ args.port = DEFAULT_PORT)
      BY <2>1, <2>3, <3>1, AddressGiven
    <3> QED BY <2>4, <3>2
  <2>6. args.server \in Seq(ToSet(args.server)) /\ args.server # <<>>
    BY <2>1, <2>5, CommandLineFacts
  <2> DEFINE text == args.server
             default == args.port
  <2>7. ReadAs(text, default, t.value[1], t.value[2])
    BY <2>4, <2>6, AddressRead
  <2>8. CASE args.port_set
    <3>1. host = t.value[1] /\ port = args.port
      BY <2>4, <2>8
    <3> QED BY <2>7, <2>8, <3>1, ReadAsWritten
  <2>9. CASE ~args.port_set
    <3>1. host = t.value[1] /\ port = t.value[2] /\ default = DEFAULT_PORT
      BY <2>4, <2>5, <2>9
    <3> QED BY <2>7, <2>9, <3>1, ReadAsWritten
  <2> QED BY <2>8, <2>9
<1> QED BY <1>1, UnderstoodAlways, PTL
=============================================================================

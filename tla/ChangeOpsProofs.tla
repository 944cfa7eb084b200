--------------------------- MODULE ChangeOpsProofs ---------------------------
(***************************************************************************)
(* The operations read from the columns of a change are those that were    *)
(* written, whatever they are and however many.                            *)
(***************************************************************************)
EXTENDS EncodingProofs, FiniteSetTheorems

-----------------------------------------------------------------------------
(* Sums *)

IsSums(f, numbers) == f = [i \in 0..Len(numbers) |-> IF i = 0 THEN 0 ELSE f[i - 1] + numbers[i]]
SumsOf(numbers)    == CHOOSE f : IsSums(f, numbers)

\* The sums of the first numbers, each the one before and one number more.
LEMMA SumsFacts ==
    ASSUME NEW numbers \in Seq(Nat)
    PROVE  /\ SumOf(numbers) = SumsOf(numbers)[Len(numbers)]
           /\ SumsOf(numbers)[0] = 0
           /\ \A i \in 0..Len(numbers) : SumsOf(numbers)[i] \in Nat
           /\ \A i \in 1..Len(numbers) : SumsOf(numbers)[i] = SumsOf(numbers)[i - 1] + numbers[i]
<1> DEFINE n == Len(numbers)
           step == [p \in Nat \X Nat |-> IF p[1] \in 1..n THEN p[2] + numbers[p[1]] ELSE p[2]]
           d == SumsOf(numbers)
<1>1. n \in Nat /\ \A i \in 1..n : numbers[i] \in Nat
  OBVIOUS
<1>2. step \in [Nat \X Nat -> Nat]
  <2> SUFFICES ASSUME NEW p \in Nat \X Nat
               PROVE  (IF p[1] \in 1..n THEN p[2] + numbers[p[1]] ELSE p[2]) \in Nat
    BY Zenon
  <2>1. p[2] \in Nat
    OBVIOUS
  <2> QED
    BY <1>1, <2>1
<1>3. PICK f : States(Nat, 0, step, n, f)
  <2>1. 0 \in Nat
    OBVIOUS
  <2> HIDE DEF step, n
  <2> QED
    BY <1>1, <1>2, <2>1, LoopHasStates
<1>4. IsSums(f, numbers)
  <2>1. f \in [0..n -> Nat] /\ f[0] = 0 /\ \A i \in 1..n : f[i] = step[<<i, f[i - 1]>>]
    BY <1>3 DEF States
  <2> SUFFICES ASSUME NEW i \in 0..n
               PROVE  f[i] = IF i = 0 THEN 0 ELSE f[i - 1] + numbers[i]
    BY <2>1, Zenon DEF IsSums
  <2>2. CASE i # 0
    <3>1. i \in 1..n /\ i \in Nat /\ i - 1 \in 0..n
      BY <1>1, <2>2
    <3>2. f[i - 1] \in Nat
      BY <2>1, <3>1
    <3>3. step[<<i, f[i - 1]>>] = f[i - 1] + numbers[i]
      BY <3>1, <3>2
    <3> QED
      BY <2>1, <2>2, <3>1, <3>3
  <2> QED
    BY <2>1, <2>2
<1>5. IsSums(d, numbers)
  BY <1>4, Zenon DEF SumsOf
<1> HIDE DEF d
<1>6. \A i \in 0..n : d[i] = IF i = 0 THEN 0 ELSE d[i - 1] + numbers[i]
  BY <1>5, Zenon DEF IsSums
<1> DEFINE I == {i \in 0..n : d[i] \in Nat}
<1>7. 0 \in I
  BY <1>1, <1>6
<1>8. ASSUME NEW i \in 0..(n - 1), i \in I
      PROVE  i + 1 \in I
  <2>1. i + 1 \in 0..n /\ i + 1 # 0 /\ (i + 1) - 1 = i /\ i + 1 \in 1..n
    BY <1>1
  <2>2. d[i + 1] = d[i] + numbers[i + 1]
    BY <1>6, <2>1
  <2> QED
    BY <1>1, <1>8, <2>1, <2>2
<1> HIDE DEF I
<1>9. \A i \in 0..n : i \in I
  BY <1>1, <1>7, <1>8, Throughout
<1>10. \A i \in 0..n : d[i] \in Nat
  BY <1>9 DEF I
<1>11. d[0] = 0 /\ \A i \in 1..n : d[i] = d[i - 1] + numbers[i]
  BY <1>1, <1>6
<1>12. SumOf(numbers) = SumsOf(numbers)[Len(numbers)]
  BY DEF SumOf, SumsOf, IsSums
<1> QED
  BY <1>10, <1>11, <1>12 DEF d

\* Sums do not fall.
LEMMA SumsGrow ==
    ASSUME NEW numbers \in Seq(Nat), NEW j \in 0..Len(numbers)
    PROVE  \A i \in 0..j : SumsOf(numbers)[i] <= SumsOf(numbers)[j]
<1> DEFINE d == SumsOf(numbers)
           I == {m \in 0..j : d[j - m] <= d[j]}
<1>1. /\ \A i \in 0..Len(numbers) : d[i] \in Nat
      /\ \A i \in 1..Len(numbers) : d[i] = d[i - 1] + numbers[i]
  BY SumsFacts
<1> HIDE DEF d
<1>2. j \in Nat /\ Len(numbers) \in Nat
  OBVIOUS
<1>3. 0 \in I
  BY <1>1, <1>2
<1>4. ASSUME NEW m \in 0..(j - 1), m \in I
      PROVE  m + 1 \in I
  <2>1. j - m \in 1..Len(numbers) /\ m + 1 \in 0..j /\ (j - m) - 1 = j - (m + 1) /\ j - (m + 1) \in 0..Len(numbers)
    BY <1>2
  <2>2. d[j - m] = d[j - (m + 1)] + numbers[j - m] /\ numbers[j - m] \in Nat
    BY <1>1, <2>1
  <2>3. d[j - m] \in Nat /\ d[j - (m + 1)] \in Nat /\ d[j] \in Nat /\ d[j - m] <= d[j]
    <3>1. j - m \in 0..Len(numbers) /\ j \in 0..Len(numbers)
      BY <1>2, <2>1
    <3> QED
      BY <1>1, <1>4, <2>1, <3>1
  <2>4. d[j - (m + 1)] <= d[j]
    BY <2>2, <2>3
  <2> QED
    BY <2>1, <2>4
<1> HIDE DEF I
<1>5. \A m \in 0..j : m \in I
  BY <1>2, <1>3, <1>4, Throughout
<1> SUFFICES ASSUME NEW i \in 0..j
             PROVE  d[i] <= d[j]
  BY DEF d
<1>6. j - i \in 0..j /\ j - (j - i) = i
  BY <1>2
<1> QED
  BY <1>5, <1>6 DEF I

\* The first of the sums are the sums of the first numbers.
LEMMA SumOfFirst ==
    ASSUME NEW numbers \in Seq(Nat), NEW k \in 0..Len(numbers)
    PROVE  SumOf(SubSeq(numbers, 1, k)) = SumsOf(numbers)[k]
<1> DEFINE first == SubSeq(numbers, 1, k)
           c == SumsOf(first)
           d == SumsOf(numbers)
           I == {i \in 0..k : c[i] = d[i]}
<1>1. first \in Seq(Nat) /\ Len(first) = k /\ \A i \in 1..k : first[i] = numbers[i]
  OBVIOUS
<1> HIDE DEF first
<1>2. SumOf(first) = c[k] /\ c[0] = 0 /\ \A i \in 1..k : c[i] = c[i - 1] + first[i]
  BY <1>1, SumsFacts
<1>3. d[0] = 0 /\ \A i \in 1..Len(numbers) : d[i] = d[i - 1] + numbers[i]
  BY SumsFacts
<1> HIDE DEF c, d
<1>4. 0 \in I
  BY <1>2, <1>3
<1>5. ASSUME NEW i \in 0..(k - 1), i \in I
      PROVE  i + 1 \in I
  <2>1. i + 1 \in 1..k /\ i + 1 \in 1..Len(numbers) /\ (i + 1) - 1 = i /\ i + 1 \in 0..k
    OBVIOUS
  <2>2. c[i + 1] = c[i] + first[i + 1] /\ d[i + 1] = d[i] + numbers[i + 1] /\ first[i + 1] = numbers[i + 1]
    BY <1>1, <1>2, <1>3, <2>1
  <2> QED
    BY <1>5, <2>1, <2>2
<1> HIDE DEF I
<1>6. k \in Nat
  OBVIOUS
<1>7. \A i \in 0..k : i \in I
  BY <1>4, <1>5, <1>6, Throughout
<1>8. k \in I
  BY <1>6, <1>7
<1> QED
  BY <1>2, <1>8 DEF I, first, d

-----------------------------------------------------------------------------
(* Sequences joined *)

\* The sequences joined one after the other: what the first of them are joined to.
LEMMA Flats ==
    ASSUME NEW S, NEW ss \in Seq(Seq(S))
    PROVE  \E g \in [0..Len(ss) -> Seq(S)] :
               /\ g[0] = <<>> /\ \A i \in 1..Len(ss) : g[i] = g[i - 1] \o ss[i]
               /\ FlattenSeq(ss) = g[Len(ss)]
<1> DEFINE n == Len(ss)
           D == Seq(S)
           step == [p \in Nat \X D |-> IF p[1] \in 1..n THEN p[2] \o ss[p[1]] ELSE p[2]]
           IsFlat(f) == f = [i \in 1..n |-> IF i = 1 THEN ss[i] ELSE f[i - 1] \o ss[i]]
           h == CHOOSE f : IsFlat(f)
           g == [i \in 0..n |-> IF i = 0 THEN <<>> ELSE h[i]]
<1>1. n \in Nat /\ <<>> \in D /\ \A i \in 1..n : ss[i] \in D
  OBVIOUS
<1>2. \A x, y \in D : x \o y \in D
  BY ConcatProperties
<1>3. \A y \in D : <<>> \o y = y
  BY ConcatEmptySeq
<1> HIDE DEF D
<1>4. step \in [Nat \X D -> D]
  <2> SUFFICES ASSUME NEW p \in Nat \X D
               PROVE  (IF p[1] \in 1..n THEN p[2] \o ss[p[1]] ELSE p[2]) \in D
    BY Zenon
  <2>1. p[2] \in D
    OBVIOUS
  <2> HIDE DEF n
  <2> QED
    BY <1>1, <1>2, <2>1, Zenon
<1>5. PICK f : States(D, <<>>, step, n, f)
  <2> HIDE DEF step, n
  <2> QED
    BY <1>1, <1>4, LoopHasStates
<1>6. f \in [0..n -> D] /\ f[0] = <<>> /\ \A i \in 1..n : f[i] = step[<<i, f[i - 1]>>]
  BY <1>5 DEF States
<1>7. \A i \in 1..n : i \in 0..n /\ i - 1 \in 0..n /\ i \in Nat /\ (i = 1 => i - 1 = 0) /\ (i # 1 => i - 1 \in 1..n)
  BY <1>1
<1>8. \A i \in 1..n : f[i] = f[i - 1] \o ss[i]
  <2> TAKE i \in 1..n
  <2>1. f[i - 1] \in D /\ i \in Nat
    BY <1>6, <1>7
  <2>2. step[<<i, f[i - 1]>>] = f[i - 1] \o ss[i]
    <3>1. <<i, f[i - 1]>> \in Nat \X D
      BY <2>1
    <3> QED
      BY <3>1
  <2> QED
    BY <1>6, <2>2
<1>9. \E u : IsFlat(u)
  <2> DEFINE u == [i \in 1..n |-> f[i]]
  <2>1. \A i \in 1..n : u[i] = IF i = 1 THEN ss[i] ELSE u[i - 1] \o ss[i]
    <3> TAKE i \in 1..n
    <3>1. CASE i = 1
      <4>1. f[i] = f[i - 1] \o ss[i] /\ ss[i] \in D
        BY <1>1, <1>8
      <4>3. f[i - 1] = <<>>
        BY <1>6, <1>7, <3>1
      <4>2. f[i] = ss[i]
        BY <1>3, <4>1, <4>3
      <4> QED
        BY <3>1, <4>2
    <3>2. CASE i # 1
      BY <1>7, <1>8, <3>2
    <3> QED
      BY <3>1, <3>2
  <2>2. u = [i \in 1..n |-> IF i = 1 THEN ss[i] ELSE u[i - 1] \o ss[i]]
    <3>1. u = [i \in 1..n |-> u[i]]
      OBVIOUS
    <3> HIDE DEF u
    <3> QED
      BY <2>1, <3>1, Zenon
  <2> HIDE DEF u
  <2> QED
    BY <2>2
<1>10. IsFlat(h)
  BY <1>9, Zenon
<1> HIDE DEF h
<1>11. \A i \in 1..n : h[i] = IF i = 1 THEN ss[i] ELSE h[i - 1] \o ss[i]
  BY <1>10, Zenon
<1>12. g[0] = <<>> /\ \A i \in 1..n : g[i] = h[i]
  BY <1>1
<1>13. \A i \in 1..n : g[i] = g[i - 1] \o ss[i]
  <2> TAKE i \in 1..n
  <2>1. CASE i = 1
    <3>1. g[i] = ss[i] /\ g[i - 1] = <<>> /\ <<>> \o ss[i] = ss[i]
      BY <1>1, <1>3, <1>7, <1>11, <1>12, <2>1
    <3> QED
      BY <3>1
  <2>2. CASE i # 1
    <3>1. g[i - 1] = h[i - 1] /\ g[i] = h[i] /\ h[i] = h[i - 1] \o ss[i]
      BY <1>7, <1>11, <1>12, <2>2
    <3> QED
      BY <3>1
  <2> QED
    BY <2>1, <2>2
<1>14. DOMAIN g = 0..n /\ g = [i \in 0..n |-> g[i]]
  OBVIOUS
<1>15. FlattenSeq(ss) = g[n]
  <2>1. CASE n = 0
    <3>1. ss = <<>>
      BY <2>1
    <3> QED
      BY <1>12, <2>1, <3>1 DEF FlattenSeq
  <2>2. CASE n # 0
    <3>1. FlattenSeq(ss) = h[n]
      BY <2>2 DEF FlattenSeq, h
    <3>2. n \in 1..n
      BY <1>1, <2>2
    <3> QED
      BY <1>12, <3>1, <3>2
  <2> QED
    BY <2>1, <2>2
<1> HIDE DEF g
<1> DEFINE I == {i \in 0..n : g[i] \in D}
<1>16. 0 \in I
  BY <1>1, <1>12
<1>17. ASSUME NEW i \in 0..(n - 1), i \in I
       PROVE  i + 1 \in I
  <2>1. i + 1 \in 1..n /\ i + 1 \in 0..n /\ (i + 1) - 1 = i
    BY <1>1
  <2>2. g[i + 1] = g[i] \o ss[i + 1] /\ g[i] \in D
    BY <1>13, <1>17, <2>1
  <2>3. g[i + 1] \in D
    BY <1>1, <1>2, <2>1, <2>2
  <2> QED
    BY <2>1, <2>3
<1> HIDE DEF I
<1>18. \A i \in 0..n : i \in I
  BY <1>1, <1>16, <1>17, Throughout
<1>19. g \in [0..n -> D]
  <2>1. \A i \in 0..n : g[i] \in D
    BY <1>18 DEF I
  <2> HIDE DEF n
  <2> QED
    BY <1>14, <2>1, Zenon
<1> QED
  BY <1>12, <1>13, <1>15, <1>19 DEF D

Lens(ss) == [i \in DOMAIN ss |-> Len(ss[i])]
\* Where each sequence begins among those that are joined: after this many elements.
Before(ss, i) == SumsOf(Lens(ss))[i - 1]

\* The lengths of sequences.
LEMMA LensAre ==
    ASSUME NEW S, NEW ss \in Seq(Seq(S))
    PROVE  Lens(ss) \in Seq(Nat) /\ Len(Lens(ss)) = Len(ss) /\ \A i \in 1..Len(ss) : Lens(ss)[i] = Len(ss[i])
<1>1. \A i \in 1..Len(ss) : Len(ss[i]) \in Nat
  <2> TAKE i \in 1..Len(ss)
  <2>1. ss[i] \in Seq(S)
    OBVIOUS
  <2> QED
    BY <2>1
<1>2. DOMAIN ss = 1..Len(ss) /\ Len(ss) \in Nat
  OBVIOUS
<1> QED
  BY <1>1, <1>2 DEF Lens

\* Sequences that are joined are found where those before them end.
LEMMA FlattenFacts ==
    ASSUME NEW S, NEW ss \in Seq(Seq(S))
    PROVE  /\ FlattenSeq(ss) \in Seq(S) /\ Len(FlattenSeq(ss)) = SumOf(Lens(ss))
           /\ \A i \in 1..Len(ss) :
                  /\ Before(ss, i) \in Nat /\ Len(ss[i]) \in Nat /\ Before(ss, i) + Len(ss[i]) <= Len(FlattenSeq(ss))
                  /\ \A k \in 1..Len(ss[i]) : FlattenSeq(ss)[Before(ss, i) + k] = ss[i][k]
<1> DEFINE n == Len(ss)
           b == SumsOf(Lens(ss))
<1>1. n \in Nat /\ \A i \in 1..n : ss[i] \in Seq(S) /\ Len(ss[i]) \in Nat
  <2>1. n \in Nat /\ \A i \in 1..n : ss[i] \in Seq(S)
    OBVIOUS
  <2> QED
    BY <2>1
<1>2. PICK g \in [0..n -> Seq(S)] :
          /\ g[0] = <<>> /\ \A i \in 1..n : g[i] = g[i - 1] \o ss[i]
          /\ FlattenSeq(ss) = g[n]
  BY Flats
<1>3. Lens(ss) \in Seq(Nat) /\ Len(Lens(ss)) = n /\ \A i \in 1..n : Lens(ss)[i] = Len(ss[i])
  BY LensAre
<1>4. /\ SumOf(Lens(ss)) = b[n] /\ b[0] = 0
      /\ \A i \in 0..n : b[i] \in Nat
      /\ \A i \in 1..n : b[i] = b[i - 1] + Len(ss[i])
  <2>1. /\ SumOf(Lens(ss)) = b[Len(Lens(ss))] /\ b[0] = 0
        /\ \A i \in 0..Len(Lens(ss)) : b[i] \in Nat
        /\ \A i \in 1..Len(Lens(ss)) : b[i] = b[i - 1] + Lens(ss)[i]
    BY <1>3, SumsFacts
  <2> HIDE DEF b, n
  <2> QED
    BY <1>3, <2>1
<1> HIDE DEF b
<1> DEFINE Found(m) == \A i \in 1..m : b[i - 1] + Len(ss[i]) <= b[m]
                                       /\ \A k \in 1..Len(ss[i]) : g[m][b[i - 1] + k] = ss[i][k]
           I == {m \in 0..n : Len(g[m]) = b[m] /\ Found(m)}
<1>5. 0 \in I
  BY <1>1, <1>2, <1>4
<1>6. ASSUME NEW m \in 0..(n - 1), m \in I
      PROVE  m + 1 \in I
  <2>1. m + 1 \in 1..n /\ m + 1 \in 0..n /\ (m + 1) - 1 = m /\ m \in Nat /\ m \in 0..n
    BY <1>1
  <2> DEFINE x == g[m]
             y == ss[m + 1]
             z == g[m + 1]
  <2>2. x \in Seq(S) /\ y \in Seq(S) /\ z = x \o y /\ Len(x) = b[m] /\ Len(y) \in Nat /\ Len(x) \in Nat
    <3>1. x \in Seq(S) /\ y \in Seq(S) /\ z \in Seq(S)
      BY <1>1, <1>2, <2>1
    <3>2. z = x \o y
      BY <1>2, <2>1
    <3>3. Len(x) = b[m]
      BY <1>6
    <3> HIDE DEF x, y, z
    <3> QED
      BY <3>1, <3>2, <3>3
  <2> HIDE DEF x, y, z
  <2>3. b[m + 1] = b[m] + Len(y) /\ b[m] \in Nat /\ b[m + 1] \in Nat
    BY <1>4, <2>1 DEF y
  <2>4. /\ Len(z) = Len(x) + Len(y)
        /\ \A k \in 1..(Len(x) + Len(y)) : z[k] = IF k <= Len(x) THEN x[k] ELSE y[k - Len(x)]
    BY <2>2, ConcatProperties
  <2>5. \A i \in 1..m : b[i - 1] + Len(ss[i]) <= b[m] /\ \A k \in 1..Len(ss[i]) : x[b[i - 1] + k] = ss[i][k]
    BY <1>6 DEF x
  <2>6. ASSUME NEW i \in 1..(m + 1)
        PROVE  b[i - 1] + Len(ss[i]) <= b[m + 1] /\ \A k \in 1..Len(ss[i]) : z[b[i - 1] + k] = ss[i][k]
    <3>1. i - 1 \in 0..n /\ i \in 1..n
      BY <1>1, <2>1
    <3>2. b[i - 1] \in Nat /\ Len(ss[i]) \in Nat
      BY <1>1, <1>4, <3>1
    <3>3. CASE i \in 1..m
      <4>1. b[i - 1] + Len(ss[i]) <= b[m]
        BY <2>5, <3>3
      <4>2. ASSUME NEW k \in 1..Len(ss[i])
            PROVE  z[b[i - 1] + k] = ss[i][k]
        <5>1. b[i - 1] + k \in 1..(Len(x) + Len(y)) /\ b[i - 1] + k <= Len(x)
          <6>1. k \in Nat /\ k >= 1 /\ k <= Len(ss[i])
            BY <3>2
          <6>2. \A p, l, u, v \in Nat : p + l <= u /\ k <= l => p + k \in 1..(u + v) /\ p + k <= u
            BY <6>1
          <6> QED
            BY <2>2, <2>3, <3>2, <4>1, <6>1, <6>2, Zenon
        <5> QED
          BY <2>4, <2>5, <3>3, <5>1
      <4>3. b[i - 1] + Len(ss[i]) <= b[m + 1]
        <5>1. \A p, l, u, v \in Nat : p + l <= u => p + l <= u + v
          OBVIOUS
        <5> QED
          BY <2>2, <2>3, <3>2, <4>1, <5>1, Zenon
      <4> QED
        BY <4>2, <4>3
    <3>4. CASE i = m + 1
      <4>1. i - 1 = m /\ ss[i] = y
        BY <2>1, <3>4 DEF y
      <4>2. ASSUME NEW k \in 1..Len(y)
            PROVE  z[b[m] + k] = y[k]
        <5>1. b[m] + k \in 1..(Len(x) + Len(y)) /\ ~(b[m] + k <= Len(x)) /\ (b[m] + k) - Len(x) = k
          <6>1. k \in Nat /\ k >= 1 /\ k <= Len(y)
            BY <2>3
          <6>2. b[m] = Len(x) /\ Len(x) \in Nat /\ Len(y) \in Nat
            BY <2>2, <2>3
          <6>3. \A l, u \in Nat : k <= u => l + k \in 1..(l + u) /\ ~(l + k <= l) /\ (l + k) - l = k
            BY <6>1
          <6> QED
            BY <6>1, <6>2, <6>3, Zenon
        <5> QED
          BY <2>4, <5>1
      <4>3. b[m] + Len(y) <= b[m + 1]
        BY <2>2, <2>3
      <4> QED
        BY <4>1, <4>2, <4>3
    <3> QED
      BY <2>1, <3>3, <3>4
  <2>7. Len(z) = b[m + 1]
    BY <2>2, <2>3, <2>4
  <2> QED
    BY <2>1, <2>6, <2>7 DEF z
<1> HIDE DEF I
<1>7. n \in I
  <2>1. \A m \in 0..n : m \in I
    BY <1>1, <1>5, <1>6, Throughout
  <2> QED
    BY <1>1, <2>1
<1>8. Len(FlattenSeq(ss)) = b[n] /\ FlattenSeq(ss) \in Seq(S)
  <2>1. n \in 0..n
    BY <1>1
  <2> QED
    BY <1>2, <1>7, <2>1 DEF I
<1>9. ASSUME NEW i \in 1..n
      PROVE  /\ b[i - 1] + Len(ss[i]) <= b[n] /\ b[i - 1] \in Nat
             /\ \A k \in 1..Len(ss[i]) : FlattenSeq(ss)[b[i - 1] + k] = ss[i][k]
  <2>1. i - 1 \in 0..n
    BY <1>1
  <2> QED
    BY <1>2, <1>4, <1>7, <2>1 DEF I
<1> QED
  BY <1>1, <1>4, <1>8, <1>9 DEF Before, b

\* A sequence over a set is one over a larger set.
LEMMA SeqWithin ==
    ASSUME NEW S, NEW T, S \subseteq T, NEW s \in Seq(S)
    PROVE  s \in Seq(T)
<1>1. s = [i \in 1..Len(s) |-> s[i]] /\ Len(s) \in Nat /\ \A i \in 1..Len(s) : s[i] \in T
  OBVIOUS
<1>2. [i \in 1..Len(s) |-> s[i]] \in [1..Len(s) -> T]
  BY <1>1
<1> QED
  BY <1>1, <1>2

\* A part of a sequence, from what stands there.
LEMMA PartIs ==
    ASSUME NEW S, NEW s \in Seq(S), NEW part \in Seq(S), NEW at \in Nat, at + Len(part) <= Len(s),
           \A k \in 1..Len(part) : s[at + k] = part[k]
    PROVE  SubSeq(s, at + 1, at + Len(part)) = part
<1> DEFINE n == Len(part)
<1>1. n \in Nat /\ Len(s) \in Nat /\ part = [k \in 1..n |-> part[k]] /\ s \in Seq(S)
  OBVIOUS
<1>2. SubSeq(s, at + 1, at + n) = [k \in 1..n |-> s[at + k]]
  <2>1. (at + n) - (at + 1) + 1 = n /\ \A k \in 1..n : k + (at + 1) - 1 = at + k
    BY <1>1
  <2> HIDE DEF n
  <2> QED
    BY <1>1, <2>1
<1>3. \A k \in 1..n : s[at + k] = part[k]
  OBVIOUS
<1> HIDE DEF n
<1> QED
  BY <1>1, <1>2, <1>3 DEF n

\* Each of the sequences that are joined is got back by the lengths of all.
LEMMA PartOfJoined ==
    ASSUME NEW S, NEW ss \in Seq(Seq(S)), NEW i \in 1..Len(ss)
    PROVE  Part(FlattenSeq(ss), Lens(ss), i) = ss[i]
<1> DEFINE all == FlattenSeq(ss)
           b == Before(ss, i)
<1>1. /\ all \in Seq(S) /\ b \in Nat /\ b + Len(ss[i]) <= Len(all)
      /\ \A k \in 1..Len(ss[i]) : all[b + k] = ss[i][k]
  BY FlattenFacts
<1>2. ss[i] \in Seq(S) /\ i - 1 \in 0..Len(ss)
  OBVIOUS
<1>3. Lens(ss) \in Seq(Nat) /\ Len(Lens(ss)) = Len(ss) /\ Lens(ss)[i] = Len(ss[i])
  BY LensAre
<1>4. SumOf(SubSeq(Lens(ss), 1, i - 1)) = b
  BY <1>2, <1>3, SumOfFirst DEF Before
<1> HIDE DEF all, b
<1>5. SubSeq(all, b + 1, b + Len(ss[i])) = ss[i]
  BY <1>1, <1>2, PartIs
<1> QED
  BY <1>3, <1>4, <1>5 DEF Part, PartAt, all

-----------------------------------------------------------------------------
(* Sorting *)

\* There is a place for an element: before the first that is greater.
LEMMA PlaceIs ==
    ASSUME NEW S, NEW s \in Seq(S), NEW x, NEW order
    PROVE  /\ PlaceOf(x, s, order) \in 0..Len(s)
           /\ \A i \in 1..PlaceOf(x, s, order) : <<x, s[i]>> \notin order
           /\ PlaceOf(x, s, order) < Len(s) => <<x, s[PlaceOf(x, s, order) + 1]>> \in order
<1> DEFINE I == {n \in 0..Len(s) : n < Len(s) => <<x, s[n + 1]>> \in order}
<1>1. Len(s) \in Nat
  OBVIOUS
<1>2. I \subseteq Nat /\ Len(s) \in I
  BY <1>1
<1>3. PICK n \in I : \A m \in I : n <= m
  <2> HIDE DEF I
  <2> QED
    BY <1>2, LeastNat
<1>4. n \in 0..Len(s) /\ (n < Len(s) => <<x, s[n + 1]>> \in order)
  BY <1>3
<1>5. ASSUME NEW i \in 1..n, <<x, s[i]>> \in order
      PROVE  FALSE
  <2>1. i - 1 \in 0..Len(s) /\ (i - 1) + 1 = i /\ i - 1 < n
    BY <1>1, <1>4
  <2>2. i - 1 \in I
    BY <1>5, <2>1
  <2>3. n <= i - 1 /\ n \in Nat /\ i \in Nat
    <3>1. n \in Nat
      BY <1>1, <1>4
    <3> HIDE DEF I
    <3> QED
      BY <1>3, <2>2, <3>1
  <2> QED
    BY <2>1, <2>3
<1> QED
  BY <1>4, <1>5 DEF PlaceOf

\* An element inserted stands at its place; those before it and behind it are as they were.
LEMMA InsertedIs ==
    ASSUME NEW S, NEW s \in Seq(S), NEW x \in S, NEW order
    PROVE  /\ Inserted(x, s, order) \in Seq(S) /\ Len(Inserted(x, s, order)) = Len(s) + 1
           /\ \A i \in 1..(Len(s) + 1) :
                  Inserted(x, s, order)[i] = IF i <= PlaceOf(x, s, order) THEN s[i]
                                             ELSE IF i = PlaceOf(x, s, order) + 1 THEN x ELSE s[i - 1]
<1> DEFINE n == PlaceOf(x, s, order)
           l == Len(s)
           a == SubSeq(s, 1, n)
           c == SubSeq(s, n + 1, l)
           t == (a \o <<x>>) \o c
<1>1. n \in 0..l /\ l \in Nat
  <2>1. n \in 0..Len(s)
    BY PlaceIs
  <2> QED
    BY <2>1
<1> HIDE DEF n
<1>2. a \in Seq(S) /\ Len(a) = n /\ \A i \in 1..n : a[i] = s[i]
  BY <1>1
<1>3. c \in Seq(S) /\ Len(c) = l - n /\ \A i \in 1..(l - n) : c[i] = s[n + i]
  BY <1>1
<1> HIDE DEF a, c
<1>4. /\ a \o <<x>> \in Seq(S) /\ Len(a \o <<x>>) = n + 1
      /\ \A i \in 1..(n + 1) : (a \o <<x>>)[i] = IF i <= n THEN a[i] ELSE x
  BY <1>1, <1>2
<1> DEFINE ax == a \o <<x>>
<1> HIDE DEF ax
<1>5. /\ ax \o c \in Seq(S) /\ Len(ax \o c) = l + 1
      /\ \A i \in 1..(l + 1) : (ax \o c)[i] = IF i <= n + 1 THEN ax[i] ELSE c[i - (n + 1)]
  <2>1. ax \in Seq(S) /\ Len(ax) = n + 1 /\ (n + 1) + (l - n) = l + 1
    BY <1>1, <1>4 DEF ax
  <2> QED
    BY <1>3, <2>1, ConcatProperties
<1>6. ASSUME NEW i \in 1..(l + 1)
      PROVE  (ax \o c)[i] = IF i <= n THEN s[i] ELSE IF i = n + 1 THEN x ELSE s[i - 1]
  <2>1. CASE i <= n
    <3>1. i \in 1..n /\ i \in 1..(n + 1) /\ i <= n + 1
      BY <1>1, <2>1
    <3> QED
      BY <1>2, <1>4, <1>5, <2>1, <3>1 DEF ax
  <2>2. CASE i = n + 1
    <3>1. i \in 1..(n + 1) /\ i <= n + 1 /\ ~(i <= n)
      BY <1>1, <2>2
    <3> QED
      BY <1>4, <1>5, <2>2, <3>1 DEF ax
  <2>3. CASE i > n + 1
    <3>1. ~(i <= n + 1) /\ ~(i <= n) /\ i # n + 1 /\ i - (n + 1) \in 1..(l - n) /\ n + (i - (n + 1)) = i - 1
      BY <1>1, <2>3
    <3> QED
      BY <1>3, <1>5, <3>1
  <2>4. i <= n \/ i = n + 1 \/ i > n + 1
    BY <1>1
  <2> QED
    BY <2>1, <2>2, <2>3, <2>4
<1>7. Inserted(x, s, order) = ax \o c
  <2>1. (n + 1) - 1 = n
    BY <1>1
  <2> QED
    BY <2>1 DEF Inserted, InsertAt, ax, a, c, n
<1> HIDE DEF l
<1> QED
  BY <1>5, <1>6, <1>7 DEF n, l

\* The loop of sorting: each element is inserted among those before it.
LEMMA SortLoop ==
    ASSUME NEW S, NEW s \in Seq(S), NEW order
    PROVE  \E g \in [0..Len(s) -> Seq(S)] :
               /\ g[0] = <<>> /\ \A i \in 1..Len(s) : g[i] = Inserted(s[i], g[i - 1], order)
               /\ SortedSeq(s, order) = g[Len(s)]
<1> DEFINE n == Len(s)
           D == Seq(S)
           step == [p \in Nat \X D |-> IF p[1] \in 1..n THEN Inserted(s[p[1]], p[2], order) ELSE p[2]]
           SortsFrom(f) == f = [i \in 0..n |-> IF i = 0 THEN <<>> ELSE Inserted(s[i], f[i - 1], order)]
           h == CHOOSE f : SortsFrom(f)
<1>1. n \in Nat /\ <<>> \in D /\ \A i \in 1..n : s[i] \in S
  OBVIOUS
<1>2. \A y \in D, x \in S : Inserted(x, y, order) \in D
  BY InsertedIs
<1> HIDE DEF D
<1>3. step \in [Nat \X D -> D]
  <2> SUFFICES ASSUME NEW p \in Nat \X D
               PROVE  (IF p[1] \in 1..n THEN Inserted(s[p[1]], p[2], order) ELSE p[2]) \in D
    BY Zenon
  <2>1. p[2] \in D
    OBVIOUS
  <2> HIDE DEF n
  <2> QED
    BY <1>1, <1>2, <2>1, Zenon
<1>4. PICK f : States(D, <<>>, step, n, f)
  <2> HIDE DEF step, n
  <2> QED
    BY <1>1, <1>3, LoopHasStates
<1>5. f \in [0..n -> D] /\ f[0] = <<>> /\ \A i \in 1..n : f[i] = step[<<i, f[i - 1]>>]
  BY <1>4 DEF States
<1>6. \A i \in 1..n : i \in 0..n /\ i - 1 \in 0..n /\ i \in Nat /\ i # 0
  BY <1>1
<1>7. SortsFrom(f)
  <2> SUFFICES ASSUME NEW i \in 0..n
               PROVE  f[i] = IF i = 0 THEN <<>> ELSE Inserted(s[i], f[i - 1], order)
    BY <1>5, Zenon
  <2>1. CASE i # 0
    <3>1. i \in 1..n
      BY <1>1, <2>1
    <3>2. f[i - 1] \in D /\ i \in Nat
      BY <1>5, <1>6, <3>1
    <3>3. <<i, f[i - 1]>> \in Nat \X D
      BY <3>2
    <3>4. step[<<i, f[i - 1]>>] = Inserted(s[i], f[i - 1], order)
      BY <3>1, <3>3
    <3> QED
      BY <1>5, <2>1, <3>1, <3>4
  <2> QED
    BY <1>5, <2>1
<1>8. SortsFrom(h)
  BY <1>7, Zenon
<1> HIDE DEF h
<1>9. DOMAIN h = 0..n /\ \A i \in 0..n : h[i] = IF i = 0 THEN <<>> ELSE Inserted(s[i], h[i - 1], order)
  BY <1>8, Zenon
<1>10. h[0] = <<>> /\ \A i \in 1..n : h[i] = Inserted(s[i], h[i - 1], order)
  <2>1. 0 \in 0..n
    BY <1>1
  <2> HIDE DEF n
  <2> QED
    BY <1>6, <1>9, <2>1, Zenon
<1>11. SortedSeq(s, order) = h[n]
  BY DEF SortedSeq, h
<1> DEFINE I == {i \in 0..n : h[i] \in D}
<1>12. 0 \in I
  BY <1>1, <1>10
<1>13. ASSUME NEW i \in 0..(n - 1), i \in I
       PROVE  i + 1 \in I
  <2>1. i + 1 \in 1..n /\ i + 1 \in 0..n /\ (i + 1) - 1 = i
    BY <1>1
  <2>2. h[i + 1] = Inserted(s[i + 1], h[i], order) /\ h[i] \in D
    BY <1>10, <1>13, <2>1
  <2>3. h[i + 1] \in D
    BY <1>1, <1>2, <2>1, <2>2
  <2> QED
    BY <2>1, <2>3
<1> HIDE DEF I
<1>14. \A i \in 0..n : i \in I
  BY <1>1, <1>12, <1>13, Throughout
<1>15. h \in [0..n -> D]
  <2>1. \A i \in 0..n : h[i] \in D
    BY <1>14 DEF I
  <2>2. h = [i \in 0..n |-> h[i]]
    BY <1>8, Zenon
  <2> HIDE DEF n
  <2> QED
    BY <2>1, <2>2, Zenon
<1> QED
  BY <1>10, <1>11, <1>15 DEF D

\* What is sorted has the elements it had.
LEMMA SortedHas ==
    ASSUME NEW S, NEW s \in Seq(S), NEW order
    PROVE  /\ SortedSeq(s, order) \in Seq(S) /\ Len(SortedSeq(s, order)) = Len(s)
           /\ \A i \in 1..Len(s) : \E j \in 1..Len(s) : SortedSeq(s, order)[j] = s[i]
<1> DEFINE n == Len(s)
<1>1. n \in Nat /\ \A i \in 1..n : s[i] \in S
  OBVIOUS
<1>2. PICK g \in [0..n -> Seq(S)] :
          /\ g[0] = <<>> /\ \A i \in 1..n : g[i] = Inserted(s[i], g[i - 1], order)
          /\ SortedSeq(s, order) = g[n]
  BY SortLoop
<1> DEFINE I == {m \in 0..n : Len(g[m]) = m /\ \A i \in 1..m : \E j \in 1..m : g[m][j] = s[i]}
<1>3. 0 \in I
  BY <1>1, <1>2
<1>4. ASSUME NEW m \in 0..(n - 1), m \in I
      PROVE  m + 1 \in I
  <2> DEFINE x == s[m + 1]
             a == g[m]
             c == g[m + 1]
             p == PlaceOf(x, a, order)
  <2>1. m + 1 \in 1..n /\ m + 1 \in 0..n /\ (m + 1) - 1 = m /\ m \in 0..n /\ m \in Nat
    BY <1>1
  <2>2. a \in Seq(S) /\ x \in S /\ c = Inserted(x, a, order)
    BY <1>1, <1>2, <2>1
  <2>3. Len(a) = m /\ \A i \in 1..m : \E j \in 1..m : a[j] = s[i]
    BY <1>4
  <2> HIDE DEF x, a, c
  <2>4. p \in 0..m
    BY <2>2, <2>3, PlaceIs
  <2>5. /\ Len(c) = m + 1
        /\ \A i \in 1..(m + 1) : c[i] = IF i <= p THEN a[i] ELSE IF i = p + 1 THEN x ELSE a[i - 1]
    <3>1. /\ Len(c) = Len(a) + 1
          /\ \A i \in 1..(Len(a) + 1) : c[i] = IF i <= p THEN a[i] ELSE IF i = p + 1 THEN x ELSE a[i - 1]
      BY <2>2, InsertedIs
    <3> HIDE DEF p
    <3> QED
      BY <2>3, <3>1
  <2> HIDE DEF p
  <2>6. \A j \in 1..m : \E k \in 1..(m + 1) : c[k] = a[j]
    <3> TAKE j \in 1..m
    <3>1. CASE j <= p
      <4>1. j \in 1..(m + 1) /\ c[j] = a[j]
        BY <2>1, <2>5, <3>1
      <4> QED
        BY <4>1
    <3>2. CASE ~(j <= p)
      <4>1. j + 1 \in 1..(m + 1) /\ ~(j + 1 <= p) /\ j + 1 # p + 1 /\ (j + 1) - 1 = j
        BY <2>1, <2>4, <3>2
      <4>2. c[j + 1] = a[j]
        BY <2>5, <4>1
      <4> QED
        BY <4>1, <4>2
    <3> QED
      BY <3>1, <3>2
  <2>7. p + 1 \in 1..(m + 1) /\ c[p + 1] = x
    <3>1. p + 1 \in 1..(m + 1) /\ ~(p + 1 <= p)
      BY <2>1, <2>4
    <3> QED
      BY <2>5, <3>1
  <2>8. \A i \in 1..(m + 1) : \E k \in 1..(m + 1) : c[k] = s[i]
    <3> TAKE i \in 1..(m + 1)
    <3>1. CASE i \in 1..m
      <4>1. PICK j \in 1..m : a[j] = s[i]
        BY <2>3, <3>1
      <4>2. PICK k \in 1..(m + 1) : c[k] = a[j]
        BY <2>6
      <4> QED
        BY <4>1, <4>2
    <3>2. CASE i = m + 1
      BY <2>7, <3>2 DEF x
    <3> QED
      BY <2>1, <3>1, <3>2
  <2> QED
    BY <2>1, <2>5, <2>8 DEF c
<1> HIDE DEF I
<1>5. n \in I
  <2>1. \A m \in 0..n : m \in I
    BY <1>1, <1>3, <1>4, Throughout
  <2> QED
    BY <1>1, <2>1
<1>6. g[n] \in Seq(S)
  BY <1>1, <1>2
<1> QED
  BY <1>2, <1>5, <1>6 DEF I

\* What is sorted already stays as it is.
LEMMA SortedAlready ==
    ASSUME NEW S, NEW s \in Seq(S), NEW order, InOrder(s, order)
    PROVE  SortedSeq(s, order) = s
<1> DEFINE n == Len(s)
<1>1. n \in Nat /\ \A i \in 1..n : s[i] \in S
  OBVIOUS
<1>2. PICK g \in [0..n -> Seq(S)] :
          /\ g[0] = <<>> /\ \A i \in 1..n : g[i] = Inserted(s[i], g[i - 1], order)
          /\ SortedSeq(s, order) = g[n]
  BY SortLoop
<1> DEFINE I == {m \in 0..n : Len(g[m]) = m /\ \A i \in 1..m : g[m][i] = s[i]}
<1>3. 0 \in I
  BY <1>1, <1>2
<1>4. ASSUME NEW m \in 0..(n - 1), m \in I
      PROVE  m + 1 \in I
  <2> DEFINE x == s[m + 1]
             a == g[m]
             c == g[m + 1]
             p == PlaceOf(x, a, order)
  <2>1. m + 1 \in 1..n /\ m + 1 \in 0..n /\ (m + 1) - 1 = m /\ m \in 0..n /\ m \in Nat
    BY <1>1
  <2>2. a \in Seq(S) /\ x \in S /\ c = Inserted(x, a, order)
    BY <1>1, <1>2, <2>1
  <2>3. Len(a) = m /\ \A i \in 1..m : a[i] = s[i]
    BY <1>4
  <2>4. \A i \in 1..m : <<x, s[i]>> \notin order
    <3> TAKE i \in 1..m
    <3>1. i \in DOMAIN s /\ m + 1 \in DOMAIN s /\ i < m + 1
      BY <1>1, <2>1
    <3> QED
      BY <3>1 DEF InOrder
  <2> HIDE DEF x, a, c
  <2>5. p = m
    <3>1. p \in 0..m /\ (p < m => <<x, a[p + 1]>> \in order)
      BY <2>2, <2>3, PlaceIs
    <3> HIDE DEF p
    <3>2. p < m => p + 1 \in 1..m
      BY <2>1, <3>1
    <3>3. ~(p < m)
      BY <2>3, <2>4, <3>1, <3>2
    <3> QED
      BY <2>1, <3>1, <3>3
  <2>6. /\ Len(c) = m + 1
        /\ \A i \in 1..(m + 1) : c[i] = IF i <= p THEN a[i] ELSE IF i = p + 1 THEN x ELSE a[i - 1]
    <3>1. /\ Len(c) = Len(a) + 1
          /\ \A i \in 1..(Len(a) + 1) : c[i] = IF i <= p THEN a[i] ELSE IF i = p + 1 THEN x ELSE a[i - 1]
      BY <2>2, InsertedIs
    <3> HIDE DEF p
    <3> QED
      BY <2>3, <3>1
  <2> HIDE DEF p
  <2>7. ASSUME NEW i \in 1..(m + 1)
        PROVE  c[i] = s[i]
    <3>1. CASE i \in 1..m
      <4>1. i <= m
        BY <3>1
      <4>2. c[i] = a[i]
        BY <2>5, <2>6, <4>1
      <4> QED
        BY <2>3, <3>1, <4>2
    <3>2. CASE i = m + 1
      <4>1. ~(i <= m)
        BY <2>1, <3>2
      <4> QED
        BY <2>5, <2>6, <3>2, <4>1 DEF x
    <3> QED
      BY <2>1, <3>1, <3>2
  <2> QED
    BY <2>1, <2>6, <2>7 DEF c
<1> HIDE DEF I
<1>5. n \in I
  <2>1. \A m \in 0..n : m \in I
    BY <1>1, <1>3, <1>4, Throughout
  <2> QED
    BY <1>1, <2>1
<1>6. g[n] \in Seq(S)
  BY <1>1, <1>2
<1>7. Len(g[n]) = n /\ \A i \in 1..n : g[n][i] = s[i]
  BY <1>5 DEF I
<1>8. g[n] = [i \in 1..n |-> s[i]] /\ s = [i \in 1..n |-> s[i]]
  BY <1>6, <1>7
<1> QED
  BY <1>2, <1>8

\* Numbers that are sorted are in order.
LEMMA SortedNumbers ==
    ASSUME NEW s \in Seq(Nat)
    PROVE  InOrder(SortedSeq(s, NumberOrder), NumberOrder)
<1> DEFINE n == Len(s)
           Rising(t, m) == \A i, j \in 1..m : i < j => t[i] <= t[j]
<1>1. n \in Nat /\ \A i \in 1..n : s[i] \in Nat
  OBVIOUS
<1>2. PICK g \in [0..n -> Seq(Nat)] :
          /\ g[0] = <<>> /\ \A i \in 1..n : g[i] = Inserted(s[i], g[i - 1], NumberOrder)
          /\ SortedSeq(s, NumberOrder) = g[n]
  BY SortLoop
<1>3. \A x, y \in Nat : <<x, y>> \in NumberOrder <=> x < y
  BY DEF NumberOrder
<1> DEFINE I == {m \in 0..n : Len(g[m]) = m /\ Rising(g[m], m)}
<1>4. 0 \in I
  BY <1>1, <1>2
<1>5. ASSUME NEW m \in 0..(n - 1), m \in I
      PROVE  m + 1 \in I
  <2> DEFINE x == s[m + 1]
             a == g[m]
             c == g[m + 1]
             p == PlaceOf(x, a, NumberOrder)
  <2>1. m + 1 \in 1..n /\ m + 1 \in 0..n /\ (m + 1) - 1 = m /\ m \in 0..n /\ m \in Nat
    BY <1>1
  <2>2. a \in Seq(Nat) /\ x \in Nat /\ c = Inserted(x, a, NumberOrder)
    BY <1>1, <1>2, <2>1
  <2>3. Len(a) = m /\ Rising(a, m)
    BY <1>5
  <2> HIDE DEF x, a, c
  <2>4. /\ p \in 0..m /\ \A i \in 1..p : <<x, a[i]>> \notin NumberOrder
        /\ p < m => <<x, a[p + 1]>> \in NumberOrder
    BY <2>2, <2>3, PlaceIs
  <2>5. /\ Len(c) = m + 1
        /\ \A i \in 1..(m + 1) : c[i] = IF i <= p THEN a[i] ELSE IF i = p + 1 THEN x ELSE a[i - 1]
    <3>1. /\ Len(c) = Len(a) + 1
          /\ \A i \in 1..(Len(a) + 1) : c[i] = IF i <= p THEN a[i] ELSE IF i = p + 1 THEN x ELSE a[i - 1]
      <4>1. /\ Len(Inserted(x, a, NumberOrder)) = Len(a) + 1
            /\ \A i \in 1..(Len(a) + 1) :
                   Inserted(x, a, NumberOrder)[i] = IF i <= PlaceOf(x, a, NumberOrder) THEN a[i]
                                                    ELSE IF i = PlaceOf(x, a, NumberOrder) + 1 THEN x ELSE a[i - 1]
        <5>1. PICK N : N = Nat
          OBVIOUS
        <5>2. a \in Seq(N) /\ x \in N
          BY <2>2, <5>1, Zenon
        <5> QED
          BY <5>2, InsertedIs
      <4> QED
        BY <2>2, <4>1
    <3> HIDE DEF p
    <3> QED
      BY <2>3, <3>1
  <2> HIDE DEF p
  <2>6. \A i \in 1..m : a[i] \in Nat
    BY <2>2, <2>3
  <2>7. \A i \in 1..p : a[i] <= x
    <3> TAKE i \in 1..p
    <3>1. i \in 1..m
      BY <2>1, <2>4
    <3>2. a[i] \in Nat /\ x \in Nat /\ ~(x < a[i])
      BY <1>3, <2>2, <2>4, <2>6, <3>1
    <3> QED
      BY <3>2
  <2>8. \A i \in (p + 1)..m : x <= a[i]
    <3> TAKE i \in (p + 1)..m
    <3>1. p < m /\ p + 1 \in 1..m /\ i \in 1..m /\ (i = p + 1 \/ p + 1 < i)
      BY <2>1, <2>4
    <3>2. x < a[p + 1]
      BY <1>3, <2>2, <2>4, <2>6, <3>1
    <3>3. a[p + 1] <= a[i]
      BY <2>3, <2>6, <3>1
    <3>4. a[p + 1] \in Nat /\ a[i] \in Nat
      BY <2>6, <3>1
    <3> QED
      BY <2>2, <3>2, <3>3, <3>4
  <2>9. Rising(c, m + 1)
    <3> SUFFICES ASSUME NEW i \in 1..(m + 1), NEW j \in 1..(m + 1), i < j
                 PROVE  c[i] <= c[j]
      OBVIOUS
    <3>1. i \in Nat /\ j \in Nat /\ p \in Nat /\ i >= 1 /\ j <= m + 1
      BY <2>1, <2>4
    <3>2. CASE j <= p
      <4>1. i \in 1..m /\ j \in 1..m /\ i <= p
        BY <2>1, <2>4, <3>1, <3>2
      <4>2. c[i] = a[i] /\ c[j] = a[j]
        BY <2>5, <3>2, <4>1
      <4> QED
        BY <2>3, <4>1, <4>2
    <3>3. CASE j = p + 1
      <4>1. i \in 1..p /\ i <= p /\ ~(j <= p)
        BY <3>1, <3>3
      <4>2. c[i] = a[i] /\ c[j] = x
        BY <2>5, <3>3, <4>1
      <4> QED
        BY <2>7, <4>1, <4>2
    <3>4. CASE j > p + 1
      <4>1. ~(j <= p) /\ j # p + 1 /\ j - 1 \in (p + 1)..m /\ j - 1 \in 1..m
        BY <2>1, <3>1, <3>4
      <4>2. c[j] = a[j - 1]
        BY <2>5, <4>1
      <4>3. CASE i <= p
        <5>1. i \in 1..p /\ i \in 1..m /\ i < j - 1
          BY <2>4, <3>1, <3>4, <4>3
        <5>2. c[i] = a[i]
          BY <2>5, <4>3
        <5> QED
          BY <2>3, <4>1, <4>2, <5>1, <5>2
      <4>4. CASE i = p + 1
        <5>1. ~(i <= p)
          BY <3>1, <4>4
        <5>2. c[i] = x
          BY <2>5, <4>4, <5>1
        <5> QED
          BY <2>8, <4>1, <4>2, <5>2
      <4>5. CASE i > p + 1
        <5>1. ~(i <= p) /\ i # p + 1 /\ i - 1 \in 1..m /\ i - 1 < j - 1
          BY <2>1, <3>1, <4>5
        <5>2. c[i] = a[i - 1]
          BY <2>5, <5>1
        <5> QED
          BY <2>3, <4>1, <4>2, <5>1, <5>2
      <4>6. i <= p \/ i = p + 1 \/ i > p + 1
        BY <3>1
      <4> QED
        BY <4>3, <4>4, <4>5, <4>6
    <3>5. j <= p \/ j = p + 1 \/ j > p + 1
      BY <3>1
    <3> QED
      BY <3>2, <3>3, <3>4, <3>5
  <2> HIDE DEF Rising
  <2> QED
    BY <2>1, <2>5, <2>9 DEF c
<1> HIDE DEF I
<1>6. n \in I
  <2>1. \A m \in 0..n : m \in I
    BY <1>1, <1>4, <1>5, Throughout
  <2> QED
    BY <1>1, <2>1
<1> DEFINE t == g[n]
<1>7. t \in Seq(Nat) /\ Len(t) = n /\ Rising(t, n)
  <2>1. t \in Seq(Nat)
    BY <1>1, <1>2
  <2> QED
    BY <1>6, <2>1 DEF I
<1> HIDE DEF t
<1>8. InOrder(t, NumberOrder)
  <2> SUFFICES ASSUME NEW i \in DOMAIN t, NEW j \in DOMAIN t, i < j
               PROVE  <<t[j], t[i]>> \notin NumberOrder
    BY DEF InOrder
  <2>1. i \in 1..n /\ j \in 1..n /\ t[i] \in Nat /\ t[j] \in Nat
    BY <1>7
  <2>2. t[i] <= t[j]
    BY <1>7, <2>1
  <2>3. ~(t[j] < t[i])
    BY <2>1, <2>2
  <2> QED
    BY <1>3, <2>1, <2>3
<1> QED
  BY <1>2, <1>8 DEF t

\* Sorting again changes nothing.
LEMMA SortedTwice ==
    ASSUME NEW s \in Seq(Nat)
    PROVE  SortedSeq(SortedSeq(s, NumberOrder), NumberOrder) = SortedSeq(s, NumberOrder)
BY SortedHas, SortedNumbers, SortedAlready

-----------------------------------------------------------------------------
(* Actors of a change *)

\* The values of a function over a finite set are finitely many.
LEMMA FiniteValues ==
    ASSUME NEW f, IsFiniteSet(DOMAIN f)
    PROVE  IsFiniteSet({f[x] : x \in DOMAIN f})
<1> DEFINE D == DOMAIN f
           T == {f[x] : x \in D}
           g == [x \in D |-> f[x]]
<1>1. g \in Surjection(D, T)
  <2>1. g \in [D -> T]
    OBVIOUS
  <2>2. \A t \in T : \E x \in D : g[x] = t
    OBVIOUS
  <2> HIDE DEF D, T, g
  <2> QED
    BY <2>1, <2>2 DEF Surjection
<1> HIDE DEF g, T
<1> QED
  BY <1>1, FS_Surjection DEF T

\* The elements of a sequence are finitely many.
LEMMA FiniteElements ==
    ASSUME NEW S, NEW s \in Seq(S)
    PROVE  IsFiniteSet(ToSet(s))
<1>1. DOMAIN s = 1..Len(s) /\ Len(s) \in Int /\ 1 \in Int
  OBVIOUS
<1>2. IsFiniteSet(DOMAIN s)
  BY <1>1, FS_Interval
<1> QED
  BY <1>2, FiniteValues DEF ToSet

\* A finite set as a sequence has all of its elements.
LEMMA SetToSeqHas ==
    ASSUME NEW T, IsFiniteSet(T)
    PROVE  SetToSeq(T) \in Seq(T) /\ \A x \in T : \E i \in 1..Len(SetToSeq(T)) : SetToSeq(T)[i] = x
<1> DEFINE n == Cardinality(T)
           f == SetToSeq(T)
<1>1. n \in Nat /\ ExistsBijection(1..n, T)
  BY FS_CardinalityType
<1>2. \E g \in [1..n -> T] : IsInjective(g)
  BY <1>1 DEF ExistsBijection, Bijection, Injection
<1>3. f \in [1..n -> T] /\ IsInjective(f)
  BY <1>2 DEF SetToSeq
<1> HIDE DEF f
<1>4. IsFiniteSet(1..n) /\ Cardinality(1..n) = n
  <2> HIDE DEF n
  <2>1. IsFiniteSet(1..n) /\ Cardinality(1..n) = IF 1 > n THEN 0 ELSE n - 1 + 1
    BY <1>1, FS_Interval
  <2> QED
    BY <1>1, <2>1
<1>5. f \in Surjection(1..n, T)
  <2>1. f \in Injection(1..n, T)
    BY <1>3 DEF Injection
  <2> QED
    BY <1>4, <2>1, FS_Injection
<1> HIDE DEF n
<1>6. f \in Seq(T) /\ Len(f) = n
  BY <1>1, <1>3
<1>7. \A x \in T : \E i \in 1..n : f[i] = x
  BY <1>5 DEF Surjection
<1> QED
  BY <1>6, <1>7 DEF f

\* What is known of an operation, part by part.
LEMMA OperationParts ==
    ASSUME NEW op \in OperationType
    PROVE  /\ op.action \in WhatOps /\ op.key \in Keys /\ op.insert \in BOOLEAN
           /\ op.obj \in SUBSET OpIds /\ \A x, y \in op.obj : x = y
           /\ op.pred \in Seq(OpIds) /\ Len(op.pred) \in UnsignedNumber /\ InOrder(op.pred, OpIdOrder)
           /\ op = [action |-> op.action, obj |-> op.obj, key |-> op.key, insert |-> op.insert, pred |-> op.pred]
BY DEF OperationType

\* A key is one of three.
LEMMA KeyParts ==
    ASSUME NEW key \in Keys
    PROVE  \/ key.tag = "map" /\ key.str \in Strings /\ key = [tag |-> "map", str |-> key.str]
           \/ key.tag = "head" /\ key = [tag |-> "head"]
           \/ key.tag = "seq" /\ key.id \in OpIds /\ key = [tag |-> "seq", id |-> key.id]
BY DEF Keys

\* The ids in an operation are finitely many.
LEMMA IdsAreFinite ==
    ASSUME NEW op \in OperationType
    PROVE  IsFiniteSet(IdsIn(op)) /\ IdsIn(op) \subseteq OpIds
<1> DEFINE A == op.obj
           B == IF op.key.tag = "seq" THEN {op.key.id} ELSE {}
           C == ToSet(op.pred)
<1>1. IsFiniteSet(A) /\ A \subseteq OpIds
  <2>1. A \subseteq OpIds /\ \A x, y \in A : x = y
    BY OperationParts
  <2> HIDE DEF A
  <2>2. A = {} \/ \E x : A = {x}
    BY <2>1
  <2> QED
    BY <2>1, <2>2, FS_EmptySet, FS_Singleton
<1>2. IsFiniteSet(B) /\ B \subseteq OpIds
  <2>1. op.key.tag = "seq" => op.key.id \in OpIds
    BY OperationParts, KeyParts
  <2> QED
    BY <2>1, FS_EmptySet, FS_Singleton
<1>3. IsFiniteSet(C) /\ C \subseteq OpIds
  <2>1. op.pred \in Seq(OpIds)
    BY OperationParts
  <2> QED
    BY <2>1, FiniteElements DEF ToSet
<1>4. IdsIn(op) = (A \cup B) \cup C
  BY DEF IdsIn
<1> HIDE DEF A, B, C
<1>5. IsFiniteSet(A \cup B)
  BY <1>1, <1>2, FS_Union
<1> QED
  BY <1>1, <1>2, <1>3, <1>4, <1>5, FS_Union

\* Every actor of an id is named, and the actor of the change is first.
LEMMA ActorsNamed ==
    ASSUME NEW actor \in Nat, NEW ops \in Seq(OperationType)
    PROVE  /\ ActorIdsInChange(actor, ops) \in Seq(Nat)
           /\ Len(ActorIdsInChange(actor, ops)) >= 1 /\ ActorIdsInChange(actor, ops)[1] = actor
           /\ \A i \in 1..Len(ops) : \A id \in IdsIn(ops[i]) :
                  \E k \in 1..Len(ActorIdsInChange(actor, ops)) : ActorIdsInChange(actor, ops)[k] = id[2]
<1> DEFINE each == [i \in DOMAIN ops |-> IdsIn(ops[i])]
           sets == {each[i] : i \in DOMAIN each}
           ids == UNION {IdsIn(op) : op \in ToSet(ops)}
           second == [id \in ids |-> id[2]]
           all == {second[id] : id \in DOMAIN second}
           others == {id[2] : id \in ids} \ {actor}
           t == SetToSeq(others)
           u == SortedSeq(t, NumberOrder)
<1>1. DOMAIN ops = 1..Len(ops) /\ Len(ops) \in Int /\ 1 \in Int /\ \A i \in DOMAIN ops : ops[i] \in OperationType
  OBVIOUS
<1>2. \A i \in DOMAIN ops : IsFiniteSet(IdsIn(ops[i])) /\ IdsIn(ops[i]) \subseteq OpIds
  BY <1>1, IdsAreFinite
<1>3. sets = {IdsIn(op) : op \in ToSet(ops)}
  BY DEF ToSet
<1>4. IsFiniteSet(ids) /\ ids \subseteq OpIds
  <2>1. IsFiniteSet(sets)
    <3>1. IsFiniteSet(DOMAIN each)
      BY <1>1, FS_Interval
    <3> HIDE DEF each
    <3> QED
      BY <3>1, FiniteValues
  <2>2. \A T \in sets : IsFiniteSet(T) /\ T \subseteq OpIds
    BY <1>2
  <2> HIDE DEF sets
  <2> QED
    BY <1>3, <2>1, <2>2, FS_UNION
<1>5. \A i \in 1..Len(ops) : \A id \in IdsIn(ops[i]) : id \in ids
  BY <1>1 DEF ToSet
<1> HIDE DEF each, sets, ids
<1>6. \A id \in ids : id[2] \in Nat
  BY <1>4 DEF OpIds
<1>7. IsFiniteSet(others) /\ others \subseteq Nat
  <2>1. IsFiniteSet(all)
    <3>1. IsFiniteSet(DOMAIN second)
      BY <1>4
    <3> HIDE DEF second
    <3> QED
      BY <3>1, FiniteValues
  <2>2. others = all \ {actor}
    OBVIOUS
  <2> HIDE DEF all
  <2> QED
    BY <1>6, <2>1, <2>2, FS_Difference
<1>8. \A id \in ids : id[2] = actor \/ id[2] \in others
  OBVIOUS
<1>9. ActorIdsInChange(actor, ops) = <<actor>> \o u
  BY DEF ActorIdsInChange, ids
<1> HIDE DEF others
<1>10. t \in Seq(Nat) /\ \A x \in others : \E i \in 1..Len(t) : t[i] = x
  <2>1. t \in Seq(others) /\ \A x \in others : \E i \in 1..Len(t) : t[i] = x
    BY <1>7, SetToSeqHas
  <2> HIDE DEF t
  <2>2. t \in Seq(Nat)
    BY <1>7, <2>1, SeqWithin
  <2> QED
    BY <2>1, <2>2
<1> HIDE DEF t
<1>11. u \in Seq(Nat) /\ Len(u) = Len(t) /\ \A i \in 1..Len(t) : \E j \in 1..Len(t) : u[j] = t[i]
  BY <1>10, SortedHas
<1> HIDE DEF u
<1> DEFINE a == <<actor>> \o u
<1>12. a \in Seq(Nat) /\ Len(a) = Len(u) + 1 /\ a[1] = actor /\ \A j \in 1..Len(u) : a[j + 1] = u[j]
  <2>1. <<actor>> \in Seq(Nat) /\ Len(<<actor>>) = 1 /\ Len(u) \in Nat
    BY <1>11
  <2>2. /\ a \in Seq(Nat) /\ Len(a) = 1 + Len(u)
        /\ \A j \in 1..(1 + Len(u)) : a[j] = IF j <= 1 THEN <<actor>>[j] ELSE u[j - 1]
    BY <1>11, <2>1, ConcatProperties
  <2> HIDE DEF a
  <2>3. \A j \in 1..Len(u) : j + 1 \in 1..(1 + Len(u)) /\ ~(j + 1 <= 1) /\ (j + 1) - 1 = j
    BY <2>1
  <2>4. 1 \in 1..(1 + Len(u))
    BY <2>1
  <2> QED
    BY <2>1, <2>2, <2>3, <2>4
<1> HIDE DEF a
<1>13. ASSUME NEW id \in ids
       PROVE  \E k \in 1..Len(a) : a[k] = id[2]
  <2>1. CASE id[2] = actor
    <3>1. 1 \in 1..Len(a)
      BY <1>11, <1>12
    <3> QED
      BY <1>12, <2>1, <3>1
  <2>2. CASE id[2] \in others
    <3>1. PICK i \in 1..Len(t) : t[i] = id[2]
      BY <1>10, <2>2
    <3>2. PICK j \in 1..Len(t) : u[j] = t[i]
      BY <1>11
    <3>3. j + 1 \in 1..Len(a) /\ a[j + 1] = u[j]
      BY <1>11, <1>12
    <3> QED
      BY <3>1, <3>2, <3>3
  <2> QED
    BY <1>8, <2>1, <2>2
<1>14. Len(a) >= 1
  BY <1>11, <1>12
<1> QED
  BY <1>5, <1>9, <1>12, <1>13, <1>14 DEF a

\* The index of an actor that is named.
LEMMA IndexFacts ==
    ASSUME NEW actors \in Seq(Nat), NEW actor, \E k \in 1..Len(actors) : actors[k] = actor
    PROVE  ActorIndex(actors, actor) \in 0..(Len(actors) - 1) /\ actors[ActorIndex(actors, actor) + 1] = actor
<1> DEFINE k == CHOOSE i \in DOMAIN actors : actors[i] = actor
<1>1. DOMAIN actors = 1..Len(actors) /\ Len(actors) \in Nat
  OBVIOUS
<1>2. k \in 1..Len(actors) /\ actors[k] = actor
  BY <1>1
<1>3. ActorIndex(actors, actor) = k - 1
  BY DEF ActorIndex
<1> HIDE DEF k
<1>4. k - 1 \in 0..(Len(actors) - 1) /\ (k - 1) + 1 = k
  BY <1>1, <1>2
<1> QED
  BY <1>2, <1>3, <1>4

-----------------------------------------------------------------------------
(* Columns whose number of cells is not known *)

\* Past the last run there are nulls, whatever the decoder has read before.
LEMMA NullsPast ==
    ASSUME NEW kind, NEW d \in Decoder, d.count = 0, d.bytes = <<>>, NEW n \in Nat
    PROVE  \E e : Reads(Nexts(kind), Shows, d, Copies({}, n), e)
<1> DEFINE z == [d EXCEPT !.last_value = {}]
           t == [i \in 0..n |-> IF i = 0 THEN d ELSE z]
<1>1. /\ z \in Decoder /\ z.count = 0 /\ z.bytes = <<>> /\ z.last_value = {}
      /\ [z EXCEPT !.last_value = {}] = z
  BY DEF Decoder
<1>2. ASSUME NEW x \in Decoder, x.count = 0, x.bytes = <<>>
      PROVE  NextCell(kind, x) = [x EXCEPT !.last_value = {}]
  <2>1. Turn(kind, x) = x
    BY <1>2 DEF Turn
  <2>2. NextRun(kind, x) = x
    <3>1. Len(x.bytes) = 0
      BY <1>2
    <3> QED
      BY <2>1, <3>1, NextRunIsTurn
  <2>3. TakeCell(kind, x) = [x EXCEPT !.last_value = {}]
    BY <1>2 DEF TakeCell
  <2> QED
    BY <2>2, <2>3 DEF NextCell
<1>3. NextCell(kind, d) = z /\ NextCell(kind, z) = z
  BY <1>1, <1>2
<1> HIDE DEF z
<1>4. /\ d \in DOMAIN Nexts(kind) /\ z \in DOMAIN Nexts(kind)
      /\ Nexts(kind)[d] = z /\ Nexts(kind)[z] = z /\ Shows[z] = {}
  BY <1>1, <1>3 DEF Nexts, Shows
<1>5. t \in [0..n -> DOMAIN Nexts(kind)] /\ t[0] = d
  BY <1>4
<1>6. \A i \in 1..n : t[i] = Nexts(kind)[t[i - 1]] /\ Shows[t[i]] = Copies({}, n)[i]
  <2> TAKE i \in 1..n
  <2>1. t[i] = z /\ (t[i - 1] = d \/ t[i - 1] = z)
    OBVIOUS
  <2>2. Copies({}, n)[i] = {}
    BY DEF Copies
  <2> HIDE DEF t
  <2> QED
    BY <1>4, <2>1, <2>2
<1>7. Len(Copies({}, n)) = n
  BY DEF Copies
<1> HIDE DEF t
<1> QED
  BY <1>5, <1>6, <1>7 DEF Reads

\* What is read begins with fewer cells that are read.
LEMMA ReadsFirst ==
    ASSUME NEW next, NEW shows, NEW d, NEW e, NEW S, NEW read \in Seq(S), NEW k \in 0..Len(read),
           Reads(next, shows, d, read, e)
    PROVE  \E f : Reads(next, shows, d, First(read, k), f)
<1> DEFINE n == Len(read)
<1>1. n \in Nat /\ k \in Nat /\ \A i \in 0..k : i \in 0..n
  OBVIOUS
<1>2. PICK t \in [0..n -> DOMAIN next] :
          t[0] = d /\ \A i \in 1..n : t[i] = next[t[i - 1]] /\ shows[t[i]] = read[i]
  BY DEF Reads
<1> DEFINE u == [i \in 0..k |-> t[i]]
<1>3. u \in [0..k -> DOMAIN next] /\ u[0] = d
  <2>1. \A i \in 0..k : t[i] \in DOMAIN next
    BY <1>1, <1>2
  <2>2. 0 \in 0..k
    BY <1>1
  <2> QED
    BY <1>2, <2>1, <2>2, Zenon
<1>4. Len(First(read, k)) = k /\ \A i \in 1..k : First(read, k)[i] = read[i]
  BY <1>1 DEF First
<1>5. \A i \in 1..k : u[i] = next[u[i - 1]] /\ shows[u[i]] = First(read, k)[i]
  <2> TAKE i \in 1..k
  <2>1. i \in 1..n /\ u[i] = t[i] /\ u[i - 1] = t[i - 1]
    BY <1>1
  <2> HIDE DEF u
  <2> QED
    BY <1>2, <1>4, <2>1
<1> HIDE DEF u
<1>6. Reads(next, shows, d, First(read, k), u[k])
  BY <1>3, <1>4, <1>5 DEF Reads
<1> QED
  BY <1>6

\* The decoder of a column yields its cells and then nulls, as many as are asked for.
LEMMA ReadsColumnAndNulls ==
    ASSUME NEW kind \in Kinds, NEW column \in Seq(CellsOf(kind)), Len(column) \in SignedNumber, NEW m \in Nat
    PROVE  \E e : Reads(Nexts(kind), Shows, RleDecoder(EncodeRle(kind, column)), column \o Copies({}, m), e)
<1>0. {} \in CellsOf(kind)
  BY DEF CellsOf
<1>1. PICK e : EncodeRle(kind, column) = FinishRle(kind, e) /\ Encoded(kind, e, column)
  BY EncoderLoop
<1>2. CASE e.tag = "NULL_RUN" /\ e.buf = <<>>
  <2>1. EncodeRle(kind, column) = <<>>
    BY <1>1, <1>2 DEF FinishRle
  <2>2. PICK before \in Seq(CellsOf(kind)) : Written(kind, e.buf, before) /\ Holds(kind, e, before, column)
    BY <1>1 DEF Encoded
  <2>3. before = <<>> /\ HoldsNulls(kind, e, before, column)
    BY <1>2, <2>2 DEF Written, Holds, HoldsRun, HoldsLiterals
  <2> DEFINE n == e.size
  <2>4. n \in Nat /\ column = <<>> \o Copies({}, n)
    BY <2>3 DEF HoldsNulls
  <2> HIDE DEF n
  <2>5. Copies({}, n) \in Seq(CellsOf(kind))
    BY <1>0, <2>4, CopiesAre
  <2>6. column = Copies({}, n)
    BY <2>4, <2>5, ConcatEmptySeq
  <2>7. Reads(Nexts(kind), Shows, RleDecoder(<<>>), Copies({}, n), RleDecoder(<<>>))
    BY <2>4, NullsAreDecoded
  <2>8. Reads(Nexts(kind), Shows, RleDecoder(<<>>), Copies({}, m), RleDecoder(<<>>))
    BY NullsAreDecoded
  <2>9. Copies({}, m) \in Seq(CellsOf(kind))
    BY <1>0, CopiesAre
  <2>10. Reads(Nexts(kind), Shows, RleDecoder(<<>>), Copies({}, n) \o Copies({}, m), RleDecoder(<<>>))
    BY <2>5, <2>7, <2>8, <2>9, ReadsBoth
  <2> QED
    BY <2>1, <2>6, <2>10
<1>3. CASE ~(e.tag = "NULL_RUN" /\ e.buf = <<>>)
  <2> DEFINE bytes == Flushed(kind, e)
             d == RleDecoder(bytes)
  <2>1. EncodeRle(kind, column) = bytes
    BY <1>1, <1>3 DEF FinishRle
  <2>2. Yields(kind, bytes, column)
    BY <1>1, FlushedYields DEF Written
  <2> HIDE DEF bytes
  <2>3. bytes \in Seq(Nat)
    BY <2>2 DEF Yields
  <2>4. d \in Decoder /\ d.count = 0 /\ d.bytes = bytes \o <<>> /\ <<>> \in Seq(Nat)
    BY <2>3, RleDecoderIs, ConcatEmptySeq
  <2> HIDE DEF d
  <2>5. PICK f \in Decoder : f.count = 0 /\ f.bytes = <<>> /\ Reads(Nexts(kind), Shows, d, column, f)
    BY <2>2, <2>4 DEF Yields
  <2>6. PICK g : Reads(Nexts(kind), Shows, f, Copies({}, m), g)
    BY <2>5, NullsPast
  <2>7. Copies({}, m) \in Seq(CellsOf(kind))
    BY <1>0, CopiesAre
  <2>8. Reads(Nexts(kind), Shows, d, column \o Copies({}, m), g)
    BY <2>5, <2>6, <2>7, ReadsBoth
  <2> QED
    BY <2>1, <2>8 DEF d
<1> QED
  BY <1>2, <1>3

\* However many cells are read, they are those of the column, and nulls past its end.
LEMMA ReadAnyNumber ==
    ASSUME NEW kind \in Kinds, NEW column \in Seq(CellsOf(kind)), Len(column) \in SignedNumber, NEW n \in Nat
    PROVE  \A i \in 1..n :
               DecodeRle(kind, EncodeRle(kind, column), n)[i] = IF i <= Len(column) THEN column[i] ELSE {}
<1> DEFINE l == Len(column)
           bytes == EncodeRle(kind, column)
           nulls == Copies({}, n)
           all == column \o nulls
           D == CellsOf(kind)
<1>1. l \in Nat
  OBVIOUS
<1>2. nulls \in Seq(D) /\ Len(nulls) = n /\ \A i \in 1..n : nulls[i] = {}
  <2>1. {} \in D
    BY DEF CellsOf
  <2> HIDE DEF D
  <2>2. nulls \in Seq(D)
    BY <2>1, CopiesAre
  <2> QED
    BY <2>2 DEF Copies
<1>3. PICK e : Reads(Nexts(kind), Shows, RleDecoder(bytes), all, e)
  BY ReadsColumnAndNulls
<1> HIDE DEF D, bytes, nulls
<1>4. /\ all \in Seq(D) /\ Len(all) = l + n
      /\ \A i \in 1..(l + n) : all[i] = IF i <= l THEN column[i] ELSE nulls[i - l]
  <2>1. column \in Seq(D)
    BY DEF D
  <2>2. /\ all \in Seq(D) /\ Len(all) = Len(column) + Len(nulls)
        /\ \A i \in 1..(Len(column) + Len(nulls)) : all[i] = IF i <= Len(column) THEN column[i] ELSE nulls[i - Len(column)]
    BY <1>2, <2>1, ConcatProperties
  <2> HIDE DEF all
  <2> QED
    BY <1>2, <2>2
<1> HIDE DEF all, l
<1>5. n \in 0..Len(all)
  BY <1>1, <1>4
<1>6. PICK f : Reads(Nexts(kind), Shows, RleDecoder(bytes), First(all, n), f)
  BY <1>3, <1>4, <1>5, ReadsFirst
<1>7. First(all, n) \in Seq(D) /\ Len(First(all, n)) = n
  BY <1>4, <1>5, FirstAre
<1>8. DecodeRle(kind, bytes, Len(First(all, n))) = First(all, n)
  BY <1>6, <1>7, ReadIsDecoded
<1>9. ASSUME NEW i \in 1..n
      PROVE  First(all, n)[i] = IF i <= l THEN column[i] ELSE {}
  <2>1. First(all, n)[i] = all[i] /\ i \in 1..(l + n)
    BY <1>1 DEF First
  <2>2. ~(i <= l) => i - l \in 1..n
    BY <1>1, <2>1
  <2> QED
    BY <1>2, <1>4, <2>1, <2>2
<1> QED
  BY <1>7, <1>8, <1>9 DEF l, bytes

\* The rows of a column without nulls are counted by reading until there is a null.
LEMMA RowsCounted ==
    ASSUME NEW column \in Seq({{v} : v \in UnsignedNumber}), Len(column) \in SignedNumber
    PROVE  CountRows("unsigned", EncodeColumn("unsigned", column)) = Len(column)
<1> DEFINE l == Len(column)
           bytes == EncodeRle("unsigned", column)
           Rows(n) == DecodeRle("unsigned", bytes, n)
<1>1. l \in Nat /\ l \in SignedNumber /\ \A i \in 1..l : column[i] # {}
  <2>1. l \in Nat /\ l \in SignedNumber
    BY LenProperties
  <2>2. \A i \in 1..l : column[i] \in {{v} : v \in UnsignedNumber}
    BY LenProperties
  <2>3. \A x \in {{v} : v \in UnsignedNumber} : x # {}
    OBVIOUS
  <2> QED
    BY <2>1, <2>2, <2>3
<1>2. column \in Seq(CellsOf("unsigned")) /\ "unsigned" \in Kinds
  <2>1. {{v} : v \in UnsignedNumber} \subseteq CellsOf("unsigned")
    BY ItemsAre DEF CellsOf
  <2> QED
    BY <2>1, SeqWithin DEF Kinds
<1>3. \A n \in Nat : \A i \in 1..(n + 1) : Rows(n + 1)[i] = IF i <= l THEN column[i] ELSE {}
  <2> TAKE n \in Nat
  <2>1. n + 1 \in Nat
    OBVIOUS
  <2> QED
    BY <1>2, <2>1, ReadAnyNumber
<1>4. EncodeColumn("unsigned", column) = bytes /\ \A n : DecodeColumn("unsigned", bytes, n) = Rows(n)
  BY DEF EncodeColumn, DecodeColumn
<1> HIDE DEF bytes
<1>5. l \in 0..Modulus
  BY <1>1, ModulusFacts DEF SignedNumber
<1>6. Modulus \in Nat
  BY ModulusFacts
<1> HIDE DEF Rows, l
<1>7. ASSUME NEW n \in 0..Modulus
      PROVE  EndsAfter(Rows(n + 1), n) <=> n = l
  <2>1. n \in Nat /\ n + 1 \in 1..(n + 1) /\ \A i \in 1..n : i \in 1..(n + 1)
    BY <1>6
  <2>2. CASE n = l
    <3>1. ~(n + 1 <= l) /\ \A i \in 1..n : i <= l
      BY <1>1, <2>1, <2>2
    <3> QED
      BY <1>1, <1>3, <2>1, <2>2, <3>1 DEF EndsAfter
  <2>3. CASE n < l
    <3>1. n + 1 <= l /\ n + 1 \in 1..l
      BY <1>1, <2>1, <2>3
    <3>2. Rows(n + 1)[n + 1] = column[n + 1]
      BY <1>3, <2>1, <3>1
    <3> QED
      BY <1>1, <2>3, <3>1, <3>2 DEF EndsAfter
  <2>4. CASE n > l
    <3>1. l + 1 \in 1..n /\ l + 1 \in 1..(n + 1) /\ ~(l + 1 <= l)
      BY <1>1, <2>1, <2>4
    <3>2. Rows(n + 1)[l + 1] = {}
      BY <1>3, <2>1, <3>1
    <3> QED
      BY <2>4, <3>1, <3>2 DEF EndsAfter
  <2>5. n = l \/ n < l \/ n > l
    BY <1>1, <2>1
  <2> QED
    BY <2>2, <2>3, <2>4, <2>5
<1>8. CountRows("unsigned", bytes) = CHOOSE n \in 0..Modulus : EndsAfter(Rows(n + 1), n)
  BY <1>4 DEF CountRows
<1>9. (CHOOSE n \in 0..Modulus : EndsAfter(Rows(n + 1), n)) = l
  BY <1>5, <1>7
<1> QED
  BY <1>4, <1>8, <1>9 DEF l

-----------------------------------------------------------------------------
(* Values and keys *)

\* The code of a value's type is that of no other.
LEMMA TypeCodes ==
    ASSUME NEW type \in ToSet(ValueTypes)
    PROVE  TypeCode(type) \in 0..9 /\ ValueTypes[TypeCode(type) + 1] = type
<1> DEFINE k == CHOOSE i \in DOMAIN ValueTypes : ValueTypes[i] = type
<1>1. DOMAIN ValueTypes = 1..10
  BY DEF ValueTypes
<1>2. k \in 1..10 /\ ValueTypes[k] = type
  BY <1>1, Zenon DEF ToSet
<1>3. TypeCode(type) = k - 1
  BY DEF TypeCode
<1> HIDE DEF k
<1>4. k - 1 \in 0..9 /\ (k - 1) + 1 = k
  BY <1>2
<1> QED
  BY <1>2, <1>3, <1>4

\* The same of what operations do.
LEMMA ActionCodes ==
    ASSUME NEW tag \in ToSet(Actions)
    PROVE  ActionCode(tag) \in 0..6 /\ Actions[ActionCode(tag) + 1] = tag
<1> DEFINE k == CHOOSE i \in DOMAIN Actions : Actions[i] = tag
<1>1. DOMAIN Actions = 1..7
  BY DEF Actions
<1>2. k \in 1..7 /\ Actions[k] = tag
  BY <1>1, Zenon DEF ToSet
<1>3. ActionCode(tag) = k - 1
  BY DEF ActionCode
<1> HIDE DEF k
<1>4. k - 1 \in 0..6 /\ (k - 1) + 1 = k
  BY <1>2
<1> QED
  BY <1>2, <1>3, <1>4

\* A number alone is read as it was written.
LEMMA NumbersAlone ==
    /\ \A n \in UnsignedNumber : WriteUnsigned(n) \in Seq(Nat) /\ ReadUnsigned(WriteUnsigned(n)).value = n
    /\ \A n \in SignedNumber : WriteSigned(n) \in Seq(Nat) /\ ReadSigned(WriteSigned(n)).value = n
<1>1. <<>> \in Seq(Nat) /\ \A s \in Seq(Nat) : s \o <<>> = s
  BY ConcatEmptySeq
<1>2. ASSUME NEW n \in UnsignedNumber
      PROVE  WriteUnsigned(n) \in Seq(Nat) /\ ReadUnsigned(WriteUnsigned(n)).value = n
  <2>1. /\ WriteUnsigned(n) \in Seq(Nat)
        /\ ReadUnsigned(WriteUnsigned(n) \o <<>>) = [value |-> n, size |-> Len(WriteUnsigned(n))]
    BY <1>1, UnsignedRoundTrip
  <2>2. WriteUnsigned(n) \o <<>> = WriteUnsigned(n)
    BY <1>1, <2>1
  <2> QED
    BY <2>1, <2>2
<1>3. ASSUME NEW n \in SignedNumber
      PROVE  WriteSigned(n) \in Seq(Nat) /\ ReadSigned(WriteSigned(n)).value = n
  <2>1. /\ WriteSigned(n) \in Seq(Nat)
        /\ ReadSigned(WriteSigned(n) \o <<>>) = [value |-> n, size |-> Len(WriteSigned(n))]
    BY <1>1, SignedRoundTrip
  <2>2. WriteSigned(n) \o <<>> = WriteSigned(n)
    BY <1>1, <2>1
  <2> QED
    BY <2>1, <2>2
<1> QED
  BY <1>2, <1>3

\* A value is read from its type and its raw bytes.
LEMMA RawFacts ==
    ASSUME NEW value \in Values
    PROVE  /\ RawValue(value) \in Seq(Nat) /\ value.type \in ToSet(ValueTypes)
           /\ ReadRaw(value.type, RawValue(value)) = value
<1>0. {"null", "false", "true", "int", "counter", "timestamp", "uint", "f64", "str", "bytes"} \subseteq ToSet(ValueTypes)
  <2> SUFFICES ASSUME NEW t \in {"null", "false", "true", "int", "counter", "timestamp", "uint", "f64", "str", "bytes"}
               PROVE  \E i \in 1..10 : ValueTypes[i] = t
    BY DEF ToSet, ValueTypes
  <2> QED
    BY DEF ValueTypes
<1>1. value = [type |-> value.type, data |-> value.data]
  BY DEF Values
<1>2. CASE value.type \in {"null", "false", "true"} /\ value.data = 0
  <2>1. RawValue(value) = <<>>
    BY <1>2 DEF RawValue
  <2>2. ReadRaw(value.type, <<>>) = [type |-> value.type, data |-> 0]
    BY <1>2 DEF ReadRaw
  <2> QED
    BY <1>0, <1>1, <1>2, <2>1, <2>2
<1>3. CASE value.type \in {"int", "counter", "timestamp"} /\ value.data \in SignedNumber
  <2>1. RawValue(value) = WriteSigned(value.data)
    BY <1>3 DEF RawValue
  <2>2. ReadRaw(value.type, RawValue(value)) = [type |-> value.type, data |-> ReadSigned(RawValue(value)).value]
    BY <1>3 DEF ReadRaw
  <2>3. WriteSigned(value.data) \in Seq(Nat) /\ ReadSigned(WriteSigned(value.data)).value = value.data
    BY <1>3, NumbersAlone
  <2> QED
    BY <1>0, <1>1, <1>3, <2>1, <2>2, <2>3
<1>4. CASE value.type = "uint" /\ value.data \in UnsignedNumber
  <2>1. RawValue(value) = WriteUnsigned(value.data)
    BY <1>4 DEF RawValue
  <2>2. ReadRaw(value.type, RawValue(value)) = [type |-> value.type, data |-> ReadUnsigned(RawValue(value)).value]
    BY <1>4 DEF ReadRaw
  <2>3. WriteUnsigned(value.data) \in Seq(Nat) /\ ReadUnsigned(WriteUnsigned(value.data)).value = value.data
    BY <1>4, NumbersAlone
  <2> QED
    BY <1>0, <1>1, <1>4, <2>1, <2>2, <2>3
<1>5. CASE value.type \in {"f64", "str", "bytes"} /\ value.data \in Seq(Nat)
  <2>1. RawValue(value) = value.data
    BY <1>5 DEF RawValue
  <2>2. ReadRaw(value.type, RawValue(value)) = [type |-> value.type, data |-> RawValue(value)]
    BY <1>5 DEF ReadRaw
  <2> QED
    BY <1>0, <1>1, <1>5, <2>1, <2>2
<1> QED
  BY <1>2, <1>3, <1>4, <1>5 DEF Values

\* What an operation does has a code, and a value whose length fits in a number.
LEMMA ActionParts ==
    ASSUME NEW op \in OperationType
    PROVE  /\ op.action.tag \in ToSet(Actions) /\ op.action = [tag |-> op.action.tag, value |-> ValueOf(op)]
           /\ ValueOf(op) \in Values /\ ValueLen(ValueOf(op)) \in UnsignedNumber
<1> DEFINE act == op.action
<1>1. act \in WhatOps
  BY OperationParts
<1>2. "set" \in ToSet(Actions) /\ "inc" \in ToSet(Actions)
  <2>1. 2 \in DOMAIN Actions /\ 6 \in DOMAIN Actions /\ Actions[2] = "set" /\ Actions[6] = "inc"
    BY DEF Actions
  <2> QED
    BY <2>1 DEF ToSet
<1>3. CASE act \in [tag : {"set", "inc"}, value : {value \in Values : ValueLen(value) \in UnsignedNumber}]
  <2>1. /\ act.tag \in {"set", "inc"} /\ act.value \in Values /\ ValueLen(act.value) \in UnsignedNumber
        /\ act = [tag |-> act.tag, value |-> act.value]
    BY <1>3
  <2>2. ValueOf(op) = act.value
    BY <2>1 DEF ValueOf
  <2> HIDE DEF act
  <2> QED
    BY <1>2, <2>1, <2>2 DEF act
<1>4. CASE act \in [tag : ToSet(Actions) \ {"set", "inc"}, value : {NullValue}]
  <2>1. /\ act.tag \in ToSet(Actions) /\ act.tag \notin {"set", "inc"} /\ act.value = NullValue
        /\ act = [tag |-> act.tag, value |-> act.value]
    BY <1>4
  <2>2. ValueOf(op) = NullValue
    BY <2>1 DEF ValueOf
  <2>3. NullValue \in Values /\ NullValue.type = "null"
    BY DEF NullValue, Values
  <2>4. ValueLen(NullValue) \in UnsignedNumber
    <3>1. RawValue(NullValue) = <<>>
      BY <2>3 DEF RawValue
    <3>2. TypeCode("null") \in 0..9
      BY <2>3, RawFacts, TypeCodes
    <3>3. ValueLen(NullValue) = 16 * 0 + TypeCode("null")
      BY <2>3, <3>1 DEF ValueLen
    <3>4. 128 \in UnsignedNumber
      BY ChangesAssumption
    <3> QED
      BY <3>2, <3>3, <3>4, ModulusFacts DEF UnsignedNumber
  <2> HIDE DEF act
  <2> QED
    BY <2>1, <2>2, <2>3, <2>4 DEF act
<1> HIDE DEF act
<1> QED
  BY <1>1, <1>3, <1>4 DEF WhatOps

\* The length and the type are got back from their number.
LEMMA LenAndType ==
    ASSUME NEW value \in Values
    PROVE  /\ ValueLen(value) \div 16 = Len(RawValue(value)) /\ ValueTypes[(ValueLen(value) % 16) + 1] = value.type
           /\ Len(RawValue(value)) \in Nat
<1>1. RawValue(value) \in Seq(Nat) /\ value.type \in ToSet(ValueTypes)
  BY RawFacts
<1>2. TypeCode(value.type) \in 0..9 /\ ValueTypes[TypeCode(value.type) + 1] = value.type
  BY <1>1, TypeCodes
<1> DEFINE l == Len(RawValue(value))
           c == TypeCode(value.type)
<1>3. l \in Nat /\ ValueLen(value) = 16 * l + c
  BY <1>1 DEF ValueLen
<1> HIDE DEF l, c
<1>4. (16 * l + c) \div 16 = l /\ (16 * l + c) % 16 = c
  BY <1>2, <1>3 DEF c
<1> QED
  BY <1>2, <1>3, <1>4 DEF l, c

\* The one of a cell that has one.
LEMMA TheOneIs == \A v : TheOne({v}) = v
BY DEF TheOne

\* The cell of an operation in each column.
LEMMA CellIs ==
    ASSUME NEW op, NEW actors
    PROVE  /\ Cell(op, actors, COL_OBJ_ACTOR) = {ActorIndex(actors, id[2]) : id \in op.obj}
           /\ Cell(op, actors, COL_OBJ_CTR) = {id[1] : id \in op.obj}
           /\ Cell(op, actors, COL_KEY_ACTOR) = KeyActor(op.key, actors)
           /\ Cell(op, actors, COL_KEY_CTR) = KeyCounter(op.key)
           /\ Cell(op, actors, COL_KEY_STR) = KeyString(op.key)
           /\ Cell(op, actors, COL_INSERT) = {op.insert}
           /\ Cell(op, actors, COL_ACTION) = {ActionCode(op.action.tag)}
           /\ Cell(op, actors, COL_VAL_LEN) = {ValueLen(ValueOf(op))}
           /\ Cell(op, actors, COL_PRED_NUM) = {Len(op.pred)}
BY DEF Cell, COL_OBJ_ACTOR, COL_OBJ_CTR, COL_KEY_ACTOR, COL_KEY_CTR, COL_KEY_STR, COL_INSERT, COL_ACTION,
       COL_VAL_LEN, COL_REF_ACTOR, COL_REF_CTR, COL_PRED_NUM

\* An id is read from its counter and the index of its actor.
LEMMA IdRead ==
    ASSUME NEW actors \in Seq(Nat), NEW id \in OpIds, \E k \in 1..Len(actors) : actors[k] = id[2]
    PROVE  IdAt({id[1]}, {ActorIndex(actors, id[2])}, actors) = id
<1>1. actors[ActorIndex(actors, id[2]) + 1] = id[2]
  BY IndexFacts
<1>2. id = <<id[1], id[2]>>
  BY DEF OpIds
<1>3. TheOne({id[1]}) = id[1] /\ TheOne({ActorIndex(actors, id[2])}) = ActorIndex(actors, id[2])
  BY TheOneIs
<1> QED
  BY <1>1, <1>2, <1>3 DEF IdAt

\* All ids of operations have actors that are named.
Named(ops, actors) ==
    /\ actors \in Seq(Nat) /\ Len(actors) \in UnsignedNumber
    /\ \A i \in 1..Len(ops) : \A id \in IdsIn(ops[i]) : \E k \in 1..Len(actors) : actors[k] = id[2]

\* An object is read from its cells.
LEMMA ObjectRead ==
    ASSUME NEW ops \in Seq(OperationType), NEW actors, Named(ops, actors), NEW i \in 1..Len(ops)
    PROVE  ReadObject(actors, Cell(ops[i], actors, COL_OBJ_ACTOR), Cell(ops[i], actors, COL_OBJ_CTR)) = ops[i].obj
<1> DEFINE op == ops[i]
<1>1. op \in OperationType
  OBVIOUS
<1>2. /\ Cell(op, actors, COL_OBJ_ACTOR) = {ActorIndex(actors, id[2]) : id \in op.obj}
      /\ Cell(op, actors, COL_OBJ_CTR) = {id[1] : id \in op.obj}
  BY CellIs
<1>3. op.obj \subseteq OpIds /\ (op.obj = {} \/ \E x : op.obj = {x})
  <2>1. op.obj \subseteq OpIds /\ \A x, y \in op.obj : x = y
    BY <1>1, OperationParts
  <2> QED
    BY <2>1
<1>4. op.obj \subseteq IdsIn(op)
  BY DEF IdsIn
<1>5. CASE op.obj = {}
  BY <1>2, <1>5 DEF ReadObject
<1>6. CASE op.obj # {}
  <2>1. PICK x : op.obj = {x}
    BY <1>3, <1>6
  <2>2. x \in OpIds /\ \E k \in 1..Len(actors) : actors[k] = x[2]
    BY <1>3, <1>4, <2>1 DEF Named
  <2>3. IdAt({x[1]}, {ActorIndex(actors, x[2])}, actors) = x
    BY <2>2, IdRead DEF Named
  <2>4. Cell(op, actors, COL_OBJ_ACTOR) = {ActorIndex(actors, x[2])} /\ Cell(op, actors, COL_OBJ_CTR) = {x[1]}
    BY <1>2, <2>1
  <2> QED
    BY <2>1, <2>3, <2>4 DEF ReadObject
<1> QED
  BY <1>5, <1>6

\* A key is read from its cells.
LEMMA KeyRead ==
    ASSUME NEW ops \in Seq(OperationType), NEW actors, Named(ops, actors), NEW i \in 1..Len(ops)
    PROVE  ReadKey(actors, KeyActor(ops[i].key, actors), KeyCounter(ops[i].key), KeyString(ops[i].key)) = ops[i].key
<1> DEFINE key == ops[i].key
<1>1. ops[i] \in OperationType
  OBVIOUS
<1>2. key \in Keys
  BY <1>1, OperationParts
<1>3. CASE key.tag = "map" /\ key = [tag |-> "map", str |-> key.str]
  <2>1. KeyActor(key, actors) = {} /\ KeyCounter(key) = {} /\ KeyString(key) = {key.str}
    BY <1>3 DEF KeyActor, KeyCounter, KeyString
  <2>2. ReadKey(actors, {}, {}, {key.str}) = [tag |-> "map", str |-> TheOne({key.str})]
    BY DEF ReadKey
  <2> QED
    BY <1>3, <2>1, <2>2, TheOneIs
<1>4. CASE key.tag = "head" /\ key = [tag |-> "head"]
  <2>1. KeyActor(key, actors) = {} /\ KeyCounter(key) = {0} /\ KeyString(key) = {}
    BY <1>4 DEF KeyActor, KeyCounter, KeyString
  <2>2. ReadKey(actors, {}, {0}, {}) = [tag |-> "head"]
    BY DEF ReadKey
  <2> QED
    BY <1>4, <2>1, <2>2
<1>5. CASE key.tag = "seq" /\ key.id \in OpIds /\ key = [tag |-> "seq", id |-> key.id]
  <2> DEFINE a == ActorIndex(actors, key.id[2])
  <2>1. KeyActor(key, actors) = {a} /\ KeyCounter(key) = {key.id[1]} /\ KeyString(key) = {}
    BY <1>5 DEF KeyActor, KeyCounter, KeyString
  <2>2. key.id \in IdsIn(ops[i])
    BY <1>5 DEF IdsIn
  <2>3. IdAt({key.id[1]}, {a}, actors) = key.id
    BY <1>5, <2>2, IdRead DEF Named
  <2>4. ReadKey(actors, {a}, {key.id[1]}, {}) = [tag |-> "seq", id |-> <<TheOne({key.id[1]}), actors[TheOne({a}) + 1]>>]
    BY DEF ReadKey
  <2>5. <<TheOne({key.id[1]}), actors[TheOne({a}) + 1]>> = key.id
    BY <2>3 DEF IdAt
  <2> QED
    BY <1>5, <2>1, <2>4, <2>5
<1> QED
  BY <1>2, <1>3, <1>4, <1>5, KeyParts

-----------------------------------------------------------------------------
(* Rows *)

\* How each column of operations is encoded.
LEMMA ColumnKinds ==
    /\ \A col \in {COL_OBJ_ACTOR, COL_OBJ_CTR, COL_KEY_ACTOR, COL_ACTION, COL_VAL_LEN, COL_PRED_NUM, COL_PRED_ACTOR} :
           Kind(col) = "unsigned"
    /\ Kind(COL_KEY_CTR) = "delta" /\ Kind(COL_PRED_CTR) = "delta"
    /\ Kind(COL_KEY_STR) = "string" /\ Kind(COL_INSERT) = "boolean"
<1>1. /\ 1 % 16 = 1 /\ 2 % 16 = 2 /\ 17 % 16 = 1 /\ 66 % 16 = 2 /\ 86 % 16 = 6 /\ 112 % 16 = 0 /\ 113 % 16 = 1
      /\ 19 % 16 = 3 /\ 115 % 16 = 3 /\ 21 % 16 = 5 /\ 52 % 16 = 4
  OBVIOUS
<1> QED
  BY <1>1 DEF Kind, COL_OBJ_ACTOR, COL_OBJ_CTR, COL_KEY_ACTOR, COL_ACTION, COL_VAL_LEN, COL_PRED_NUM, COL_PRED_ACTOR,
              COL_KEY_CTR, COL_PRED_CTR, COL_KEY_STR, COL_INSERT

\* Counters are near each other.
LEMMA CountersAre ==
    /\ Counters \subseteq UnsignedNumber /\ Near(Counters) /\ 0 \in Counters
<1>1. HalfModulus \in Nat /\ HalfModulus >= 1 /\ Modulus = 2 * HalfModulus
  <2>1. CONTINUATION_BIT \in Nat /\ CONTINUATION_BIT >= 1
    BY BitFacts
  <2> QED
    BY <2>1, ModulusFacts
<1>2. \A v \in Counters : v \in Nat /\ v < HalfModulus /\ ToSigned(v) = v
  BY <1>1 DEF Counters, ToSigned
<1>3. 0 \in Counters
  BY <1>1 DEF Counters
<1>4. \A v, w \in Counters \cup {0} : ToSigned(v) - ToSigned(w) \in SignedNumber
  BY <1>1, <1>2, <1>3 DEF SignedNumber
<1>5. Counters \subseteq UnsignedNumber
  BY <1>1 DEF Counters, UnsignedNumber
<1> QED
  BY <1>3, <1>4, <1>5 DEF Near

\* Columns of each kind are read as they were written.
LEMMA ColumnsRead ==
    /\ \A column \in Seq(CellsOf("unsigned")) : Len(column) \in SignedNumber => Decodes("unsigned", column)
    /\ \A column \in Seq(CellsWith(Counters)) : Len(column) \in SignedNumber => Decodes("delta", column)
    /\ \A column \in Seq(CellsOf("string")) : Len(column) \in SignedNumber => Decodes("string", column)
    /\ \A column \in Seq(BooleanCells) : Len(column) \in SignedNumber => Decodes("boolean", column)
<1>1. ASSUME NEW column \in Seq(CellsOf("unsigned")), Len(column) \in SignedNumber
      PROVE  Decodes("unsigned", column)
  <2>1. DecodeRle("unsigned", EncodeRle("unsigned", column), Len(column)) = column
    BY <1>1, RleRoundTrip DEF Kinds
  <2> QED
    BY <2>1 DEF Decodes, DecodeColumn, EncodeColumn
<1>2. ASSUME NEW column \in Seq(CellsWith(Counters)), Len(column) \in SignedNumber
      PROVE  Decodes("delta", column)
  <2>1. DecodeDelta(EncodeDelta(column), Len(column)) = column
    BY <1>2, CountersAre, DeltaRoundTrip
  <2> QED
    BY <2>1 DEF Decodes, DecodeColumn, EncodeColumn
<1> QED
  BY <1>1, <1>2, StringDecodes, BooleanDecodes

\* The index of an actor of an id fits in a number.
LEMMA IndexFits ==
    ASSUME NEW ops, NEW actors, Named(ops, actors), NEW i \in 1..Len(ops), NEW id \in IdsIn(ops[i])
    PROVE  ActorIndex(actors, id[2]) \in UnsignedNumber
<1>1. /\ actors \in Seq(Nat) /\ Len(actors) \in UnsignedNumber
      /\ \E k \in 1..Len(actors) : actors[k] = id[2]
  BY DEF Named
<1>2. ActorIndex(actors, id[2]) \in 0..(Len(actors) - 1)
  BY <1>1, IndexFacts
<1> QED
  BY <1>1, <1>2, ModulusFacts DEF UnsignedNumber

\* The types of the cells of an operation.
LEMMA CellTypes ==
    ASSUME NEW ops \in Seq(OperationType), NEW actors, Named(ops, actors), NEW i \in 1..Len(ops)
    PROVE  /\ \A col \in {COL_OBJ_ACTOR, COL_OBJ_CTR, COL_KEY_ACTOR, COL_ACTION, COL_VAL_LEN, COL_PRED_NUM} :
                  Cell(ops[i], actors, col) \in CellsOf("unsigned")
           /\ Cell(ops[i], actors, COL_KEY_CTR) \in CellsWith(Counters)
           /\ Cell(ops[i], actors, COL_KEY_STR) \in CellsOf("string")
           /\ Cell(ops[i], actors, COL_INSERT) \in BooleanCells
<1> DEFINE op == ops[i]
           U == CellsOf("unsigned")
<1>1. op \in OperationType
  OBVIOUS
<1>2. {} \in U /\ \A n \in UnsignedNumber : {n} \in U
  BY ItemsAre DEF CellsOf
<1>3. \A id \in OpIds : id[1] \in Counters
  BY DEF OpIds
<1> HIDE DEF U
<1>4. op.obj = {} \/ \E x \in IdsIn(op) : x \in OpIds /\ op.obj = {x}
  <2>1. op.obj \subseteq OpIds /\ op.obj \subseteq IdsIn(op) /\ \A x, y \in op.obj : x = y
    BY <1>1, OperationParts DEF IdsIn
  <2> QED
    BY <2>1
<1>5. Cell(op, actors, COL_OBJ_ACTOR) \in U
  <2>1. CASE op.obj = {}
    <3>1. Cell(op, actors, COL_OBJ_ACTOR) = {ActorIndex(actors, id[2]) : id \in op.obj}
      BY CellIs
    <3>2. Cell(op, actors, COL_OBJ_ACTOR) = {}
      BY <2>1, <3>1
    <3> QED
      BY <1>2, <3>2
  <2>2. CASE op.obj # {}
    <3>1. PICK x \in IdsIn(op) : op.obj = {x}
      BY <1>4, <2>2
    <3>2. Cell(op, actors, COL_OBJ_ACTOR) = {ActorIndex(actors, x[2])}
      BY <3>1, CellIs
    <3>3. ActorIndex(actors, x[2]) \in UnsignedNumber
      BY IndexFits
    <3> QED
      BY <1>2, <3>2, <3>3
  <2> QED
    BY <2>1, <2>2
<1>6. Cell(op, actors, COL_OBJ_CTR) \in U
  <2>1. CASE op.obj = {}
    <3>1. Cell(op, actors, COL_OBJ_CTR) = {id[1] : id \in op.obj}
      BY CellIs
    <3>2. Cell(op, actors, COL_OBJ_CTR) = {}
      BY <2>1, <3>1
    <3> QED
      BY <1>2, <3>2
  <2>2. CASE op.obj # {}
    <3>1. PICK x \in IdsIn(op) : x \in OpIds /\ op.obj = {x}
      BY <1>4, <2>2
    <3>2. Cell(op, actors, COL_OBJ_CTR) = {x[1]}
      BY <3>1, CellIs
    <3>3. x[1] \in UnsignedNumber
      BY <1>3, <3>1, CountersAre
    <3> QED
      BY <1>2, <3>2, <3>3
  <2> QED
    BY <2>1, <2>2
<1>7. /\ Cell(op, actors, COL_KEY_ACTOR) \in U /\ Cell(op, actors, COL_KEY_CTR) \in CellsWith(Counters)
      /\ Cell(op, actors, COL_KEY_STR) \in CellsOf("string")
  <2> DEFINE key == op.key
  <2>1. key \in Keys
    BY <1>1, OperationParts
  <2>2. /\ Cell(op, actors, COL_KEY_ACTOR) = KeyActor(key, actors) /\ Cell(op, actors, COL_KEY_CTR) = KeyCounter(key)
        /\ Cell(op, actors, COL_KEY_STR) = KeyString(key)
    BY CellIs
  <2>3. {} \in CellsWith(Counters) /\ \A n \in Counters : {n} \in CellsWith(Counters)
    BY DEF CellsWith
  <2>4. {} \in CellsOf("string") /\ \A s \in Strings : {s} \in CellsOf("string")
    BY ItemsAre DEF CellsOf, Strings
  <2>5. CASE key.tag = "map" /\ key.str \in Strings
    <3>1. KeyActor(key, actors) = {} /\ KeyCounter(key) = {} /\ KeyString(key) = {key.str}
      BY <2>5 DEF KeyActor, KeyCounter, KeyString
    <3> QED
      BY <1>2, <2>2, <2>3, <2>4, <2>5, <3>1
  <2>6. CASE key.tag = "head"
    <3>1. KeyActor(key, actors) = {} /\ KeyCounter(key) = {0} /\ KeyString(key) = {}
      BY <2>6 DEF KeyActor, KeyCounter, KeyString
    <3> QED
      BY <1>2, <2>2, <2>3, <2>4, <3>1, CountersAre
  <2>7. CASE key.tag = "seq" /\ key.id \in OpIds
    <3>1. /\ KeyActor(key, actors) = {ActorIndex(actors, key.id[2])} /\ KeyCounter(key) = {key.id[1]}
          /\ KeyString(key) = {}
      BY <2>7 DEF KeyActor, KeyCounter, KeyString
    <3>2. key.id \in IdsIn(op)
      BY <2>7 DEF IdsIn
    <3>3. ActorIndex(actors, key.id[2]) \in UnsignedNumber
      BY <3>2, IndexFits
    <3>4. key.id[1] \in Counters
      BY <1>3, <2>7
    <3> QED
      BY <1>2, <2>2, <2>3, <2>4, <3>1, <3>3, <3>4
  <2> QED
    BY <2>1, <2>5, <2>6, <2>7, KeyParts
<1>8. Cell(op, actors, COL_INSERT) \in BooleanCells
  BY <1>1, OperationParts, CellIs DEF BooleanCells
<1>9. Cell(op, actors, COL_ACTION) \in U
  <2>1. ActionCode(op.action.tag) \in 0..6
    BY <1>1, ActionParts, ActionCodes
  <2>2. 128 \in UnsignedNumber
    BY ChangesAssumption
  <2>3. ActionCode(op.action.tag) \in UnsignedNumber
    BY <2>1, <2>2, ModulusFacts DEF UnsignedNumber
  <2> QED
    BY <1>2, <2>3, CellIs
<1>10. Cell(op, actors, COL_VAL_LEN) \in U
  <2>1. ValueLen(ValueOf(op)) \in UnsignedNumber
    BY <1>1, ActionParts
  <2>2. Cell(op, actors, COL_VAL_LEN) = {ValueLen(ValueOf(op))}
    BY CellIs
  <2> QED
    BY <1>2, <2>1, <2>2
<1>11. Cell(op, actors, COL_PRED_NUM) \in U
  BY <1>1, <1>2, OperationParts, CellIs
<1> QED
  BY <1>5, <1>6, <1>7, <1>8, <1>9, <1>10, <1>11 DEF U

\* The cells of operations in a column that has one for each.
Rows(ops, actors, col) == [i \in 1..Len(ops) |-> Cell(ops[i], actors, col)]

\* The rows are sequences of what their cells are.
LEMMA RowTypes ==
    ASSUME NEW ops \in Seq(OperationType), NEW actors, Named(ops, actors)
    PROVE  /\ \A col : Len(Rows(ops, actors, col)) = Len(ops)
           /\ \A col \in {COL_OBJ_ACTOR, COL_OBJ_CTR, COL_KEY_ACTOR, COL_ACTION, COL_VAL_LEN, COL_PRED_NUM} :
                  Rows(ops, actors, col) \in Seq(CellsOf("unsigned"))
           /\ Rows(ops, actors, COL_KEY_CTR) \in Seq(CellsWith(Counters))
           /\ Rows(ops, actors, COL_KEY_STR) \in Seq(CellsOf("string"))
           /\ Rows(ops, actors, COL_INSERT) \in Seq(BooleanCells)
<1> DEFINE n == Len(ops)
<1>1. n \in Nat
  OBVIOUS
<1>2. ASSUME NEW S, NEW col, \A i \in 1..n : Cell(ops[i], actors, col) \in S
      PROVE  Rows(ops, actors, col) \in Seq(S)
  <2> HIDE DEF n
  <2> QED
    BY <1>1, <1>2 DEF Rows, n
<1>3. \A col : Len(Rows(ops, actors, col)) = n
  BY <1>1 DEF Rows
<1>4. \A col \in {COL_OBJ_ACTOR, COL_OBJ_CTR, COL_KEY_ACTOR, COL_ACTION, COL_VAL_LEN, COL_PRED_NUM} :
          Rows(ops, actors, col) \in Seq(CellsOf("unsigned"))
  <2> TAKE col \in {COL_OBJ_ACTOR, COL_OBJ_CTR, COL_KEY_ACTOR, COL_ACTION, COL_VAL_LEN, COL_PRED_NUM}
  <2>1. \A i \in 1..n : Cell(ops[i], actors, col) \in CellsOf("unsigned")
    BY CellTypes
  <2> QED
    BY <1>2, <2>1
<1>5. /\ \A i \in 1..n : Cell(ops[i], actors, COL_KEY_CTR) \in CellsWith(Counters)
      /\ \A i \in 1..n : Cell(ops[i], actors, COL_KEY_STR) \in CellsOf("string")
      /\ \A i \in 1..n : Cell(ops[i], actors, COL_INSERT) \in BooleanCells
  BY CellTypes
<1> QED
  BY <1>2, <1>3, <1>4, <1>5

\* A column of operations has its rows.
LEMMA ColumnOfRows ==
    ASSUME NEW ops \in Seq(OperationType), NEW actors, NEW col \in OpColumns \cup {COL_PRED_NUM}
    PROVE  ColumnData(ops, actors, col) = EncodeColumn(Kind(col), Rows(ops, actors, col))
<1>1. col \notin {COL_VAL_RAW, COL_PRED_ACTOR, COL_PRED_CTR}
  BY DEF OpColumns, COL_OBJ_ACTOR, COL_OBJ_CTR, COL_KEY_ACTOR, COL_KEY_CTR, COL_KEY_STR, COL_INSERT, COL_ACTION,
         COL_VAL_LEN, COL_PRED_NUM, COL_VAL_RAW, COL_PRED_ACTOR, COL_PRED_CTR
<1>2. DOMAIN ops = 1..Len(ops)
  OBVIOUS
<1>3. Cells(ops, actors, col) = Rows(ops, actors, col)
  BY <1>1, <1>2 DEF Cells, Rows
<1> QED
  BY <1>1, <1>3 DEF ColumnData

\* The rows are read from each column.
LEMMA RowsRead ==
    ASSUME NEW ops \in Seq(OperationType), NEW actors, Named(ops, actors), Len(ops) \in SignedNumber,
           NEW col \in OpColumns \cup {COL_PRED_NUM}
    PROVE  DecodeColumn(Kind(col), ColumnData(ops, actors, col), Len(ops)) = Rows(ops, actors, col)
<1> DEFINE rows == Rows(ops, actors, col)
<1>1. ColumnData(ops, actors, col) = EncodeColumn(Kind(col), rows) /\ Len(rows) = Len(ops)
  BY ColumnOfRows, RowTypes
<1>2. Decodes(Kind(col), rows)
  <2>1. CASE col \in {COL_OBJ_ACTOR, COL_OBJ_CTR, COL_KEY_ACTOR, COL_ACTION, COL_VAL_LEN, COL_PRED_NUM}
    <3>1. Kind(col) = "unsigned" /\ rows \in Seq(CellsOf("unsigned"))
      BY <2>1, ColumnKinds, RowTypes
    <3> QED
      BY <1>1, <3>1, ColumnsRead
  <2>2. CASE col = COL_KEY_CTR
    <3>1. Kind(col) = "delta" /\ rows \in Seq(CellsWith(Counters))
      BY <2>2, ColumnKinds, RowTypes
    <3> QED
      BY <1>1, <3>1, ColumnsRead
  <2>3. CASE col = COL_KEY_STR
    <3>1. Kind(col) = "string" /\ rows \in Seq(CellsOf("string"))
      BY <2>3, ColumnKinds, RowTypes
    <3> QED
      BY <1>1, <3>1, ColumnsRead
  <2>4. CASE col = COL_INSERT
    <3>1. Kind(col) = "boolean" /\ rows \in Seq(BooleanCells)
      BY <2>4, ColumnKinds, RowTypes
    <3> QED
      BY <1>1, <3>1, ColumnsRead
  <2> QED
    BY <2>1, <2>2, <2>3, <2>4 DEF OpColumns
<1> HIDE DEF rows
<1> QED
  BY <1>1, <1>2 DEF Decodes, rows

-----------------------------------------------------------------------------
(* Predecessors *)

PredsOf(ops) == [i \in DOMAIN ops |-> ops[i].pred]
\* The ids whose actors are named.
NamedIds(actors) == {id \in OpIds : \E k \in 1..Len(actors) : actors[k] = id[2]}

\* Predecessors have actors that are named.
LEMMA PredTypes ==
    ASSUME NEW ops \in Seq(OperationType), NEW actors, Named(ops, actors)
    PROVE  /\ PredsOf(ops) \in Seq(Seq(NamedIds(actors))) /\ Len(PredsOf(ops)) = Len(ops)
           /\ \A i \in 1..Len(ops) : PredsOf(ops)[i] = ops[i].pred
           /\ Preds(ops) \in Seq(NamedIds(actors))
<1> DEFINE n == Len(ops)
           S == NamedIds(actors)
           D == Seq(S)
           ps == PredsOf(ops)
<1>1. n \in Nat /\ DOMAIN ops = 1..n /\ \A i \in 1..n : ops[i] \in OperationType
  OBVIOUS
<1>2. ASSUME NEW i \in 1..n
      PROVE  ops[i].pred \in D
  <2> DEFINE p == ops[i].pred
  <2>1. p \in Seq(OpIds)
    BY <1>1, OperationParts
  <2>2. \A j \in 1..Len(p) : p[j] \in IdsIn(ops[i])
    <3>1. DOMAIN p = 1..Len(p)
      BY <2>1
    <3> QED
      BY <3>1 DEF IdsIn, ToSet
  <2>3. \A j \in 1..Len(p) : p[j] \in S
    <3> TAKE j \in 1..Len(p)
    <3>1. p[j] \in OpIds
      BY <2>1
    <3>2. \E k \in 1..Len(actors) : actors[k] = p[j][2]
      BY <2>2 DEF Named
    <3> QED
      BY <3>1, <3>2 DEF NamedIds
  <2> HIDE DEF p, S
  <2>4. p = [j \in 1..Len(p) |-> p[j]] /\ Len(p) \in Nat
    BY <2>1
  <2>5. p \in Seq(S)
    BY <2>3, <2>4
  <2> QED
    BY <2>5 DEF p
<1> HIDE DEF S
<1>3. ps = [i \in 1..n |-> ops[i].pred]
  BY <1>1 DEF PredsOf
<1>4. ps \in [1..n -> D]
  BY <1>2, <1>3
<1> HIDE DEF D, ps, n
<1>5. ps \in Seq(D) /\ Len(ps) = n /\ \A i \in 1..n : ps[i] = ops[i].pred
  BY <1>1, <1>3, <1>4
<1>6. FlattenSeq(ps) \in Seq(S)
  BY <1>5, FlattenFacts DEF D
<1>7. FlattenSeq(ps) = Preds(ops)
  BY DEF Preds, ps, PredsOf
<1> QED
  BY <1>5, <1>6, <1>7 DEF D, S, ps, n

\* The two columns of ids are read as they were written.
LEMMA IdColumnsRead ==
    ASSUME NEW actors \in Seq(Nat), Len(actors) \in UnsignedNumber, NEW ids \in Seq(NamedIds(actors)),
           Len(ids) \in SignedNumber
    PROVE  /\ ActorCells(ids, actors) \in Seq(CellsOf("unsigned")) /\ CounterCells(ids) \in Seq(CellsWith(Counters))
           /\ Decodes("unsigned", ActorCells(ids, actors)) /\ Decodes("delta", CounterCells(ids))
           /\ Len(ActorCells(ids, actors)) = Len(ids) /\ Len(CounterCells(ids)) = Len(ids)
           /\ IdsFrom(CounterCells(ids), ActorCells(ids, actors), actors) = ids
<1> DEFINE n == Len(ids)
           a == ActorCells(ids, actors)
           c == CounterCells(ids)
<1>1. /\ n \in Nat /\ DOMAIN ids = 1..n /\ ids = [j \in 1..n |-> ids[j]]
      /\ \A j \in 1..n : ids[j] \in OpIds /\ \E k \in 1..Len(actors) : actors[k] = ids[j][2]
  BY DEF NamedIds
<1>2. a = [j \in 1..n |-> {ActorIndex(actors, ids[j][2])}] /\ c = [j \in 1..n |-> {ids[j][1]}]
  BY <1>1 DEF ActorCells, CounterCells
<1>3. Len(a) = n /\ Len(c) = n /\ DOMAIN c = 1..n
  BY <1>1, <1>2
<1>4. ASSUME NEW j \in 1..n
      PROVE  /\ a[j] = {ActorIndex(actors, ids[j][2])} /\ a[j] \in CellsOf("unsigned")
             /\ c[j] = {ids[j][1]} /\ c[j] \in CellsWith(Counters) /\ IdAt(c[j], a[j], actors) = ids[j]
  <2>1. ActorIndex(actors, ids[j][2]) \in 0..(Len(actors) - 1)
    BY <1>1, IndexFacts
  <2>2. ActorIndex(actors, ids[j][2]) \in UnsignedNumber
    BY <2>1, ModulusFacts DEF UnsignedNumber
  <2>3. ids[j][1] \in Counters
    BY <1>1 DEF OpIds
  <2>4. a[j] = {ActorIndex(actors, ids[j][2])} /\ c[j] = {ids[j][1]}
    BY <1>2
  <2>5. IdAt({ids[j][1]}, {ActorIndex(actors, ids[j][2])}, actors) = ids[j]
    BY <1>1, IdRead
  <2> QED
    BY <2>2, <2>3, <2>4, <2>5, ItemsAre DEF CellsOf, CellsWith
<1>5. a \in Seq(CellsOf("unsigned")) /\ c \in Seq(CellsWith(Counters))
  <2> DEFINE U == CellsOf("unsigned")
             V == CellsWith(Counters)
  <2>1. \A j \in 1..n : a[j] \in U /\ c[j] \in V
    BY <1>4
  <2>2. a = [j \in 1..n |-> a[j]] /\ c = [j \in 1..n |-> c[j]]
    BY <1>2
  <2> HIDE DEF U, V, a, c, n
  <2>3. a \in [1..n -> U] /\ c \in [1..n -> V]
    BY <2>1, <2>2, Zenon
  <2>4. \A S, f : f \in [1..n -> S] => f \in Seq(S)
    BY <1>1
  <2>5. a \in Seq(U) /\ c \in Seq(V)
    BY <2>3, <2>4, Zenon
  <2> QED
    BY <2>5 DEF U, V
<1>6. IdsFrom(c, a, actors) = [j \in 1..n |-> ids[j]]
  <2>1. IdsFrom(c, a, actors) = [j \in 1..n |-> IdAt(c[j], a[j], actors)]
    BY <1>3 DEF IdsFrom
  <2> HIDE DEF a, c, n
  <2> QED
    BY <1>4, <2>1
<1>7. Decodes("unsigned", a) /\ Decodes("delta", c)
  <2> HIDE DEF a, c
  <2> QED
    BY <1>3, <1>5, ColumnsRead
<1> QED
  BY <1>1, <1>3, <1>5, <1>6, <1>7

\* Columns hold operations.
Hold(columns, ops, actors) == \A col \in ToSet(ColumnIds) : columns[col] = ColumnData(ops, actors, col)

\* The ids of columns.
LEMMA ColumnIdsAre ==
    ToSet(ColumnIds) = OpColumns \cup {COL_VAL_RAW, COL_REF_ACTOR, COL_REF_CTR, COL_PRED_NUM, COL_PRED_ACTOR, COL_PRED_CTR}
<1>1. DOMAIN ColumnIds = 1..14
  BY DEF ColumnIds
<1>2. 1..14 = {1, 2, 3, 4, 5, 6, 7, 8, 9, 10, 11, 12, 13, 14}
  OBVIOUS
<1>3. ToSet(ColumnIds) = {ColumnIds[1], ColumnIds[2], ColumnIds[3], ColumnIds[4], ColumnIds[5], ColumnIds[6],
                          ColumnIds[7], ColumnIds[8], ColumnIds[9], ColumnIds[10], ColumnIds[11], ColumnIds[12],
                          ColumnIds[13], ColumnIds[14]}
  <2> SUFFICES ASSUME NEW x
               PROVE  (\E i \in 1..14 : x = ColumnIds[i])
                          <=> x \in {ColumnIds[1], ColumnIds[2], ColumnIds[3], ColumnIds[4], ColumnIds[5], ColumnIds[6],
                                     ColumnIds[7], ColumnIds[8], ColumnIds[9], ColumnIds[10], ColumnIds[11],
                                     ColumnIds[12], ColumnIds[13], ColumnIds[14]}
    BY <1>1, Zenon DEF ToSet
  <2> QED
    BY <1>2
<1> QED
  BY <1>3 DEF ColumnIds, OpColumns

\* The predecessors of each operation are its part of all.
LEMMA PredsRead ==
    ASSUME NEW ops \in Seq(OperationType), NEW actors, Named(ops, actors), NEW columns, Hold(columns, ops, actors),
           Len(ops) \in SignedNumber, Len(Preds(ops)) \in SignedNumber
    PROVE  ReadIds(columns, actors, COL_PRED_NUM, COL_PRED_ACTOR, COL_PRED_CTR, Len(ops)) = PredsOf(ops)
<1> DEFINE n == Len(ops)
           ps == PredsOf(ops)
           ids == Preds(ops)
           S == NamedIds(actors)
           a == ActorCells(ids, actors)
           c == CounterCells(ids)
           num == Numbers(Rows(ops, actors, COL_PRED_NUM))
           cells2 == DecodeCells(columns, {COL_PRED_ACTOR, COL_PRED_CTR}, SumOf(num))
<1>1. n \in Nat /\ ps \in Seq(Seq(S)) /\ Len(ps) = n /\ ids \in Seq(S) /\ \A i \in 1..n : ps[i] = ops[i].pred
  BY PredTypes
<1>2. ids = FlattenSeq(ps)
  BY DEF Preds, PredsOf
<1>3. num = Lens(ps)
  <2>1. num = [i \in 1..n |-> TheOne(Cell(ops[i], actors, COL_PRED_NUM))]
    BY DEF Numbers, Rows
  <2>2. \A i \in 1..n : TheOne(Cell(ops[i], actors, COL_PRED_NUM)) = Len(ops[i].pred)
    <3> TAKE i \in 1..n
    <3>1. Cell(ops[i], actors, COL_PRED_NUM) = {Len(ops[i].pred)}
      BY CellIs
    <3> QED
      BY <3>1, TheOneIs
  <2>3. DOMAIN ps = 1..n
    BY DEF PredsOf
  <2>4. Lens(ps) = [i \in 1..n |-> Len(ops[i].pred)]
    BY <1>1, <2>3 DEF Lens
  <2> QED
    BY <2>1, <2>2, <2>4
<1>4. SumOf(num) = Len(ids)
  BY <1>1, <1>2, <1>3, FlattenFacts
<1>5. actors \in Seq(Nat) /\ Len(actors) \in UnsignedNumber
  BY DEF Named
<1>6. /\ Decodes("unsigned", a) /\ Decodes("delta", c) /\ Len(a) = Len(ids) /\ Len(c) = Len(ids)
      /\ IdsFrom(c, a, actors) = ids
  BY <1>1, <1>5, IdColumnsRead
<1>7. /\ columns[COL_PRED_NUM] = ColumnData(ops, actors, COL_PRED_NUM)
      /\ columns[COL_PRED_ACTOR] = ColumnData(ops, actors, COL_PRED_ACTOR)
      /\ columns[COL_PRED_CTR] = ColumnData(ops, actors, COL_PRED_CTR)
  BY ColumnIdsAre DEF Hold
<1>8. /\ ColumnData(ops, actors, COL_PRED_ACTOR) = EncodeColumn("unsigned", a)
      /\ ColumnData(ops, actors, COL_PRED_CTR) = EncodeColumn("delta", c)
  <2>1. /\ COL_PRED_ACTOR # COL_VAL_RAW /\ COL_PRED_CTR # COL_VAL_RAW /\ COL_PRED_ACTOR # COL_PRED_CTR
    BY DEF COL_PRED_ACTOR, COL_PRED_CTR, COL_VAL_RAW
  <2>2. Cells(ops, actors, COL_PRED_ACTOR) = a /\ Cells(ops, actors, COL_PRED_CTR) = c
    BY <2>1 DEF Cells
  <2> QED
    BY <2>1, <2>2, ColumnKinds DEF ColumnData
<1> HIDE DEF a, c, num, ids, ps
<1>9. cells2[COL_PRED_ACTOR] = a /\ cells2[COL_PRED_CTR] = c
  <2>1. /\ cells2[COL_PRED_ACTOR] = DecodeColumn("unsigned", EncodeColumn("unsigned", a), Len(a))
        /\ cells2[COL_PRED_CTR] = DecodeColumn("delta", EncodeColumn("delta", c), Len(c))
    BY <1>4, <1>6, <1>7, <1>8, ColumnKinds DEF DecodeCells
  <2> QED
    BY <1>6, <2>1 DEF Decodes
<1> HIDE DEF cells2
<1>10. DecodeColumn(Kind(COL_PRED_NUM), columns[COL_PRED_NUM], n) = Rows(ops, actors, COL_PRED_NUM)
  BY <1>7, RowsRead
<1>11. ReadIds(columns, actors, COL_PRED_NUM, COL_PRED_ACTOR, COL_PRED_CTR, n) = IdsByRow(num, ids)
  BY <1>6, <1>9, <1>10 DEF ReadIds, ReadNumbered, IdsOfRows, num, cells2
<1>12. IdsByRow(num, ids) = ps
  <2>1. DOMAIN num = 1..n
    BY <1>1, <1>3 DEF Lens
  <2>2. \A i \in 1..n : Part(ids, num, i) = ps[i]
    BY <1>1, <1>2, <1>3, PartOfJoined
  <2>3. ps = [i \in 1..n |-> ps[i]]
    BY <1>1
  <2> QED
    BY <2>1, <2>2, <2>3 DEF IdsByRow
<1> QED
  BY <1>11, <1>12 DEF ps

-----------------------------------------------------------------------------
(* Values, and whole operations *)

RawsOf(ops)       == [i \in DOMAIN ops |-> RawValue(ValueOf(ops[i]))]
ValueLensOf(ops) == [i \in 1..Len(ops) |-> ValueLen(ValueOf(ops[i]))]

\* A value is read from its part of the raw bytes of all.
LEMMA ValueRead ==
    ASSUME NEW ops \in Seq(OperationType), NEW i \in 1..Len(ops)
    PROVE  ReadValue(ValueLensOf(ops), RawValues(ops), i) = ValueOf(ops[i])
<1> DEFINE n == Len(ops)
           raws == RawsOf(ops)
           lens == ValueLensOf(ops)
           v == ValueOf(ops[i])
<1>1. n \in Nat /\ DOMAIN ops = 1..n /\ \A j \in 1..n : ops[j] \in OperationType
  OBVIOUS
<1>2. \A j \in 1..n : ValueOf(ops[j]) \in Values
  BY <1>1, ActionParts
<1>3. /\ \A j \in 1..n : RawValue(ValueOf(ops[j])) \in Seq(Nat)
      /\ \A j \in 1..n : ValueLen(ValueOf(ops[j])) \div 16 = Len(RawValue(ValueOf(ops[j])))
  BY <1>2, RawFacts, LenAndType
<1>4. raws = [j \in 1..n |-> RawValue(ValueOf(ops[j]))] /\ lens = [j \in 1..n |-> ValueLen(ValueOf(ops[j]))]
  BY <1>1 DEF RawsOf, ValueLensOf
<1>5. DOMAIN lens = 1..n /\ DOMAIN raws = 1..n /\ lens[i] = ValueLen(v) /\ raws[i] = RawValue(v)
  BY <1>4
<1>6. [j \in DOMAIN lens |-> lens[j] \div 16] = Lens(raws)
  BY <1>3, <1>4, <1>5 DEF Lens
<1>7. raws \in Seq(Seq(Nat)) /\ Len(raws) = n
  <2> DEFINE B == Seq(Nat)
  <2>1. \A j \in 1..n : RawValue(ValueOf(ops[j])) \in B
    BY <1>3
  <2> HIDE DEF B, raws, n
  <2>2. raws \in [1..n -> B]
    BY <1>4, <2>1
  <2>3. raws \in Seq(B) /\ Len(raws) = n
    BY <1>1, <1>5, <2>2
  <2> QED
    BY <2>3 DEF B
<1> HIDE DEF raws, lens
<1>8. Part(FlattenSeq(raws), Lens(raws), i) = raws[i]
  <2>1. i \in 1..Len(raws)
    BY <1>7
  <2> QED
    BY <1>7, <2>1, PartOfJoined, Zenon
<1>9. RawValues(ops) = FlattenSeq(raws)
  BY DEF RawValues, raws, RawsOf
<1>10. v \in Values
  BY <1>2
<1>11. ValueTypes[(lens[i] % 16) + 1] = v.type
  BY <1>5, <1>10, LenAndType
<1>12. ReadValue(lens, RawValues(ops), i) = ReadRaw(v.type, RawValue(v))
  BY <1>5, <1>6, <1>8, <1>9, <1>11, Zenon DEF ReadValue
<1> QED
  BY <1>10, <1>12, RawFacts DEF lens

\* What an operation does, read from its row.
LEMMA ActionRead ==
    ASSUME NEW ops \in Seq(OperationType), NEW i \in 1..Len(ops)
    PROVE  ReadAction(Actions[ActionCode(ops[i].action.tag) + 1], ValueLensOf(ops), RawValues(ops), i) = ops[i].action
<1> DEFINE tag == ops[i].action.tag
<1>1. ops[i] \in OperationType
  OBVIOUS
<1>2. tag \in ToSet(Actions) /\ ops[i].action = [tag |-> tag, value |-> ValueOf(ops[i])]
  BY <1>1, ActionParts
<1>3. Actions[ActionCode(tag) + 1] = tag
  BY <1>2, ActionCodes
<1>4. ValueOf(ops[i]) = IF tag \in {"set", "inc"} THEN ValueOf(ops[i]) ELSE NullValue
  BY DEF ValueOf
<1>5. ReadValue(ValueLensOf(ops), RawValues(ops), i) = ValueOf(ops[i])
  BY ValueRead
<1> HIDE DEF tag
<1>6. ReadAction(tag, ValueLensOf(ops), RawValues(ops), i) = [tag |-> tag, value |-> ValueOf(ops[i])]
  BY <1>4, <1>5, Zenon DEF ReadAction
<1> QED
  BY <1>2, <1>3, <1>6 DEF tag

\* Each row of the columns is the operation, but for its predecessors.
LEMMA RowIsOperation ==
    ASSUME NEW ops \in Seq(OperationType), NEW actors, Named(ops, actors), NEW rows, NEW i \in 1..Len(ops),
           \A col \in OpColumns : rows[col] = Rows(ops, actors, col)
    PROVE  OpOfRow(rows, ValueLensOf(ops), RawValues(ops), actors, i) =
               [action |-> ops[i].action, obj |-> ops[i].obj, key |-> ops[i].key, insert |-> ops[i].insert]
<1> DEFINE op == ops[i]
<1>1. \A col \in OpColumns : rows[col][i] = Cell(op, actors, col)
  BY DEF Rows
<1>2. /\ rows[COL_OBJ_ACTOR][i] = Cell(op, actors, COL_OBJ_ACTOR) /\ rows[COL_OBJ_CTR][i] = Cell(op, actors, COL_OBJ_CTR)
      /\ rows[COL_KEY_ACTOR][i] = Cell(op, actors, COL_KEY_ACTOR) /\ rows[COL_KEY_CTR][i] = Cell(op, actors, COL_KEY_CTR)
      /\ rows[COL_KEY_STR][i] = Cell(op, actors, COL_KEY_STR) /\ rows[COL_INSERT][i] = Cell(op, actors, COL_INSERT)
      /\ rows[COL_ACTION][i] = Cell(op, actors, COL_ACTION)
  BY <1>1, Zenon DEF OpColumns
<1>3. TheOne(rows[COL_ACTION][i]) = ActionCode(op.action.tag) /\ TheOne(rows[COL_INSERT][i]) = op.insert
  BY <1>2, CellIs, TheOneIs
<1>4. ReadObject(actors, rows[COL_OBJ_ACTOR][i], rows[COL_OBJ_CTR][i]) = op.obj
  BY <1>2, ObjectRead
<1>5. ReadKey(actors, rows[COL_KEY_ACTOR][i], rows[COL_KEY_CTR][i], rows[COL_KEY_STR][i]) = op.key
  BY <1>2, CellIs, KeyRead
<1>6. ReadAction(Actions[ActionCode(op.action.tag) + 1], ValueLensOf(ops), RawValues(ops), i) = op.action
  BY ActionRead
<1> QED
  BY <1>3, <1>4, <1>5, <1>6, Zenon DEF OpOfRow

\* As many operations are counted as there are.
LEMMA OperationsCounted ==
    ASSUME NEW ops \in Seq(OperationType), NEW actors, Len(ops) \in SignedNumber
    PROVE  CountRows("unsigned", ColumnData(ops, actors, COL_ACTION)) = Len(ops)
<1> DEFINE n == Len(ops)
           U == {{v} : v \in UnsignedNumber}
           column == Rows(ops, actors, COL_ACTION)
<1>1. n \in Nat /\ \A i \in 1..n : ops[i] \in OperationType
  OBVIOUS
<1>2. ASSUME NEW i \in 1..n
      PROVE  Cell(ops[i], actors, COL_ACTION) \in U
  <2>1. ActionCode(ops[i].action.tag) \in 0..6
    BY <1>1, ActionParts, ActionCodes
  <2>2. ActionCode(ops[i].action.tag) \in UnsignedNumber
    BY <2>1, ChangesAssumption, ModulusFacts DEF UnsignedNumber
  <2> QED
    BY <2>2, CellIs
<1>3. column \in [1..n -> U]
  BY <1>2 DEF Rows
<1>4. \A S, f : f \in [1..n -> S] => f \in Seq(S) /\ Len(f) = n
  BY <1>1
<1>5. column \in Seq(U) /\ Len(column) = n
  BY <1>3, <1>4, Zenon
<1>6. ColumnData(ops, actors, COL_ACTION) = EncodeColumn("unsigned", column)
  BY ColumnOfRows, ColumnKinds DEF OpColumns
<1> HIDE DEF column, n
<1> QED
  BY <1>5, <1>6, RowsCounted DEF n

\* The operations of a change are read from its columns as they were written.
THEOREM OperationsRead ==
    ASSUME NEW ops \in Seq(OperationType), NEW actors, Named(ops, actors), NEW columns, Hold(columns, ops, actors),
           Len(ops) \in SignedNumber, Len(Preds(ops)) \in SignedNumber
    PROVE  IterOps(columns, actors) = ops
<1> DEFINE n == Len(ops)
           rows == DecodeCells(columns, OpColumns, n)
           plain == [i \in 1..n |-> [action |-> ops[i].action, obj |-> ops[i].obj, key |-> ops[i].key,
                                     insert |-> ops[i].insert]]
<1>1. n \in Nat /\ DOMAIN ops = 1..n /\ (\A i \in 1..n : ops[i] \in OperationType) /\ ops = [i \in 1..n |-> ops[i]]
  OBVIOUS
<1>2. /\ \A col \in OpColumns : columns[col] = ColumnData(ops, actors, col)
      /\ columns[COL_VAL_RAW] = RawValues(ops) /\ COL_ACTION \in OpColumns /\ COL_VAL_LEN \in OpColumns
  <2>1. /\ \A col \in OpColumns : columns[col] = ColumnData(ops, actors, col)
        /\ columns[COL_VAL_RAW] = ColumnData(ops, actors, COL_VAL_RAW)
    BY ColumnIdsAre DEF Hold
  <2> QED
    BY <2>1 DEF ColumnData, OpColumns
<1>3. CountRows("unsigned", columns[COL_ACTION]) = n
  BY <1>2, OperationsCounted
<1>4. \A col \in OpColumns : rows[col] = Rows(ops, actors, col)
  <2> TAKE col \in OpColumns
  <2>1. rows[col] = DecodeColumn(Kind(col), columns[col], n)
    BY DEF DecodeCells
  <2> QED
    BY <1>2, <2>1, RowsRead
<1>5. DOMAIN rows[COL_ACTION] = 1..n
  BY <1>2, <1>4 DEF Rows
<1>6. Numbers(rows[COL_VAL_LEN]) = ValueLensOf(ops)
  <2>1. rows[COL_VAL_LEN] = Rows(ops, actors, COL_VAL_LEN)
    BY <1>2, <1>4
  <2>2. \A i \in 1..n : TheOne(Cell(ops[i], actors, COL_VAL_LEN)) = ValueLen(ValueOf(ops[i]))
    BY CellIs, TheOneIs
  <2> HIDE DEF rows
  <2> QED
    BY <2>1, <2>2 DEF Numbers, Rows, ValueLensOf
<1> HIDE DEF rows
<1>7. ReadOps(columns, actors, n) = plain
  <2>1. ReadOps(columns, actors, n) =
            [i \in 1..n |-> OpOfRow(rows, ValueLensOf(ops), RawValues(ops), actors, i)]
    BY <1>2, <1>5, <1>6 DEF ReadOps, OpsOfRows, rows
  <2>2. \A i \in 1..n : OpOfRow(rows, ValueLensOf(ops), RawValues(ops), actors, i) = plain[i]
    BY <1>4, RowIsOperation
  <2> HIDE DEF n
  <2> QED
    BY <2>1, <2>2
<1>8. ReadIds(columns, actors, COL_PRED_NUM, COL_PRED_ACTOR, COL_PRED_CTR, n) = PredsOf(ops)
  BY PredsRead
<1>9. WithPreds(plain, PredsOf(ops)) = ops
  <2>1. \A i \in 1..n : SortedSeq(PredsOf(ops)[i], OpIdOrder) = ops[i].pred
    <3> TAKE i \in 1..n
    <3>1. PredsOf(ops)[i] = ops[i].pred
      BY <1>1 DEF PredsOf
    <3>2. ops[i].pred \in Seq(OpIds) /\ InOrder(ops[i].pred, OpIdOrder)
      BY <1>1, OperationParts
    <3> QED
      BY <3>1, <3>2, SortedAlready
  <2>2. \A i \in 1..n : WithPred(plain[i], ops[i].pred) = ops[i]
    <3> TAKE i \in 1..n
    <3>1. ops[i] = [action |-> ops[i].action, obj |-> ops[i].obj, key |-> ops[i].key, insert |-> ops[i].insert,
                    pred |-> ops[i].pred]
      BY <1>1, OperationParts
    <3> QED
      BY <3>1 DEF WithPred
  <2>3. DOMAIN plain = 1..n
    OBVIOUS
  <2> HIDE DEF plain, n
  <2>4. WithPreds(plain, PredsOf(ops)) = [i \in 1..n |-> ops[i]]
    BY <2>1, <2>2, <2>3 DEF WithPreds
  <2> QED
    BY <1>1, <2>4
<1> QED
  BY <1>3, <1>7, <1>8, <1>9 DEF IterOps, FirstOps
=============================================================================

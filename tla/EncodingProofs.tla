---------------------------- MODULE EncodingProofs ----------------------------
(***************************************************************************)
(* What is read from columns is what was written, whatever their values    *)
(* and their length, and whatever the size of numbers.                     *)
(***************************************************************************)
EXTENDS Encoding, WellFoundedInduction, SequenceTheorems, TLAPS

-----------------------------------------------------------------------------
(* Loops *)

\* Every set of natural numbers with an element has a least one.
LEMMA LeastNat ==
    ASSUME NEW I, I \subseteq Nat, I # {}
    PROVE  \E i \in I : \A j \in I : i <= j
<1>1. PICK i \in I : \A j \in I : ~(<<j, i>> \in OpToRel(<, Nat))
  BY NatLessThanWellFounded, WFMin, Zenon
<1>2. \A j \in I : ~(j < i)
  BY <1>1 DEF OpToRel
<1> QED
  BY <1>2

\* What holds of the first turn of a loop, and of the next if of one, holds throughout.
LEMMA Throughout ==
    ASSUME NEW n \in Nat, NEW I, 0 \in I, \A i \in 0..(n - 1) : i \in I => i + 1 \in I
    PROVE  \A i \in 0..n : i \in I
<1> SUFFICES ASSUME 0..n \ I # {}
             PROVE  FALSE
  OBVIOUS
<1> DEFINE J == 0..n \ I
<1>1. PICK i \in J : \A j \in J : i <= j
  <2>1. J \subseteq Nat /\ J # {}
    OBVIOUS
  <2> HIDE DEF J
  <2> QED
    BY <2>1, LeastNat
<1>2. i - 1 \in 0..(n - 1) /\ (i - 1) + 1 = i
  BY <1>1
<1> QED
  BY <1>1, <1>2

\* The same of all turns, however many.
LEMMA NatInduct ==
    ASSUME NEW I, 0 \in I, \A n \in Nat : n \in I => n + 1 \in I
    PROVE  \A n \in Nat : n \in I
<1> SUFFICES ASSUME NEW n \in Nat
             PROVE  n \in I
  OBVIOUS
<1>1. \A i \in 0..(n - 1) : i \in I => i + 1 \in I
  OBVIOUS
<1> QED
  BY <1>1, Throughout

\* The states of a loop after each turn.
States(D, start, step, n, f) ==
    /\ f \in [0..n -> D]
    /\ f[0] = start
    /\ \A i \in 1..n : f[i] = step[<<i, f[i - 1]>>]

\* A loop has states: a function can be defined by its value before.
LEMMA LoopHasStates ==
    ASSUME NEW D, NEW start \in D, NEW step \in [Nat \X D -> D], NEW n \in Nat
    PROVE  \E f : States(D, start, step, n, f)
<1> DEFINE I == {m \in Nat : \E f : States(D, start, step, m, f)}
<1>1. 0 \in I
  <2>1. States(D, start, step, 0, [i \in 0..0 |-> start])
    BY DEF States
  <2> QED
    BY <2>1
<1>2. ASSUME NEW m \in Nat, m \in I
      PROVE  m + 1 \in I
  <2>1. PICK f : States(D, start, step, m, f)
    BY <1>2
  <2> DEFINE g == [i \in 0..(m + 1) |-> IF i = m + 1 THEN step[<<m + 1, f[m]>>] ELSE f[i]]
  <2>2. f[m] \in D /\ step[<<m + 1, f[m]>>] \in D
    BY <2>1 DEF States
  <2>3. g \in [0..(m + 1) -> D]
    BY <2>1, <2>2 DEF States
  <2>4. g[0] = start
    BY <2>1 DEF States
  <2>5. ASSUME NEW i \in 1..(m + 1)
        PROVE  g[i] = step[<<i, g[i - 1]>>]
    <3>1. CASE i = m + 1
      <4>1. g[m + 1] = step[<<m + 1, f[m]>>] /\ g[m] = f[m] /\ i - 1 = m
        BY <3>1
      <4> QED
        BY <3>1, <4>1
    <3>2. CASE i \in 1..m
      <4>1. g[i] = f[i] /\ g[i - 1] = f[i - 1]
        BY <3>2
      <4> QED
        BY <2>1, <3>2, <4>1 DEF States
    <3> QED
      BY <3>1, <3>2
  <2> HIDE DEF g
  <2> QED
    BY <2>3, <2>4, <2>5 DEF States
<1> HIDE DEF I
<1>3. n \in I
  BY <1>1, <1>2, NatInduct
<1> QED
  BY <1>3 DEF I

-----------------------------------------------------------------------------
(* Powers *)

\* The first is 1, and each of the others the one before times the base.
LEMMA PowerOfFacts ==
    ASSUME NEW base \in Nat, base > 0
    PROVE  /\ PowerOf(base, 0) = 1
           /\ \A n \in Nat : /\ PowerOf(base, n) \in Nat /\ PowerOf(base, n) > 0
                             /\ PowerOf(base, n + 1) = base * PowerOf(base, n)
<1> DEFINE Is(n, f) == f = [i \in 0..n |-> IF i = 0 THEN 1 ELSE base * f[i - 1]]
           Powers(n) == CHOOSE f : Is(n, f)
<1>1. ASSUME NEW n \in Nat
      PROVE  PowerOf(base, n) = Powers(n)[n]
  BY DEF PowerOf
<1>2. ASSUME NEW n \in Nat
      PROVE  Is(n, Powers(n))
  <2> DEFINE step == [p \in Nat \X Nat |-> base * p[2]]
  <2>1. step \in [Nat \X Nat -> Nat]
    OBVIOUS
  <2>2. PICK f : States(Nat, 1, step, n, f)
    BY <2>1, LoopHasStates
  <2>3. \A i \in 1..n : i - 1 \in 0..n /\ i \in Nat
    OBVIOUS
  <2>4. \A i \in 1..n : f[i] = base * f[i - 1]
    BY <2>2, <2>3 DEF States
  <2>5. Is(n, f)
    BY <2>2, <2>4 DEF States
  <2> QED
    BY <2>5
<1> HIDE DEF Powers
<1>3. ASSUME NEW n \in Nat
      PROVE  /\ Powers(n)[0] = 1
             /\ \A i \in 1..n : Powers(n)[i] = base * Powers(n)[i - 1]
  <2>1. \A i \in 0..n : Powers(n)[i] = IF i = 0 THEN 1 ELSE base * Powers(n)[i - 1]
    BY <1>2
  <2> QED
    BY <2>1
<1>4. ASSUME NEW n \in Nat
      PROVE  \A i \in 0..n : Powers(n)[i] \in Nat /\ Powers(n)[i] > 0 /\ Powers(n + 1)[i] = Powers(n)[i]
  <2> DEFINE I == {i \in 0..n : /\ Powers(n)[i] \in Nat /\ Powers(n)[i] > 0
                                /\ Powers(n + 1)[i] = Powers(n)[i]}
  <2>1. 0 \in I
    BY <1>3
  <2>2. ASSUME NEW i \in 0..(n - 1), i \in I
        PROVE  i + 1 \in I
    <3>1. i + 1 \in 1..n /\ i + 1 \in 1..(n + 1) /\ (i + 1) - 1 = i
      OBVIOUS
    <3>2. Powers(n)[i + 1] = base * Powers(n)[i] /\ Powers(n + 1)[i + 1] = base * Powers(n + 1)[i]
      BY <1>3, <3>1
    <3> QED
      BY <2>2, <3>1, <3>2
  <2> HIDE DEF I
  <2>3. \A i \in 0..n : i \in I
    BY <2>1, <2>2, Throughout
  <2> QED
    BY <2>3 DEF I
<1>5. ASSUME NEW n \in Nat
      PROVE  Powers(n + 1)[n + 1] = base * Powers(n)[n]
  <2>1. n + 1 \in 1..(n + 1) /\ (n + 1) - 1 = n /\ n \in 0..n
    OBVIOUS
  <2> QED
    BY <1>3, <1>4, <2>1
<1>6. ASSUME NEW n \in Nat
      PROVE  n \in 0..n /\ n + 1 \in Nat
  OBVIOUS
<1>7. ASSUME NEW n \in Nat
      PROVE  /\ PowerOf(base, n) \in Nat /\ PowerOf(base, n) > 0
             /\ PowerOf(base, n + 1) = base * PowerOf(base, n)
  <2>1. PowerOf(base, n) = Powers(n)[n] /\ PowerOf(base, n + 1) = Powers(n + 1)[n + 1]
    BY <1>1, <1>6
  <2>2. Powers(n)[n] \in Nat /\ Powers(n)[n] > 0
    BY <1>4, <1>6
  <2> QED
    BY <1>5, <2>1, <2>2
<1>8. PowerOf(base, 0) = 1
  <2>1. 0 \in Nat /\ PowerOf(base, 0) = Powers(0)[0]
    BY <1>1
  <2> QED
    BY <1>3, <2>1
<1> QED
  BY <1>7, <1>8

\* Division by a positive number: there are one quotient and one remainder.
LEMMA Division ==
    ASSUME NEW d \in Nat, d > 0, NEW n \in Int
    PROVE  /\ n \div d \in Int /\ n % d \in 0..(d - 1) /\ n = d * (n \div d) + (n % d)
           /\ \A q \in Int, r \in 0..(d - 1) : n = d * q + r => n \div d = q /\ n % d = r
<1>1. n \div d \in Int /\ n % d \in 0..(d - 1)
  OBVIOUS
<1>2. n = d * (n \div d) + (n % d)
  OBVIOUS
<1>3. ASSUME NEW q \in Int, NEW r \in 0..(d - 1), n = d * q + r
      PROVE  n \div d = q /\ n % d = r
  BY <1>3
<1> QED
  BY <1>1, <1>2, <1>3

\* A number below the divisor.
LEMMA SmallNumber ==
    ASSUME NEW d \in Nat, d > 0, NEW n \in 0..(d - 1)
    PROVE  n \div d = 0 /\ n % d = n
OBVIOUS

\* Two divisions are one by the product.
LEMMA DivideTwice ==
    ASSUME NEW d \in Nat, d > 0, NEW e \in Nat, e > 0, NEW n \in Int
    PROVE  (n \div d) \div e = n \div (d * e)
OBVIOUS

\* Of the numbers LEB128 is made of.
LEMMA BitFacts ==
    /\ SIGN_BIT \in Nat /\ SIGN_BIT >= 2
    /\ CONTINUATION_BIT \in Nat /\ CONTINUATION_BIT = 2 * SIGN_BIT
<1>1. GroupBits - 2 \in Nat /\ (GroupBits - 2) + 1 = GroupBits - 1 /\ GroupBits - 1 \in Nat
      /\ (GroupBits - 1) + 1 = GroupBits
  BY Leb128Assumption
<1>2. \A n \in Nat : PowerOf(2, n) \in Nat /\ PowerOf(2, n) > 0 /\ PowerOf(2, n + 1) = 2 * PowerOf(2, n)
  BY PowerOfFacts
<1>3. SIGN_BIT = 2 * PowerOf(2, GroupBits - 2) /\ CONTINUATION_BIT = 2 * SIGN_BIT
  BY <1>1, <1>2 DEF SIGN_BIT, CONTINUATION_BIT
<1> QED
  BY <1>1, <1>2, <1>3

\* Each group shifts by a continuation bit more.
LEMMA PowerFacts ==
    /\ Power(0) = 1
    /\ \A n \in Nat : /\ Power(n) \in Nat /\ Power(n) > 0
                      /\ Power(n + 1) = CONTINUATION_BIT * Power(n)
<1>1. CONTINUATION_BIT \in Nat /\ CONTINUATION_BIT > 0
  BY BitFacts
<1> QED
  BY <1>1, PowerOfFacts DEF Power

\* Powers grow.
LEMMA PowersGrow ==
    ASSUME NEW n \in Nat
    PROVE  \A m \in 0..n : Power(m) <= Power(n)
<1> DEFINE I == {k \in Nat : \A m \in 0..k : Power(m) <= Power(k)}
<1>1. 0 \in I
  BY PowerFacts
<1>2. ASSUME NEW k \in Nat, k \in I
      PROVE  k + 1 \in I
  <2>1. Power(k) \in Nat /\ Power(k + 1) = CONTINUATION_BIT * Power(k)
    BY PowerFacts
  <2>2. \A p \in Nat : CONTINUATION_BIT * p >= p
    BY BitFacts
  <2>3. Power(k) <= Power(k + 1)
    BY <2>1, <2>2
  <2>4. ASSUME NEW m \in 0..k
        PROVE  Power(m) <= Power(k + 1)
    <3>1. Power(m) <= Power(k) /\ Power(m) \in Nat /\ Power(k + 1) \in Nat
      BY <1>2, PowerFacts
    <3> QED
      BY <2>1, <2>3, <3>1
  <2>5. \A m \in 0..(k + 1) : m = k + 1 \/ m \in 0..k
    OBVIOUS
  <2>6. Power(k + 1) <= Power(k + 1)
    BY PowerFacts
  <2> QED
    BY <2>4, <2>5, <2>6
<1> HIDE DEF I
<1>3. n \in I
  BY <1>1, <1>2, NatInduct
<1> QED
  BY <1>3 DEF I

\* The modulus is twice what the groups but the last hold.
LEMMA ModulusFacts ==
    /\ HalfModulus \in Nat /\ HalfModulus >= CONTINUATION_BIT /\ Modulus = 2 * HalfModulus
    /\ \A n \in 0..(MaxSize - 1) : Power(n) <= HalfModulus
    /\ Power(MaxSize - 1) = HalfModulus /\ Power(MaxSize) = CONTINUATION_BIT * HalfModulus
<1>1. MaxSize - 1 \in Nat /\ (MaxSize - 1) + 1 = MaxSize /\ 1 \in 0..(MaxSize - 1)
  BY Leb128Assumption
<1>2. Power(1) = CONTINUATION_BIT
  <2>1. Power(0 + 1) = CONTINUATION_BIT * 1
    BY PowerFacts
  <2> QED
    BY <2>1, BitFacts
<1>3. \A n \in 0..(MaxSize - 1) : Power(n) <= HalfModulus
  BY <1>1, PowersGrow DEF HalfModulus
<1>4. HalfModulus \in Nat /\ Power(MaxSize) = CONTINUATION_BIT * HalfModulus
  BY <1>1, PowerFacts DEF HalfModulus
<1> QED
  BY <1>1, <1>2, <1>3, <1>4 DEF Modulus, HalfModulus

\* The smallest of a set of natural numbers.
LEMMA MinIsLeast ==
    ASSUME NEW I, I \subseteq Nat, I # {}
    PROVE  Min(I) \in I /\ \A j \in I : Min(I) <= j
BY LeastNat DEF Min

-----------------------------------------------------------------------------
(* Writing and reading a number *)

\* What is left of a number when n groups have been taken from it.
Rest(n, i) == n \div Power(i)

\* Taking a group off what is left of a number leaves the rest of it.
LEMMA RestFacts ==
    ASSUME NEW n \in Int, NEW i \in Nat
    PROVE  /\ Rest(n, i) \in Int /\ Rest(n, i + 1) \in Int
           /\ LowBits(Rest(n, i)) \in 0..(CONTINUATION_BIT - 1) /\ LowBits(Rest(n, i)) \in Nat
           /\ Rest(n, i) = CONTINUATION_BIT * Rest(n, i + 1) + LowBits(Rest(n, i))
<1>1. Power(i) \in Nat /\ Power(i) > 0 /\ Power(i + 1) = CONTINUATION_BIT * Power(i)
  BY PowerFacts
<1>2. CONTINUATION_BIT \in Nat /\ CONTINUATION_BIT > 0
  BY BitFacts
<1>3. Rest(n, i) \in Int
  BY <1>1, Division DEF Rest
<1>4. Power(i) * CONTINUATION_BIT = CONTINUATION_BIT * Power(i)
  BY <1>1, <1>2
<1>5. Rest(n, i + 1) = Rest(n, i) \div CONTINUATION_BIT
  BY <1>1, <1>2, <1>4, DivideTwice DEF Rest
<1>6. /\ Rest(n, i) \div CONTINUATION_BIT \in Int /\ LowBits(Rest(n, i)) \in 0..(CONTINUATION_BIT - 1)
      /\ Rest(n, i) = CONTINUATION_BIT * (Rest(n, i) \div CONTINUATION_BIT) + LowBits(Rest(n, i))
  <2> DEFINE r == Rest(n, i)
             C == CONTINUATION_BIT
  <2> HIDE DEF r, C
  <2>1. r \in Int /\ C \in Nat /\ C > 0
    BY <1>2, <1>3 DEF r, C
  <2>2. r \div C \in Int /\ r % C \in 0..(C - 1) /\ r = C * (r \div C) + (r % C)
    BY <2>1, Division
  <2>3. LowBits(r) = r % C
    BY DEF LowBits, C
  <2>4. r \div C \in Int /\ LowBits(r) \in 0..(C - 1) /\ r = C * (r \div C) + LowBits(r)
    BY <2>2, <2>3, Zenon
  <2> QED
    BY <2>4, Zenon DEF r, C
<1> QED
  BY <1>2, <1>3, <1>5, <1>6

\* What is left of a number is a number, its low bits are not negative.
LEMMA RestType ==
    ASSUME NEW n \in Int, NEW i \in Nat
    PROVE  /\ Rest(n, i) \in Int /\ Rest(n, i + 1) \in Int
           /\ LowBits(Rest(n, i)) \in Nat /\ LowBits(Rest(n, i)) \in Int
<1>1. LowBits(Rest(n, i)) \in Nat /\ Rest(n, i) \in Int /\ Rest(n, i + 1) \in Int
  BY RestFacts
<1> QED
  BY <1>1

\* Before the first group all is left.
LEMMA NothingTaken ==
    ASSUME NEW n \in Int
    PROVE  Rest(n, 0) = n
BY PowerFacts DEF Rest

\* The groups written of a number: the last alone is below the continuation bit.
LEMMA GroupsFacts ==
    ASSUME NEW n \in Int, NEW size \in Nat
    PROVE  /\ Groups(n, size) \in Seq(Nat) /\ Len(Groups(n, size)) = size
           /\ \A i \in 1..size : /\ LowBits(Groups(n, size)[i]) = LowBits(Rest(n, i - 1))
                                 /\ Groups(n, size)[i] >= CONTINUATION_BIT <=> i < size
                                 /\ i = size => Groups(n, size)[i] = LowBits(Rest(n, i - 1))
<1> DEFINE g == Groups(n, size)
           low(i) == LowBits(Rest(n, i - 1))
<1>1. CONTINUATION_BIT \in Nat /\ CONTINUATION_BIT > 0
  BY BitFacts
<1>2. \A i \in 1..size : i - 1 \in Nat /\ low(i) \in 0..(CONTINUATION_BIT - 1)
  BY RestFacts
<1>3. \A i \in 1..size : g[i] = low(i) + (IF i < size THEN CONTINUATION_BIT ELSE 0)
  BY DEF Groups, Rest
<1>4. DOMAIN g = 1..size
  BY DEF Groups
<1> HIDE DEF low
<1>5. \A i \in 1..size : g[i] \in Nat /\ (g[i] >= CONTINUATION_BIT <=> i < size) /\ (i = size => g[i] = low(i))
  BY <1>1, <1>2, <1>3
<1>6. g \in Seq(Nat) /\ Len(g) = size
  <2>1. g = [i \in 1..size |-> g[i]]
    BY <1>4 DEF Groups
  <2> HIDE DEF g
  <2> QED
    BY <1>5, <2>1
<1>7. ASSUME NEW i \in 1..size
      PROVE  LowBits(g[i]) = low(i)
  <2>1. \A b \in 0..(CONTINUATION_BIT - 1) : LowBits(b) = b /\ LowBits(b + CONTINUATION_BIT) = b
    <3> SUFFICES ASSUME NEW b \in 0..(CONTINUATION_BIT - 1)
                 PROVE  LowBits(b) = b /\ LowBits(b + CONTINUATION_BIT) = b
      OBVIOUS
    <3>1. b = CONTINUATION_BIT * 0 + b /\ b + CONTINUATION_BIT = CONTINUATION_BIT * 1 + b
      BY <1>1
    <3>2. b \in Int /\ b + CONTINUATION_BIT \in Int /\ 0 \in Int /\ 1 \in Int
      BY <1>1
    <3> QED
      BY <1>1, <3>1, <3>2, Division DEF LowBits
  <2> QED
    BY <1>1, <1>2, <1>3, <2>1
<1> QED
  BY <1>5, <1>6, <1>7 DEF low

\* The bits of the groups are the number without what is left of it.
LEMMA BitsOfGroups ==
    ASSUME NEW n \in Int, NEW size \in Nat
    PROVE  Bits(Groups(n, size)) = ToUnsigned(n - Power(size) * Rest(n, size))
<1> DEFINE g == Groups(n, size)
           Is(f) == f = [i \in 0..Len(g) |-> IF i = 0 THEN 0 ELSE f[i - 1] + LowBits(g[i]) * Power(i - 1)]
           result == CHOOSE f : Is(f)
<1>1. Len(g) = size /\ \A i \in 1..size : LowBits(g[i]) = LowBits(Rest(n, i - 1))
  BY GroupsFacts
<1>2. \A i \in 1..size : i - 1 \in Nat /\ LowBits(g[i]) * Power(i - 1) \in Nat
  <2> SUFFICES ASSUME NEW i \in 1..size
               PROVE  i - 1 \in Nat /\ LowBits(g[i]) * Power(i - 1) \in Nat
    OBVIOUS
  <2>1. i - 1 \in Nat
    OBVIOUS
  <2>2. LowBits(Rest(n, i - 1)) \in Nat /\ Power(i - 1) \in Nat
    BY <2>1, RestFacts, PowerFacts
  <2>3. \A a, b \in Nat : a * b \in Nat
    OBVIOUS
  <2> QED
    BY <1>1, <2>1, <2>2, <2>3
<1> DEFINE term == [i \in 1..size |-> LowBits(g[i]) * Power(i - 1)]
           value(i) == n - Power(i) * Rest(n, i)
<1>3. \A i \in Nat : value(i) \in Int
  <2>1. \A a, b \in Int : n - a * b \in Int
    OBVIOUS
  <2>2. \A i \in Nat : Power(i) \in Int
    BY PowerFacts
  <2>3. \A i \in Nat : Rest(n, i) \in Int
    BY RestType
  <2> QED
    BY <2>1, <2>2, <2>3
<1>4. ASSUME NEW i \in Nat
      PROVE  value(i + 1) = value(i) + LowBits(Rest(n, i)) * Power(i)
  <2>1. Rest(n, i) = CONTINUATION_BIT * Rest(n, i + 1) + LowBits(Rest(n, i))
    BY RestFacts
  <2>2. Power(i + 1) = CONTINUATION_BIT * Power(i)
    BY PowerFacts
  <2>3. \A p, c, q, l \in Int : n - (c * p) * q = n - p * (c * q + l) + l * p
    OBVIOUS
  <2>4. Power(i) \in Int /\ CONTINUATION_BIT \in Int
    BY PowerFacts, BitFacts
  <2>5. Rest(n, i + 1) \in Int /\ LowBits(Rest(n, i)) \in Int
    BY RestType
  <2> QED
    BY <2>1, <2>2, <2>3, <2>4, <2>5
<1>5. value(0) = 0
  BY NothingTaken, PowerFacts
<1>6. Is(result)
  <2> DEFINE f == [i \in 0..size |-> value(i)]
  <2>1. ASSUME NEW i \in 1..size
        PROVE  f[i] = f[i - 1] + LowBits(g[i]) * Power(i - 1)
    <3>1. i \in 0..size /\ i - 1 \in 0..size /\ i - 1 \in Nat /\ (i - 1) + 1 = i
      OBVIOUS
    <3> HIDE DEF value
    <3> QED
      BY <1>1, <1>4, <3>1
  <2>2. f[0] = 0
    BY <1>5
  <2>3. Is(f)
    <3> HIDE DEF value, f
    <3>1. f = [i \in 0..size |-> f[i]]
      BY DEF f
    <3> HIDE DEF g
    <3>2. ASSUME NEW i \in 0..size
          PROVE  f[i] = IF i = 0 THEN 0 ELSE f[i - 1] + LowBits(g[i]) * Power(i - 1)
      <4>1. i # 0 => i \in 1..size
        OBVIOUS
      <4> QED
        BY <2>1, <2>2, <4>1
    <3>3. f = [i \in 0..size |-> IF i = 0 THEN 0 ELSE f[i - 1] + LowBits(g[i]) * Power(i - 1)]
      BY <3>1, <3>2
    <3> QED
      BY <1>1, <3>3
  <2> HIDE DEF Is, f
  <2> QED
    BY <2>3
<1> HIDE DEF result, value
<1>7. \A i \in 0..size : result[i] = value(i)
  <2> DEFINE I == {i \in 0..size : result[i] = value(i)}
  <2>1. 0 \in I
    BY <1>1, <1>5, <1>6
  <2>2. ASSUME NEW i \in 0..(size - 1), i \in I
        PROVE  i + 1 \in I
    <3>1. i + 1 \in 1..size /\ i + 1 \in 0..size /\ i + 1 # 0 /\ (i + 1) - 1 = i /\ i \in Nat
      OBVIOUS
    <3>2. result[i + 1] = result[i] + LowBits(g[i + 1]) * Power(i)
      BY <1>1, <1>6, <3>1
    <3> QED
      BY <1>1, <1>4, <2>2, <3>1, <3>2
  <2> HIDE DEF I
  <2>3. \A i \in 0..size : i \in I
    BY <2>1, <2>2, Throughout
  <2> QED
    BY <2>3 DEF I
<1>8. result[size] = value(size)
  BY <1>7
<1>9. Bits(g) = ToUnsigned(result[Len(g)])
  BY DEF Bits, result
<1> QED
  BY <1>1, <1>8, <1>9 DEF value

\* What stands behind the groups of a number is not read.
LEMMA FirstGroupsAreThose ==
    ASSUME NEW n \in Int, NEW size \in 1..MaxSize, NEW rest \in Seq(Nat), NEW lastBytes,
           size = MaxSize => LowBits(Rest(n, MaxSize - 1)) \in lastBytes
    PROVE  FirstGroups(Groups(n, size) \o rest, lastBytes) = Groups(n, size)
<1> DEFINE g == Groups(n, size)
           bytes == g \o rest
<1>1. MaxSize \in Nat /\ size \in Nat /\ size >= 1
  BY Leb128Assumption
<1>2. g \in Seq(Nat) /\ Len(g) = size
  BY <1>1, GroupsFacts
<1>3. \A i \in 1..size : g[i] >= CONTINUATION_BIT <=> i < size
  BY <1>1, GroupsFacts
<1>4. g[size] = LowBits(Rest(n, size - 1))
  <2>1. size \in 1..size
    BY <1>1
  <2> QED
    BY <1>1, <2>1, GroupsFacts
<1>5. \A i \in 1..size : g[i] \in Nat
  BY <1>2
<1> HIDE DEF g
<1>6. bytes \in Seq(Nat) /\ Len(bytes) = size + Len(rest) /\ \A i \in 1..size : bytes[i] = g[i]
  <2>1. /\ bytes \in Seq(Nat) /\ Len(bytes) = size + Len(rest)
        /\ \A i \in 1..(size + Len(rest)) : bytes[i] = IF i <= size THEN g[i] ELSE rest[i - size]
    BY <1>2, ConcatProperties
  <2>2. \A i \in 1..size : i \in 1..(size + Len(rest)) /\ i <= size
    BY <1>1
  <2> QED
    BY <2>1, <2>2
<1>7. DOMAIN bytes = 1..(size + Len(rest)) /\ Len(rest) \in Nat
  BY <1>6
<1>8. CONTINUATION_BIT \in Nat
  BY BitFacts
<1> HIDE DEF bytes
<1>9. \A i \in DOMAIN bytes : IsEnd(bytes, i) <=> i = size
  <2> SUFFICES ASSUME NEW i \in DOMAIN bytes
               PROVE  IsEnd(bytes, i) <=> i = size
    OBVIOUS
  <2>1. i \in Nat /\ i >= 1
    BY <1>7
  <2>2. CASE i < size
    <3>1. i \in 1..size /\ bytes[i] = g[i] /\ g[i] >= CONTINUATION_BIT /\ g[i] \in Nat
      BY <1>3, <1>5, <1>6, <2>1, <2>2
    <3>2. ~(bytes[i] < CONTINUATION_BIT)
      BY <1>8, <3>1
    <3> QED
      BY <1>1, <2>1, <2>2, <3>2 DEF IsEnd
  <2>3. CASE i = size
    <3>1. bytes[i] < CONTINUATION_BIT
      BY <1>1, <1>3, <1>5, <1>6, <1>8, <2>3
    <3>2. \A m \in 1..(i - 1) : bytes[m] >= CONTINUATION_BIT
      <4>1. \A m \in 1..(i - 1) : m \in 1..size /\ m < size
        BY <1>1, <2>3
      <4> QED
        BY <1>3, <1>6, <4>1
    <3> QED
      BY <2>3, <3>1, <3>2 DEF IsEnd
  <2>4. CASE i > size
    <3>1. size \in 1..(i - 1) /\ size \in 1..size /\ bytes[size] = g[size] /\ g[size] \in Nat /\ ~(g[size] >= CONTINUATION_BIT)
      <4>1. size \in 1..(i - 1) /\ size \in 1..size
        BY <1>1, <2>1, <2>4
      <4>2. bytes[size] = g[size] /\ g[size] \in Nat
        BY <1>3, <1>5, <1>6, <4>1
      <4>3. ~(g[size] >= CONTINUATION_BIT)
        BY <1>1, <1>3, <1>5, <1>6, <4>1
      <4> QED
        BY <4>1, <4>2, <4>3
    <3>2. ~(bytes[size] >= CONTINUATION_BIT)
      BY <3>1
    <3> QED
      BY <1>1, <2>1, <2>4, <3>1, <3>2 DEF IsEnd
  <2> QED
    BY <1>1, <2>1, <2>2, <2>3, <2>4
<1>10. EndOf(bytes) = size
  <2>1. size \in DOMAIN bytes
    BY <1>1, <1>7
  <2> QED
    BY <1>9, <2>1 DEF EndOf
<1>11. SubSeq(bytes, 1, size) = g
  <2>1. SubSeq(bytes, 1, size) = SubSeq(g, 1, size)
    <3>1. 1 \in 1..Len(g) /\ size \in 1..Len(g)
      BY <1>1, <1>2
    <3> QED
      BY <1>2, <3>1, SubSeqOfConcat1 DEF bytes
  <2> QED
    BY <1>2, <2>1, SubSeqFull
<1>12. Legal(g, lastBytes)
  <2>1. size = MaxSize => g[size] \in lastBytes
    BY <1>4
  <2> QED
    BY <1>1, <1>2, <2>1 DEF Legal, Last
<1> QED
  BY <1>10, <1>11, <1>12 DEF FirstGroups, Possible, bytes, g

\* Where an unsigned number ends.
LEMMA UnsignedSize ==
    ASSUME NEW n \in UnsignedNumber
    PROVE  LET size == Min(UnsignedSizes(n))
           IN  size \in 1..MaxSize /\ Rest(n, size) = 0
<1> DEFINE size == Min(UnsignedSizes(n))
<1>1. MaxSize \in Nat /\ MaxSize \in 1..MaxSize
  BY Leb128Assumption
<1>2. n \in Nat /\ n < 2 * HalfModulus
  BY ModulusFacts DEF UnsignedNumber
<1>3. n < Power(MaxSize) /\ Power(MaxSize) \in Nat /\ Power(MaxSize) > 0
  <2>1. \A c, h \in Nat : c >= 4 => c * h >= 2 * h
    OBVIOUS
  <2>2. CONTINUATION_BIT \in Nat /\ CONTINUATION_BIT >= 4
    BY BitFacts
  <2>3. CONTINUATION_BIT * HalfModulus >= 2 * HalfModulus /\ HalfModulus \in Nat
    BY <2>1, <2>2, ModulusFacts
  <2>4. Power(MaxSize) \in Nat /\ Power(MaxSize) > 0
    BY <1>1, PowerFacts
  <2> QED
    BY <1>2, <2>3, <2>4, ModulusFacts
<1>4. n \div Power(MaxSize) = 0
  <2>1. n = Power(MaxSize) * 0 + n /\ n \in 0..(Power(MaxSize) - 1) /\ 0 \in Int /\ n \in Int
    BY <1>2, <1>3
  <2> QED
    BY <1>3, <2>1, Division
<1>5. MaxSize \in UnsignedSizes(n)
  BY <1>1, <1>4 DEF UnsignedSizes
<1>6. UnsignedSizes(n) \subseteq Nat
  BY <1>1 DEF UnsignedSizes
<1>7. size \in UnsignedSizes(n)
  BY <1>5, <1>6, MinIsLeast
<1> QED
  BY <1>7 DEF UnsignedSizes, Rest

\* An unsigned number is read as it was written, whatever its size and whatever follows.
THEOREM UnsignedRoundTrip ==
    ASSUME NEW n \in UnsignedNumber, NEW rest \in Seq(Nat)
    PROVE  /\ WriteUnsigned(n) \in Seq(Nat) /\ WriteUnsigned(n) # <<>>
           /\ ReadUnsigned(WriteUnsigned(n) \o rest) = [value |-> n, size |-> Len(WriteUnsigned(n))]
<1> DEFINE size == Min(UnsignedSizes(n))
           g == Groups(n, size)
<1>1. size \in 1..MaxSize /\ Rest(n, size) = 0
  BY UnsignedSize
<1> HIDE DEF size
<1>2. MaxSize \in Nat /\ size \in Nat /\ MaxSize - 1 \in Nat /\ (MaxSize - 1) + 1 = MaxSize
  BY <1>1, Leb128Assumption
<1>3. n \in Int /\ n \in Nat /\ n < Modulus /\ Modulus \in Nat /\ Modulus > 0 /\ Modulus = 2 * HalfModulus
  BY ModulusFacts, BitFacts DEF UnsignedNumber
<1>4. size = MaxSize => LowBits(Rest(n, MaxSize - 1)) \in {0, 1}
  <2> DEFINE q == n \div HalfModulus
  <2>1. HalfModulus \in Nat /\ HalfModulus > 0
    BY ModulusFacts, BitFacts
  <2>2. q \in Int /\ n = HalfModulus * q + (n % HalfModulus) /\ n % HalfModulus \in 0..(HalfModulus - 1)
    BY <1>3, <2>1, Division
  <2>3. q = 0 \/ q = 1
    <3>1. CASE n < HalfModulus
      <4>1. n = HalfModulus * 0 + n /\ n \in 0..(HalfModulus - 1) /\ 0 \in Int
        BY <1>3, <2>1, <3>1
      <4> QED
        BY <1>3, <2>1, <4>1, Division
    <3>2. CASE n >= HalfModulus
      <4>1. n = HalfModulus * 1 + (n - HalfModulus) /\ n - HalfModulus \in 0..(HalfModulus - 1) /\ 1 \in Int
        BY <1>3, <2>1, <3>2
      <4> QED
        BY <1>3, <2>1, <4>1, Division
    <3> QED
      BY <1>3, <2>1, <3>1, <3>2
  <2>4. Rest(n, MaxSize - 1) = q
    BY ModulusFacts DEF Rest
  <2>5. LowBits(0) = 0 /\ LowBits(1) = 1
    <3>1. CONTINUATION_BIT \in Nat /\ CONTINUATION_BIT >= 4
      BY BitFacts
    <3>2. 0 = CONTINUATION_BIT * 0 + 0 /\ 1 = CONTINUATION_BIT * 0 + 1 /\ 0 \in 0..(CONTINUATION_BIT - 1)
          /\ 1 \in 0..(CONTINUATION_BIT - 1) /\ 0 \in Int /\ 1 \in Int
      BY <3>1
    <3> QED
      BY <3>1, <3>2, Division DEF LowBits
  <2> HIDE DEF q
  <2> QED
    BY <2>3, <2>4, <2>5
<1>5. FirstGroups(g \o rest, {0, 1}) = g
  BY <1>1, <1>3, <1>4, FirstGroupsAreThose
<1>6. Bits(g) = n
  <2>1. Bits(g) = ToUnsigned(n - Power(size) * 0)
    BY <1>1, <1>2, <1>3, BitsOfGroups
  <2>2. n - Power(size) * 0 = n
    <3>1. Power(size) \in Nat /\ n \in Int
      BY <1>2, <1>3, PowerFacts
    <3> QED
      BY <3>1
  <2>3. n % Modulus = n
    <3>1. n \in 0..(Modulus - 1)
      BY <1>3
    <3> QED
      BY <1>3, <3>1, SmallNumber
  <2> QED
    BY <2>1, <2>2, <2>3 DEF ToUnsigned
<1>7. WriteUnsigned(n) = g
  BY DEF WriteUnsigned, size
<1>8. g \in Seq(Nat) /\ Len(g) = size
  BY <1>2, <1>3, GroupsFacts
<1> HIDE DEF g
<1>9. g # <<>>
  BY <1>1, <1>8
<1> QED
  BY <1>5, <1>6, <1>7, <1>8, <1>9 DEF ReadUnsigned, Unsigned

\* The casts between signed and unsigned numbers that fit are inverse to each other.
LEMMA Casts ==
    /\ \A n \in SignedNumber : ToUnsigned(n) \in UnsignedNumber /\ ToSigned(ToUnsigned(n)) = n
    /\ \A n \in UnsignedNumber : ToSigned(n) \in SignedNumber /\ ToUnsigned(ToSigned(n)) = n
<1>1. HalfModulus \in Nat /\ HalfModulus > 0 /\ Modulus = 2 * HalfModulus /\ Modulus \in Nat /\ Modulus > 0
  BY ModulusFacts, BitFacts
<1>2. ASSUME NEW n \in (-HalfModulus)..(Modulus - 1)
      PROVE  n % Modulus = IF n < 0 THEN n + Modulus ELSE n
  <2>1. CASE n < 0
    <3>1. n = Modulus * (-1) + (n + Modulus) /\ n + Modulus \in 0..(Modulus - 1) /\ -1 \in Int /\ n \in Int
      BY <1>1, <2>1
    <3> QED
      BY <1>1, <2>1, <3>1, Division
  <2>2. CASE n >= 0
    <3>1. n \in 0..(Modulus - 1)
      BY <1>1, <2>2
    <3> QED
      BY <1>1, <2>2, <3>1, SmallNumber
  <2> QED
    BY <1>1, <2>1, <2>2
<1>3. ASSUME NEW n \in SignedNumber
      PROVE  ToUnsigned(n) \in UnsignedNumber /\ ToSigned(ToUnsigned(n)) = n
  <2>1. n \in (-HalfModulus)..(Modulus - 1) /\ n < HalfModulus
    BY <1>1 DEF SignedNumber
  <2>2. ToUnsigned(n) = IF n < 0 THEN n + Modulus ELSE n
    BY <1>2, <2>1 DEF ToUnsigned
  <2> QED
    BY <1>1, <2>1, <2>2 DEF UnsignedNumber, ToSigned
<1>4. ASSUME NEW n \in UnsignedNumber
      PROVE  ToSigned(n) \in SignedNumber /\ ToUnsigned(ToSigned(n)) = n
  <2>1. n \in 0..(Modulus - 1)
    BY DEF UnsignedNumber
  <2>2. ToSigned(n) = (IF n >= HalfModulus THEN n - Modulus ELSE n) /\ ToSigned(n) \in (-HalfModulus)..(HalfModulus - 1)
    BY <1>1, <2>1 DEF ToSigned
  <2>3. ToSigned(n) \in (-HalfModulus)..(Modulus - 1)
    BY <1>1, <2>2
  <2>4. ToUnsigned(ToSigned(n)) = IF ToSigned(n) < 0 THEN ToSigned(n) + Modulus ELSE ToSigned(n)
    BY <1>2, <2>3 DEF ToUnsigned
  <2> QED
    BY <1>1, <2>1, <2>2, <2>4 DEF SignedNumber
<1> QED
  BY <1>3, <1>4

\* Of the highest bit of a signed number, all that is left is the sign.
LEMMA SignAtTop ==
    ASSUME NEW n \in SignedNumber
    PROVE  n \div HalfModulus \in {0, -1}
<1>1. HalfModulus \in Nat /\ HalfModulus > 0 /\ n \in Int /\ -HalfModulus <= n /\ n < HalfModulus
  BY ModulusFacts, BitFacts DEF SignedNumber
<1>2. CASE n < 0
  <2>1. n = HalfModulus * (-1) + (n + HalfModulus) /\ n + HalfModulus \in 0..(HalfModulus - 1) /\ -1 \in Int
    BY <1>1, <1>2
  <2> QED
    BY <1>1, <2>1, Division
<1>3. CASE n >= 0
  <2>1. n \in 0..(HalfModulus - 1)
    BY <1>1, <1>3
  <2> QED
    BY <1>1, <2>1, SmallNumber
<1> QED
  BY <1>1, <1>2, <1>3

\* Where a signed number ends: nothing but the sign is left above the last group.
LEMMA SignedSize ==
    ASSUME NEW n \in SignedNumber
    PROVE  LET size == Min(SignedSizes(n))
           IN  size \in 1..MaxSize /\ Rest(n, size - 1) \div SIGN_BIT \in {0, -1}
<1> DEFINE size == Min(SignedSizes(n))
<1>1. MaxSize \in Nat /\ MaxSize \in 1..MaxSize
  BY Leb128Assumption
<1>2. HalfModulus \in Nat /\ HalfModulus > 0 /\ n \in Int /\ -HalfModulus <= n /\ n < HalfModulus
  BY ModulusFacts, BitFacts DEF SignedNumber
<1>3. n \div HalfModulus \in {0, -1}
  BY SignAtTop
<1>4. \A b \in {0, -1} : b \div SIGN_BIT \in {0, -1}
  <2>1. SIGN_BIT \in Nat /\ SIGN_BIT > 0 /\ 0 \in 0..(SIGN_BIT - 1) /\ -1 \in Int
        /\ -1 = SIGN_BIT * (-1) + (SIGN_BIT - 1) /\ SIGN_BIT - 1 \in 0..(SIGN_BIT - 1)
    BY BitFacts
  <2>2. 0 \div SIGN_BIT = 0
    BY <2>1, SmallNumber
  <2>3. (-1) \div SIGN_BIT = -1
    BY <2>1, Division
  <2> QED
    BY <2>2, <2>3
<1>5. Power(MaxSize - 1) = HalfModulus
  BY ModulusFacts
<1>6. MaxSize \in SignedSizes(n)
  BY <1>1, <1>3, <1>4, <1>5 DEF SignedSizes
<1>7. SignedSizes(n) \subseteq Nat
  BY <1>1 DEF SignedSizes
<1>8. size \in SignedSizes(n)
  BY <1>6, <1>7, MinIsLeast
<1> QED
  BY <1>8 DEF SignedSizes, Rest

\* The last group of a signed number: it has a sign bit like the number itself.
LEMMA LastGroup ==
    ASSUME NEW n \in SignedNumber, NEW size \in 1..MaxSize, Rest(n, size - 1) \div SIGN_BIT \in {0, -1}
    PROVE  /\ n >= 0 => Rest(n, size) = 0  /\ LowBits(Rest(n, size - 1)) < SIGN_BIT
           /\ n < 0  => Rest(n, size) = -1 /\ LowBits(Rest(n, size - 1)) >= SIGN_BIT
<1> DEFINE q == Rest(n, size - 1)
           P == Power(size - 1)
<1>1. n \in Int /\ size - 1 \in Nat /\ size \in Nat /\ (size - 1) + 1 = size
  BY ModulusFacts, Leb128Assumption DEF SignedNumber
<1>2. SIGN_BIT \in Nat /\ SIGN_BIT > 0 /\ CONTINUATION_BIT = 2 * SIGN_BIT /\ CONTINUATION_BIT \in Nat
  BY BitFacts
<1>3. q \in Int
  BY <1>1, RestType
<1>4. P \in Nat /\ P > 0
  BY <1>1, PowerFacts
<1>5. n \div P = q
  BY DEF Rest
<1>6. Rest(n, size) = q \div CONTINUATION_BIT
  <2>1. Power(size) = P * CONTINUATION_BIT
    <3>1. Power(size) = CONTINUATION_BIT * P
      BY <1>1, PowerFacts
    <3> QED
      BY <1>2, <1>4, <3>1
  <2> QED
    BY <1>1, <1>2, <1>4, <2>1, DivideTwice DEF Rest
<1> HIDE DEF q, P
<1>7. -SIGN_BIT <= q /\ q < SIGN_BIT
  <2>1. q = SIGN_BIT * (q \div SIGN_BIT) + (q % SIGN_BIT) /\ q % SIGN_BIT \in 0..(SIGN_BIT - 1)
    BY <1>2, <1>3, Division
  <2>2. CASE q \div SIGN_BIT = 0
    BY <1>2, <1>3, <2>1, <2>2
  <2>3. CASE q \div SIGN_BIT = -1
    BY <1>2, <1>3, <2>1, <2>3
  <2>4. q \div SIGN_BIT \in {0, -1}
    BY DEF q
  <2> QED
    BY <2>2, <2>3, <2>4
<1>8. n = P * q + (n % P) /\ n % P \in 0..(P - 1)
  BY <1>1, <1>4, <1>5, Division
<1>9. CASE n >= 0
  <2>1. q >= 0
    <3>1. \A p, m \in Int : p > 0 /\ m <= -1 => p * m <= -p
      OBVIOUS
    <3> QED
      BY <1>3, <1>4, <1>8, <1>9, <3>1
  <2>2. q \in 0..(CONTINUATION_BIT - 1)
    BY <1>2, <1>3, <1>7, <2>1
  <2>3. q \div CONTINUATION_BIT = 0 /\ LowBits(q) = q
    BY <1>2, <2>2, SmallNumber DEF LowBits
  <2> QED
    BY <1>1, <1>2, <1>3, <1>6, <1>7, <1>9, <2>3 DEF q
<1>10. CASE n < 0
  <2>1. q < 0
    <3>1. \A p, m \in Int : p > 0 /\ m >= 0 => p * m >= 0
      OBVIOUS
    <3> QED
      BY <1>3, <1>4, <1>8, <1>10, <3>1
  <2>2. /\ q = CONTINUATION_BIT * (-1) + (q + CONTINUATION_BIT) /\ q + CONTINUATION_BIT \in 0..(CONTINUATION_BIT - 1)
        /\ -1 \in Int /\ q + CONTINUATION_BIT >= SIGN_BIT
    BY <1>2, <1>3, <1>7, <2>1
  <2>3. q \div CONTINUATION_BIT = -1 /\ LowBits(q) = q + CONTINUATION_BIT
    BY <1>2, <1>3, <2>2, Division DEF LowBits
  <2> QED
    BY <1>1, <1>6, <1>10, <2>2, <2>3 DEF q
<1> QED
  BY <1>1, <1>9, <1>10

\* A signed number is read as it was written, whatever its size and whatever follows.
THEOREM SignedRoundTrip ==
    ASSUME NEW n \in SignedNumber, NEW rest \in Seq(Nat)
    PROVE  /\ WriteSigned(n) \in Seq(Nat) /\ WriteSigned(n) # <<>>
           /\ ReadSigned(WriteSigned(n) \o rest) = [value |-> n, size |-> Len(WriteSigned(n))]
<1> DEFINE size == Min(SignedSizes(n))
           g == Groups(n, size)
           r == Rest(n, size)
<1>1. size \in 1..MaxSize /\ Rest(n, size - 1) \div SIGN_BIT \in {0, -1}
  BY SignedSize
<1> HIDE DEF size
<1>2. MaxSize \in Nat /\ size \in Nat /\ size >= 1 /\ size \in 1..size /\ size - 1 \in Nat
  BY <1>1, Leb128Assumption
<1>3. /\ n \in Int /\ HalfModulus \in Nat /\ -HalfModulus <= n /\ n < HalfModulus
      /\ Modulus = 2 * HalfModulus /\ Modulus \in Nat /\ Modulus > 0
  BY ModulusFacts, BitFacts DEF SignedNumber
<1>4. /\ n >= 0 => r = 0  /\ LowBits(Rest(n, size - 1)) < SIGN_BIT
      /\ n < 0  => r = -1 /\ LowBits(Rest(n, size - 1)) >= SIGN_BIT
  BY <1>1, LastGroup
<1>5. size = MaxSize => LowBits(Rest(n, MaxSize - 1)) \in {0, CONTINUATION_BIT - 1}
  <2>1. Rest(n, MaxSize - 1) \in {0, -1}
    BY SignAtTop, ModulusFacts DEF Rest
  <2>2. CONTINUATION_BIT \in Nat /\ CONTINUATION_BIT > 0 /\ 0 \in 0..(CONTINUATION_BIT - 1)
        /\ -1 = CONTINUATION_BIT * (-1) + (CONTINUATION_BIT - 1) /\ CONTINUATION_BIT - 1 \in 0..(CONTINUATION_BIT - 1)
        /\ -1 \in Int
    BY BitFacts
  <2>3. 0 % CONTINUATION_BIT = 0
    BY <2>2, SmallNumber
  <2>4. (-1) % CONTINUATION_BIT = CONTINUATION_BIT - 1
    BY <2>2, Division
  <2> QED
    BY <2>1, <2>3, <2>4 DEF LowBits
<1>6. FirstGroups(g \o rest, {0, CONTINUATION_BIT - 1}) = g
  BY <1>1, <1>3, <1>5, FirstGroupsAreThose
<1>7. /\ g \in Seq(Nat) /\ Len(g) = size /\ Last(g) = g[size]
      /\ LowBits(g[size]) = LowBits(Rest(n, size - 1))
  BY <1>2, <1>3, GroupsFacts DEF Last
<1>8. Bits(g) = ToUnsigned(n - Power(size) * r)
  BY <1>2, <1>3, BitsOfGroups
<1> HIDE DEF g, r
<1>9. g # <<>>
  BY <1>2, <1>7
<1>10. Power(size) \in Nat /\ Power(size) > 0
  BY <1>2, PowerFacts
<1>11. ASSUME size < MaxSize
       PROVE  SignExtended(Bits(g), g) = n
  <2>1. Power(size) <= HalfModulus
    <3>1. size \in 0..(MaxSize - 1)
      BY <1>2, <1>11
    <3> QED
      BY <3>1, ModulusFacts
  <2>2. CASE n >= 0
    <3>1. n - Power(size) * r = n /\ n \in 0..(Modulus - 1)
      BY <1>3, <1>4, <1>10, <2>2
    <3>2. Bits(g) = n
      BY <1>3, <1>8, <3>1, SmallNumber DEF ToUnsigned
    <3>3. ~(LowBits(Last(g)) >= SIGN_BIT)
      <4>1. LowBits(Rest(n, size - 1)) \in Nat /\ SIGN_BIT \in Nat
        BY <1>2, <1>3, RestType, BitFacts
      <4> QED
        BY <1>4, <1>7, <2>2, <4>1
    <3>4. ToSigned(n) = n
      BY <1>3, <2>2 DEF ToSigned
    <3> QED
      BY <3>2, <3>3, <3>4 DEF SignExtended
  <2>3. CASE n < 0
    <3>1. n - Power(size) * r = n + Power(size)
      BY <1>3, <1>4, <1>10, <2>3
    <3>2. n + Power(size) \in 0..(Modulus - 1)
      <4>1. n \div Power(size) = -1
        BY <1>4, <2>3 DEF r, Rest
      <4>2. n = Power(size) * (-1) + (n % Power(size)) /\ n % Power(size) \in 0..(Power(size) - 1)
        BY <1>3, <1>10, <4>1, Division
      <4> DEFINE m == n % Power(size)
      <4>3. n = -Power(size) + m /\ m \in 0..(Power(size) - 1)
        BY <1>10, <4>2
      <4> HIDE DEF m
      <4>4. n + Power(size) = m
        BY <1>3, <1>10, <4>3
      <4> QED
        BY <1>3, <1>10, <2>1, <4>3, <4>4
    <3>3. Bits(g) = n + Power(size)
      BY <1>3, <1>8, <3>1, <3>2, SmallNumber DEF ToUnsigned
    <3>4. LowBits(Last(g)) >= SIGN_BIT
      BY <1>4, <1>7, <2>3
    <3>5. (n + Power(size)) - Power(size) = n
      BY <1>3, <1>10
    <3> QED
      BY <1>7, <1>9, <1>11, <3>3, <3>4, <3>5 DEF SignExtended
  <2> QED
    BY <1>3, <2>2, <2>3 DEF SignExtended
<1>12. ASSUME size = MaxSize
       PROVE  SignExtended(Bits(g), g) = n
  <2>1. Power(size) = Modulus * SIGN_BIT
    <3>1. SIGN_BIT \in Nat /\ CONTINUATION_BIT = 2 * SIGN_BIT
      BY BitFacts
    <3>2. \A s, h \in Nat : (2 * s) * h = (2 * h) * s
      OBVIOUS
    <3>3. Power(size) = CONTINUATION_BIT * HalfModulus
      BY <1>12, ModulusFacts
    <3> QED
      BY <1>3, <3>1, <3>2, <3>3
  <2>2. Bits(g) = ToUnsigned(n)
    <3>1. CASE n >= 0
      <4>1. n - Power(size) * r = n
        BY <1>3, <1>4, <1>10, <3>1
      <4> QED
        BY <1>8, <4>1
    <3>2. CASE n < 0
      <4>1. n - Power(size) * r = n + Modulus * SIGN_BIT
        BY <1>3, <1>4, <1>10, <2>1, <3>2
      <4> DEFINE q == n \div Modulus
                 m == n % Modulus
      <4>2. q \in Int /\ m \in 0..(Modulus - 1) /\ n = Modulus * q + m
        BY <1>3, Division
      <4>3. \A k, x, s, y \in Int : (k * x + y) + k * s = k * (x + s) + y
        OBVIOUS
      <4>4. SIGN_BIT \in Int /\ q + SIGN_BIT \in Int /\ n + Modulus * SIGN_BIT \in Int
        <5>1. SIGN_BIT \in Int
          BY BitFacts
        <5> QED
          BY <1>3, <4>2, <5>1
      <4> HIDE DEF q, m
      <4>5. n + Modulus * SIGN_BIT = Modulus * (q + SIGN_BIT) + m
        <5>1. m \in Int /\ Modulus \in Int
          BY <1>3, <4>2
        <5> QED
          BY <4>2, <4>3, <4>4, <5>1
      <4>6. (n + Modulus * SIGN_BIT) % Modulus = m
        <5> DEFINE k == n + Modulus * SIGN_BIT
                   x == q + SIGN_BIT
        <5>1. k \in Int /\ x \in Int /\ k = Modulus * x + m
          BY <4>4, <4>5
        <5> HIDE DEF k, x
        <5>2. k % Modulus = m
          BY <1>3, <4>2, <5>1, Division
        <5> QED
          BY <5>2 DEF k
      <4> QED
        BY <1>8, <4>1, <4>6 DEF ToUnsigned, m
    <3> QED
      BY <1>3, <3>1, <3>2
  <2>3. SignExtended(Bits(g), g) = ToSigned(Bits(g))
    BY <1>2, <1>7, <1>12 DEF SignExtended
  <2> QED
    BY <2>2, <2>3, Casts
<1>13. SignExtended(Bits(g), g) = n
  BY <1>1, <1>2, <1>11, <1>12
<1>14. WriteSigned(n) = g
  BY DEF WriteSigned, size, g
<1> QED
  BY <1>6, <1>7, <1>9, <1>13, <1>14 DEF ReadSigned, Signed

-----------------------------------------------------------------------------
(* Reading cells one after the other *)

\* From one state of a decoder to another, cells are read; next is the decoder's function,
\* shows the cell it stands at.
Reads(next, shows, d, read, e) ==
    \E t \in [0..Len(read) -> DOMAIN next] :
        /\ t[0] = d /\ t[Len(read)] = e
        /\ \A i \in 1..Len(read) : t[i] = next[t[i - 1]] /\ shows[t[i]] = read[i]

\* A decoder that is not asked for a cell stays as it is.
LEMMA ReadsNothing ==
    ASSUME NEW next, NEW shows, NEW d \in DOMAIN next
    PROVE  Reads(next, shows, d, <<>>, d)
<1> DEFINE t == [i \in 0..0 |-> d]
<1>1. t \in [0..0 -> DOMAIN next] /\ t[0] = d
  OBVIOUS
<1>2. Len(<<>>) = 0 /\ 1..0 = {}
  OBVIOUS
<1> HIDE DEF t
<1> QED
  BY <1>1, <1>2 DEF Reads

\* One cell takes one step.
LEMMA ReadsOne ==
    ASSUME NEW next, NEW shows, NEW d \in DOMAIN next, next[d] \in DOMAIN next
    PROVE  Reads(next, shows, d, <<shows[next[d]]>>, next[d])
<1> DEFINE t == [i \in 0..1 |-> IF i = 0 THEN d ELSE next[d]]
           read == <<shows[next[d]]>>
<1>1. t \in [0..1 -> DOMAIN next] /\ t[0] = d /\ t[1] = next[d]
  OBVIOUS
<1>2. Len(read) = 1 /\ read[1] = shows[next[d]]
  OBVIOUS
<1>3. \A i \in 1..1 : i = 1 /\ i - 1 = 0
  OBVIOUS
<1> HIDE DEF t, read
<1>4. Reads(next, shows, d, read, next[d])
  BY <1>1, <1>2, <1>3 DEF Reads
<1> QED
  BY <1>4 DEF read

\* What is read from a state to a second and from there to a third, is read from the first to
\* the third.
LEMMA ReadsBoth ==
    ASSUME NEW next, NEW shows, NEW d, NEW e, NEW f, NEW S, NEW a \in Seq(S), NEW b \in Seq(S),
           Reads(next, shows, d, a, e), Reads(next, shows, e, b, f)
    PROVE  Reads(next, shows, d, a \o b, f)
<1>1. PICK s \in [0..Len(a) -> DOMAIN next] :
          /\ s[0] = d /\ s[Len(a)] = e
          /\ \A i \in 1..Len(a) : s[i] = next[s[i - 1]] /\ shows[s[i]] = a[i]
  BY DEF Reads
<1>2. PICK t \in [0..Len(b) -> DOMAIN next] :
          /\ t[0] = e /\ t[Len(b)] = f
          /\ \A i \in 1..Len(b) : t[i] = next[t[i - 1]] /\ shows[t[i]] = b[i]
  BY DEF Reads
<1>3. /\ Len(a) \in Nat /\ Len(b) \in Nat /\ Len(a \o b) = Len(a) + Len(b)
      /\ \A i \in 1..(Len(a) + Len(b)) : (a \o b)[i] = IF i <= Len(a) THEN a[i] ELSE b[i - Len(a)]
  BY ConcatProperties
<1> DEFINE m == Len(a)
           n == Len(b)
           u == [i \in 0..(m + n) |-> IF i <= m THEN s[i] ELSE t[i - m]]
<1>4. u \in [0..(m + n) -> DOMAIN next]
  <2>1. \A i \in 0..(m + n) : IF i <= m THEN i \in 0..m ELSE i - m \in 0..n
    BY <1>3
  <2> QED
    BY <1>1, <1>2, <2>1
<1>5. u[0] = d /\ u[m + n] = f
  <2>1. 0 \in 0..(m + n) /\ 0 <= m /\ m + n \in 0..(m + n) /\ (m + n) - m = n /\ (m + n <= m <=> n = 0)
    BY <1>3
  <2>2. n = 0 => m + n = m
    BY <1>3
  <2> QED
    BY <1>1, <1>2, <2>1, <2>2
<1>6. ASSUME NEW i \in 1..(m + n)
      PROVE  u[i] = next[u[i - 1]] /\ shows[u[i]] = (a \o b)[i]
  <2>1. CASE i <= m
    <3>1. i \in 1..m /\ i \in 0..(m + n) /\ i - 1 \in 0..(m + n) /\ i - 1 <= m
      BY <1>3, <2>1
    <3>2. u[i] = s[i] /\ u[i - 1] = s[i - 1] /\ (a \o b)[i] = a[i]
      BY <1>3, <2>1, <3>1
    <3> QED
      BY <1>1, <3>1, <3>2
  <2>2. CASE i = m + 1
    <3>1. i \in 0..(m + n) /\ i - 1 \in 0..(m + n) /\ i - 1 = m /\ ~(i <= m) /\ i - m = 1 /\ 1 \in 1..n /\ 1 - 1 = 0
      BY <1>3, <2>2
    <3>2. u[i] = t[1] /\ u[i - 1] = s[m] /\ (a \o b)[i] = b[1]
      BY <1>3, <2>2, <3>1
    <3> QED
      BY <1>1, <1>2, <3>1, <3>2
  <2>3. CASE i > m + 1
    <3>1. i \in 0..(m + n) /\ i - 1 \in 0..(m + n) /\ ~(i - 1 <= m) /\ ~(i <= m) /\ i - m \in 1..n
          /\ (i - 1) - m = (i - m) - 1
      BY <1>3, <2>3
    <3>2. u[i] = t[i - m] /\ u[i - 1] = t[(i - m) - 1] /\ (a \o b)[i] = b[i - m]
      BY <1>3, <3>1
    <3> QED
      BY <1>2, <3>1, <3>2
  <2> QED
    BY <1>3, <2>1, <2>2, <2>3
<1> HIDE DEF u
<1>7. u \in [0..Len(a \o b) -> DOMAIN next] /\ u[0] = d /\ u[Len(a \o b)] = f
  BY <1>3, <1>4, <1>5
<1>8. \A i \in 1..Len(a \o b) : u[i] = next[u[i - 1]] /\ shows[u[i]] = (a \o b)[i]
  <2>1. 1..Len(a \o b) = 1..(m + n)
    BY <1>3
  <2> QED
    BY <1>6, <2>1
<1> QED
  BY <1>7, <1>8 DEF Reads

\* States from which the next cell is the same read the same.
LEMMA ReadsAlike ==
    ASSUME NEW next, NEW shows, NEW d \in DOMAIN next, NEW r \in DOMAIN next, NEW e,
           NEW S, NEW read \in Seq(S), read # <<>>,
           next[d] = next[r], Reads(next, shows, r, read, e)
    PROVE  Reads(next, shows, d, read, e)
<1>1. PICK s \in [0..Len(read) -> DOMAIN next] :
          /\ s[0] = r /\ s[Len(read)] = e
          /\ \A i \in 1..Len(read) : s[i] = next[s[i - 1]] /\ shows[s[i]] = read[i]
  BY DEF Reads
<1> DEFINE n == Len(read)
           t == [i \in 0..n |-> IF i = 0 THEN d ELSE s[i]]
<1>2. n \in Nat /\ n # 0
  BY EmptySeq
<1>3. t \in [0..n -> DOMAIN next]
  BY <1>1
<1>4. t[0] = d /\ t[n] = e
  BY <1>1, <1>2
<1>5. ASSUME NEW i \in 1..n
      PROVE  t[i] = next[t[i - 1]] /\ shows[t[i]] = read[i]
  <2>1. i \in 0..n /\ i # 0 /\ i - 1 \in 0..n
    BY <1>2
  <2>2. t[i] = s[i] /\ (i - 1 # 0 => t[i - 1] = s[i - 1]) /\ (i - 1 = 0 => t[i - 1] = d /\ s[i - 1] = r)
    BY <1>1, <2>1
  <2> QED
    BY <1>1, <2>1, <2>2
<1> HIDE DEF t
<1> QED
  BY <1>3, <1>4, <1>5 DEF Reads

-----------------------------------------------------------------------------
(* Items of runs *)

Kinds == {"unsigned", "signed", "string"}

\* What items of a kind may be.
Items(kind) ==
    CASE kind = "unsigned" -> UnsignedNumber
      [] kind = "signed"   -> SignedNumber
      [] kind = "string"   -> {s \in Seq(Nat) : Len(s) \in UnsignedNumber}

\* What the items of the kinds of columns are.
LEMMA ItemsAre ==
    /\ Items("unsigned") = UnsignedNumber /\ Items("signed") = SignedNumber
    /\ Items("string") = {s \in Seq(Nat) : Len(s) \in UnsignedNumber}
    /\ UnsignedNumber \subseteq Nat /\ SignedNumber \subseteq Int
    /\ \A kind \in Kinds : Items(kind) \subseteq Int \cup Seq(Nat)
<1>1. /\ Items("unsigned") = UnsignedNumber /\ Items("signed") = SignedNumber
      /\ Items("string") = {s \in Seq(Nat) : Len(s) \in UnsignedNumber}
  BY DEF Items
<1>2. UnsignedNumber \subseteq Nat /\ SignedNumber \subseteq Int
  BY ModulusFacts DEF UnsignedNumber, SignedNumber
<1>3. ASSUME NEW kind \in Kinds
      PROVE  Items(kind) \subseteq Int \cup Seq(Nat)
  <2>1. kind = "unsigned" \/ kind = "signed" \/ kind = "string"
    BY DEF Kinds
  <2>2. Nat \subseteq Int
    OBVIOUS
  <2> QED
    BY <1>1, <1>2, <2>1, <2>2
<1> QED
  BY <1>1, <1>2, <1>3

\* A sequence between two others.
LEMMA Between ==
    ASSUME NEW S, NEW a \in Seq(S), NEW b \in Seq(S), NEW c \in Seq(S)
    PROVE  SubSeq((a \o b) \o c, Len(a) + 1, Len(a) + Len(b)) = b
<1> DEFINE s == (a \o b) \o c
           l == Len(a)
           m == Len(b)
<1>1. /\ l \in Nat /\ m \in Nat /\ Len(c) \in Nat
      /\ a \o b \in Seq(S) /\ Len(a \o b) = l + m
      /\ s \in Seq(S) /\ Len(s) = l + m + Len(c)
  BY ConcatProperties
<1>2. \A i \in 1..m : s[l + i] = b[i]
  <2> TAKE i \in 1..m
  <2>1. l + i \in 1..(l + m) /\ l + i \in 1..(l + m + Len(c)) /\ ~(l + i <= l) /\ (l + i) - l = i /\ l + i <= l + m
    BY <1>1
  <2>2. s[l + i] = (a \o b)[l + i]
    BY <1>1, <2>1, ConcatProperties
  <2>3. (a \o b)[l + i] = b[(l + i) - l]
    BY <1>1, <2>1, ConcatProperties
  <2> QED
    BY <2>1, <2>2, <2>3
<1> HIDE DEF s
<1>3. SubSeq(s, l + 1, l + m) = [i \in 1..m |-> b[i]]
  <2>1. SubSeq(s, l + 1, l + m) = [i \in 1..m |-> s[l + i]]
    <3>1. (l + m) - (l + 1) + 1 = m /\ \A i \in 1..m : i + (l + 1) - 1 = l + i
      BY <1>1
    <3> QED
      BY <1>1, <3>1
  <2> QED
    BY <1>2, <2>1
<1> QED
  BY <1>3 DEF s

\* Three sequences joined give the same whichever two are joined first.
Associative(S) == \A a, b, c \in Seq(S) : (a \o b) \o c = a \o (b \o c)

\* Joining is associative over any set of elements.
LEMMA ConcatIsAssociative ==
    ASSUME NEW S
    PROVE  Associative(S)
<1>1. ASSUME NEW a \in Seq(S), NEW b \in Seq(S), NEW c \in Seq(S)
      PROVE  (a \o b) \o c = a \o (b \o c)
  BY SMTT(20)
<1> QED
  BY <1>1, Zenon DEF Associative

\* Bytes joined are bytes.
LEMMA ConcatBytes ==
    ASSUME NEW a \in Seq(Nat), NEW b \in Seq(Nat)
    PROVE  a \o b \in Seq(Nat)
BY SMT

\* Joining bytes is associative.
LEMMA ConcatFacts ==
    ASSUME NEW a \in Seq(Nat), NEW b \in Seq(Nat), NEW c \in Seq(Nat)
    PROVE  (a \o b) \o c = a \o (b \o c)
<1>1. Associative(Nat)
  BY ConcatIsAssociative
<1> QED
  BY <1>1, Zenon DEF Associative

\* What follows a part that has been read.
LEMMA AfterPart ==
    ASSUME NEW a \in Seq(Nat), NEW b \in Seq(Nat), NEW read, read.size = Len(a)
    PROVE  After(a \o b, read) = b
<1>1. SubSeq((a \o b) \o <<>>, Len(a) + 1, Len(a) + Len(b)) = b
  BY Between
<1>2. (a \o b) \o <<>> = a \o b /\ Len(a \o b) = Len(a) + Len(b)
  BY ConcatProperties, ConcatEmptySeq
<1> QED
  BY <1>1, <1>2 DEF After

\* An item of a run is read as it was written, and what follows it is left.
LEMMA ItemRoundTrip ==
    ASSUME NEW kind \in Kinds, NEW item \in Items(kind), NEW rest \in Seq(Nat)
    PROVE  /\ WriteItem(kind, item) \in Seq(Nat) /\ WriteItem(kind, item) # <<>>
           /\ ReadItem(kind, WriteItem(kind, item) \o rest).value = item
           /\ After(WriteItem(kind, item) \o rest, ReadItem(kind, WriteItem(kind, item) \o rest)) = rest
<1>1. CASE kind = "unsigned"
  <2>1. item \in UnsignedNumber
    BY <1>1, ItemsAre
  <2>2. WriteItem(kind, item) = WriteUnsigned(item) /\ \A bytes : ReadItem(kind, bytes) = ReadUnsigned(bytes)
    BY <1>1 DEF WriteItem, ReadItem
  <2> QED
    BY <2>1, <2>2, UnsignedRoundTrip, AfterPart
<1>2. CASE kind = "signed"
  <2>1. item \in SignedNumber
    BY <1>2, ItemsAre
  <2>2. WriteItem(kind, item) = WriteSigned(item) /\ \A bytes : ReadItem(kind, bytes) = ReadSigned(bytes)
    BY <1>2 DEF WriteItem, ReadItem
  <2> QED
    BY <2>1, <2>2, SignedRoundTrip, AfterPart
<1>3. CASE kind = "string"
  <2>1. item \in Seq(Nat) /\ Len(item) \in UnsignedNumber
    BY <1>3, ItemsAre
  <2> DEFINE w == WriteUnsigned(Len(item))
  <2>2. /\ WriteItem(kind, item) = w \o item
        /\ \A bytes : ReadItem(kind, bytes) = ReadString(bytes, ReadUnsigned(bytes))
    BY <1>3 DEF WriteItem, ReadItem
  <2>3. /\ w \in Seq(Nat) /\ w # <<>>
        /\ ReadUnsigned(w \o (item \o rest)) = [value |-> Len(item), size |-> Len(w)]
    BY <2>1, UnsignedRoundTrip, ConcatProperties
  <2> HIDE DEF w
  <2>4. (w \o item) \o rest = w \o (item \o rest) /\ w \o item \in Seq(Nat)
        /\ Len(w \o item) = Len(w) + Len(item)
    <3>1. w \in Seq(Nat) /\ item \in Seq(Nat) /\ rest \in Seq(Nat)
      BY <2>1, <2>3
    <3>2. (w \o item) \o rest = w \o (item \o rest)
      BY <3>1, ConcatFacts, Zenon
    <3> QED
      BY <3>1, <3>2, ConcatProperties
  <2>5. ReadItem(kind, (w \o item) \o rest) =
            [value |-> SubSeq((w \o item) \o rest, Len(w) + 1, Len(w) + Len(item)), size |-> Len(w) + Len(item)]
    <3> DEFINE bytes == (w \o item) \o rest
    <3>1. ReadUnsigned(bytes) = [value |-> Len(item), size |-> Len(w)]
      BY <2>3, <2>4
    <3> HIDE DEF bytes
    <3>2. ReadItem(kind, bytes) = ReadString(bytes, ReadUnsigned(bytes))
      BY <2>2
    <3>3. ReadItem(kind, bytes) =
              [value |-> SubSeq(bytes, Len(w) + 1, Len(w) + Len(item)), size |-> Len(w) + Len(item)]
      BY <3>1, <3>2 DEF ReadString
    <3> QED
      BY <3>3 DEF bytes
  <2>6. ReadItem(kind, (w \o item) \o rest) = [value |-> item, size |-> Len(w \o item)]
    BY <2>1, <2>3, <2>4, <2>5, Between
  <2>7. w \o item # <<>>
    <3>1. Len(w) \in Nat /\ Len(w) # 0 /\ Len(item) \in Nat
      BY <2>1, <2>3, EmptySeq
    <3> QED
      BY <2>4, <3>1
  <2> QED
    <3> DEFINE read == ReadItem(kind, (w \o item) \o rest)
    <3>1. read.size = Len(w \o item) /\ read.value = item
      BY <2>6
    <3> HIDE DEF read
    <3>2. After((w \o item) \o rest, read) = rest
      BY <2>4, <3>1, AfterPart
    <3> QED
      BY <2>2, <2>4, <2>7, <3>1, <3>2 DEF read
<1> QED
  BY <1>1, <1>2, <1>3 DEF Kinds

\* Bytes that begin with an item, and the rest.
BeginsWith(kind, item, rest, bytes) ==
    /\ bytes \in Seq(Nat)
    /\ ReadItem(kind, bytes).value = item
    /\ After(bytes, ReadItem(kind, bytes)) = rest

\* A written item followed by the rest is read as that item.
LEMMA WrittenBegins ==
    ASSUME NEW kind \in Kinds, NEW item \in Items(kind), NEW rest \in Seq(Nat)
    PROVE  BeginsWith(kind, item, rest, WriteItem(kind, item) \o rest)
<1>1. WriteItem(kind, item) \o rest \in Seq(Nat)
  BY ItemRoundTrip, ConcatBytes
<1> QED
  BY <1>1, ItemRoundTrip DEF BeginsWith

-----------------------------------------------------------------------------
(* Decoding runs *)

\* Cells of a column of a kind.
CellsOf(kind) == {{}} \cup {{item} : item \in Items(kind)}

\* The decoder of a column, and the cell it stands at.
Nexts(kind) == [d \in Decoder |-> NextCell(kind, d)]
Shows       == [d \in Decoder |-> d.last_value]

At(bytes, count, value, literal) ==
    [bytes |-> bytes, last_value |-> value, count |-> count, literal |-> literal]

\* Cells are of the type decoders keep.
LEMMA CellsAre ==
    ASSUME NEW kind \in Kinds
    PROVE  CellsOf(kind) \subseteq SUBSET (Int \cup Seq(Nat))
<1>1. Items(kind) \subseteq Int \cup Seq(Nat)
  BY ItemsAre
<1> QED
  BY <1>1 DEF CellsOf

\* A decoder at some bytes within a run is one of the decoders, and shows its value.
LEMMA AtIsDecoder ==
    ASSUME NEW kind \in Kinds, NEW bytes \in Seq(Nat), NEW count \in Nat, NEW value \in CellsOf(kind),
           NEW literal \in BOOLEAN
    PROVE  /\ At(bytes, count, value, literal) \in Decoder
           /\ At(bytes, count, value, literal) \in DOMAIN Nexts(kind)
           /\ Shows[At(bytes, count, value, literal)] = value
           /\ Nexts(kind)[At(bytes, count, value, literal)] = NextCell(kind, At(bytes, count, value, literal))
<1>1. value \in SUBSET (Int \cup Seq(Nat))
  BY CellsAre
<1>2. At(bytes, count, value, literal) \in Decoder
  BY <1>1 DEF At, Decoder
<1>3. At(bytes, count, value, literal).last_value = value
  BY DEF At
<1> QED
  BY <1>2, <1>3 DEF Nexts, Shows

\* The loop for the next run stops after the turn that finds one.
LEMMA NextRunIsTurn ==
    ASSUME NEW kind, NEW d, NEW n \in Nat, n = Len(d.bytes), n # 0 \/ Turn(kind, d) = d,
           Turn(kind, Turn(kind, d)) = Turn(kind, d)
    PROVE  NextRun(kind, d) = Turn(kind, d)
<1> DEFINE Is(f) == f = [i \in 0..n |-> IF i = 0 THEN d ELSE Turn(kind, f[i - 1])]
           turn == CHOOSE f : Is(f)
           r == Turn(kind, d)
           w == [i \in 0..n |-> IF i = 0 THEN d ELSE r]
<1>1. NextRun(kind, d) = turn[n]
  BY DEF NextRun
<1>2. Is(w)
  <2> SUFFICES ASSUME NEW i \in 0..n
               PROVE  w[i] = IF i = 0 THEN d ELSE Turn(kind, w[i - 1])
    BY Zenon
  <2>1. CASE i = 0
    BY <2>1
  <2>2. CASE i = 1
    <3>1. i - 1 = 0 /\ 0 \in 0..n
      BY <2>2
    <3>2. w[i] = r /\ w[0] = d
      BY <2>2, <3>1
    <3> QED
      BY <2>2, <3>1, <3>2
  <2>3. CASE i > 1
    <3>1. i - 1 \in 0..n /\ i - 1 # 0 /\ i # 0
      BY <2>3
    <3>2. w[i] = r /\ w[i - 1] = r
      BY <3>1
    <3> QED
      BY <3>1, <3>2
  <2> QED
    BY <2>1, <2>2, <2>3
<1>3. Is(turn)
  BY <1>2, Zenon
<1> HIDE DEF turn, r
<1> DEFINE I == {i \in 0..n : turn[i] = w[i]}
<1>4. 0 \in I
  BY <1>3
<1>5. ASSUME NEW i \in 0..(n - 1), i \in I
      PROVE  i + 1 \in I
  <2>1. i + 1 \in 0..n /\ i + 1 # 0 /\ (i + 1) - 1 = i
    OBVIOUS
  <2>2. turn[i + 1] = Turn(kind, turn[i])
    BY <1>3, <2>1
  <2>3. w[i + 1] = Turn(kind, w[i])
    BY <1>2, <2>1
  <2> QED
    BY <1>5, <2>1, <2>2, <2>3
<1> HIDE DEF I
<1>6. \A i \in 0..n : i \in I
  BY <1>4, <1>5, Throughout
<1>7. turn[n] = w[n]
  <2>1. n \in 0..n
    OBVIOUS
  <2> QED
    BY <1>6, <2>1 DEF I
<1>8. w[n] = r
  BY DEF r
<1> QED
  BY <1>1, <1>7, <1>8 DEF r

\* A decoder with no cells left that meets a run which is not empty takes it.
LEMMA RunFound ==
    ASSUME NEW kind, NEW d, d.count = 0, NEW number \in SignedNumber,
           NEW rest \in Seq(Nat), d.bytes = WriteSigned(number) \o rest,
           Run(kind, number, rest).count # 0
    PROVE  NextRun(kind, d) = Run(kind, number, rest)
<1> DEFINE w == WriteSigned(number)
<1>1. /\ w \in Seq(Nat) /\ w # <<>>
      /\ ReadSigned(w \o rest) = [value |-> number, size |-> Len(w)]
  BY SignedRoundTrip
<1> HIDE DEF w
<1>2. w \o rest \in Seq(Nat) /\ w \o rest # <<>> /\ Len(w \o rest) \in Nat /\ Len(w \o rest) # 0
  <2>1. Len(w) \in Nat /\ Len(w) # 0 /\ Len(rest) \in Nat
    BY <1>1, EmptySeq
  <2>2. w \o rest \in Seq(Nat) /\ Len(w \o rest) = Len(w) + Len(rest)
    BY <1>1, ConcatProperties
  <2> QED
    BY <2>1, <2>2
<1>3. d.bytes = w \o rest
  BY DEF w
<1>4. Turn(kind, d) = RunAt(kind, d.bytes, ReadSigned(d.bytes))
  BY <1>2, <1>3 DEF Turn
<1>5. After(w \o rest, ReadSigned(w \o rest)) = rest
  BY <1>1, AfterPart
<1>6. Turn(kind, d) = Run(kind, number, rest)
  <2> DEFINE read == ReadSigned(w \o rest)
  <2>1. read.value = number /\ After(w \o rest, read) = rest
    BY <1>1, <1>5
  <2> HIDE DEF read
  <2>2. RunAt(kind, w \o rest, read) = Run(kind, number, rest)
    BY <2>1 DEF RunAt
  <2> QED
    BY <1>3, <1>4, <2>2 DEF read
<1>7. Turn(kind, Turn(kind, d)) = Turn(kind, d)
  <2> DEFINE r == Turn(kind, d)
  <2>1. r.count # 0
    BY <1>6
  <2> HIDE DEF r
  <2>2. Turn(kind, r) = r
    BY <2>1 DEF Turn
  <2> QED
    BY <2>2 DEF r
<1> QED
  BY <1>2, <1>3, <1>6, <1>7, NextRunIsTurn

\* In a run, the next cell is there.
LEMMA NextOfRun ==
    ASSUME NEW kind, NEW bytes \in Seq(Nat), NEW count \in Nat, count # 0, NEW value,
           NEW literal \in BOOLEAN
    PROVE  NextRun(kind, At(bytes, count, value, literal)) = At(bytes, count, value, literal)
<1> DEFINE d == At(bytes, count, value, literal)
<1>1. d.count = count /\ d.bytes = bytes
  BY DEF At
<1> HIDE DEF d
<1>2. Turn(kind, d) = d
  BY <1>1 DEF Turn
<1>3. Len(bytes) \in Nat
  OBVIOUS
<1>4. NextRun(kind, d) = Turn(kind, d)
  BY <1>1, <1>2, <1>3, NextRunIsTurn
<1> QED
  BY <1>2, <1>4 DEF d

\* Within a run of equal cells only the count goes down.
LEMMA NextEqual ==
    ASSUME NEW kind, NEW bytes \in Seq(Nat), NEW count \in Nat, count # 0, NEW value
    PROVE  NextCell(kind, At(bytes, count, value, FALSE)) = At(bytes, count - 1, value, FALSE)
<1>1. NextCell(kind, At(bytes, count, value, FALSE)) = TakeCell(kind, At(bytes, count, value, FALSE))
  BY NextOfRun DEF NextCell
<1> QED
  BY <1>1 DEF TakeCell, At

\* d stands before `count` cells of a literal run, the first of which is `item`, and e before the others.
LiteralStep(kind, d, e, item, rest, bytes, count, left, value) ==
    /\ kind \in Kinds /\ item \in Items(kind) /\ rest \in Seq(Nat) /\ BeginsWith(kind, item, rest, bytes)
    /\ count \in Nat /\ count # 0 /\ left = count - 1
    /\ d = At(bytes, count, value, TRUE) /\ e = At(rest, left, {item}, TRUE)

\* Within a literal run the next item is read.
LEMMA NextLiteral ==
    ASSUME NEW kind, NEW d, NEW e, NEW item, NEW rest, NEW bytes, NEW count, NEW left, NEW value,
           LiteralStep(kind, d, e, item, rest, bytes, count, left, value)
    PROVE  NextCell(kind, d) = e
<1>0. /\ kind \in Kinds /\ item \in Items(kind) /\ rest \in Seq(Nat) /\ BeginsWith(kind, item, rest, bytes)
      /\ count \in Nat /\ count # 0 /\ left = count - 1
      /\ d = At(bytes, count, value, TRUE) /\ e = At(rest, left, {item}, TRUE)
  BY Zenon DEF LiteralStep
<1>1. bytes \in Seq(Nat) /\ ReadItem(kind, bytes).value = item /\ After(bytes, ReadItem(kind, bytes)) = rest
  BY <1>0 DEF BeginsWith
<1>3. NextCell(kind, d) = TakeCell(kind, d)
  <2>1. NextRun(kind, d) = d
    <3>1. NextRun(kind, At(bytes, count, value, TRUE)) = At(bytes, count, value, TRUE)
      BY <1>0, <1>1, NextOfRun, ZenonT(40)
    <3> QED
      BY <1>0, <3>1, Zenon
  <2> QED
    BY <2>1 DEF NextCell
<1>4. TakeCell(kind, d) = TakeLiteral(d, ReadItem(kind, bytes))
  BY <1>0 DEF TakeCell, At
<1> DEFINE read == ReadItem(kind, bytes)
<1>5. read.value = item /\ After(bytes, read) = rest
  BY <1>1
<1> HIDE DEF read
<1>6. TakeLiteral(d, read) = At(rest, left, {item}, TRUE)
  <2>1. ASSUME NEW literal
        PROVE  TakeLiteral(At(bytes, count, value, literal), read) =
                   At(After(bytes, read), count - 1, {read.value}, literal)
    <3> DEFINE taken == TakeLiteral(At(bytes, count, value, literal), read)
               after == After(bytes, read)
    <3>1. taken \in [bytes : {after}, last_value : {{read.value}}, count : {count - 1}, literal : {literal}]
      BY DEF TakeLiteral, At
    <3> HIDE DEF taken, after
    <3>2. taken = [bytes |-> after, last_value |-> {read.value}, count |-> count - 1, literal |-> literal]
      BY <3>1
    <3> QED
      BY <3>2 DEF taken, after, At
  <2> QED
    BY <1>0, <1>5, <2>1
<1> QED
  BY <1>0, <1>3, <1>4, <1>6, Zenon DEF read

Copies(value, n) == [i \in 1..n |-> value]

\* A run of equal cells is read cell by cell.
LEMMA CountDown ==
    ASSUME NEW kind \in Kinds, NEW d \in Decoder, NEW rest \in Seq(Nat), NEW n \in Nat, n # 0,
           NEW value \in CellsOf(kind), NextRun(kind, d) = At(rest, n, value, FALSE)
    PROVE  Reads(Nexts(kind), Shows, d, Copies(value, n), At(rest, 0, value, FALSE))
<1> DEFINE next == Nexts(kind)
           t == [i \in 0..n |-> IF i = 0 THEN d ELSE At(rest, n - i, value, FALSE)]
<1>1. DOMAIN next = Decoder
  BY DEF Nexts
<1>2. \A i \in 0..n : /\ At(rest, n - i, value, FALSE) \in Decoder
                      /\ Shows[At(rest, n - i, value, FALSE)] = value
                      /\ next[At(rest, n - i, value, FALSE)] = NextCell(kind, At(rest, n - i, value, FALSE))
  <2> TAKE i \in 0..n
  <2>1. n - i \in Nat
    OBVIOUS
  <2> QED
    BY <2>1, AtIsDecoder
<1>3. t \in [0..n -> DOMAIN next] /\ t[0] = d /\ t[n] = At(rest, 0, value, FALSE)
  <2>1. n \in 0..n /\ n - n = 0 /\ 0 \in 0..n
    OBVIOUS
  <2> QED
    BY <1>1, <1>2, <2>1
<1>4. NextCell(kind, d) = At(rest, n - 1, value, FALSE)
  <2>1. NextCell(kind, d) = TakeCell(kind, At(rest, n, value, FALSE))
    BY DEF NextCell
  <2> QED
    BY <2>1 DEF TakeCell, At
<1>5. ASSUME NEW i \in 1..n
      PROVE  t[i] = next[t[i - 1]] /\ Shows[t[i]] = Copies(value, n)[i]
  <2>1. i \in 0..n /\ i - 1 \in 0..n /\ i # 0 /\ n - (i - 1) \in Nat /\ n - (i - 1) # 0 /\ (n - (i - 1)) - 1 = n - i
    OBVIOUS
  <2>2. t[i] = At(rest, n - i, value, FALSE) /\ Copies(value, n)[i] = value
    BY <2>1 DEF Copies
  <2>3. CASE i = 1
    <3>1. t[i - 1] = d /\ next[d] = NextCell(kind, d)
      BY <2>3 DEF Nexts
    <3> QED
      BY <1>2, <1>4, <2>1, <2>2, <2>3, <3>1
  <2>4. CASE i # 1
    <3>1. t[i - 1] = At(rest, n - (i - 1), value, FALSE)
      BY <2>1, <2>4
    <3>2. NextCell(kind, At(rest, n - (i - 1), value, FALSE)) = At(rest, n - i, value, FALSE)
      BY <2>1, NextEqual
    <3> QED
      BY <1>2, <2>1, <2>2, <3>1, <3>2
  <2> QED
    BY <2>3, <2>4
<1>6. Len(Copies(value, n)) = n
  BY DEF Copies
<1> HIDE DEF t, next
<1>7. Reads(next, Shows, d, Copies(value, n), At(rest, 0, value, FALSE))
  BY <1>3, <1>5, <1>6 DEF Reads
<1> QED
  BY <1>7 DEF next

\* A literal run is its length, and its items one after the other.
LEMMA LiteralLoop ==
    ASSUME NEW kind \in Kinds, NEW vs \in Seq(Items(kind)), -Len(vs) \in SignedNumber
    PROVE  \E buf : /\ FlushLitRun(kind, vs) = buf[Len(vs)] /\ buf[0] = WriteSigned(-Len(vs))
                    /\ \A i \in 1..Len(vs) : buf[i] = buf[i - 1] \o WriteItem(kind, vs[i])
<1> DEFINE n == Len(vs)
           start == WriteSigned(-n)
           Is(f) == f = [i \in 0..n |-> IF i = 0 THEN start ELSE f[i - 1] \o WriteItem(kind, vs[i])]
           buf == CHOOSE f : Is(f)
           item(i) == IF i \in 1..n THEN WriteItem(kind, vs[i]) ELSE <<>>
           step == [x \in Nat \X Seq(Nat) |-> x[2] \o item(x[1])]
<1>1. n \in Nat /\ start \in Seq(Nat)
  <2>1. <<>> \in Seq(Nat)
    OBVIOUS
  <2>2. WriteSigned(-n) \in Seq(Nat)
    BY <2>1, SignedRoundTrip
  <2> QED
    BY <2>2
<1>2. \A i \in Nat : item(i) \in Seq(Nat)
  <2> SUFFICES ASSUME NEW i \in 1..n
               PROVE  WriteItem(kind, vs[i]) \in Seq(Nat)
    BY EmptySeq
  <2>1. vs[i] \in Items(kind)
    OBVIOUS
  <2> QED
    BY <2>1, EmptySeq, ItemRoundTrip
<1> HIDE DEF item
<1>3. step \in [Nat \X Seq(Nat) -> Seq(Nat)]
  <2> SUFFICES ASSUME NEW i \in Nat, NEW s \in Seq(Nat)
               PROVE  s \o item(i) \in Seq(Nat)
    OBVIOUS
  <2> QED
    BY <1>2, ConcatProperties
<1>4. \A i \in Nat, s \in Seq(Nat) : step[<<i, s>>] = s \o item(i)
  OBVIOUS
<1> HIDE DEF step, start
<1>5. PICK f : States(Seq(Nat), start, step, n, f)
  BY <1>1, <1>3, LoopHasStates
<1>6. Is(f)
  <2>1. f \in [0..n -> Seq(Nat)] /\ f[0] = start /\ \A i \in 1..n : f[i] = step[<<i, f[i - 1]>>]
    BY <1>5 DEF States
  <2>2. ASSUME NEW i \in 1..n
        PROVE  f[i] = f[i - 1] \o WriteItem(kind, vs[i])
    <3>1. i \in Nat /\ i - 1 \in 0..n
      OBVIOUS
    <3>2. f[i - 1] \in Seq(Nat)
      BY <2>1, <3>1
    <3>3. item(i) = WriteItem(kind, vs[i])
      BY DEF item
    <3> QED
      BY <1>4, <2>1, <3>1, <3>2, <3>3
  <2>3. ASSUME NEW i \in 0..n
        PROVE  f[i] = IF i = 0 THEN start ELSE f[i - 1] \o WriteItem(kind, vs[i])
    <3>1. CASE i = 0
      BY <2>1, <3>1
    <3>2. CASE i # 0
      <4>1. i \in 1..n
        BY <3>2
      <4> QED
        BY <2>2, <3>2, <4>1
    <3> QED
      BY <3>1, <3>2
  <2> QED
    BY <2>1, <2>3
<1>7. Is(buf)
  BY <1>6, Zenon
<1>8. FlushLitRun(kind, vs) = buf[n]
  BY DEF FlushLitRun, start
<1> HIDE DEF buf
<1>9. buf[0] = start /\ \A i \in 1..n : buf[i] = buf[i - 1] \o WriteItem(kind, vs[i])
  <2>1. 0 \in 0..n /\ \A i \in 1..n : i \in 0..n /\ i # 0
    BY <1>1
  <2>2. \A i \in 0..n : buf[i] = IF i = 0 THEN start ELSE buf[i - 1] \o WriteItem(kind, vs[i])
    BY <1>7, Zenon
  <2> QED
    BY <2>1, <2>2
<1> QED
  BY <1>8, <1>9 DEF start

\* The cells of the first items.
FirstCells(vs, k) == [i \in 1..k |-> {vs[i]}]
LastCell(vs, k)   == IF k = 0 THEN {} ELSE {vs[k]}

\* The first cells of a literal run, and one more.
LEMMA FirstCellsAre ==
    ASSUME NEW kind \in Kinds, NEW vs \in Seq(Items(kind)), NEW k \in 0..Len(vs)
    PROVE  /\ FirstCells(vs, k) \in Seq(CellsOf(kind)) /\ Len(FirstCells(vs, k)) = k
           /\ LastCell(vs, k) \in CellsOf(kind)
           /\ k < Len(vs) => FirstCells(vs, k + 1) = FirstCells(vs, k) \o <<{vs[k + 1]}>>
<1>1. \A i \in 1..Len(vs) : vs[i] \in Items(kind) /\ {vs[i]} \in CellsOf(kind)
  BY DEF CellsOf
<1>2. FirstCells(vs, k) \in Seq(CellsOf(kind)) /\ Len(FirstCells(vs, k)) = k
  BY <1>1 DEF FirstCells
<1>3. LastCell(vs, k) \in CellsOf(kind)
  BY <1>1 DEF LastCell, CellsOf
<1>4. ASSUME k < Len(vs)
      PROVE  FirstCells(vs, k + 1) = FirstCells(vs, k) \o <<{vs[k + 1]}>>
  <2> DEFINE a == FirstCells(vs, k)
             b == <<{vs[k + 1]}>>
  <2>1. k + 1 \in 1..Len(vs) /\ k \in Nat
    BY <1>4
  <2>2. b \in Seq(CellsOf(kind)) /\ Len(b) = 1 /\ b[1] = {vs[k + 1]}
    BY <1>1, <2>1
  <2>3. /\ a \o b \in Seq(CellsOf(kind)) /\ Len(a \o b) = k + 1
        /\ \A i \in 1..(k + 1) : (a \o b)[i] = IF i <= k THEN a[i] ELSE b[i - k]
    <3>1. a \in Seq(CellsOf(kind)) /\ Len(a) = k
      BY <1>2
    <3> HIDE DEF a, b
    <3> QED
      <4>1. /\ a \o b \in Seq(CellsOf(kind)) /\ Len(a \o b) = Len(a) + Len(b)
            /\ \A i \in 1..(Len(a) + Len(b)) : (a \o b)[i] = IF i <= Len(a) THEN a[i] ELSE b[i - Len(a)]
        <5> DEFINE S == CellsOf(kind)
        <5>1. a \in Seq(S) /\ b \in Seq(S)
          BY <2>2, <3>1
        <5> HIDE DEF S
        <5>2. /\ a \o b \in Seq(S) /\ Len(a \o b) = Len(a) + Len(b)
              /\ \A i \in 1..(Len(a) + Len(b)) : (a \o b)[i] = IF i <= Len(a) THEN a[i] ELSE b[i - Len(a)]
          BY <5>1, ConcatProperties
        <5> QED
          BY <5>2 DEF S
      <4> QED
        BY <2>2, <3>1, <4>1
  <2> HIDE DEF a, b
  <2>4. ASSUME NEW i \in 1..(k + 1)
        PROVE  (a \o b)[i] = {vs[i]}
    <3>1. CASE i <= k
      <4>1. i \in 1..k
        BY <2>1, <3>1
      <4>2. a[i] = {vs[i]}
        BY <4>1 DEF FirstCells, a
      <4> QED
        BY <2>3, <3>1, <4>2
    <3>2. CASE i = k + 1
      <4>1. i - k = 1 /\ ~(i <= k)
        BY <2>1, <3>2
      <4> QED
        BY <2>2, <2>3, <3>2, <4>1
    <3>3. i <= k \/ i = k + 1
      BY <2>1
    <3> QED
      BY <3>1, <3>2, <3>3
  <2> DEFINE c == a \o b
  <2> HIDE DEF c
  <2>5. c \in Seq(CellsOf(kind)) /\ Len(c) = k + 1 /\ \A i \in 1..(k + 1) : c[i] = {vs[i]}
    BY <2>3, <2>4 DEF c
  <2>6. c = [i \in 1..(k + 1) |-> {vs[i]}]
    BY <2>5
  <2> QED
    BY <2>6 DEF FirstCells, a, b, c
<1> QED
  BY <1>2, <1>3, <1>4

\* In a literal run, item by item is read until rest is left.
ReadsLiterals(kind, vs, w, k, rest) ==
    Reads(Nexts(kind), Shows, At(w \o rest, Len(vs), {}, TRUE), FirstCells(vs, k),
          At(rest, Len(vs) - k, LastCell(vs, k), TRUE))

\* Before the first literal nothing has been read.
LEMMA LiteralsStart ==
    ASSUME NEW kind \in Kinds, NEW vs \in Seq(Items(kind)), NEW rest \in Seq(Nat)
    PROVE  ReadsLiterals(kind, vs, <<>>, 0, rest)
<1>1. /\ <<>> \o rest = rest /\ Len(vs) \in Nat /\ Len(vs) - 0 = Len(vs)
      /\ FirstCells(vs, 0) = <<>> /\ LastCell(vs, 0) = {} /\ {} \in CellsOf(kind)
  BY ConcatEmptySeq DEF FirstCells, LastCell, CellsOf
<1> DEFINE d == At(rest, Len(vs), {}, TRUE)
<1>2. d \in DOMAIN Nexts(kind)
  BY <1>1, AtIsDecoder
<1> HIDE DEF d
<1>3. Reads(Nexts(kind), Shows, d, <<>>, d)
  BY <1>2, ReadsNothing
<1> QED
  BY <1>1, <1>3 DEF ReadsLiterals, d

\* A decoder that read k literals reads one more.
LEMMA LiteralsStep ==
    ASSUME NEW kind \in Kinds, NEW vs \in Seq(Items(kind)), NEW k \in 0..(Len(vs) - 1),
           NEW w \in Seq(Nat), NEW rest \in Seq(Nat),
           ReadsLiterals(kind, vs, w, k, WriteItem(kind, vs[k + 1]) \o rest)
    PROVE  ReadsLiterals(kind, vs, w \o WriteItem(kind, vs[k + 1]), k + 1, rest)
<1> DEFINE n == Len(vs)
           item == vs[k + 1]
           i == WriteItem(kind, item)
           next == Nexts(kind)
           d == At(w \o (i \o rest), n, {}, TRUE)
           e == At(i \o rest, n - k, LastCell(vs, k), TRUE)
           f == At(rest, n - (k + 1), {item}, TRUE)
<1>1. n \in Nat /\ k \in 0..n /\ k < n /\ n - k \in Nat /\ n - k # 0 /\ (n - k) - 1 = n - (k + 1) /\ n - (k + 1) \in Nat
      /\ k + 1 \in 1..n /\ k + 1 # 0
  OBVIOUS
<1>2. item \in Items(kind) /\ {item} \in CellsOf(kind)
  <2>1. \A j \in 1..n : vs[j] \in Items(kind)
    OBVIOUS
  <2>2. vs[k + 1] \in Items(kind)
    BY <1>1, <2>1, Zenon
  <2> QED
    BY <2>2 DEF CellsOf
<1> HIDE DEF item
<1>3. i \in Seq(Nat)
  BY <1>2, ItemRoundTrip
<1> HIDE DEF i
<1>4. i \o rest \in Seq(Nat) /\ (w \o i) \o rest = w \o (i \o rest)
  <2>1. i \o rest \in Seq(Nat)
    BY <1>3, ConcatProperties
  <2>2. (w \o i) \o rest = w \o (i \o rest)
    BY <1>3, ConcatFacts, Zenon
  <2> QED
    BY <2>1, <2>2
<1>5. LastCell(vs, k) \in CellsOf(kind)
  BY <1>1, FirstCellsAre
<1>6. NextCell(kind, e) = f
  <2> DEFINE bytes == i \o rest
             count == n - k
             left == n - (k + 1)
             shown == LastCell(vs, k)
  <2>1. item \in Items(kind)
    BY <1>2, Zenon
  <2>2. BeginsWith(kind, item, rest, bytes)
    BY <2>1, WrittenBegins, Zenon DEF i
  <2>3. count \in Nat /\ count # 0 /\ left = count - 1
    BY <1>1, Zenon
  <2>4. e = At(bytes, count, shown, TRUE) /\ f = At(rest, left, {item}, TRUE)
    BY Zenon
  <2>5. rest \in Seq(Nat) /\ kind \in Kinds
    OBVIOUS
  <2> HIDE DEF e, f, bytes, count, left, shown
  <2>6. LiteralStep(kind, e, f, item, rest, bytes, count, left, shown)
    BY <2>1, <2>2, <2>3, <2>4, <2>5, Zenon DEF LiteralStep
  <2> QED
    BY <2>6, NextLiteral, Zenon
<1>7. e \in DOMAIN next /\ next[e] = f
  BY <1>1, <1>4, <1>5, <1>6, AtIsDecoder, ZenonT(40)
<1>8. f \in DOMAIN next /\ Shows[f] = {item}
  <2> DEFINE m == n - (k + 1)
             cell == {item}
  <2>1. m \in Nat /\ cell \in CellsOf(kind)
    BY <1>1, <1>2
  <2> HIDE DEF m, cell
  <2>2. At(rest, m, cell, TRUE) \in DOMAIN next /\ Shows[At(rest, m, cell, TRUE)] = cell
    BY <2>1, AtIsDecoder
  <2> QED
    BY <2>2 DEF m, cell
<1> HIDE DEF d, e, f, next
<1>9. Reads(next, Shows, e, <<{item}>>, f)
  BY <1>7, <1>8, ReadsOne
<1>10. Reads(next, Shows, d, FirstCells(vs, k), e)
  BY DEF ReadsLiterals, d, e, next, i, item
<1>11. /\ FirstCells(vs, k) \in Seq(CellsOf(kind)) /\ <<{item}>> \in Seq(CellsOf(kind))
       /\ FirstCells(vs, k + 1) = FirstCells(vs, k) \o <<{item}>>
  <2>1. FirstCells(vs, k) \in Seq(CellsOf(kind)) /\ FirstCells(vs, k + 1) = FirstCells(vs, k) \o <<{vs[k + 1]}>>
    BY <1>1, FirstCellsAre
  <2>2. <<{item}>> \in Seq(CellsOf(kind))
    BY <1>2
  <2> QED
    BY <2>1, <2>2 DEF item
<1>12. Reads(next, Shows, d, FirstCells(vs, k + 1), f)
  BY <1>9, <1>10, <1>11, ReadsBoth
<1>13. LastCell(vs, k + 1) = {item}
  BY <1>1 DEF LastCell, item
<1> QED
  BY <1>4, <1>12, <1>13 DEF ReadsLiterals, d, f, i, item, next

\* What is written of a literal run is read to its end.
LEMMA LiteralsRead ==
    ASSUME NEW kind \in Kinds, NEW vs \in Seq(Items(kind)), -Len(vs) \in SignedNumber
    PROVE  \E w \in Seq(Nat) : /\ FlushLitRun(kind, vs) = WriteSigned(-Len(vs)) \o w
                               /\ \A rest \in Seq(Nat) : ReadsLiterals(kind, vs, w, Len(vs), rest)
<1> DEFINE n == Len(vs)
           start == WriteSigned(-n)
<1>1. n \in Nat /\ n \in 0..n /\ start \in Seq(Nat)
  <2>1. <<>> \in Seq(Nat)
    OBVIOUS
  <2>2. WriteSigned(-n) \in Seq(Nat)
    BY <2>1, SignedRoundTrip
  <2> QED
    BY <2>2
<1>2. PICK buf : /\ FlushLitRun(kind, vs) = buf[n] /\ buf[0] = start
                 /\ \A i \in 1..n : buf[i] = buf[i - 1] \o WriteItem(kind, vs[i])
  BY LiteralLoop
<1> HIDE DEF start
<1> DEFINE P(k, w) == buf[k] = start \o w /\ \A rest \in Seq(Nat) : ReadsLiterals(kind, vs, w, k, rest)
           I == {k \in 0..n : \E w \in Seq(Nat) : P(k, w)}
<1>3. 0 \in I
  <2>1. <<>> \in Seq(Nat) /\ start \o <<>> = start
    BY <1>1, ConcatEmptySeq
  <2>2. P(0, <<>>)
    BY <1>2, <2>1, LiteralsStart
  <2>3. 0 \in 0..n
    BY <1>1
  <2> QED
    BY <2>1, <2>2, <2>3, Zenon
<1>4. ASSUME NEW k \in 0..(n - 1), k \in I
      PROVE  k + 1 \in I
  <2>1. PICK w \in Seq(Nat) : P(k, w)
    BY <1>4
  <2> DEFINE i == WriteItem(kind, vs[k + 1])
  <2>2. k + 1 \in 1..n /\ k + 1 \in 0..n /\ (k + 1) - 1 = k
    BY <1>1
  <2>3. i \in Seq(Nat)
    <3>1. \A j \in 1..n : vs[j] \in Items(kind)
      OBVIOUS
    <3>2. vs[k + 1] \in Items(kind) /\ <<>> \in Seq(Nat)
      BY <2>2, <3>1
    <3> QED
      BY <3>2, ItemRoundTrip
  <2>4. buf[k + 1] = buf[k] \o i
    BY <1>2, <2>2
  <2>5. \A rest \in Seq(Nat) : ReadsLiterals(kind, vs, w \o i, k + 1, rest)
    <3> TAKE rest \in Seq(Nat)
    <3>1. i \o rest \in Seq(Nat)
      BY <2>3, ConcatBytes, Zenon
    <3>2. ReadsLiterals(kind, vs, w, k, i \o rest)
      BY <2>1, <3>1
    <3> QED
      BY <3>2, LiteralsStep
  <2> HIDE DEF i
  <2>6. w \o i \in Seq(Nat) /\ start \o (w \o i) = (start \o w) \o i
    <3>1. w \o i \in Seq(Nat)
      BY <1>1, <2>3, ConcatBytes, Zenon
    <3>2. start \o (w \o i) = (start \o w) \o i
      BY <1>1, <2>3, ConcatFacts, Zenon
    <3> QED
      BY <3>1, <3>2
  <2>7. P(k + 1, w \o i)
    BY <2>1, <2>4, <2>5, <2>6
  <2> QED
    BY <2>2, <2>6, <2>7
<1> HIDE DEF I
<1>5. \A k \in 0..n : k \in I
  BY <1>1, <1>3, <1>4, Throughout
<1>6. n \in I
  BY <1>1, <1>5
<1>7. PICK w \in Seq(Nat) : P(n, w)
  BY <1>6 DEF I
<1> QED
  BY <1>2, <1>7 DEF start
-----------------------------------------------------------------------------
(* Bytes yield cells: wherever a run may begin, a decoder that comes to them reads these *)
(* cells and stands after them, where a run may begin                                    *)

Yields(kind, bytes, read) ==
    /\ bytes \in Seq(Nat) /\ read \in Seq(CellsOf(kind))
    /\ \A d \in Decoder, rest \in Seq(Nat) :
           d.count = 0 /\ d.bytes = bytes \o rest =>
               \E e \in Decoder : e.count = 0 /\ e.bytes = rest /\ Reads(Nexts(kind), Shows, d, read, e)

\* No bytes yield no cells.
LEMMA NothingYieldsNothing ==
    ASSUME NEW kind
    PROVE  Yields(kind, <<>>, <<>>)
<1>1. \A rest \in Seq(Nat) : <<>> \o rest = rest
  BY ConcatEmptySeq
<1>2. \A d \in Decoder : Reads(Nexts(kind), Shows, d, <<>>, d)
  <2> TAKE d \in Decoder
  <2>1. d \in DOMAIN Nexts(kind)
    BY DEF Nexts
  <2> QED
    BY <2>1, ReadsNothing
<1> QED
  BY <1>1, <1>2 DEF Yields

\* Bytes one after the other yield cells one after the other.
LEMMA YieldsBoth ==
    ASSUME NEW kind, NEW a, NEW b, NEW first, NEW later,
           Yields(kind, a, first), Yields(kind, b, later)
    PROVE  Yields(kind, a \o b, first \o later)
<1> DEFINE S == CellsOf(kind)
<1>1. a \in Seq(Nat) /\ b \in Seq(Nat) /\ first \in Seq(S) /\ later \in Seq(S)
  BY DEF Yields
<1> HIDE DEF S
<1>2. a \o b \in Seq(Nat) /\ first \o later \in Seq(S)
  <2>1. a \o b \in Seq(Nat)
    BY <1>1, ConcatBytes, Zenon
  <2>2. first \o later \in Seq(S)
    BY <1>1, ConcatProperties
  <2> QED
    BY <2>1, <2>2
<1>3. ASSUME NEW d \in Decoder, NEW rest \in Seq(Nat), d.count = 0, d.bytes = (a \o b) \o rest
      PROVE  \E e \in Decoder : e.count = 0 /\ e.bytes = rest /\ Reads(Nexts(kind), Shows, d, first \o later, e)
  <2>1. b \o rest \in Seq(Nat) /\ d.bytes = a \o (b \o rest)
    <3>1. b \o rest \in Seq(Nat)
      BY <1>1, <1>3, ConcatBytes, Zenon
    <3>2. d.bytes = a \o (b \o rest)
      BY <1>1, <1>3, ConcatFacts, Zenon
    <3> QED
      BY <3>1, <3>2
  <2>2. PICK e \in Decoder : e.count = 0 /\ e.bytes = b \o rest /\ Reads(Nexts(kind), Shows, d, first, e)
    BY <1>3, <2>1 DEF Yields
  <2>3. PICK f \in Decoder : f.count = 0 /\ f.bytes = rest /\ Reads(Nexts(kind), Shows, e, later, f)
    BY <2>2 DEF Yields
  <2>4. Reads(Nexts(kind), Shows, d, first \o later, f)
    BY <1>1, <2>2, <2>3, ReadsBoth
  <2> QED
    BY <2>3, <2>4
<1> QED
  BY <1>2, <1>3 DEF Yields, S

\* A run yields its value as often as it says.
LEMMA RunYields ==
    ASSUME NEW kind \in Kinds, NEW n \in Nat, n # 0, n \in SignedNumber, NEW item \in Items(kind)
    PROVE  Yields(kind, WriteSigned(n) \o WriteItem(kind, item), Copies({item}, n))
<1> DEFINE w == WriteSigned(n)
           i == WriteItem(kind, item)
           cell == {item}
<1>1. w \in Seq(Nat) /\ i \in Seq(Nat)
  <2>1. <<>> \in Seq(Nat)
    OBVIOUS
  <2> QED
    BY <2>1, SignedRoundTrip, ItemRoundTrip
<1>2. cell \in CellsOf(kind)
  BY DEF CellsOf
<1> HIDE DEF cell
<1>3. Copies(cell, n) \in Seq(CellsOf(kind))
  BY <1>2 DEF Copies
<1>4. ASSUME NEW d \in Decoder, NEW rest \in Seq(Nat), d.count = 0, d.bytes = (w \o i) \o rest
      PROVE  \E e \in Decoder : e.count = 0 /\ e.bytes = rest /\ Reads(Nexts(kind), Shows, d, Copies(cell, n), e)
  <2> DEFINE read == ReadItem(kind, i \o rest)
             r == RunOfValue(i \o rest, n, read)
             e == At(rest, 0, cell, FALSE)
  <2>1. read.value = item /\ After(i \o rest, read) = rest
    BY ItemRoundTrip
  <2> HIDE DEF w, i
  <2>2. i \o rest \in Seq(Nat) /\ d.bytes = w \o (i \o rest)
    <3>1. i \o rest \in Seq(Nat)
      BY <1>1, <1>4, ConcatBytes, Zenon
    <3>2. d.bytes = w \o (i \o rest)
      BY <1>1, <1>4, ConcatFacts, Zenon
    <3> QED
      BY <3>1, <3>2
  <2>3. Run(kind, n, i \o rest) = r
    <3>1. n > 0
      OBVIOUS
    <3> QED
      BY <3>1 DEF Run
  <2> HIDE DEF read
  <2>4. r = At(rest, n, cell, FALSE)
    BY <2>1 DEF RunOfValue, At, cell
  <2>5. r.count = n
    BY DEF RunOfValue
  <2> HIDE DEF r
  <2>6. NextRun(kind, d) = r
    BY <1>4, <2>2, <2>3, <2>5, RunFound DEF w
  <2>7. Reads(Nexts(kind), Shows, d, Copies(cell, n), e)
    BY <1>2, <2>4, <2>6, CountDown
  <2>8. e \in Decoder
    BY <1>2, AtIsDecoder
  <2>9. e.count = 0 /\ e.bytes = rest
    BY DEF At
  <2> QED
    BY <2>7, <2>8, <2>9
<1>5. w \o i \in Seq(Nat)
  BY <1>1, ConcatBytes, Zenon
<1> QED
  BY <1>3, <1>4, <1>5 DEF Yields, cell

\* A run of nulls yields as many nulls.
LEMMA NullsYield ==
    ASSUME NEW kind \in Kinds, NEW n \in Nat, n # 0, n \in UnsignedNumber
    PROVE  Yields(kind, WriteSigned(0) \o WriteUnsigned(n), Copies({}, n))
<1> DEFINE w == WriteSigned(0)
           i == WriteUnsigned(n)
<1>1. w \in Seq(Nat) /\ i \in Seq(Nat) /\ 0 \in SignedNumber
  <2>1. <<>> \in Seq(Nat) /\ 0 \in SignedNumber
    BY ModulusFacts, BitFacts DEF SignedNumber
  <2> QED
    BY <2>1, SignedRoundTrip, UnsignedRoundTrip
<1>2. {} \in CellsOf(kind)
  BY DEF CellsOf
<1>3. Copies({}, n) \in Seq(CellsOf(kind))
  BY <1>2 DEF Copies
<1>4. ASSUME NEW d \in Decoder, NEW rest \in Seq(Nat), d.count = 0, d.bytes = (w \o i) \o rest
      PROVE  \E e \in Decoder : e.count = 0 /\ e.bytes = rest /\ Reads(Nexts(kind), Shows, d, Copies({}, n), e)
  <2> DEFINE read == ReadUnsigned(i \o rest)
             r == RunOfNulls(i \o rest, read)
             e == At(rest, 0, {}, FALSE)
  <2>1. read.value = n /\ read.size = Len(i)
    BY UnsignedRoundTrip
  <2> HIDE DEF w, i
  <2>2. i \o rest \in Seq(Nat) /\ d.bytes = w \o (i \o rest)
    <3>1. i \o rest \in Seq(Nat)
      BY <1>1, <1>4, ConcatBytes, Zenon
    <3>2. d.bytes = w \o (i \o rest)
      BY <1>1, <1>4, ConcatFacts, Zenon
    <3> QED
      BY <3>1, <3>2
  <2>3. Run(kind, 0, i \o rest) = r
    BY DEF Run
  <2> HIDE DEF read
  <2>4. After(i \o rest, read) = rest
    BY <1>1, <2>1, AfterPart
  <2>5. r = At(rest, n, {}, FALSE)
    BY <2>1, <2>4 DEF RunOfNulls, At
  <2>6. r.count = n
    BY <2>1 DEF RunOfNulls
  <2> HIDE DEF r
  <2>7. NextRun(kind, d) = r
    BY <1>1, <1>4, <2>2, <2>3, <2>6, RunFound DEF w
  <2>8. Reads(Nexts(kind), Shows, d, Copies({}, n), e)
    BY <1>2, <2>5, <2>7, CountDown
  <2>9. e \in Decoder
    BY <1>2, AtIsDecoder
  <2>10. e.count = 0 /\ e.bytes = rest
    BY DEF At
  <2> QED
    BY <2>8, <2>9, <2>10
<1>5. w \o i \in Seq(Nat)
  BY <1>1, ConcatBytes, Zenon
<1> QED
  BY <1>3, <1>4, <1>5 DEF Yields

\* A literal run yields its values.
LEMMA LiteralsYield ==
    ASSUME NEW kind \in Kinds, NEW vs \in Seq(Items(kind)), vs # <<>>, -Len(vs) \in SignedNumber
    PROVE  Yields(kind, FlushLitRun(kind, vs), FirstCells(vs, Len(vs)))
<1> DEFINE n == Len(vs)
           read == FirstCells(vs, n)
           start == WriteSigned(-n)
<1>1. n \in Nat /\ n # 0 /\ n \in 0..n
  BY EmptySeq
<1>2. read \in Seq(CellsOf(kind)) /\ Len(read) = n
  BY <1>1, FirstCellsAre
<1>3. LastCell(vs, n) \in CellsOf(kind) /\ {} \in CellsOf(kind)
  BY <1>1, FirstCellsAre DEF CellsOf
<1>4. PICK w \in Seq(Nat) : /\ FlushLitRun(kind, vs) = start \o w
                            /\ \A rest \in Seq(Nat) : ReadsLiterals(kind, vs, w, n, rest)
  BY LiteralsRead
<1>5. start \in Seq(Nat)
  <2>1. <<>> \in Seq(Nat)
    OBVIOUS
  <2> QED
    BY <2>1, SignedRoundTrip
<1>6. start \o w \in Seq(Nat)
  <2> HIDE DEF start
  <2> QED
    BY <1>5, ConcatBytes, Zenon
<1>7. ASSUME NEW d \in Decoder, NEW rest \in Seq(Nat), d.count = 0, d.bytes = (start \o w) \o rest
      PROVE  \E e \in Decoder : e.count = 0 /\ e.bytes = rest /\ Reads(Nexts(kind), Shows, d, read, e)
  <2> DEFINE r == At(w \o rest, n, {}, TRUE)
             e == At(rest, 0, LastCell(vs, n), TRUE)
  <2>1. w \o rest \in Seq(Nat) /\ d.bytes = start \o (w \o rest)
    <3> HIDE DEF start
    <3> QED
      <4>1. w \o rest \in Seq(Nat)
        BY <1>5, <1>7, ConcatBytes, Zenon
      <4>2. d.bytes = start \o (w \o rest)
        BY <1>5, <1>7, ConcatFacts, Zenon
      <4> QED
        BY <4>1, <4>2
  <2>2. Run(kind, -n, w \o rest) = RunOfLiterals(w \o rest, n)
    <3>1. -n < 0 /\ ~(-n > 0) /\ -n # 0 /\ -(-n) = n
      BY <1>1
    <3> QED
      BY <3>1 DEF Run
  <2>3. RunOfLiterals(w \o rest, n) = r /\ RunOfLiterals(w \o rest, n).count = n
    BY DEF RunOfLiterals, At
  <2>4. r \in Decoder /\ r \in DOMAIN Nexts(kind) /\ e \in Decoder
    BY <1>1, <1>3, <2>1, AtIsDecoder
  <2>5. e.count = 0 /\ e.bytes = rest
    BY DEF At
  <2>6. NextRun(kind, r) = r
    BY <1>1, <2>1, NextOfRun
  <2> HIDE DEF r, e
  <2>7. NextRun(kind, d) = r
    BY <1>1, <1>7, <2>1, <2>2, <2>3, RunFound
  <2>8. Nexts(kind)[d] = Nexts(kind)[r] /\ d \in DOMAIN Nexts(kind)
    BY <2>4, <2>6, <2>7 DEF Nexts, NextCell
  <2>9. Reads(Nexts(kind), Shows, r, read, e)
    <3>1. ReadsLiterals(kind, vs, w, n, rest) /\ n - n = 0
      BY <1>1, <1>4
    <3> QED
      BY <3>1 DEF ReadsLiterals, r, e
  <2>10. read # <<>>
    BY <1>1, <1>2
  <2> HIDE DEF read
  <2>11. Reads(Nexts(kind), Shows, d, read, e)
    BY <1>2, <2>4, <2>8, <2>9, <2>10, ReadsAlike
  <2> QED
    BY <2>4, <2>5, <2>11
<1> QED
  BY <1>2, <1>4, <1>6, <1>7 DEF Yields

-----------------------------------------------------------------------------
(* What an encoder wrote *)

\* Bytes yield cells, and are not empty if there are any.
Written(kind, bytes, read) == Yields(kind, bytes, read) /\ (bytes = <<>> => read = <<>>)

\* The same of what was written one after the other.
LEMMA WrittenBoth ==
    ASSUME NEW kind, NEW a, NEW b, NEW first, NEW later,
           Written(kind, a, first), Written(kind, b, later)
    PROVE  Written(kind, a \o b, first \o later)
<1>1. a \in Seq(Nat) /\ b \in Seq(Nat)
  BY DEF Written, Yields
<1>2. Yields(kind, a \o b, first \o later)
  BY YieldsBoth DEF Written
<1>3. ASSUME a \o b = <<>>
      PROVE  first \o later = <<>>
  <2>1. a = <<>> /\ b = <<>>
    BY <1>1, <1>3, ConcatEqualIffEmpty
  <2>2. first = <<>> /\ later = <<>>
    BY <2>1 DEF Written
  <2> QED
    BY <2>2
<1> QED
  BY <1>2, <1>3 DEF Written

\* Bytes that begin with a number are not empty.
LEMMA NotEmpty ==
    ASSUME NEW n \in SignedNumber, NEW rest \in Seq(Nat)
    PROVE  WriteSigned(n) \o rest # <<>>
<1> DEFINE w == WriteSigned(n)
<1>1. w \in Seq(Nat) /\ w # <<>>
  BY SignedRoundTrip
<1> HIDE DEF w
<1>2. w \o rest # <<>>
  BY <1>1, ConcatEqualIffEmpty
<1> QED
  BY <1>2 DEF w

\* The numbers of cells that are written.
LEMMA SizesFit ==
    ASSUME NEW n \in Nat, n \in SignedNumber
    PROVE  \A m \in 0..n : m \in Nat /\ m \in SignedNumber /\ m \in UnsignedNumber /\ -m \in SignedNumber
BY ModulusFacts DEF SignedNumber, UnsignedNumber

\* A run is written in some bytes.
LEMMA RunWritten ==
    ASSUME NEW kind \in Kinds, NEW n \in Nat, n # 0, n \in SignedNumber, NEW item \in Items(kind)
    PROVE  Written(kind, WriteSigned(n) \o WriteItem(kind, item), Copies({item}, n))
<1>1. <<>> \in Seq(Nat)
  OBVIOUS
<1>2. WriteItem(kind, item) \in Seq(Nat)
  BY <1>1, ItemRoundTrip
<1>3. WriteSigned(n) \o WriteItem(kind, item) # <<>>
  BY <1>2, NotEmpty
<1> QED
  BY <1>3, RunYields DEF Written

\* So is a run of nulls.
LEMMA NullsWritten ==
    ASSUME NEW kind \in Kinds, NEW n \in Nat, n # 0, n \in UnsignedNumber
    PROVE  Written(kind, WriteSigned(0) \o WriteUnsigned(n), Copies({}, n))
<1>1. <<>> \in Seq(Nat) /\ 0 \in SignedNumber
  BY ModulusFacts, BitFacts DEF SignedNumber
<1>2. WriteUnsigned(n) \in Seq(Nat)
  BY <1>1, UnsignedRoundTrip
<1>3. WriteSigned(0) \o WriteUnsigned(n) # <<>>
  BY <1>1, <1>2, NotEmpty
<1> QED
  BY <1>3, NullsYield DEF Written

CellsIn(vs) == FirstCells(vs, Len(vs))

\* So is a literal run.
LEMMA LiteralsWritten ==
    ASSUME NEW kind \in Kinds, NEW vs \in Seq(Items(kind)), vs # <<>>, -Len(vs) \in SignedNumber
    PROVE  Written(kind, FlushLitRun(kind, vs), CellsIn(vs))
<1>1. PICK w \in Seq(Nat) : FlushLitRun(kind, vs) = WriteSigned(-Len(vs)) \o w
  BY LiteralsRead
<1>2. FlushLitRun(kind, vs) # <<>>
  BY <1>1, NotEmpty
<1> QED
  BY <1>2, LiteralsYield DEF Written, CellsIn

\* The cells of literals, and of one literal more.
LEMMA CellsInAre ==
    ASSUME NEW kind \in Kinds, NEW vs \in Seq(Items(kind)), NEW item \in Items(kind)
    PROVE  /\ CellsIn(vs) \in Seq(CellsOf(kind)) /\ Len(CellsIn(vs)) = Len(vs)
           /\ vs = <<>> => CellsIn(vs) = <<>>
           /\ CellsIn(Append(vs, item)) = CellsIn(vs) \o <<{item}>>
<1> DEFINE n == Len(vs)
           all == Append(vs, item)
<1>1. n \in Nat /\ n \in 0..n
  OBVIOUS
<1>2. CellsIn(vs) \in Seq(CellsOf(kind)) /\ Len(CellsIn(vs)) = n
  BY <1>1, FirstCellsAre DEF CellsIn
<1>3. vs = <<>> => CellsIn(vs) = <<>>
  BY DEF CellsIn, FirstCells
<1>4. all \in Seq(Items(kind)) /\ Len(all) = n + 1 /\ all[n + 1] = item /\ \A i \in 1..n : all[i] = vs[i]
  OBVIOUS
<1> HIDE DEF all
<1>5. FirstCells(all, n + 1) = FirstCells(all, n) \o <<{all[n + 1]}>>
  <2>1. n \in 0..Len(all) /\ n < Len(all)
    BY <1>1, <1>4
  <2> QED
    BY <1>4, <2>1, FirstCellsAre
<1>6. FirstCells(all, n) = FirstCells(vs, n)
  BY <1>4 DEF FirstCells
<1>7. CellsIn(all) = CellsIn(vs) \o <<{item}>>
  BY <1>4, <1>5, <1>6 DEF CellsIn
<1> QED
  BY <1>2, <1>3, <1>7 DEF all

\* Copies of a cell, and one more.
LEMMA CopiesAre ==
    ASSUME NEW S, NEW value \in S, NEW n \in Nat
    PROVE  /\ Copies(value, n) \in Seq(S) /\ Len(Copies(value, n)) = n
           /\ Copies(value, n + 1) = Copies(value, n) \o <<value>>
           /\ Copies(value, 1) = <<value>> /\ Copies(value, 2) = <<value>> \o <<value>>
<1>1. \A m \in Nat : Copies(value, m) \in Seq(S) /\ Len(Copies(value, m)) = m
  BY DEF Copies
<1>2. ASSUME NEW m \in Nat
      PROVE  Copies(value, m + 1) = Copies(value, m) \o <<value>>
  <2> DEFINE a == Copies(value, m)
             c == a \o <<value>>
  <2>1. a \in Seq(S) /\ Len(a) = m /\ \A i \in 1..m : a[i] = value
    BY DEF Copies
  <2>2. <<value>> \in Seq(S) /\ Len(<<value>>) = 1 /\ <<value>>[1] = value
    OBVIOUS
  <2> HIDE DEF a
  <2>3. c \in Seq(S) /\ Len(c) = m + 1 /\ \A i \in 1..(m + 1) : c[i] = IF i <= m THEN a[i] ELSE <<value>>[i - m]
    BY <2>1, <2>2, ConcatProperties
  <2> HIDE DEF c
  <2>4. \A i \in 1..(m + 1) : c[i] = value
    <3> TAKE i \in 1..(m + 1)
    <3>1. CASE i <= m
      <4>1. i \in 1..m
        BY <3>1
      <4> QED
        BY <2>1, <2>3, <3>1, <4>1
    <3>2. CASE ~(i <= m)
      <4>1. i - m = 1
        BY <3>2
      <4> QED
        BY <2>2, <2>3, <3>2, <4>1
    <3> QED
      BY <3>1, <3>2
  <2>5. c = [i \in 1..(m + 1) |-> value]
    BY <2>3, <2>4
  <2> QED
    BY <2>5 DEF Copies, a, c
<1>3. Copies(value, 0) = <<>>
  BY DEF Copies
<1>4. Copies(value, 1) = <<value>>
  <2>1. Copies(value, 0 + 1) = <<>> \o <<value>>
    BY <1>2, <1>3
  <2> QED
    BY <2>1
<1>5. Copies(value, 2) = <<value>> \o <<value>>
  <2>1. Copies(value, 1 + 1) = Copies(value, 1) \o <<value>>
    BY <1>2
  <2>2. 1 + 1 = 2
    OBVIOUS
  <2> QED
    BY <1>4, <2>1, <2>2
<1> QED
  BY <1>1, <1>2, <1>4, <1>5

-----------------------------------------------------------------------------
(* The encoder: what it wrote yields the cells before those of the run it holds *)

RleFields == {"tag", "size", "value", "literals", "buf"}

HoldsNulls(kind, e, before, all) ==
    e.tag = "NULL_RUN" /\ e.size \in Nat /\ e.size # 0 /\ all = before \o Copies({}, e.size)
HoldsRun(kind, e, before, all) ==
    /\ e.tag = "RUN" /\ e.size \in Nat /\ e.size # 0 /\ e.value \in Items(kind)
    /\ all = before \o Copies({e.value}, e.size)
HoldsLiterals(kind, e, before, all) ==
    /\ e.tag = "LITERAL_RUN" /\ e.value \in Items(kind) /\ e.literals \in Seq(Items(kind))
    /\ all = before \o CellsIn(Append(e.literals, e.value))
Holds(kind, e, before, all) ==
    \/ e.tag = "EMPTY" /\ e.buf = <<>> /\ all = before
    \/ HoldsNulls(kind, e, before, all)
    \/ HoldsRun(kind, e, before, all)
    \/ HoldsLiterals(kind, e, before, all)

\* An encoder to which these cells were appended.
Encoded(kind, e, all) ==
    /\ DOMAIN e = RleFields
    /\ \E before \in Seq(CellsOf(kind)) : Written(kind, e.buf, before) /\ Holds(kind, e, before, all)

\* A new encoder has no cells.
LEMMA EncodedNothing ==
    ASSUME NEW kind
    PROVE  Encoded(kind, NewRle, <<>>)
<1>1. DOMAIN NewRle = RleFields /\ NewRle.tag = "EMPTY" /\ NewRle.buf = <<>>
  BY DEF NewRle, RleFields
<1>2. Written(kind, <<>>, <<>>)
  BY NothingYieldsNothing DEF Written
<1>3. <<>> \in Seq(CellsOf(kind))
  OBVIOUS
<1> QED
  BY <1>1, <1>2, <1>3 DEF Encoded, Holds

\* The cells of an encoder are of its kind.
LEMMA EncodedCells ==
    ASSUME NEW kind \in Kinds, NEW e, NEW all, Encoded(kind, e, all)
    PROVE  all \in Seq(CellsOf(kind))
<1>1. PICK before \in Seq(CellsOf(kind)) : Holds(kind, e, before, all)
  BY DEF Encoded
<1> DEFINE S == CellsOf(kind)
<1>2. before \in Seq(S) /\ {} \in S /\ \A item \in Items(kind) : {item} \in S
  BY DEF CellsOf
<1>3. CASE e.tag = "EMPTY" /\ e.buf = <<>> /\ all = before
  BY <1>3
<1>4. CASE HoldsNulls(kind, e, before, all)
  <2>1. Copies({}, e.size) \in Seq(S) /\ all = before \o Copies({}, e.size)
    BY <1>2, <1>4, CopiesAre DEF HoldsNulls
  <2> HIDE DEF S
  <2>2. all \in Seq(S)
    BY <1>2, <2>1, ConcatProperties
  <2> QED
    BY <2>2 DEF S
<1>5. CASE HoldsRun(kind, e, before, all)
  <2> DEFINE cell == {e.value}
  <2>1. cell \in S /\ e.size \in Nat /\ all = before \o Copies(cell, e.size)
    BY <1>2, <1>5 DEF HoldsRun
  <2> HIDE DEF S, cell
  <2>2. Copies(cell, e.size) \in Seq(S)
    BY <2>1, CopiesAre
  <2>3. all \in Seq(S)
    BY <1>2, <2>1, <2>2, ConcatProperties
  <2> QED
    BY <2>3 DEF S
<1>6. CASE HoldsLiterals(kind, e, before, all)
  <2> DEFINE vs == Append(e.literals, e.value)
  <2>1. vs \in Seq(Items(kind)) /\ all = before \o CellsIn(vs) /\ e.value \in Items(kind)
    BY <1>6 DEF HoldsLiterals
  <2> HIDE DEF vs
  <2>2. CellsIn(vs) \in Seq(S)
    BY <2>1, CellsInAre
  <2> HIDE DEF S
  <2>3. all \in Seq(S)
    BY <1>2, <2>1, <2>2, ConcatProperties
  <2> QED
    BY <2>3 DEF S
<1> QED
  BY <1>1, <1>3, <1>4, <1>5, <1>6 DEF Holds

\* What follows other cells is not longer than all of them.
LEMMA NotLonger ==
    ASSUME NEW S, NEW a \in Seq(S), NEW b \in Seq(S)
    PROVE  Len(a \o b) \in Nat /\ Len(b) \in 0..Len(a \o b)
<1>1. Len(a \o b) = Len(a) + Len(b) /\ Len(a) \in Nat /\ Len(b) \in Nat
  BY ConcatProperties
<1> QED
  BY <1>1

\* Flushed, it has written all of them.
LEMMA FlushedYields ==
    ASSUME NEW kind \in Kinds, NEW e, NEW all, Encoded(kind, e, all), Len(all) \in SignedNumber
    PROVE  Written(kind, Flushed(kind, e), all)
<1> DEFINE S == CellsOf(kind)
<1>1. PICK before \in Seq(S) : Written(kind, e.buf, before) /\ Holds(kind, e, before, all)
  BY DEF Encoded
<1>2. {} \in S /\ \A item \in Items(kind) : {item} \in S
  BY DEF CellsOf
<1> HIDE DEF S
<1>3. CASE e.tag = "EMPTY" /\ e.buf = <<>> /\ all = before
  <2>1. Flushed(kind, e) = e.buf \o <<>>
    BY <1>3 DEF Flushed
  <2>2. Flushed(kind, e) = <<>>
    BY <1>3, <2>1
  <2> QED
    BY <1>1, <1>3, <2>2
<1>4. CASE HoldsNulls(kind, e, before, all)
  <2> DEFINE n == e.size
  <2>1. e.tag = "NULL_RUN" /\ n \in Nat /\ n # 0 /\ all = before \o Copies({}, n)
    BY <1>4 DEF HoldsNulls
  <2>2. Flushed(kind, e) = e.buf \o (WriteSigned(0) \o WriteUnsigned(n))
    BY <2>1 DEF Flushed, FlushNullRun
  <2> HIDE DEF n
  <2>3. Copies({}, n) \in Seq(S) /\ Len(Copies({}, n)) = n
    BY <1>2, <2>1, CopiesAre
  <2>4. Len(all) \in Nat /\ n \in 0..Len(all)
    BY <1>1, <2>1, <2>3, NotLonger
  <2>5. n \in UnsignedNumber
    BY <2>4, SizesFit
  <2>6. Written(kind, WriteSigned(0) \o WriteUnsigned(n), Copies({}, n))
    BY <2>1, <2>5, NullsWritten
  <2> QED
    BY <1>1, <2>1, <2>2, <2>6, WrittenBoth
<1>5. CASE HoldsRun(kind, e, before, all)
  <2> DEFINE n == e.size
             item == e.value
             cell == {item}
  <2>1. e.tag = "RUN" /\ n \in Nat /\ n # 0 /\ item \in Items(kind) /\ all = before \o Copies(cell, n)
    BY <1>5 DEF HoldsRun
  <2>2. Flushed(kind, e) = e.buf \o (WriteSigned(n) \o WriteItem(kind, item))
    BY <2>1 DEF Flushed, FlushRun
  <2>3. cell \in S
    BY <1>2, <2>1
  <2> HIDE DEF n, item, cell
  <2>4. Copies(cell, n) \in Seq(S) /\ Len(Copies(cell, n)) = n
    BY <2>1, <2>3, CopiesAre
  <2>5. Len(all) \in Nat /\ n \in 0..Len(all)
    BY <1>1, <2>1, <2>4, NotLonger
  <2>6. n \in SignedNumber
    BY <2>5, SizesFit
  <2>7. Written(kind, WriteSigned(n) \o WriteItem(kind, item), Copies(cell, n))
    BY <2>1, <2>6, RunWritten DEF cell
  <2> QED
    BY <1>1, <2>1, <2>2, <2>7, WrittenBoth
<1>6. CASE HoldsLiterals(kind, e, before, all)
  <2> DEFINE vs == Append(e.literals, e.value)
  <2>1. e.tag = "LITERAL_RUN" /\ vs \in Seq(Items(kind)) /\ vs # <<>> /\ all = before \o CellsIn(vs)
        /\ e.value \in Items(kind)
    BY <1>6 DEF HoldsLiterals
  <2>2. Flushed(kind, e) = e.buf \o FlushLitRun(kind, vs)
    BY <2>1 DEF Flushed
  <2> HIDE DEF vs
  <2>3. CellsIn(vs) \in Seq(S) /\ Len(CellsIn(vs)) = Len(vs)
    BY <2>1, CellsInAre DEF S
  <2>4. Len(all) \in Nat /\ Len(vs) \in 0..Len(all)
    BY <1>1, <2>1, <2>3, NotLonger
  <2>5. -Len(vs) \in SignedNumber
    BY <2>4, SizesFit
  <2>6. Written(kind, FlushLitRun(kind, vs), CellsIn(vs))
    BY <2>1, <2>5, LiteralsWritten
  <2> QED
    BY <1>1, <2>1, <2>2, <2>6, WrittenBoth
<1> QED
  BY <1>1, <1>3, <1>4, <1>5, <1>6 DEF Holds

\* After a null is appended, the encoder has it: in the run of nulls it holds, or in a new one.
LEMMA NullAppended ==
    ASSUME NEW kind \in Kinds, NEW e, NEW all, Encoded(kind, e, all), Len(all) \in SignedNumber
    PROVE  Encoded(kind, AppendNull(kind, e), all \o <<{}>>)
<1> DEFINE S == CellsOf(kind)
           f == AppendNull(kind, e)
<1>1. {} \in S
  BY DEF CellsOf
<1>2. all \in Seq(S)
  BY EncodedCells
<1> HIDE DEF S
<1>0. Associative(S)
  BY ConcatIsAssociative
<1>3. CASE e.tag = "NULL_RUN"
  <2> DEFINE n == e.size
  <2>1. PICK before \in Seq(S) : Written(kind, e.buf, before) /\ HoldsNulls(kind, e, before, all)
    BY <1>3 DEF Encoded, Holds, HoldsRun, HoldsLiterals, S
  <2>2. n \in Nat /\ all = before \o Copies({}, n)
    BY <2>1 DEF HoldsNulls
  <2>3. DOMAIN e = RleFields
    BY DEF Encoded
  <2>4. f = [e EXCEPT !.size = n + 1]
    BY <1>3 DEF AppendNull
  <2> HIDE DEF n, f
  <2>5. DOMAIN f = RleFields /\ f.tag = "NULL_RUN" /\ f.size = n + 1 /\ f.buf = e.buf
    BY <1>3, <2>3, <2>4 DEF RleFields
  <2>6. Copies({}, n) \in Seq(S) /\ Copies({}, n + 1) = Copies({}, n) \o <<{}>> /\ <<{}>> \in Seq(S)
    BY <1>1, <2>2, CopiesAre
  <2>7. before \o Copies({}, n + 1) = all \o <<{}>>
    <3>1. (before \o Copies({}, n)) \o <<{}>> = before \o (Copies({}, n) \o <<{}>>)
      BY <1>0, <2>1, <2>6, Zenon DEF Associative
    <3> QED
      BY <2>2, <2>6, <3>1, Zenon
  <2>8. HoldsNulls(kind, f, before, all \o <<{}>>)
    <3>1. n + 1 \in Nat /\ n + 1 # 0
      BY <2>2
    <3> QED
      BY <2>5, <2>7, <3>1, Zenon DEF HoldsNulls
  <2> QED
    BY <2>1, <2>5, <2>8 DEF Encoded, Holds, S, f
<1>4. CASE e.tag # "NULL_RUN"
  <2> DEFINE buf == Flushed(kind, e)
  <2>1. Written(kind, buf, all)
    BY FlushedYields
  <2>2. f = [NewRle EXCEPT !.tag = "NULL_RUN", !.size = 1, !.buf = buf]
    BY <1>4 DEF AppendNull
  <2> HIDE DEF buf, f
  <2>3. DOMAIN f = RleFields /\ f.tag = "NULL_RUN" /\ f.size = 1 /\ f.buf = buf
    BY <2>2 DEF RleFields, NewRle
  <2>4. Copies({}, 1) = <<{}>>
    BY <1>1, CopiesAre
  <2>5. HoldsNulls(kind, f, all, all \o <<{}>>)
    <3>1. 1 \in Nat /\ 1 # 0
      OBVIOUS
    <3> QED
      BY <2>3, <2>4, <3>1, Zenon DEF HoldsNulls
  <2> QED
    BY <1>2, <2>1, <2>3, <2>5 DEF Encoded, Holds, S, f
<1> QED
  BY <1>3, <1>4

\* After a value is appended, the encoder has it, whatever it held (RleEncoder::append_value).
LEMMA ValueAppended ==
    ASSUME NEW kind \in Kinds, NEW e, NEW all, Encoded(kind, e, all), Len(all) \in SignedNumber,
           NEW item \in Items(kind)
    PROVE  Encoded(kind, AppendValue(kind, e, item), all \o <<{item}>>)
<1> DEFINE S == CellsOf(kind)
           cell == {item}
           f == AppendValue(kind, e, item)
<1>1. cell \in S /\ <<cell>> \in Seq(S) /\ \A v \in Items(kind) : {v} \in S
  BY DEF CellsOf
<1>2. all \in Seq(S)
  BY EncodedCells
<1>3. DOMAIN e = RleFields
  BY DEF Encoded
<1> HIDE DEF S
<1>0. Associative(S)
  BY ConcatIsAssociative
<1>4. CASE e.tag = "RUN" /\ e.value = item
  <2> DEFINE n == e.size
  <2>1. PICK before \in Seq(S) : Written(kind, e.buf, before) /\ HoldsRun(kind, e, before, all)
    BY <1>4 DEF Encoded, Holds, HoldsNulls, HoldsLiterals, S
  <2>2. n \in Nat /\ all = before \o Copies(cell, n)
    BY <1>4, <2>1 DEF HoldsRun
  <2>3. f = [e EXCEPT !.size = n + 1]
    BY <1>4 DEF AppendValue
  <2> HIDE DEF n, f, cell
  <2>4. DOMAIN f = RleFields /\ f.tag = "RUN" /\ f.size = n + 1 /\ f.value = item /\ f.buf = e.buf
    BY <1>3, <1>4, <2>3 DEF RleFields
  <2>5. Copies(cell, n) \in Seq(S) /\ Copies(cell, n + 1) = Copies(cell, n) \o <<cell>>
    BY <1>1, <2>2, CopiesAre
  <2>6. before \o Copies(cell, n + 1) = all \o <<cell>>
    <3>1. before \in Seq(S) /\ Copies(cell, n) \in Seq(S) /\ <<cell>> \in Seq(S)
      BY <1>1, <2>1, <2>5
    <3>2. (before \o Copies(cell, n)) \o <<cell>> = before \o (Copies(cell, n) \o <<cell>>)
      BY <1>0, <3>1, Zenon DEF Associative
    <3> QED
      BY <2>2, <2>5, <3>2
  <2>7. HoldsRun(kind, f, before, all \o <<cell>>)
    <3>1. n + 1 \in Nat /\ n + 1 # 0
      BY <2>2
    <3> QED
      BY <2>4, <2>6, <3>1, Zenon DEF HoldsRun, cell
  <2> QED
    BY <2>1, <2>4, <2>7 DEF Encoded, Holds, S, f, cell
<1>5. CASE e.tag = "LITERAL_RUN"
  <2> DEFINE vs == e.literals
             v == e.value
             more == Append(vs, v)
  <2>1. PICK before \in Seq(S) : Written(kind, e.buf, before) /\ HoldsLiterals(kind, e, before, all)
    BY <1>5 DEF Encoded, Holds, HoldsNulls, HoldsRun, S
  <2>2. v \in Items(kind) /\ vs \in Seq(Items(kind)) /\ all = before \o CellsIn(more) /\ more \in Seq(Items(kind))
    BY <2>1 DEF HoldsLiterals
  <2>3. CASE v # item
    <3>1. f = [e EXCEPT !.literals = more, !.value = item]
      BY <1>5, <2>3 DEF AppendValue
    <3> HIDE DEF f, vs, more, v
    <3>2. DOMAIN f = RleFields /\ f.tag = "LITERAL_RUN" /\ f.literals = more /\ f.value = item /\ f.buf = e.buf
      BY <1>3, <1>5, <3>1 DEF RleFields
    <3>3. CellsIn(more) \in Seq(S) /\ CellsIn(Append(more, item)) = CellsIn(more) \o <<cell>>
      BY <2>2, CellsInAre DEF S
    <3> HIDE DEF cell
    <3>4. before \o CellsIn(Append(more, item)) = all \o <<cell>>
      <4>1. <<cell>> \in Seq(S)
        BY <1>1 DEF cell
      <4>2. (before \o CellsIn(more)) \o <<cell>> = before \o (CellsIn(more) \o <<cell>>)
        BY <1>0, <2>1, <3>3, <4>1, Zenon DEF Associative
      <4> QED
        BY <2>2, <3>3, <4>2, Zenon
    <3>5. HoldsLiterals(kind, f, before, all \o <<cell>>)
      BY <2>2, <3>2, <3>4 DEF HoldsLiterals
    <3> QED
      BY <2>1, <3>2, <3>5 DEF Encoded, Holds, S, f, cell
  <2>4. CASE v = item
    <3> DEFINE buf == IF vs = <<>> THEN e.buf ELSE e.buf \o FlushLitRun(kind, vs)
               later == before \o CellsIn(vs)
    <3>1. f = [NewRle EXCEPT !.tag = "RUN", !.size = 2, !.value = item, !.buf = buf]
      BY <1>5, <2>4 DEF AppendValue
    <3>2. CellsIn(vs) \in Seq(S) /\ Len(CellsIn(vs)) = Len(vs) /\ (vs = <<>> => CellsIn(vs) = <<>>)
          /\ CellsIn(more) = CellsIn(vs) \o <<cell>>
      BY <2>2, <2>4, CellsInAre DEF S
    <3> HIDE DEF f, vs, more, v
    <3>3. all = later \o <<cell>> /\ later \in Seq(S)
      <4> HIDE DEF cell
      <4>1. all = later \o <<cell>>
        <5>1. <<cell>> \in Seq(S)
          BY <1>1 DEF cell
        <5>2. (before \o CellsIn(vs)) \o <<cell>> = before \o (CellsIn(vs) \o <<cell>>)
          BY <1>0, <2>1, <3>2, <5>1, Zenon DEF Associative
        <5> QED
          BY <2>2, <3>2, <5>2, Zenon
      <4>2. later \in Seq(S)
        BY <2>1, <3>2, ConcatProperties
      <4> QED
        BY <4>1, <4>2
    <3>4. Written(kind, buf, later)
      <4>1. CASE vs = <<>>
        <5>1. later = before
          BY <2>1, <3>2, <4>1, ConcatEmptySeq
        <5> QED
          BY <2>1, <4>1, <5>1
      <4>2. CASE vs # <<>>
        <5>1. Len(all) \in Nat /\ Len(vs) \in 0..Len(all)
          <6>1. Len(all) = Len(later) + 1 /\ Len(later) = Len(before) + Len(vs)
            <7> HIDE DEF cell
            <7>1. Len(later) = Len(before) + Len(vs)
              <8>1. before \in Seq(S) /\ CellsIn(vs) \in Seq(S)
                BY <2>1, <3>2
              <8>2. Len(later) = Len(before) + Len(CellsIn(vs))
                BY <8>1, ConcatProperties
              <8> QED
                BY <3>2, <8>2
            <7>2. Len(all) = Len(later) + Len(<<cell>>)
              <8> HIDE DEF later
              <8> QED
                BY <1>1, <3>3, ConcatProperties
            <7> QED
              BY <7>1, <7>2
          <6>2. Len(before) \in Nat /\ Len(vs) \in Nat
            BY <2>1, <2>2
          <6> HIDE DEF later
          <6> QED
            BY <6>1, <6>2
        <5>2. -Len(vs) \in SignedNumber
          BY <5>1, SizesFit
        <5>3. Written(kind, FlushLitRun(kind, vs), CellsIn(vs))
          BY <2>2, <4>2, <5>2, LiteralsWritten
        <5> QED
          BY <2>1, <4>2, <5>3, WrittenBoth
      <4> QED
        BY <4>1, <4>2
    <3> HIDE DEF buf, later
    <3>5. DOMAIN f = RleFields /\ f.tag = "RUN" /\ f.size = 2 /\ f.value = item /\ f.buf = buf
      BY <3>1 DEF RleFields, NewRle
    <3> HIDE DEF cell
    <3>6. Copies(cell, 2) = <<cell>> \o <<cell>>
      BY <1>1, CopiesAre
    <3>7. all \o <<cell>> = later \o Copies(cell, 2)
      <4>1. later \in Seq(S) /\ <<cell>> \in Seq(S)
        BY <1>1, <3>3
      <4>2. (later \o <<cell>>) \o <<cell>> = later \o (<<cell>> \o <<cell>>)
        BY <1>0, <4>1, Zenon DEF Associative
      <4> QED
        BY <3>3, <3>6, <4>2
    <3>8. HoldsRun(kind, f, later, all \o <<cell>>)
      <4>1. 2 \in Nat /\ 2 # 0
        OBVIOUS
      <4> QED
        BY <3>5, <3>7, <4>1, Zenon DEF HoldsRun, cell
    <3> QED
      BY <3>3, <3>4, <3>5, <3>8 DEF Encoded, Holds, S, f, cell
  <2> QED
    BY <2>3, <2>4
<1>6. CASE ~(e.tag = "RUN" /\ e.value = item) /\ e.tag # "LITERAL_RUN"
  <2> DEFINE buf == Flushed(kind, e)
  <2>1. Written(kind, buf, all)
    BY FlushedYields
  <2>2. f = [NewRle EXCEPT !.tag = "LITERAL_RUN", !.value = item, !.buf = buf]
    BY <1>6 DEF AppendValue
  <2> HIDE DEF buf, f
  <2>3. /\ DOMAIN f = RleFields /\ f.tag = "LITERAL_RUN" /\ f.value = item /\ f.literals = <<>> /\ f.buf = buf
    BY <2>2 DEF RleFields, NewRle
  <2>4. CellsIn(Append(<<>>, item)) = <<cell>>
    <3>1. <<>> \in Seq(Items(kind))
      OBVIOUS
    <3>2. CellsIn(Append(<<>>, item)) = <<>> \o <<cell>>
      BY <3>1, CellsInAre
    <3> HIDE DEF cell
    <3> QED
      BY <1>1, <3>2, ConcatEmptySeq
  <2>5. HoldsLiterals(kind, f, all, all \o <<cell>>)
    <3>1. <<>> \in Seq(Items(kind))
      OBVIOUS
    <3> QED
      BY <2>3, <2>4, <3>1, Zenon DEF HoldsLiterals
  <2> QED
    BY <1>2, <2>1, <2>3, <2>5 DEF Encoded, Holds, S, f
<1> QED
  BY <1>4, <1>5, <1>6

\* The first of the cells.
First(column, k) == [i \in 1..k |-> column[i]]

\* The first cells of a column, and one more.
LEMMA FirstAre ==
    ASSUME NEW S, NEW column \in Seq(S)
    PROVE  /\ First(column, 0) = <<>> /\ First(column, Len(column)) = column
           /\ \A k \in 0..Len(column) : First(column, k) \in Seq(S) /\ Len(First(column, k)) = k
           /\ \A k \in 0..(Len(column) - 1) : /\ k + 1 \in 1..Len(column) /\ column[k + 1] \in S
                                              /\ First(column, k + 1) = First(column, k) \o <<column[k + 1]>>
<1>1. First(column, 0) = <<>> /\ First(column, Len(column)) = column
  BY DEF First
<1>2. \A k \in 0..Len(column) : First(column, k) \in Seq(S) /\ Len(First(column, k)) = k
  BY DEF First
<1>3. ASSUME NEW k \in 0..(Len(column) - 1)
      PROVE  /\ k + 1 \in 1..Len(column) /\ column[k + 1] \in S
             /\ First(column, k + 1) = First(column, k) \o <<column[k + 1]>>
  <2> DEFINE a == First(column, k)
             cell == column[k + 1]
             c == a \o <<cell>>
  <2>1. k \in Nat /\ k \in 0..Len(column) /\ k + 1 \in 1..Len(column) /\ k + 1 \in 0..Len(column)
    OBVIOUS
  <2>2. \A i \in 1..Len(column) : column[i] \in S
    OBVIOUS
  <2>3. cell \in S
    BY <2>1, <2>2, Zenon
  <2>4. a \in Seq(S) /\ Len(a) = k /\ \A i \in 1..k : a[i] = column[i]
    BY <1>2, <2>1 DEF First
  <2> HIDE DEF a, cell
  <2>5. <<cell>> \in Seq(S) /\ Len(<<cell>>) = 1 /\ <<cell>>[1] = cell
    BY <2>3
  <2>6. c \in Seq(S) /\ Len(c) = k + 1 /\ \A i \in 1..(k + 1) : c[i] = IF i <= k THEN a[i] ELSE <<cell>>[i - k]
    BY <2>4, <2>5, ConcatProperties
  <2> HIDE DEF c
  <2>7. \A i \in 1..(k + 1) : c[i] = column[i]
    <3> TAKE i \in 1..(k + 1)
    <3>1. CASE i <= k
      <4>1. i \in 1..k
        BY <2>1, <3>1
      <4> QED
        BY <2>4, <2>6, <3>1, <4>1
    <3>2. CASE ~(i <= k)
      <4>1. i - k = 1 /\ i = k + 1
        BY <2>1, <3>2
      <4> QED
        BY <2>5, <2>6, <3>2, <4>1 DEF cell
    <3> QED
      BY <3>1, <3>2
  <2>8. c = [i \in 1..(k + 1) |-> column[i]]
    BY <2>1, <2>6, <2>7
  <2> QED
    BY <2>1, <2>3, <2>8 DEF First, a, c, cell
<1> QED
  BY <1>1, <1>2, <1>3

\* After a cell is appended, null or not, the encoder has it.
LEMMA CellAppended ==
    ASSUME NEW kind \in Kinds, NEW e, NEW all, Encoded(kind, e, all), Len(all) \in SignedNumber,
           NEW cell \in CellsOf(kind)
    PROVE  Encoded(kind, Appended(kind, e, cell), all \o <<cell>>)
<1>1. CASE cell = {}
  <2>1. Appended(kind, e, cell) = AppendNull(kind, e)
    BY <1>1 DEF Appended
  <2> QED
    BY <1>1, <2>1, NullAppended
<1>2. ASSUME NEW item \in Items(kind), cell = {item}
      PROVE  Encoded(kind, Appended(kind, e, cell), all \o <<cell>>)
  <2>1. cell # {} /\ TheOne(cell) = item
    BY <1>2 DEF TheOne
  <2>2. Appended(kind, e, cell) = AppendValue(kind, e, item)
    BY <2>1 DEF Appended
  <2> QED
    BY <1>2, <2>2, ValueAppended
<1> QED
  BY <1>1, <1>2 DEF CellsOf

\* The encoder after all cells of a column.
LEMMA EncoderLoop ==
    ASSUME NEW kind \in Kinds, NEW column \in Seq(CellsOf(kind)), Len(column) \in SignedNumber
    PROVE  \E e : EncodeRle(kind, column) = FinishRle(kind, e) /\ Encoded(kind, e, column)
<1> DEFINE n == Len(column)
           Is(f) == f = [i \in 0..n |-> IF i = 0 THEN NewRle ELSE Appended(kind, f[i - 1], column[i])]
           e == CHOOSE f : Is(f)
           Loop(k, f) == f[0] = NewRle /\ \A i \in 1..k : f[i] = Appended(kind, f[i - 1], column[i])
           J == {k \in 0..n : \E f : Loop(k, f)}
<1>1. n \in Nat /\ n \in 0..n /\ 0 \in 0..n
  OBVIOUS
<1>2. 0 \in J
  <2>1. Loop(0, [i \in 0..0 |-> NewRle])
    OBVIOUS
  <2> QED
    BY <1>1, <2>1
<1>3. ASSUME NEW k \in 0..(n - 1), k \in J
      PROVE  k + 1 \in J
  <2>1. PICK f : Loop(k, f)
    BY <1>3
  <2> DEFINE last == Appended(kind, f[k], column[k + 1])
             g == [i \in 0..(k + 1) |-> IF i = k + 1 THEN last ELSE f[i]]
  <2>2. k \in Nat /\ k + 1 \in 0..n
    BY <1>1
  <2> HIDE DEF last
  <2>3. g[0] = f[0]
    BY <2>2
  <2>4. ASSUME NEW i \in 1..(k + 1)
        PROVE  g[i] = Appended(kind, g[i - 1], column[i])
    <3>1. i \in 0..(k + 1) /\ i - 1 \in 0..(k + 1) /\ i - 1 # k + 1
      BY <2>2
    <3>2. g[i - 1] = f[i - 1]
      BY <3>1
    <3>3. CASE i = k + 1
      <4>1. g[i] = last /\ i - 1 = k
        BY <2>2, <3>1, <3>3
      <4> QED
        BY <3>2, <3>3, <4>1 DEF last
    <3>4. CASE i # k + 1
      <4>1. g[i] = f[i] /\ i \in 1..k
        BY <2>2, <3>1, <3>4
      <4> QED
        BY <2>1, <3>2, <4>1
    <3> QED
      BY <3>3, <3>4
  <2> HIDE DEF g
  <2>5. Loop(k + 1, g)
    BY <2>1, <2>3, <2>4
  <2> QED
    BY <2>2, <2>5
<1> HIDE DEF J
<1>4. \A k \in 0..n : k \in J
  BY <1>1, <1>2, <1>3, Throughout
<1>5. PICK f : Loop(n, f)
  BY <1>1, <1>4 DEF J
<1>6. Is([i \in 0..n |-> f[i]])
  <2> DEFINE g == [i \in 0..n |-> f[i]]
  <2> SUFFICES ASSUME NEW i \in 0..n
               PROVE  g[i] = IF i = 0 THEN NewRle ELSE Appended(kind, g[i - 1], column[i])
    BY Zenon
  <2>1. CASE i = 0
    BY <1>5, <2>1
  <2>2. CASE i # 0
    <3>1. i \in 1..n /\ i - 1 \in 0..n
      BY <1>1, <2>2
    <3>2. g[i] = f[i] /\ g[i - 1] = f[i - 1]
      BY <3>1
    <3> QED
      BY <1>5, <2>2, <3>1, <3>2
  <2> QED
    BY <2>1, <2>2
<1>7. Is(e)
  BY <1>6, Zenon
<1>8. EncodeRle(kind, column) = FinishRle(kind, e[n])
  BY DEF EncodeRle
<1> HIDE DEF e
<1>9. e[0] = NewRle /\ \A i \in 1..n : e[i] = Appended(kind, e[i - 1], column[i])
  <2>1. \A i \in 0..n : e[i] = IF i = 0 THEN NewRle ELSE Appended(kind, e[i - 1], column[i])
    BY <1>7, Zenon
  <2>2. \A i \in 1..n : i \in 0..n /\ i # 0
    OBVIOUS
  <2> QED
    BY <1>1, <2>1, <2>2
<1> DEFINE I == {k \in 0..n : Encoded(kind, e[k], First(column, k))}
<1>10. 0 \in I
  <2>1. First(column, 0) = <<>>
    BY DEF First
  <2> QED
    BY <1>1, <1>9, <2>1, EncodedNothing
<1>11. ASSUME NEW k \in 0..(n - 1), k \in I
       PROVE  k + 1 \in I
  <2>1. k \in 0..n /\ k + 1 \in 0..n /\ k + 1 \in 1..n /\ (k + 1) - 1 = k
    BY <1>1
  <2>2. /\ Len(First(column, k)) = k /\ column[k + 1] \in CellsOf(kind)
        /\ First(column, k + 1) = First(column, k) \o <<column[k + 1]>>
    BY <2>1, FirstAre
  <2>3. k \in SignedNumber
    BY <1>1, <2>1, SizesFit
  <2>4. Encoded(kind, e[k], First(column, k))
    BY <1>11
  <2>5. Encoded(kind, Appended(kind, e[k], column[k + 1]), First(column, k + 1))
    BY <2>2, <2>3, <2>4, CellAppended
  <2>6. e[k + 1] = Appended(kind, e[k], column[k + 1])
    BY <1>9, <2>1
  <2> QED
    BY <2>1, <2>5, <2>6
<1> HIDE DEF I
<1>12. \A k \in 0..n : k \in I
  BY <1>1, <1>10, <1>11, Throughout
<1>13. Encoded(kind, e[n], First(column, n))
  BY <1>1, <1>12 DEF I
<1>14. First(column, n) = column
  BY FirstAre
<1> QED
  BY <1>8, <1>13, <1>14

\* A decoder that reads these cells decodes them.
LEMMA ReadIsDecoded ==
    ASSUME NEW kind, NEW bytes, NEW S, NEW column \in Seq(S), NEW e,
           Reads(Nexts(kind), Shows, RleDecoder(bytes), column, e)
    PROVE  DecodeRle(kind, bytes, Len(column)) = column
<1> DEFINE n == Len(column)
           Is(f) == f = [i \in 0..n |-> IF i = 0 THEN RleDecoder(bytes) ELSE NextCell(kind, f[i - 1])]
           d == CHOOSE f : Is(f)
<1>1. n \in Nat /\ n \in 0..n /\ 0 \in 0..n
  OBVIOUS
<1>2. PICK t \in [0..n -> DOMAIN Nexts(kind)] :
          /\ t[0] = RleDecoder(bytes)
          /\ \A i \in 1..n : t[i] = Nexts(kind)[t[i - 1]] /\ Shows[t[i]] = column[i]
  BY DEF Reads
<1>3. \A i \in 0..n : t[i] \in Decoder
  BY <1>2 DEF Nexts
<1>4. \A i \in 1..n : t[i] = NextCell(kind, t[i - 1]) /\ t[i].last_value = column[i]
  <2> TAKE i \in 1..n
  <2>1. i \in 0..n /\ i - 1 \in 0..n
    OBVIOUS
  <2>2. t[i] \in Decoder /\ t[i - 1] \in Decoder
    BY <1>3, <2>1
  <2> QED
    BY <1>2, <2>2 DEF Nexts, Shows
<1>5. Is(t)
  <2> SUFFICES ASSUME NEW i \in 0..n
               PROVE  t[i] = IF i = 0 THEN RleDecoder(bytes) ELSE NextCell(kind, t[i - 1])
    BY <1>2, Zenon
  <2>1. CASE i = 0
    BY <1>2, <2>1
  <2>2. CASE i # 0
    <3>1. i \in 1..n
      BY <2>2
    <3> QED
      BY <1>4, <2>2, <3>1
  <2> QED
    BY <2>1, <2>2
<1>6. Is(d)
  BY <1>5, Zenon
<1>7. DecodeRle(kind, bytes, n) = [i \in 1..n |-> d[i].last_value]
  BY DEF DecodeRle
<1> HIDE DEF d
<1> DEFINE I == {i \in 0..n : d[i] = t[i]}
<1>8. \A i \in 0..n : d[i] = IF i = 0 THEN RleDecoder(bytes) ELSE NextCell(kind, d[i - 1])
  BY <1>6, Zenon
<1>9. 0 \in I
  BY <1>1, <1>2, <1>8
<1>10. ASSUME NEW i \in 0..(n - 1), i \in I
       PROVE  i + 1 \in I
  <2>1. i + 1 \in 0..n /\ i + 1 \in 1..n /\ i + 1 # 0 /\ (i + 1) - 1 = i
    BY <1>1
  <2>2. d[i + 1] = NextCell(kind, d[i]) /\ t[i + 1] = NextCell(kind, t[i])
    BY <1>4, <1>8, <2>1
  <2> QED
    BY <1>10, <2>1, <2>2
<1> HIDE DEF I
<1>11. \A i \in 0..n : i \in I
  BY <1>1, <1>9, <1>10, Throughout
<1>12. \A i \in 1..n : d[i].last_value = column[i]
  <2> TAKE i \in 1..n
  <2>1. i \in 0..n
    OBVIOUS
  <2>2. d[i] = t[i]
    BY <1>11, <2>1 DEF I
  <2> QED
    BY <1>4, <2>2
<1>13. DecodeRle(kind, bytes, n) = [i \in 1..n |-> column[i]]
  BY <1>7, <1>12
<1> QED
  BY <1>13

\* A new decoder is at the start of its bytes.
LEMMA RleDecoderIs ==
    ASSUME NEW bytes \in Seq(Nat)
    PROVE  RleDecoder(bytes) \in Decoder /\ RleDecoder(bytes).count = 0 /\ RleDecoder(bytes).bytes = bytes
BY DEF RleDecoder, Decoder

\* Past the last run there are nulls.
LEMMA NullsAreDecoded ==
    ASSUME NEW kind, NEW n \in Nat
    PROVE  Reads(Nexts(kind), Shows, RleDecoder(<<>>), Copies({}, n), RleDecoder(<<>>))
<1> DEFINE d == RleDecoder(<<>>)
           t == [i \in 0..n |-> d]
<1>1. d \in DOMAIN Nexts(kind) /\ Shows[d] = {}
  <2>1. d \in Decoder /\ d.last_value = {}
    <3>1. <<>> \in Seq(Nat)
      OBVIOUS
    <3> QED
      BY <3>1, RleDecoderIs DEF RleDecoder
  <2> QED
    BY <2>1 DEF Nexts, Shows
<1>2. Nexts(kind)[d] = d
  <2>1. d.count = 0 /\ d.bytes = <<>> /\ d.last_value = {}
    BY DEF RleDecoder
  <2>2. Turn(kind, d) = d
    BY <2>1 DEF Turn
  <2>3. NextRun(kind, d) = d
    <3> HIDE DEF d
    <3>1. Len(d.bytes) = 0
      BY <2>1
    <3> QED
      BY <2>2, <3>1, NextRunIsTurn
  <2>4. TakeCell(kind, d) = [d EXCEPT !.last_value = {}]
    BY <2>1 DEF TakeCell
  <2>5. [d EXCEPT !.last_value = {}] = d
    BY DEF RleDecoder
  <2>6. NextCell(kind, d) = d
    BY <2>3, <2>4, <2>5 DEF NextCell
  <2> QED
    BY <1>1, <2>6 DEF Nexts
<1> HIDE DEF d
<1>3. t \in [0..n -> DOMAIN Nexts(kind)] /\ t[0] = d /\ t[n] = d
  BY <1>1
<1>4. \A i \in 1..n : t[i] = Nexts(kind)[t[i - 1]] /\ Shows[t[i]] = Copies({}, n)[i]
  BY <1>1, <1>2 DEF Copies
<1>5. Len(Copies({}, n)) = n
  BY DEF Copies
<1> HIDE DEF t
<1>6. Reads(Nexts(kind), Shows, d, Copies({}, n), d)
  BY <1>3, <1>4, <1>5 DEF Reads
<1> QED
  BY <1>6 DEF d

\* A run-length encoded column is decoded to the cells that were appended.
THEOREM RleRoundTrip ==
    ASSUME NEW kind \in Kinds, NEW column \in Seq(CellsOf(kind)), Len(column) \in SignedNumber
    PROVE  DecodeRle(kind, EncodeRle(kind, column), Len(column)) = column
<1>1. PICK e : EncodeRle(kind, column) = FinishRle(kind, e) /\ Encoded(kind, e, column)
  BY EncoderLoop
<1>2. CASE e.tag = "NULL_RUN" /\ e.buf = <<>>
  <2>1. EncodeRle(kind, column) = <<>>
    BY <1>1, <1>2 DEF FinishRle
  <2>2. PICK before \in Seq(CellsOf(kind)) : Written(kind, e.buf, before) /\ Holds(kind, e, before, column)
    BY <1>1 DEF Encoded
  <2>3. before = <<>> /\ HoldsNulls(kind, e, before, column)
    BY <1>2, <2>2 DEF Written, Holds, HoldsRun, HoldsLiterals
  <2> DEFINE n == e.size
  <2>4. n \in Nat /\ column = <<>> \o Copies({}, n)
    BY <2>3 DEF HoldsNulls
  <2> HIDE DEF n
  <2>5. {} \in CellsOf(kind)
    BY DEF CellsOf
  <2>6. Copies({}, n) \in Seq(CellsOf(kind))
    BY <2>4, <2>5, CopiesAre
  <2>7. column = Copies({}, n)
    BY <2>4, <2>6, ConcatEmptySeq
  <2>8. Reads(Nexts(kind), Shows, RleDecoder(<<>>), column, RleDecoder(<<>>))
    BY <2>4, <2>7, NullsAreDecoded
  <2> QED
    BY <2>1, <2>8, ReadIsDecoded
<1>3. CASE ~(e.tag = "NULL_RUN" /\ e.buf = <<>>)
  <2> DEFINE bytes == Flushed(kind, e)
             d == RleDecoder(bytes)
  <2>1. EncodeRle(kind, column) = bytes
    BY <1>1, <1>3 DEF FinishRle
  <2>2. Yields(kind, bytes, column)
    BY <1>1, FlushedYields DEF Written
  <2> HIDE DEF bytes
  <2>3. bytes \in Seq(Nat)
    BY <2>2 DEF Yields
  <2>4. d \in Decoder /\ d.count = 0 /\ d.bytes = bytes \o <<>> /\ <<>> \in Seq(Nat)
    BY <2>3, RleDecoderIs, ConcatEmptySeq
  <2> HIDE DEF d
  <2>5. PICK f \in Decoder : Reads(Nexts(kind), Shows, d, column, f)
    BY <2>2, <2>4 DEF Yields
  <2> QED
    BY <2>1, <2>5, ReadIsDecoded DEF d
<1> QED
  BY <1>2, <1>3

-----------------------------------------------------------------------------
(* Columns of differences *)

\* A value is found again from its difference to the one before, however that is cast.
LEMMA DifferenceAdded ==
    ASSUME NEW v \in UnsignedNumber, NEW a \in UnsignedNumber
    PROVE  ToUnsigned(a + (ToSigned(v) - ToSigned(a))) = v
<1> DEFINE x == a + (ToSigned(v) - ToSigned(a))
<1>1. HalfModulus \in Nat /\ HalfModulus > 0 /\ Modulus = 2 * HalfModulus
  BY ModulusFacts, BitFacts
<1>2. v \in 0..(Modulus - 1) /\ a \in 0..(Modulus - 1)
  BY DEF UnsignedNumber
<1>3. x = v \/ x = v + Modulus \/ x = v - Modulus
  BY <1>1, <1>2 DEF ToSigned
<1> HIDE DEF x
<1>4. x % Modulus = v
  <2>1. Modulus \in Nat /\ Modulus > 0 /\ v \in Int /\ x \in Int
    BY <1>1, <1>2, <1>3
  <2>2. x = Modulus * 0 + v \/ x = Modulus * 1 + v \/ x = Modulus * (-1) + v
    BY <1>3, <2>1
  <2>3. \A q \in {0, 1, -1} : x = Modulus * q + v => x % Modulus = v
    <3> TAKE q \in {0, 1, -1}
    <3>1. q \in Int
      OBVIOUS
    <3> QED
      BY <1>2, <2>1, <3>1, Division
  <2> QED
    BY <2>2, <2>3
<1> QED
  BY <1>4 DEF ToUnsigned, x

CellsWith(V) == {{}} \cup {{v} : v \in V}

\* Values whose differences fit in a signed number.
Near(V) == V \subseteq UnsignedNumber /\ \A v, w \in V \cup {0} : ToSigned(v) - ToSigned(w) \in SignedNumber

\* The value a cell has, or the last one before it had.
IsAbsolute(f, column) ==
    f = [i \in 0..Len(column) |->
            IF i = 0 THEN 0 ELSE IF column[i] = {} THEN f[i - 1] ELSE TheOne(column[i])]
Absolute(column) == CHOOSE f : IsAbsolute(f, column)

\* The value before each cell is the last that was not null, 0 at first.
LEMMA AbsoluteIs ==
    ASSUME NEW V, NEW column \in Seq(CellsWith(V))
    PROVE  /\ IsAbsolute(Absolute(column), column)
           /\ Absolute(column)[0] = 0
           /\ \A i \in 0..Len(column) : Absolute(column)[i] \in V \cup {0}
           /\ \A i \in 1..Len(column) :
                  /\ column[i] = {} => Absolute(column)[i] = Absolute(column)[i - 1]
                  /\ column[i] # {} => Absolute(column)[i] \in V /\ column[i] = {Absolute(column)[i]}
<1> DEFINE n == Len(column)
           D == V \cup {0}
           value(i, a) == IF i \in 1..n /\ column[i] # {} THEN TheOne(column[i]) ELSE a
           step == [x \in Nat \X D |-> value(x[1], x[2])]
           A == Absolute(column)
<1>1. n \in Nat /\ 0 \in 0..n
  OBVIOUS
<1>2. ASSUME NEW i \in 1..n, column[i] # {}
      PROVE  TheOne(column[i]) \in V /\ column[i] = {TheOne(column[i])}
  <2>1. column[i] \in CellsWith(V)
    OBVIOUS
  <2>2. PICK v \in V : column[i] = {v}
    BY <1>2, <2>1 DEF CellsWith
  <2> QED
    BY <2>2 DEF TheOne
<1>3. \A i \in Nat, a \in D : value(i, a) \in D
  BY <1>2
<1> HIDE DEF value
<1>4. step \in [Nat \X D -> D]
  <2> SUFFICES ASSUME NEW x \in Nat \X D
               PROVE  value(x[1], x[2]) \in D
    OBVIOUS
  <2>1. x[1] \in Nat /\ x[2] \in D
    OBVIOUS
  <2> QED
    BY <1>3, <2>1
<1>5. \A i \in Nat, a \in D : step[<<i, a>>] = value(i, a)
  OBVIOUS
<1> HIDE DEF step
<1>6. 0 \in D
  OBVIOUS
<1> HIDE DEF D
<1>7. PICK f : States(D, 0, step, n, f)
  BY <1>1, <1>4, <1>6, LoopHasStates
<1>8. f \in [0..n -> D] /\ f[0] = 0 /\ \A i \in 1..n : f[i] = step[<<i, f[i - 1]>>]
  BY <1>7 DEF States
<1>9. \A i \in 1..n : f[i] = IF column[i] = {} THEN f[i - 1] ELSE TheOne(column[i])
  <2> TAKE i \in 1..n
  <2>1. i \in Nat /\ i - 1 \in 0..n
    OBVIOUS
  <2>2. f[i - 1] \in D
    BY <1>8, <2>1
  <2>3. f[i] = value(i, f[i - 1])
    BY <1>5, <1>8, <2>1, <2>2
  <2> QED
    BY <2>3 DEF value
<1>10. IsAbsolute(f, column)
  <2>1. \A i \in 0..n : f[i] = IF i = 0 THEN 0 ELSE IF column[i] = {} THEN f[i - 1] ELSE TheOne(column[i])
    <3> TAKE i \in 0..n
    <3>1. CASE i = 0
      BY <1>8, <3>1
    <3>2. CASE i # 0
      <4>1. i \in 1..n
        BY <3>2
      <4> QED
        BY <1>9, <3>2, <4>1
    <3> QED
      BY <3>1, <3>2
  <2>2. f = [i \in 0..n |-> f[i]]
    BY <1>8
  <2> QED
    BY <2>1, <2>2, Zenon DEF IsAbsolute
<1>11. IsAbsolute(A, column)
  BY <1>10, Zenon DEF Absolute
<1> HIDE DEF A
<1>12. \A i \in 0..n : A[i] = IF i = 0 THEN 0 ELSE IF column[i] = {} THEN A[i - 1] ELSE TheOne(column[i])
  BY <1>11, Zenon DEF IsAbsolute
<1>13. A[0] = 0
  BY <1>1, <1>12
<1>14. \A i \in 1..n : A[i] = IF column[i] = {} THEN A[i - 1] ELSE TheOne(column[i])
  <2> TAKE i \in 1..n
  <2>1. i \in 0..n /\ i # 0
    OBVIOUS
  <2> QED
    BY <1>12, <2>1
<1> DEFINE I == {i \in 0..n : A[i] \in D}
<1>15. 0 \in I
  BY <1>1, <1>6, <1>13
<1>16. ASSUME NEW i \in 0..(n - 1), i \in I
       PROVE  i + 1 \in I
  <2>1. i + 1 \in 0..n /\ i + 1 \in 1..n /\ (i + 1) - 1 = i
    BY <1>1
  <2>2. A[i + 1] = IF column[i + 1] = {} THEN A[i] ELSE TheOne(column[i + 1])
    BY <1>14, <2>1
  <2>3. column[i + 1] # {} => TheOne(column[i + 1]) \in D
    BY <1>2, <2>1 DEF D
  <2> QED
    BY <1>16, <2>1, <2>2, <2>3
<1> HIDE DEF I
<1>17. \A i \in 0..n : i \in I
  BY <1>1, <1>15, <1>16, Throughout
<1>18. \A i \in 0..n : A[i] \in V \cup {0}
  BY <1>17 DEF I, D
<1>19. \A i \in 1..n : /\ column[i] = {} => A[i] = A[i - 1]
                       /\ column[i] # {} => A[i] \in V /\ column[i] = {A[i]}
  BY <1>2, <1>14
<1> QED
  BY <1>11, <1>13, <1>18, <1>19 DEF A

\* What differences are added up to.
IsAddedUp(f, diffs) ==
    f = [i \in 0..Len(diffs) |->
            IF i = 0 THEN 0 ELSE IF diffs[i] = {} THEN f[i - 1] ELSE ToUnsigned(f[i - 1] + TheOne(diffs[i]))]

\* The differences of a column whose values are near each other are signed numbers.
LEMMA DifferencesAre ==
    ASSUME NEW V, Near(V), NEW column \in Seq(CellsWith(V))
    PROVE  /\ Differences(column) \in Seq(CellsOf("signed")) /\ Len(Differences(column)) = Len(column)
           /\ \A i \in 1..Len(column) :
                  Differences(column)[i] = {ToSigned(v) - ToSigned(Absolute(column)[i - 1]) : v \in column[i]}
<1> DEFINE n == Len(column)
           A == Absolute(column)
           D == Differences(column)
<1>1. D = [i \in DOMAIN column |-> {ToSigned(v) - ToSigned(A[i - 1]) : v \in column[i]}]
  BY DEF Differences, Absolute, IsAbsolute
<1>2. DOMAIN column = 1..n /\ n \in Nat
  OBVIOUS
<1>3. \A i \in 0..n : A[i] \in V \cup {0}
  BY AbsoluteIs
<1> HIDE DEF A, D
<1>4. \A i \in 1..n : D[i] = {ToSigned(v) - ToSigned(A[i - 1]) : v \in column[i]}
  BY <1>1, <1>2
<1>5. ASSUME NEW i \in 1..n
      PROVE  D[i] \in CellsOf("signed")
  <2>1. i - 1 \in 0..n
    OBVIOUS
  <2>2. column[i] \in CellsWith(V)
    OBVIOUS
  <2>3. CASE column[i] = {}
    <3>1. D[i] = {}
      BY <1>4, <2>3
    <3> QED
      BY <3>1 DEF CellsOf
  <2>4. ASSUME NEW w \in V, column[i] = {w}
        PROVE  D[i] \in CellsOf("signed")
    <3> DEFINE x == ToSigned(w) - ToSigned(A[i - 1])
    <3>1. x \in SignedNumber
      BY <1>3, <2>1 DEF Near
    <3>2. D[i] = {x}
      BY <1>4, <2>4
    <3> HIDE DEF x
    <3>3. x \in Items("signed")
      BY <3>1, ItemsAre
    <3> QED
      BY <3>2, <3>3 DEF CellsOf
  <2> QED
    BY <2>2, <2>3, <2>4 DEF CellsWith
<1>6. D \in [1..n -> CellsOf("signed")]
  BY <1>1, <1>2, <1>4, <1>5
<1>7. D \in Seq(CellsOf("signed")) /\ Len(D) = n
  BY <1>2, <1>6
<1> QED
  BY <1>4, <1>7 DEF A, D

\* Added up, the differences are the column again.
LEMMA AddedUpAgain ==
    ASSUME NEW V, Near(V), NEW column \in Seq(CellsWith(V))
    PROVE  AddedUp(Differences(column)) = column
<1> DEFINE n == Len(column)
           A == Absolute(column)
           D == Differences(column)
           B == CHOOSE f : IsAddedUp(f, D)
<1>1. /\ D \in Seq(CellsOf("signed")) /\ Len(D) = n
      /\ \A i \in 1..n : D[i] = {ToSigned(v) - ToSigned(A[i - 1]) : v \in column[i]}
  BY DifferencesAre
<1>2. /\ A[0] = 0 /\ IsAbsolute(A, column)
      /\ \A i \in 0..n : A[i] \in V \cup {0}
      /\ \A i \in 1..n : /\ column[i] = {} => A[i] = A[i - 1]
                         /\ column[i] # {} => A[i] \in V /\ column[i] = {A[i]}
  BY AbsoluteIs
<1>3. n \in Nat /\ 0 \in 0..n /\ DOMAIN column = 1..n
  OBVIOUS
<1>4. AddedUp(D) = [i \in DOMAIN D |-> IF D[i] = {} THEN {} ELSE {B[i]}]
  BY DEF AddedUp, IsAddedUp
<1> HIDE DEF A, D, B
<1>5. \A i \in 0..n : A[i] \in UnsignedNumber
  <2>1. 0 \in UnsignedNumber /\ V \subseteq UnsignedNumber
    BY ModulusFacts, BitFacts DEF Near, UnsignedNumber
  <2> QED
    BY <1>2, <2>1
<1>6. ASSUME NEW i \in 1..n
      PROVE  /\ D[i] = {} <=> column[i] = {}
             /\ A[i] = IF D[i] = {} THEN A[i - 1] ELSE ToUnsigned(A[i - 1] + TheOne(D[i]))
  <2>1. i - 1 \in 0..n /\ i \in 0..n
    OBVIOUS
  <2>2. CASE column[i] = {}
    <3>1. D[i] = {}
      BY <1>1, <2>2
    <3> QED
      BY <1>2, <2>2, <3>1
  <2>3. CASE column[i] # {}
    <3> DEFINE x == ToSigned(A[i]) - ToSigned(A[i - 1])
    <3>1. D[i] = {x}
      BY <1>1, <1>2, <2>3
    <3>2. ToUnsigned(A[i - 1] + x) = A[i]
      BY <1>5, <2>1, DifferenceAdded
    <3> HIDE DEF x
    <3>3. TheOne(D[i]) = x
      BY <3>1 DEF TheOne
    <3> QED
      BY <2>3, <3>1, <3>2, <3>3
  <2> QED
    BY <2>2, <2>3
<1>7. IsAddedUp(A, D)
  <2>1. \A i \in 0..n :
            A[i] = IF i = 0 THEN 0 ELSE IF D[i] = {} THEN A[i - 1] ELSE ToUnsigned(A[i - 1] + TheOne(D[i]))
    <3> TAKE i \in 0..n
    <3>1. CASE i = 0
      BY <1>2, <3>1
    <3>2. CASE i # 0
      <4>1. i \in 1..n
        BY <3>2
      <4> QED
        BY <1>6, <3>2, <4>1
    <3> QED
      BY <3>1, <3>2
  <2>2. A = [i \in 0..n |-> A[i]]
    BY <1>2, Zenon DEF IsAbsolute
  <2>3. Len(D) = n
    BY <1>1
  <2> QED
    BY <2>1, <2>2, <2>3, Zenon DEF IsAddedUp
<1>8. IsAddedUp(B, D)
  BY <1>7, Zenon DEF B
<1>9. \A i \in 0..n :
          B[i] = IF i = 0 THEN 0 ELSE IF D[i] = {} THEN B[i - 1] ELSE ToUnsigned(B[i - 1] + TheOne(D[i]))
  <2>1. Len(D) = n
    BY <1>1
  <2> QED
    BY <1>8, <2>1, Zenon DEF IsAddedUp
<1> DEFINE I == {i \in 0..n : B[i] = A[i]}
<1>10. 0 \in I
  BY <1>2, <1>3, <1>9
<1>11. ASSUME NEW i \in 0..(n - 1), i \in I
       PROVE  i + 1 \in I
  <2>1. i + 1 \in 0..n /\ i + 1 \in 1..n /\ i + 1 # 0 /\ (i + 1) - 1 = i
    BY <1>3
  <2>2. B[i + 1] = IF D[i + 1] = {} THEN B[i] ELSE ToUnsigned(B[i] + TheOne(D[i + 1]))
    BY <1>9, <2>1
  <2>3. A[i + 1] = IF D[i + 1] = {} THEN A[i] ELSE ToUnsigned(A[i] + TheOne(D[i + 1]))
    BY <1>6, <2>1
  <2> QED
    BY <1>11, <2>1, <2>2, <2>3
<1> HIDE DEF I
<1>12. \A i \in 0..n : i \in I
  BY <1>3, <1>10, <1>11, Throughout
<1>13. \A i \in 1..n : (IF D[i] = {} THEN {} ELSE {B[i]}) = column[i]
  <2> TAKE i \in 1..n
  <2>1. i \in 0..n
    OBVIOUS
  <2>2. B[i] = A[i]
    BY <1>12, <2>1 DEF I
  <2>3. D[i] = {} <=> column[i] = {}
    BY <1>6
  <2> QED
    BY <1>2, <2>2, <2>3
<1>14. DOMAIN D = 1..n
  BY <1>1
<1>15. AddedUp(D) = [i \in 1..n |-> column[i]]
  BY <1>4, <1>13, <1>14
<1>16. AddedUp(D) = column
  BY <1>3, <1>15
<1> QED
  BY <1>16 DEF D

\* A column of differences is decoded to the cells that were appended.
THEOREM DeltaRoundTrip ==
    ASSUME NEW V, Near(V), NEW column \in Seq(CellsWith(V)), Len(column) \in SignedNumber
    PROVE  DecodeDelta(EncodeDelta(column), Len(column)) = column
<1> DEFINE D == Differences(column)
<1>1. D \in Seq(CellsOf("signed")) /\ Len(D) = Len(column) /\ AddedUp(D) = column
  BY DifferencesAre, AddedUpAgain
<1> HIDE DEF D
<1>2. "signed" \in Kinds
  BY DEF Kinds
<1>3. DecodeRle("signed", EncodeRle("signed", D), Len(D)) = D
  BY <1>1, <1>2, RleRoundTrip
<1> QED
  BY <1>1, <1>3 DEF DecodeDelta, EncodeDelta, D

-----------------------------------------------------------------------------
(* Columns of Booleans *)

BooleanCells == {{b} : b \in BOOLEAN}

\* The decoder of a column of Booleans, and the cell it stands at.
BooleanState  == [bytes : Seq(Nat), last_value : BOOLEAN, count : Nat, cell : SUBSET BOOLEAN]
NextsBoolean  == [d \in BooleanState |-> NextBoolean(d)]
ShowsBoolean  == [d \in BooleanState |-> d.cell]
AtBoolean(bytes, count, value, cell) ==
    [bytes |-> bytes, last_value |-> value, count |-> count, cell |-> cell]

\* A decoder of Booleans at some bytes is one of these decoders, and shows its cell.
LEMMA AtBooleanIsState ==
    ASSUME NEW bytes \in Seq(Nat), NEW count \in Nat, NEW value \in BOOLEAN, NEW cell \in SUBSET BOOLEAN
    PROVE  LET d == AtBoolean(bytes, count, value, cell)
           IN  /\ d \in BooleanState /\ d \in DOMAIN NextsBoolean
               /\ d.bytes = bytes /\ d.count = count /\ d.last_value = value /\ d.cell = cell
               /\ ShowsBoolean[d] = cell /\ NextsBoolean[d] = NextBoolean(d)
BY DEF AtBoolean, BooleanState, NextsBoolean, ShowsBoolean

\* A turn of the loop takes a number.
LEMMA BooleanTurnTaken ==
    ASSUME NEW n \in UnsignedNumber, NEW rest \in Seq(Nat), NEW value \in BOOLEAN, NEW cell \in SUBSET BOOLEAN
    PROVE  BooleanTurn(AtBoolean(WriteUnsigned(n) \o rest, 0, value, cell)) = AtBoolean(rest, n, ~value, cell)
<1> DEFINE w == WriteUnsigned(n)
           bytes == w \o rest
           read == ReadUnsigned(bytes)
           d == AtBoolean(bytes, 0, value, cell)
<1>1. w \in Seq(Nat) /\ w # <<>> /\ read = [value |-> n, size |-> Len(w)]
  BY UnsignedRoundTrip
<1>2. bytes # <<>> /\ After(bytes, read) = rest /\ read.value = n
  <2> HIDE DEF w, read
  <2>1. w \o rest # <<>>
    BY <1>1, ConcatEqualIffEmpty
  <2>2. read.size = Len(w)
    BY <1>1
  <2>3. After(w \o rest, read) = rest
    BY <1>1, <2>2, AfterPart
  <2> QED
    BY <1>1, <2>1, <2>3
<1> HIDE DEF bytes
<1>3. BooleanTurn(d) = BooleanRun(d, read)
  BY <1>2 DEF BooleanTurn, AtBoolean
<1> HIDE DEF read
<1>4. BooleanRun(d, read) \in [bytes : {After(bytes, read)}, last_value : {~value}, count : {read.value}, cell : {cell}]
  BY DEF BooleanRun, AtBoolean
<1> DEFINE r == BooleanRun(d, read)
           after == After(bytes, read)
           other == ~value
<1> HIDE DEF r, after, other
<1>5. r \in [bytes : {after}, last_value : {other}, count : {read.value}, cell : {cell}]
  BY <1>4 DEF r, after, other
<1>6. r = [bytes |-> after, last_value |-> other, count |-> read.value, cell |-> cell]
  BY <1>5
<1> QED
  BY <1>2, <1>3, <1>6 DEF r, after, other, bytes, AtBoolean

\* Two or more are more than one.
LEMMA TwoOrMore == \A n \in Nat : n >= 2 => n # 0 /\ n # 1
OBVIOUS

\* The loop for the next run stops after the turn that finds one, the first or the second.
LEMMA NextBooleanRunIs ==
    ASSUME NEW d, NEW n \in Nat, n = Len(d.bytes), NEW r, NEW s, r = BooleanTurn(d), s = BooleanTurn(r),
           s = BooleanTurn(s), n >= 2 \/ (n = 1 /\ r = s) \/ (n = 0 /\ d = s)
    PROVE  NextBooleanRun(d) = s
<1> DEFINE w == [i \in 0..n |-> IF i = 0 THEN d ELSE IF i = 1 THEN r ELSE s]
           Is(f) == f = [i \in 0..n |-> IF i = 0 THEN d ELSE BooleanTurn(f[i - 1])]
           turn == CHOOSE f : Is(f)
<1>1. n \in 0..n /\ 0 \in 0..n
  OBVIOUS
<1>2. Is(w)
  <2> SUFFICES ASSUME NEW i \in 0..n
               PROVE  w[i] = IF i = 0 THEN d ELSE BooleanTurn(w[i - 1])
    BY Zenon
  <2>1. CASE i = 0
    BY <2>1
  <2>2. CASE i = 1
    <3>1. i - 1 = 0 /\ w[0] = d /\ w[1] = r
      BY <2>2
    <3> QED
      BY <2>2, <3>1
  <2>3. CASE i = 2
    <3>1. i - 1 = 1 /\ w[1] = r /\ w[2] = s
      BY <2>3
    <3> QED
      BY <2>3, <3>1
  <2>4. CASE i > 2
    <3>1. i - 1 \in 0..n /\ i - 1 # 0 /\ i # 0 /\ i - 1 # 1 /\ i # 1
      BY <2>4
    <3>2. w[i] = s /\ w[i - 1] = s
      BY <3>1
    <3> QED
      BY <3>1, <3>2
  <2> QED
    BY <2>1, <2>2, <2>3, <2>4
<1>3. Is(turn)
  BY <1>2, Zenon
<1>4. NextBooleanRun(d) = turn[n]
  BY DEF NextBooleanRun
<1> HIDE DEF turn
<1>5. w[n] = s
  <2>1. w[n] = IF n = 0 THEN d ELSE IF n = 1 THEN r ELSE s
    BY <1>1, Zenon
  <2>2. 1 # 0 /\ n \in Nat
    OBVIOUS
  <2> HIDE DEF w
  <2>3. CASE n >= 2
    <3>1. n # 0 /\ n # 1
      BY <2>2, <2>3, TwoOrMore, Zenon
    <3> QED
      BY <2>1, <3>1, Zenon
  <2>4. CASE n = 1 /\ r = s
    BY <2>1, <2>2, <2>4, Zenon
  <2>5. CASE n = 0 /\ d = s
    BY <2>1, <2>5, Zenon
  <2> QED
    BY <2>3, <2>4, <2>5, Zenon
<1>6. w[0] = d /\ \A i \in 1..n : w[i] = BooleanTurn(w[i - 1])
  <2>1. \A i \in 0..n : w[i] = IF i = 0 THEN d ELSE BooleanTurn(w[i - 1])
    BY <1>2, Zenon
  <2>2. \A i \in 1..n : i \in 0..n /\ i # 0
    OBVIOUS
  <2> HIDE DEF w
  <2> QED
    BY <1>1, <2>1, <2>2
<1> HIDE DEF w
<1>7. turn[0] = d /\ \A i \in 1..n : turn[i] = BooleanTurn(turn[i - 1])
  <2>1. \A i \in 0..n : turn[i] = IF i = 0 THEN d ELSE BooleanTurn(turn[i - 1])
    BY <1>3, Zenon
  <2>2. \A i \in 1..n : i \in 0..n /\ i # 0
    OBVIOUS
  <2> QED
    BY <1>1, <2>1, <2>2
<1> DEFINE I == {i \in 0..n : turn[i] = w[i]}
<1>8. 0 \in I
  BY <1>1, <1>6, <1>7
<1>9. ASSUME NEW i \in 0..(n - 1), i \in I
      PROVE  i + 1 \in I
  <2>1. i + 1 \in 0..n /\ i + 1 \in 1..n /\ (i + 1) - 1 = i
    OBVIOUS
  <2> QED
    BY <1>6, <1>7, <1>9, <2>1
<1> HIDE DEF I
<1>10. \A i \in 0..n : i \in I
  BY <1>8, <1>9, Throughout
<1>11. turn[n] = w[n]
  BY <1>1, <1>10 DEF I
<1> QED
  BY <1>4, <1>5, <1>11

\* The next run a decoder finds is of this value.
Ready(d, rest, value) ==
    \A n \in UnsignedNumber, tail \in Seq(Nat) :
        n # 0 /\ rest = WriteUnsigned(n) \o tail =>
            \E cell \in SUBSET BOOLEAN : NextBooleanRun(d) = AtBoolean(tail, n, value, cell)

\* A number takes a byte at least.
LEMMA NumbersTakeBytes ==
    ASSUME NEW n \in UnsignedNumber, NEW rest \in Seq(Nat)
    PROVE  /\ WriteUnsigned(n) \in Seq(Nat) /\ WriteUnsigned(n) \o rest \in Seq(Nat)
           /\ Len(rest) \in Nat /\ Len(WriteUnsigned(n) \o rest) \in Nat
           /\ Len(WriteUnsigned(n) \o rest) > Len(rest)
<1> DEFINE w == WriteUnsigned(n)
<1>1. w \in Seq(Nat) /\ w # <<>>
  BY UnsignedRoundTrip
<1> HIDE DEF w
<1>2. Len(w) \in Nat /\ Len(w) # 0 /\ Len(rest) \in Nat
  BY <1>1, EmptySeq
<1>3. w \o rest \in Seq(Nat) /\ Len(w \o rest) = Len(w) + Len(rest)
  BY <1>1, ConcatProperties
<1> QED
  BY <1>1, <1>2, <1>3 DEF w

\* When the run of one value is used up, the next is of the other.
LEMMA ReadyAfterOther ==
    ASSUME NEW rest \in Seq(Nat), NEW other \in BOOLEAN, NEW cell \in SUBSET BOOLEAN
    PROVE  Ready(AtBoolean(rest, 0, other, cell), rest, ~other)
<1> DEFINE value == ~other
<1>1. value \in BOOLEAN
  OBVIOUS
<1> SUFFICES ASSUME NEW n \in UnsignedNumber, NEW tail \in Seq(Nat), n # 0, rest = WriteUnsigned(n) \o tail
             PROVE  NextBooleanRun(AtBoolean(rest, 0, other, cell)) = AtBoolean(tail, n, value, cell)
  BY DEF Ready
<1> DEFINE d == AtBoolean(rest, 0, other, cell)
           r == AtBoolean(tail, n, value, cell)
<1>2. BooleanTurn(d) = r
  BY BooleanTurnTaken
<1>3. n \in Nat
  BY ItemsAre
<1>4. d.bytes = rest /\ r.count = n
  BY DEF AtBoolean
<1> HIDE DEF d, r
<1>5. BooleanTurn(r) = r
  BY <1>4 DEF BooleanTurn
<1>6. Len(rest) \in Nat /\ Len(rest) >= 1
  BY NumbersTakeBytes
<1>7. NextBooleanRun(d) = r
  BY <1>2, <1>4, <1>5, <1>6, NextBooleanRunIs
<1> QED
  BY <1>7 DEF d, r

\* After an empty run the value is the other once more.
LEMMA ReadyAfterNothing ==
    ASSUME NEW rest \in Seq(Nat), NEW cell \in SUBSET BOOLEAN
    PROVE  Ready(AtBoolean(WriteUnsigned(0) \o rest, 0, TRUE, cell), rest, TRUE)
<1> DEFINE bytes == WriteUnsigned(0) \o rest
           d == AtBoolean(bytes, 0, TRUE, cell)
<1> SUFFICES ASSUME NEW n \in UnsignedNumber, NEW tail \in Seq(Nat), n # 0, rest = WriteUnsigned(n) \o tail
             PROVE  NextBooleanRun(d) = AtBoolean(tail, n, TRUE, cell)
  BY DEF Ready
<1> DEFINE r == AtBoolean(rest, 0, FALSE, cell)
           s == AtBoolean(tail, n, TRUE, cell)
<1>1. 0 \in UnsignedNumber /\ n \in Nat
  BY ModulusFacts, BitFacts, ItemsAre DEF UnsignedNumber
<1>2. BooleanTurn(d) = r
  <2>1. BooleanTurn(d) = AtBoolean(rest, 0, ~TRUE, cell)
    BY <1>1, BooleanTurnTaken
  <2>2. (~TRUE) = FALSE
    OBVIOUS
  <2> QED
    BY <2>1, <2>2
<1>3. BooleanTurn(r) = s
  <2>1. BooleanTurn(r) = AtBoolean(tail, n, ~FALSE, cell)
    BY BooleanTurnTaken
  <2>2. (~FALSE) = TRUE
    OBVIOUS
  <2> QED
    BY <2>1, <2>2
<1>4. d.bytes = bytes /\ s.count = n
  BY DEF AtBoolean
<1>5. Len(bytes) \in Nat /\ Len(bytes) >= 2
  <2>1. Len(rest) \in Nat /\ Len(rest) >= 1
    BY NumbersTakeBytes
  <2>2. Len(bytes) \in Nat /\ Len(bytes) > Len(rest)
    BY <1>1, NumbersTakeBytes
  <2> HIDE DEF bytes
  <2> QED
    BY <2>1, <2>2
<1> HIDE DEF bytes, d, r, s
<1>6. BooleanTurn(s) = s
  BY <1>4 DEF BooleanTurn
<1>7. NextBooleanRun(d) = s
  BY <1>2, <1>3, <1>4, <1>5, <1>6, NextBooleanRunIs
<1> QED
  BY <1>7 DEF s

\* In a run, the next cell is there.
LEMMA NextOfBooleanRun ==
    ASSUME NEW bytes \in Seq(Nat), NEW count \in Nat, count # 0, NEW value \in BOOLEAN, NEW cell \in SUBSET BOOLEAN
    PROVE  /\ NextBooleanRun(AtBoolean(bytes, count, value, cell)) = AtBoolean(bytes, count, value, cell)
           /\ TakeBoolean(AtBoolean(bytes, count, value, cell)) = AtBoolean(bytes, count - 1, value, {value})
<1> DEFINE d == AtBoolean(bytes, count, value, cell)
<1>1. d.count = count /\ d.bytes = bytes
  BY DEF AtBoolean
<1>2. TakeBoolean(d) \in [bytes : {bytes}, last_value : {value}, count : {count - 1}, cell : {{value}}]
  BY DEF TakeBoolean, AtBoolean
<1>3. TakeBoolean(d) = AtBoolean(bytes, count - 1, value, {value})
  <2> DEFINE t == TakeBoolean(d)
  <2> HIDE DEF t
  <2>1. t \in [bytes : {bytes}, last_value : {value}, count : {count - 1}, cell : {{value}}]
    BY <1>2 DEF t
  <2>2. t = [bytes |-> bytes, last_value |-> value, count |-> count - 1, cell |-> {value}]
    BY <2>1
  <2> QED
    BY <2>2 DEF t, AtBoolean
<1> HIDE DEF d
<1>4. BooleanTurn(d) = d
  BY <1>1 DEF BooleanTurn
<1>5. NextBooleanRun(d) = d
  <2>1. Len(bytes) \in Nat
    OBVIOUS
  <2>2. \A l \in Nat : l >= 2 \/ l = 1 \/ l = 0
    OBVIOUS
  <2> QED
    BY <1>1, <1>4, <2>1, <2>2, NextBooleanRunIs
<1> QED
  BY <1>3, <1>5 DEF d

\* A run of Booleans shows its value as often as it says.
LEMMA CountDownBoolean ==
    ASSUME NEW d \in BooleanState, NEW rest \in Seq(Nat), NEW n \in Nat, n # 0,
           NEW value \in BOOLEAN, NEW cell \in SUBSET BOOLEAN, NextBooleanRun(d) = AtBoolean(rest, n, value, cell)
    PROVE  Reads(NextsBoolean, ShowsBoolean, d, Copies({value}, n), AtBoolean(rest, 0, value, {value}))
<1> DEFINE shown == {value}
           t == [i \in 0..n |-> IF i = 0 THEN d ELSE AtBoolean(rest, n - i, value, shown)]
<1>1. DOMAIN NextsBoolean = BooleanState /\ shown \in SUBSET BOOLEAN
  BY DEF NextsBoolean
<1> HIDE DEF shown
<1>2. \A i \in 0..n : /\ AtBoolean(rest, n - i, value, shown) \in BooleanState
                      /\ ShowsBoolean[AtBoolean(rest, n - i, value, shown)] = shown
                      /\ NextsBoolean[AtBoolean(rest, n - i, value, shown)] =
                             NextBoolean(AtBoolean(rest, n - i, value, shown))
  <2> TAKE i \in 0..n
  <2> DEFINE m == n - i
  <2>1. m \in Nat
    OBVIOUS
  <2> HIDE DEF m
  <2>2. /\ AtBoolean(rest, m, value, shown) \in BooleanState
        /\ ShowsBoolean[AtBoolean(rest, m, value, shown)] = shown
        /\ NextsBoolean[AtBoolean(rest, m, value, shown)] = NextBoolean(AtBoolean(rest, m, value, shown))
    BY <1>1, <2>1, AtBooleanIsState
  <2> QED
    BY <2>2 DEF m
<1>3. t \in [0..n -> DOMAIN NextsBoolean] /\ t[0] = d /\ t[n] = AtBoolean(rest, 0, value, shown)
  <2>1. n \in 0..n /\ n - n = 0 /\ 0 \in 0..n
    OBVIOUS
  <2> QED
    BY <1>1, <1>2, <2>1
<1>4. NextBoolean(d) = AtBoolean(rest, n - 1, value, shown)
  <2>1. NextBoolean(d) = TakeBoolean(AtBoolean(rest, n, value, cell))
    BY DEF NextBoolean
  <2> QED
    BY <2>1, NextOfBooleanRun DEF shown
<1>5. ASSUME NEW i \in 1..n
      PROVE  t[i] = NextsBoolean[t[i - 1]] /\ ShowsBoolean[t[i]] = Copies(shown, n)[i]
  <2>1. i \in 0..n /\ i - 1 \in 0..n /\ i # 0 /\ n - (i - 1) \in Nat /\ n - (i - 1) # 0 /\ (n - (i - 1)) - 1 = n - i
    OBVIOUS
  <2>2. t[i] = AtBoolean(rest, n - i, value, shown) /\ Copies(shown, n)[i] = shown
    BY <2>1 DEF Copies
  <2>3. CASE i = 1
    <3>1. t[i - 1] = d /\ NextsBoolean[d] = NextBoolean(d)
      BY <2>3 DEF NextsBoolean
    <3> QED
      BY <1>2, <1>4, <2>1, <2>2, <2>3, <3>1
  <2>4. CASE i # 1
    <3>1. t[i - 1] = AtBoolean(rest, n - (i - 1), value, shown)
      BY <2>1, <2>4
    <3>2. NextBoolean(AtBoolean(rest, n - (i - 1), value, shown)) = AtBoolean(rest, n - i, value, shown)
      BY <1>1, <2>1, NextOfBooleanRun DEF NextBoolean, shown
    <3> QED
      BY <1>2, <2>1, <2>2, <3>1, <3>2
  <2> QED
    BY <2>3, <2>4
<1>6. Len(Copies(shown, n)) = n
  BY DEF Copies
<1> HIDE DEF t
<1>7. Reads(NextsBoolean, ShowsBoolean, d, Copies(shown, n), AtBoolean(rest, 0, value, shown))
  BY <1>3, <1>5, <1>6 DEF Reads
<1> QED
  BY <1>7 DEF shown

\* An encoder to which these cells were appended.
EncodedBoolean(e, all) ==
    /\ DOMAIN e = {"last", "count", "buf"}
    /\ e.last \in BOOLEAN /\ e.count \in Nat /\ e.buf \in Seq(Nat)
    /\ \E before \in Seq(BooleanCells) :
           /\ all = before \o Copies({e.last}, e.count)
           /\ e.count = 0 => e.buf = <<>> /\ before = <<>> /\ e.last = FALSE
           /\ \A rest \in Seq(Nat) : \E d \in BooleanState :
                  /\ Ready(d, rest, e.last)
                  /\ Reads(NextsBoolean, ShowsBoolean, BooleanDecoder(e.buf \o rest), before, d)

NewBooleans == [last |-> FALSE, count |-> 0, buf |-> <<>>]

\* A new decoder of Booleans is behind a run of TRUE.
LEMMA BooleanDecoderIs ==
    ASSUME NEW bytes \in Seq(Nat)
    PROVE  BooleanDecoder(bytes) = AtBoolean(bytes, 0, TRUE, {}) /\ BooleanDecoder(bytes) \in BooleanState
BY DEF BooleanDecoder, AtBoolean, BooleanState

\* A new encoder of Booleans holds an empty run of FALSE.
LEMMA EncodedNoBooleans == EncodedBoolean(NewBooleans, <<>>)
<1> DEFINE e == NewBooleans
<1>1. /\ DOMAIN e = {"last", "count", "buf"}
      /\ e.last = FALSE /\ e.count = 0 /\ e.buf = <<>>
  BY DEF NewBooleans
<1>2. <<>> \in Seq(BooleanCells) /\ <<>> \in Seq(Nat) /\ <<>> = <<>> \o Copies({FALSE}, 0)
  BY DEF Copies
<1>3. ASSUME NEW rest \in Seq(Nat)
      PROVE  \E d \in BooleanState :
                 Ready(d, rest, FALSE) /\ Reads(NextsBoolean, ShowsBoolean, BooleanDecoder(<<>> \o rest), <<>>, d)
  <2> DEFINE d == BooleanDecoder(rest)
  <2>1. <<>> \o rest = rest
    BY ConcatEmptySeq
  <2>2. d \in BooleanState /\ d = AtBoolean(rest, 0, TRUE, {})
    BY BooleanDecoderIs
  <2>3. Ready(d, rest, FALSE)
    <3>1. {} \in SUBSET BOOLEAN /\ TRUE \in BOOLEAN /\ (~TRUE) = FALSE
      OBVIOUS
    <3>2. Ready(AtBoolean(rest, 0, TRUE, {}), rest, ~TRUE)
      BY <3>1, ReadyAfterOther
    <3> QED
      BY <2>2, <3>1, <3>2
  <2> HIDE DEF d
  <2>4. d \in DOMAIN NextsBoolean
    BY <2>2 DEF NextsBoolean
  <2>5. Reads(NextsBoolean, ShowsBoolean, d, <<>>, d)
    BY <2>4, ReadsNothing
  <2> QED
    BY <2>1, <2>2, <2>3, <2>5 DEF d
<1> HIDE DEF e
<1>4. EncodedBoolean(e, <<>>)
  <2>1. e.last \in BOOLEAN /\ e.count \in Nat /\ e.buf \in Seq(Nat)
    <3>1. FALSE \in BOOLEAN /\ 0 \in Nat
      OBVIOUS
    <3> QED
      BY <1>1, <1>2, <3>1, Zenon
  <2>2. \A rest \in Seq(Nat) : \E d \in BooleanState :
            Ready(d, rest, e.last) /\ Reads(NextsBoolean, ShowsBoolean, BooleanDecoder(e.buf \o rest), <<>>, d)
    BY <1>1, <1>3, Zenon
  <2>3. <<>> = <<>> \o Copies({e.last}, e.count)
    BY <1>1, <1>2, Zenon
  <2> QED
    BY <1>1, <1>2, <2>1, <2>2, <2>3, Zenon DEF EncodedBoolean
<1> QED
  BY <1>4 DEF e

\* The run an encoder holds, once written, is read to its end.
LEMMA HeldRunRead ==
    ASSUME NEW e, NEW all, EncodedBoolean(e, all), e.count # 0, Len(all) \in SignedNumber, NEW rest \in Seq(Nat)
    PROVE  /\ all \in Seq(BooleanCells) /\ e.count \in UnsignedNumber
           /\ e.buf \o WriteUnsigned(e.count) \in Seq(Nat)
           /\ Reads(NextsBoolean, ShowsBoolean, BooleanDecoder((e.buf \o WriteUnsigned(e.count)) \o rest), all,
                    AtBoolean(rest, 0, e.last, {e.last}))
<1> DEFINE n == e.count
           value == e.last
           cell == {value}
           w == WriteUnsigned(n)
           run == Copies(cell, n)
           S == BooleanCells
           f == AtBoolean(rest, 0, value, cell)
<1>1. value \in BOOLEAN /\ n \in Nat /\ n # 0 /\ e.buf \in Seq(Nat)
  BY DEF EncodedBoolean
<1>2. PICK before \in Seq(S) :
          /\ all = before \o run
          /\ \A tail \in Seq(Nat) : \E d \in BooleanState :
                 /\ Ready(d, tail, value)
                 /\ Reads(NextsBoolean, ShowsBoolean, BooleanDecoder(e.buf \o tail), before, d)
  BY DEF EncodedBoolean
<1>3. cell \in S /\ cell \in SUBSET BOOLEAN
  BY <1>1 DEF BooleanCells
<1> HIDE DEF S, cell
<1>4. run \in Seq(S) /\ Len(run) = n
  BY <1>1, <1>3, CopiesAre
<1> HIDE DEF n, run
<1>5. all \in Seq(S)
  BY <1>2, <1>4, ConcatProperties
<1>6. Len(all) \in Nat /\ n \in 0..Len(all)
  BY <1>2, <1>4, NotLonger
<1>7. n \in UnsignedNumber
  BY <1>6, SizesFit
<1>8. w \in Seq(Nat) /\ w \o rest \in Seq(Nat)
  BY <1>7, NumbersTakeBytes
<1>9. PICK d \in BooleanState :
          /\ Ready(d, w \o rest, value)
          /\ Reads(NextsBoolean, ShowsBoolean, BooleanDecoder(e.buf \o (w \o rest)), before, d)
  BY <1>2, <1>8
<1>10. PICK shown \in SUBSET BOOLEAN : NextBooleanRun(d) = AtBoolean(rest, n, value, shown)
  BY <1>1, <1>7, <1>9 DEF Ready
<1>11. Reads(NextsBoolean, ShowsBoolean, d, run, f)
  BY <1>1, <1>10, CountDownBoolean DEF run, cell
<1> HIDE DEF w, f
<1>12. e.buf \o w \in Seq(Nat) /\ (e.buf \o w) \o rest = e.buf \o (w \o rest)
  <2>1. e.buf \o w \in Seq(Nat)
    BY <1>1, <1>8, ConcatBytes, Zenon
  <2>2. (e.buf \o w) \o rest = e.buf \o (w \o rest)
    BY <1>1, <1>8, ConcatFacts, Zenon
  <2> QED
    BY <2>1, <2>2
<1>13. Reads(NextsBoolean, ShowsBoolean, BooleanDecoder((e.buf \o w) \o rest), all, f)
  BY <1>2, <1>4, <1>9, <1>11, <1>12, ReadsBoth
<1> QED
  BY <1>5, <1>7, <1>12, <1>13 DEF S, n, w, f, cell

\* After a Boolean is appended, the encoder has it: in the run it holds, or in a new one.
LEMMA BooleanAppended ==
    ASSUME NEW e, NEW all, EncodedBoolean(e, all), Len(all) \in SignedNumber, NEW cell \in BooleanCells
    PROVE  EncodedBoolean(CountBoolean(e, cell), all \o <<cell>>)
<1> DEFINE n == e.count
           value == e.last
           S == BooleanCells
           f == CountBoolean(e, cell)
<1>1. /\ DOMAIN e = {"last", "count", "buf"}
      /\ value \in BOOLEAN /\ n \in Nat /\ e.buf \in Seq(Nat)
  BY DEF EncodedBoolean
<1>2. PICK before \in Seq(S) :
          /\ all = before \o Copies({value}, n)
          /\ n = 0 => e.buf = <<>> /\ before = <<>> /\ value = FALSE
          /\ \A rest \in Seq(Nat) : \E d \in BooleanState :
                 /\ Ready(d, rest, value)
                 /\ Reads(NextsBoolean, ShowsBoolean, BooleanDecoder(e.buf \o rest), before, d)
  BY DEF EncodedBoolean
<1>3. PICK b \in BOOLEAN : cell = {b}
  BY DEF BooleanCells
<1>4. TheOne(cell) = b
  BY <1>3 DEF TheOne
<1>5. cell \in S /\ <<cell>> \in Seq(S) /\ {value} \in S
  BY <1>1 DEF BooleanCells
<1> HIDE DEF S
<1>0. Associative(S)
  BY ConcatIsAssociative
<1>6. CASE b = value
  <2>1. f = [e EXCEPT !.count = n + 1]
    BY <1>4, <1>6 DEF CountBoolean
  <2> HIDE DEF f, n, value
  <2>2. DOMAIN f = {"last", "count", "buf"} /\ f.count = n + 1 /\ f.last = value /\ f.buf = e.buf
    BY <1>1, <2>1 DEF value
  <2>3. cell = {value}
    BY <1>3, <1>6
  <2>4. Copies(cell, n) \in Seq(S) /\ Copies(cell, n + 1) = Copies(cell, n) \o <<cell>>
    BY <1>1, <1>5, CopiesAre
  <2>5. (before \o Copies(cell, n)) \o <<cell>> = before \o (Copies(cell, n) \o <<cell>>)
    BY <1>0, <1>2, <1>5, <2>4, Zenon DEF Associative
  <2>6. all \o <<cell>> = before \o Copies({f.last}, f.count)
    BY <1>2, <2>2, <2>3, <2>4, <2>5
  <2>7. f.count \in Nat /\ f.count # 0
    BY <1>1, <2>2
  <2>8. f.last \in BOOLEAN /\ f.buf \in Seq(Nat)
    BY <1>1, <2>2, Zenon
  <2>9. \A rest \in Seq(Nat) : \E d \in BooleanState :
            Ready(d, rest, f.last) /\ Reads(NextsBoolean, ShowsBoolean, BooleanDecoder(f.buf \o rest), before, d)
    BY <1>2, <2>2, Zenon
  <2>10. before \in Seq(BooleanCells)
    BY <1>2 DEF S
  <2>11. EncodedBoolean(f, all \o <<cell>>)
    BY <2>2, <2>6, <2>7, <2>8, <2>9, <2>10, Zenon DEF EncodedBoolean
  <2> QED
    BY <2>11 DEF f
<1>7. CASE b # value
  <2> DEFINE w == WriteUnsigned(n)
             buf == e.buf \o w
  <2>1. f = [last |-> b, count |-> 1, buf |-> buf]
    BY <1>4, <1>7 DEF CountBoolean
  <2> HIDE DEF f, buf
  <2>2. DOMAIN f = {"last", "count", "buf"} /\ f.count = 1 /\ f.last = b /\ f.buf = buf
    BY <2>1
  <2>3. buf \in Seq(Nat) /\ all \in Seq(S)
    <3>1. CASE n = 0
      <4>1. all = <<>> /\ w \in Seq(Nat)
        <5>1. Copies({value}, n) = <<>> /\ before = <<>>
          BY <1>2, <3>1 DEF Copies
        <5>2. 0 \in UnsignedNumber /\ <<>> \in Seq(Nat)
          BY ModulusFacts, BitFacts DEF UnsignedNumber
        <5>3. w \in Seq(Nat)
          BY <3>1, <5>2, NumbersTakeBytes
        <5> QED
          BY <1>2, <5>1, <5>3
      <4> QED
        BY <1>1, <4>1, ConcatFacts DEF buf
    <3>2. CASE n # 0
      <4>1. <<>> \in Seq(Nat)
        OBVIOUS
      <4> QED
        BY <3>2, <4>1, HeldRunRead DEF buf, S
    <3> QED
      BY <3>1, <3>2
  <2>4. all \o <<cell>> = all \o Copies({f.last}, f.count)
    <3>1. Copies(cell, 1) = <<cell>>
      BY <1>5, CopiesAre
    <3> QED
      BY <1>3, <2>2, <3>1, Zenon
  <2>5. ASSUME NEW rest \in Seq(Nat)
        PROVE  \E d \in BooleanState :
                   Ready(d, rest, b) /\ Reads(NextsBoolean, ShowsBoolean, BooleanDecoder(buf \o rest), all, d)
    <3>1. CASE n = 0
      <4> DEFINE bytes == WriteUnsigned(0) \o rest
                 d == BooleanDecoder(bytes)
      <4>1. value = FALSE /\ e.buf = <<>> /\ before = <<>> /\ Copies({value}, n) = <<>>
        <5>1. Copies({value}, n) = <<>>
          BY <3>1 DEF Copies
        <5> QED
          BY <1>2, <3>1, <5>1, Zenon
      <4>2. b = TRUE
        BY <1>7, <4>1, Zenon
      <4>3. all = <<>>
        BY <1>2, <4>1
      <4>4. 0 \in UnsignedNumber
        BY ModulusFacts, BitFacts DEF UnsignedNumber
      <4>5. WriteUnsigned(0) \in Seq(Nat) /\ bytes \in Seq(Nat)
        BY <4>4, NumbersTakeBytes
      <4>6. buf \o rest = bytes
        <5>1. buf = WriteUnsigned(0)
          BY <3>1, <4>1, <4>5, ConcatEmptySeq DEF buf
        <5> QED
          BY <5>1
      <4>7. d = AtBoolean(bytes, 0, TRUE, {}) /\ d \in BooleanState
        BY <4>5, BooleanDecoderIs
      <4>8. {} \in SUBSET BOOLEAN
        OBVIOUS
      <4>9. Ready(d, rest, TRUE)
        BY <4>7, <4>8, ReadyAfterNothing
      <4> HIDE DEF d
      <4>10. d \in DOMAIN NextsBoolean
        BY <4>7 DEF NextsBoolean
      <4>11. Reads(NextsBoolean, ShowsBoolean, d, <<>>, d)
        BY <4>10, ReadsNothing
      <4> QED
        BY <4>2, <4>3, <4>6, <4>7, <4>9, <4>11, Zenon DEF d
    <3>2. CASE n # 0
      <4> DEFINE d == AtBoolean(rest, 0, value, {value})
      <4>1. Reads(NextsBoolean, ShowsBoolean, BooleanDecoder(buf \o rest), all, d)
        BY <3>2, HeldRunRead DEF buf
      <4>2. d \in BooleanState
        BY <1>1, AtBooleanIsState
      <4>3. Ready(d, rest, ~value)
        BY <1>1, ReadyAfterOther
      <4>4. b = ~value
        BY <1>1, <1>7
      <4> QED
        BY <4>1, <4>2, <4>3, <4>4, Zenon
    <3> QED
      BY <3>1, <3>2
  <2>6. f.count \in Nat /\ f.count # 0
    BY <2>2
  <2>7. f.last \in BOOLEAN /\ f.buf \in Seq(Nat) /\ all \in Seq(BooleanCells)
    BY <2>2, <2>3, Zenon DEF S
  <2>8. \A rest \in Seq(Nat) : \E d \in BooleanState :
            Ready(d, rest, f.last) /\ Reads(NextsBoolean, ShowsBoolean, BooleanDecoder(f.buf \o rest), all, d)
    BY <2>2, <2>5, Zenon
  <2>9. EncodedBoolean(f, all \o <<cell>>)
    BY <2>2, <2>4, <2>6, <2>7, <2>8, Zenon DEF EncodedBoolean
  <2> QED
    BY <2>9 DEF f
<1> QED
  BY <1>6, <1>7

\* The encoder after all cells of a column.
LEMMA BooleanEncoderLoop ==
    ASSUME NEW column \in Seq(BooleanCells), Len(column) \in SignedNumber
    PROVE  \E e : EncodeBooleans(column) = FinishBooleans(e) /\ EncodedBoolean(e, column)
<1> DEFINE n == Len(column)
           Is(f) == f = [i \in 0..n |-> IF i = 0 THEN NewBooleans ELSE CountBoolean(f[i - 1], column[i])]
           e == CHOOSE f : Is(f)
           Loop(k, f) == f[0] = NewBooleans /\ \A i \in 1..k : f[i] = CountBoolean(f[i - 1], column[i])
           J == {k \in 0..n : \E f : Loop(k, f)}
<1>1. n \in Nat /\ n \in 0..n /\ 0 \in 0..n
  OBVIOUS
<1>2. 0 \in J
  <2>1. Loop(0, [i \in 0..0 |-> NewBooleans])
    OBVIOUS
  <2> QED
    BY <1>1, <2>1
<1>3. ASSUME NEW k \in 0..(n - 1), k \in J
      PROVE  k + 1 \in J
  <2>1. PICK f : Loop(k, f)
    BY <1>3
  <2> DEFINE last == CountBoolean(f[k], column[k + 1])
             g == [i \in 0..(k + 1) |-> IF i = k + 1 THEN last ELSE f[i]]
  <2>2. k \in Nat /\ k + 1 \in 0..n
    BY <1>1
  <2> HIDE DEF last
  <2>3. g[0] = f[0]
    BY <2>2
  <2>4. ASSUME NEW i \in 1..(k + 1)
        PROVE  g[i] = CountBoolean(g[i - 1], column[i])
    <3>1. i \in 0..(k + 1) /\ i - 1 \in 0..(k + 1) /\ i - 1 # k + 1
      BY <2>2
    <3>2. g[i - 1] = f[i - 1]
      BY <3>1
    <3>3. CASE i = k + 1
      <4>1. g[i] = last /\ i - 1 = k
        BY <2>2, <3>1, <3>3
      <4> QED
        BY <3>2, <3>3, <4>1 DEF last
    <3>4. CASE i # k + 1
      <4>1. g[i] = f[i] /\ i \in 1..k
        BY <2>2, <3>1, <3>4
      <4> QED
        BY <2>1, <3>2, <4>1
    <3> QED
      BY <3>3, <3>4
  <2> HIDE DEF g
  <2>5. Loop(k + 1, g)
    BY <2>1, <2>3, <2>4
  <2> QED
    BY <2>2, <2>5
<1> HIDE DEF J
<1>4. \A k \in 0..n : k \in J
  BY <1>1, <1>2, <1>3, Throughout
<1>5. PICK f : Loop(n, f)
  BY <1>1, <1>4 DEF J
<1>6. Is([i \in 0..n |-> f[i]])
  <2> DEFINE g == [i \in 0..n |-> f[i]]
  <2> SUFFICES ASSUME NEW i \in 0..n
               PROVE  g[i] = IF i = 0 THEN NewBooleans ELSE CountBoolean(g[i - 1], column[i])
    BY Zenon
  <2>1. CASE i = 0
    BY <1>5, <2>1
  <2>2. CASE i # 0
    <3>1. i \in 1..n /\ i - 1 \in 0..n
      BY <1>1, <2>2
    <3>2. g[i] = f[i] /\ g[i - 1] = f[i - 1]
      BY <3>1
    <3> QED
      BY <1>5, <2>2, <3>1, <3>2
  <2> QED
    BY <2>1, <2>2
<1>7. Is(e)
  BY <1>6, Zenon
<1>8. EncodeBooleans(column) = FinishBooleans(e[n])
  BY DEF EncodeBooleans, NewBooleans
<1> HIDE DEF e
<1>9. e[0] = NewBooleans /\ \A i \in 1..n : e[i] = CountBoolean(e[i - 1], column[i])
  <2>1. \A i \in 0..n : e[i] = IF i = 0 THEN NewBooleans ELSE CountBoolean(e[i - 1], column[i])
    BY <1>7, Zenon
  <2>2. \A i \in 1..n : i \in 0..n /\ i # 0
    OBVIOUS
  <2> QED
    BY <1>1, <2>1, <2>2
<1> DEFINE I == {k \in 0..n : EncodedBoolean(e[k], First(column, k))}
<1>10. 0 \in I
  <2>1. First(column, 0) = <<>>
    BY DEF First
  <2> QED
    BY <1>1, <1>9, <2>1, EncodedNoBooleans
<1>11. ASSUME NEW k \in 0..(n - 1), k \in I
       PROVE  k + 1 \in I
  <2>1. k \in 0..n /\ k + 1 \in 0..n /\ k + 1 \in 1..n /\ (k + 1) - 1 = k
    BY <1>1
  <2>2. /\ Len(First(column, k)) = k /\ column[k + 1] \in BooleanCells
        /\ First(column, k + 1) = First(column, k) \o <<column[k + 1]>>
    BY <2>1, FirstAre
  <2>3. k \in SignedNumber
    BY <1>1, <2>1, SizesFit
  <2>4. EncodedBoolean(e[k], First(column, k))
    BY <1>11
  <2>5. EncodedBoolean(CountBoolean(e[k], column[k + 1]), First(column, k + 1))
    BY <2>2, <2>3, <2>4, BooleanAppended
  <2>6. e[k + 1] = CountBoolean(e[k], column[k + 1])
    BY <1>9, <2>1
  <2> QED
    BY <2>1, <2>5, <2>6
<1> HIDE DEF I
<1>12. \A k \in 0..n : k \in I
  BY <1>1, <1>10, <1>11, Throughout
<1>13. EncodedBoolean(e[n], First(column, n))
  BY <1>1, <1>12 DEF I
<1>14. First(column, n) = column
  BY FirstAre
<1> QED
  BY <1>8, <1>13, <1>14

\* A decoder that reads these cells decodes them.
LEMMA ReadBooleansAreDecoded ==
    ASSUME NEW bytes, NEW S, NEW column \in Seq(S), NEW e,
           Reads(NextsBoolean, ShowsBoolean, BooleanDecoder(bytes), column, e)
    PROVE  DecodeBooleans(bytes, Len(column)) = column
<1> DEFINE n == Len(column)
           Is(f) == f = [i \in 0..n |-> IF i = 0 THEN BooleanDecoder(bytes) ELSE NextBoolean(f[i - 1])]
           d == CHOOSE f : Is(f)
<1>1. n \in Nat /\ n \in 0..n /\ 0 \in 0..n
  OBVIOUS
<1>2. PICK t \in [0..n -> DOMAIN NextsBoolean] :
          /\ t[0] = BooleanDecoder(bytes)
          /\ \A i \in 1..n : t[i] = NextsBoolean[t[i - 1]] /\ ShowsBoolean[t[i]] = column[i]
  BY DEF Reads
<1>3. \A i \in 0..n : t[i] \in BooleanState
  BY <1>2 DEF NextsBoolean
<1>4. \A i \in 1..n : t[i] = NextBoolean(t[i - 1]) /\ t[i].cell = column[i]
  <2> TAKE i \in 1..n
  <2>1. i \in 0..n /\ i - 1 \in 0..n
    OBVIOUS
  <2>2. t[i] \in BooleanState /\ t[i - 1] \in BooleanState
    BY <1>3, <2>1
  <2> QED
    BY <1>2, <2>2 DEF NextsBoolean, ShowsBoolean
<1>5. Is(t)
  <2> SUFFICES ASSUME NEW i \in 0..n
               PROVE  t[i] = IF i = 0 THEN BooleanDecoder(bytes) ELSE NextBoolean(t[i - 1])
    BY <1>2, Zenon
  <2>1. CASE i = 0
    BY <1>2, <2>1
  <2>2. CASE i # 0
    <3>1. i \in 1..n
      BY <2>2
    <3> QED
      BY <1>4, <2>2, <3>1
  <2> QED
    BY <2>1, <2>2
<1>6. Is(d)
  BY <1>5, Zenon
<1>7. DecodeBooleans(bytes, n) = [i \in 1..n |-> d[i].cell]
  BY DEF DecodeBooleans
<1> HIDE DEF d
<1> DEFINE I == {i \in 0..n : d[i] = t[i]}
<1>8. \A i \in 0..n : d[i] = IF i = 0 THEN BooleanDecoder(bytes) ELSE NextBoolean(d[i - 1])
  BY <1>6, Zenon
<1>9. 0 \in I
  BY <1>1, <1>2, <1>8
<1>10. ASSUME NEW i \in 0..(n - 1), i \in I
       PROVE  i + 1 \in I
  <2>1. i + 1 \in 0..n /\ i + 1 \in 1..n /\ i + 1 # 0 /\ (i + 1) - 1 = i
    BY <1>1
  <2>2. d[i + 1] = NextBoolean(d[i]) /\ t[i + 1] = NextBoolean(t[i])
    BY <1>4, <1>8, <2>1
  <2> QED
    BY <1>10, <2>1, <2>2
<1> HIDE DEF I
<1>11. \A i \in 0..n : i \in I
  BY <1>1, <1>9, <1>10, Throughout
<1>12. \A i \in 1..n : d[i].cell = column[i]
  <2> TAKE i \in 1..n
  <2>1. i \in 0..n
    OBVIOUS
  <2>2. d[i] = t[i]
    BY <1>11, <2>1 DEF I
  <2> QED
    BY <1>4, <2>2
<1>13. DecodeBooleans(bytes, n) = [i \in 1..n |-> column[i]]
  BY <1>7, <1>12
<1> QED
  BY <1>13

\* A column of Booleans is decoded to the cells that were appended.
THEOREM BooleanRoundTrip ==
    ASSUME NEW column \in Seq(BooleanCells), Len(column) \in SignedNumber
    PROVE  DecodeBooleans(EncodeBooleans(column), Len(column)) = column
<1>1. PICK e : EncodeBooleans(column) = FinishBooleans(e) /\ EncodedBoolean(e, column)
  BY BooleanEncoderLoop
<1>2. e.count \in Nat /\ e.buf \in Seq(Nat)
  BY <1>1 DEF EncodedBoolean
<1>3. CASE e.count = 0
  <2>1. EncodeBooleans(column) = e.buf
    BY <1>1, <1>3 DEF FinishBooleans
  <2>2. PICK before \in Seq(BooleanCells) : column = before \o Copies({e.last}, e.count) /\ before = <<>>
    BY <1>1, <1>3 DEF EncodedBoolean
  <2>3. Copies({e.last}, e.count) = <<>>
    BY <1>3 DEF Copies
  <2>4. column = <<>>
    BY <2>2, <2>3
  <2> DEFINE d == BooleanDecoder(e.buf)
  <2>5. d \in DOMAIN NextsBoolean
    BY <1>2, BooleanDecoderIs DEF NextsBoolean
  <2> HIDE DEF d
  <2>6. Reads(NextsBoolean, ShowsBoolean, d, column, d)
    BY <2>4, <2>5, ReadsNothing
  <2> QED
    BY <2>1, <2>6, ReadBooleansAreDecoded DEF d
<1>4. CASE e.count # 0
  <2> DEFINE bytes == e.buf \o WriteUnsigned(e.count)
  <2>1. EncodeBooleans(column) = bytes
    <3>1. e.count > 0
      BY <1>2, <1>4
    <3> QED
      BY <1>1, <3>1 DEF FinishBooleans
  <2>2. <<>> \in Seq(Nat)
    OBVIOUS
  <2>3. /\ bytes \in Seq(Nat)
        /\ Reads(NextsBoolean, ShowsBoolean, BooleanDecoder(bytes \o <<>>), column, AtBoolean(<<>>, 0, e.last, {e.last}))
    BY <1>1, <1>4, <2>2, HeldRunRead
  <2> HIDE DEF bytes
  <2>4. bytes \o <<>> = bytes
    BY <2>3, ConcatEmptySeq
  <2> QED
    BY <2>1, <2>3, <2>4, ReadBooleansAreDecoded
<1> QED
  BY <1>3, <1>4

-----------------------------------------------------------------------------
(* Columns of the specification *)

ColumnInv == cells \in Seq(CellsWith(CellValues)) /\ Len(cells) <= MaxCells

\* The values of cells are as near each other as the assumption says, and so few that their
\* number fits.
LEMMA ValuesAre ==
    /\ CellValues \subseteq Nat /\ CellValues \subseteq UnsignedNumber /\ Near(CellValues)
    /\ MaxCells \in Nat /\ \A m \in 0..(MaxCells + 1) : m \in SignedNumber
<1>1. CellValues \subseteq UnsignedNumber
  BY CellsAssumption DEF UnsignedNumber
<1>2. \A v, w \in CellValues \cup {0} : ToSigned(v) - ToSigned(w) \in SignedNumber
  BY CellsAssumption DEF SignedNumber
<1>3. MaxCells \in Nat /\ MaxCells + 1 \in SignedNumber
  BY CellsAssumption DEF SignedNumber
<1>4. \A m \in 0..(MaxCells + 1) : m \in SignedNumber
  BY <1>3, SizesFit
<1>5. CellValues \subseteq Nat
  BY <1>1, ItemsAre
<1> QED
  BY <1>1, <1>2, <1>3, <1>4, <1>5 DEF Near

\* Columns of unsigned numbers are read as they were written.
LEMMA UnsignedDecodes ==
    ASSUME NEW column \in Seq(CellsWith(CellValues)), Len(column) \in SignedNumber
    PROVE  Decodes("unsigned", column)
<1>1. CellsWith(CellValues) \subseteq CellsOf("unsigned")
  BY ValuesAre, ItemsAre DEF CellsWith, CellsOf
<1>2. column \in Seq(CellsOf("unsigned")) /\ "unsigned" \in Kinds
  <2> DEFINE S == CellsWith(CellValues)
             T == CellsOf("unsigned")
  <2> HIDE DEF S, T
  <2>1. S \subseteq T /\ column \in Seq(S)
    BY <1>1 DEF S, T
  <2>2. column \in Seq(T)
    BY <2>1
  <2> QED
    BY <2>2 DEF T, Kinds
<1>3. DecodeRle("unsigned", EncodeRle("unsigned", column), Len(column)) = column
  BY <1>2, RleRoundTrip
<1> QED
  BY <1>3 DEF Decodes, DecodeColumn, EncodeColumn

\* So are columns of differences.
LEMMA DeltaDecodes ==
    ASSUME NEW column \in Seq(CellsWith(CellValues)), Len(column) \in SignedNumber
    PROVE  Decodes("delta", column)
<1>1. DecodeDelta(EncodeDelta(column), Len(column)) = column
  BY ValuesAre, DeltaRoundTrip
<1> QED
  BY <1>1 DEF Decodes, DecodeColumn, EncodeColumn

\* So are columns of strings.
LEMMA StringDecodes ==
    ASSUME NEW column \in Seq(CellsOf("string")), Len(column) \in SignedNumber
    PROVE  Decodes("string", column)
<1>1. "string" \in Kinds
  BY DEF Kinds
<1>2. DecodeRle("string", EncodeRle("string", column), Len(column)) = column
  BY <1>1, RleRoundTrip
<1> QED
  BY <1>2 DEF Decodes, DecodeColumn, EncodeColumn

\* So are columns of Booleans.
LEMMA BooleanDecodes ==
    ASSUME NEW column \in Seq(BooleanCells), Len(column) \in SignedNumber
    PROVE  Decodes("boolean", column)
BY BooleanRoundTrip DEF Decodes, DecodeColumn, EncodeColumn

\* The invariant is all that is needed of a column.
LEMMA ColumnsDecode == ColumnInv => ColumnsRoundTrip
<1> SUFFICES ASSUME ColumnInv
             PROVE  ColumnsRoundTrip
  OBVIOUS
<1> DEFINE n == Len(cells)
           S == CellsWith(CellValues)
<1>1. cells \in Seq(S) /\ n \in Nat /\ n \in 0..MaxCells /\ DOMAIN cells = 1..n
  BY ValuesAre DEF ColumnInv
<1>2. n \in SignedNumber /\ n + 1 \in SignedNumber
  <2>1. n \in 0..(MaxCells + 1) /\ n + 1 \in 0..(MaxCells + 1)
    BY <1>1, ValuesAre
  <2> QED
    BY <2>1, ValuesAre
<1>3. \A i \in 1..n : cells[i] = {} \/ \E v \in CellValues : cells[i] = {v}
  <2> TAKE i \in 1..n
  <2>1. cells[i] \in S
    BY <1>1
  <2> QED
    BY <2>1 DEF CellsWith
<1>4. Decodes("unsigned", Append(cells, {})) /\ Decodes("delta", Append(cells, {}))
  <2> DEFINE column == Append(cells, {})
  <2>1. {} \in S
    BY DEF CellsWith
  <2> HIDE DEF S
  <2>2. column \in Seq(S) /\ Len(column) = n + 1
    BY <1>1, <2>1
  <2> HIDE DEF column
  <2>3. Len(column) \in SignedNumber /\ column \in Seq(CellsWith(CellValues))
    BY <1>2, <2>2 DEF S
  <2>4. Decodes("unsigned", column) /\ Decodes("delta", column)
    BY <2>3, UnsignedDecodes, DeltaDecodes
  <2> QED
    BY <2>4 DEF column
<1>5. Decodes("string", [i \in DOMAIN cells |-> {<<v, v>> : v \in cells[i]}])
  <2> DEFINE column == [i \in DOMAIN cells |-> {<<v, v>> : v \in cells[i]}]
             T == CellsOf("string")
  <2>1. ASSUME NEW v \in CellValues
        PROVE  <<v, v>> \in Items("string")
    <3>1. v \in Nat
      BY ValuesAre
    <3>2. <<v, v>> \in Seq(Nat) /\ Len(<<v, v>>) = 2
      BY <3>1
    <3>3. 2 \in UnsignedNumber
      BY ModulusFacts, BitFacts DEF UnsignedNumber
    <3> QED
      BY <3>2, <3>3, ItemsAre
  <2>2. \A i \in 1..n : {<<v, v>> : v \in cells[i]} \in T
    <3> TAKE i \in 1..n
    <3>1. CASE cells[i] = {}
      <4>1. {<<v, v>> : v \in cells[i]} = {}
        BY <3>1
      <4> QED
        BY <4>1 DEF CellsOf
    <3>2. ASSUME NEW w \in CellValues, cells[i] = {w}
          PROVE  {<<v, v>> : v \in cells[i]} \in T
      <4>1. {<<v, v>> : v \in cells[i]} = {<<w, w>>}
        BY <3>2
      <4> QED
        BY <2>1, <4>1 DEF CellsOf
    <3> QED
      BY <1>3, <3>1, <3>2
  <2> HIDE DEF T
  <2>3. column \in Seq(T) /\ Len(column) = n
    <3>1. column \in [1..n -> T]
      BY <1>1, <2>2
    <3> HIDE DEF column
    <3> QED
      BY <1>1, <3>1
  <2> HIDE DEF column
  <2>4. Decodes("string", column)
    BY <1>2, <2>3, StringDecodes DEF T
  <2> QED
    BY <2>4 DEF column
<1>6. Decodes("boolean", Append([i \in DOMAIN cells |-> {cells[i] # {}}], {FALSE}))
  <2> DEFINE there == [i \in DOMAIN cells |-> {cells[i] # {}}]
             column == Append(there, {FALSE})
             B == BooleanCells
  <2>1. \A i \in 1..n : {cells[i] # {}} \in B
    BY DEF BooleanCells
  <2>2. {FALSE} \in B
    BY DEF BooleanCells
  <2> HIDE DEF B
  <2>3. there \in Seq(B) /\ Len(there) = n
    <3>1. there \in [1..n -> B]
      BY <1>1, <2>1
    <3> HIDE DEF there
    <3> QED
      BY <1>1, <3>1
  <2> HIDE DEF there
  <2>4. column \in Seq(B) /\ Len(column) = n + 1
    BY <2>2, <2>3
  <2> HIDE DEF column
  <2>5. Decodes("boolean", column)
    BY <1>2, <2>4, BooleanDecodes DEF B
  <2> QED
    BY <2>5 DEF column, there
<1> QED
  BY <1>4, <1>5, <1>6 DEF ColumnsRoundTrip

\* It holds of the empty column,
LEMMA InitColumnInv == Init => ColumnInv
<1> SUFFICES ASSUME Init
             PROVE  ColumnInv
  OBVIOUS
<1>1. cells = <<>> /\ Len(<<>>) = 0
  BY DEF Init
<1> QED
  BY <1>1, ValuesAre DEF ColumnInv

\* and a step appends a cell of the values, or leaves the column alone.
LEMMA NextColumnInv == ColumnInv /\ [Next]_vars => ColumnInv'
<1> SUFFICES ASSUME ColumnInv, [Next]_vars
             PROVE  ColumnInv'
  OBVIOUS
<1>1. CASE AppendCell
  <2>1. PICK cell \in {{}} \cup {{v} : v \in CellValues} : cells' = Append(cells, cell)
    BY <1>1 DEF AppendCell
  <2>2. cell \in CellsWith(CellValues)
    BY DEF CellsWith
  <2>3. Len(cells) \in Nat /\ Len(cells) < MaxCells /\ cells \in Seq(CellsWith(CellValues))
    BY <1>1 DEF AppendCell, ColumnInv
  <2> DEFINE S == CellsWith(CellValues)
  <2> HIDE DEF S
  <2>4. Append(cells, cell) \in Seq(S) /\ Len(Append(cells, cell)) = Len(cells) + 1
    BY <2>2, <2>3 DEF S
  <2>5. Len(cells) + 1 <= MaxCells
    BY <2>3, ValuesAre
  <2> QED
    BY <2>1, <2>4, <2>5 DEF ColumnInv, S
<1>2. CASE AddOperation
  <2>1. cells' = cells
    BY <1>2 DEF AddOperation
  <2> QED
    BY <2>1 DEF ColumnInv
<1>3. CASE UNCHANGED vars
  BY <1>3 DEF vars, ColumnInv
<1> QED
  BY <1>1, <1>2, <1>3 DEF Next

\* Whatever cells are appended to a column, and however many, its decoder yields them again,
\* and the null or the FALSE after them: run-length encoded numbers and strings, differences,
\* and Booleans (Encoder.h, Decoder.h).  It is so for all values that fit in an unsigned
\* number, as long as their differences fit in a signed one.
THEOREM ColumnsAlwaysRoundTrip == Spec => []ColumnsRoundTrip
<1>1. Spec => []ColumnInv
  BY InitColumnInv, NextColumnInv, PTL DEF Spec
<1> QED
  BY <1>1, ColumnsDecode, PTL

=============================================================================

-------------------------- MODULE ChangeQueriesProofs --------------------------
(***************************************************************************)
(* What the queries of the change graph answer, in every state and for     *)
(* every number of documents, actors and changes.                          *)
(***************************************************************************)
EXTENDS ChangeQueries, ChangeNumberingProofs, WellFoundedInduction

-----------------------------------------------------------------------------
(* Loops *)

\* Every set of natural numbers with an element has a least one.
LEMMA LeastNat ==
    ASSUME NEW I, I \subseteq Nat, I # {}
    PROVE  \E i \in I : \A j \in I : i <= j
<1>1. PICK i \in I : \A j \in I : ~(<<j, i>> \in OpToRel(<, Nat))
  BY NatLessThanWellFounded, WFMin, Zenon
<1>2. \A j \in I : ~(j < i)
  BY <1>1 DEF OpToRel
<1> QED
  BY <1>2

\* A set that has 0, and n + 1 if it has n, has every natural number.
LEMMA NatInduct ==
    ASSUME NEW I, 0 \in I, \A n \in Nat : n \in I => n + 1 \in I
    PROVE  \A n \in Nat : n \in I
<1> SUFFICES ASSUME Nat \ I # {}
             PROVE  FALSE
  OBVIOUS
<1>1. PICK n \in Nat \ I : \A m \in Nat \ I : n <= m
  BY LeastNat
<1>2. n - 1 \in Nat
  OBVIOUS
<1> QED
  BY <1>1, <1>2

\* The first turns of a loop: states 0 to n of it.
Prefix(turn, start, S, n, f) ==
    /\ f \in [0..n -> S]
    /\ f[0] = start
    /\ \A m \in 0..n : m # 0 => f[m] = turn[f[m - 1]]

\* A loop reaches a state after every number of turns, and never one that is none.
LEMMA IterateFacts ==
    ASSUME NEW S, NEW turn \in [S -> S], NEW start \in S
    PROVE  /\ Iterate(turn, start) \in [Nat -> S]
           /\ Iterate(turn, start)[0] = start
           /\ \A n \in Nat : Iterate(turn, start)[n + 1] = turn[Iterate(turn, start)[n]]
<1>1. \A n \in Nat : \E f : Prefix(turn, start, S, n, f)
  <2> DEFINE I == {n \in Nat : \E f : Prefix(turn, start, S, n, f)}
  <2>1. 0 \in I
    <3>1. Prefix(turn, start, S, 0, [m \in 0..0 |-> start])
      BY DEF Prefix
    <3> QED
      BY <3>1
  <2>2. ASSUME NEW n \in Nat, n \in I
        PROVE  n + 1 \in I
    <3>1. PICK f : Prefix(turn, start, S, n, f)
      BY <2>2
    <3> DEFINE g == [m \in 0..(n + 1) |-> IF m = n + 1 THEN turn[f[n]] ELSE f[m]]
    <3>2. f \in [0..n -> S] /\ f[n] \in S /\ turn[f[n]] \in S
      BY <3>1 DEF Prefix
    <3>3. g \in [0..(n + 1) -> S]
      BY <3>2
    <3>4. g[0] = start
      BY <3>1 DEF Prefix
    <3>5. ASSUME NEW m \in 0..(n + 1), m # 0
          PROVE  g[m] = turn[g[m - 1]]
      <4>1. CASE m = n + 1
        BY <4>1
      <4>2. CASE m \in 0..n
        <5>1. g[m] = f[m] /\ m - 1 \in 0..n /\ g[m - 1] = f[m - 1]
          BY <3>5, <4>2
        <5> QED
          BY <3>1, <3>5, <4>2, <5>1 DEF Prefix
      <4> QED
        BY <4>1, <4>2
    <3> HIDE DEF g
    <3>6. Prefix(turn, start, S, n + 1, g)
      BY <3>3, <3>4, <3>5 DEF Prefix
    <3> QED
      BY <3>6
  <2> HIDE DEF I
  <2>3. \A n \in Nat : n \in I
    BY <2>1, <2>2, NatInduct
  <2> QED
    BY <2>3 DEF I
<1>2. ASSUME NEW n \in Nat, NEW k \in Nat, NEW f, NEW g, n <= k,
             Prefix(turn, start, S, n, f), Prefix(turn, start, S, k, g)
      PROVE  f[n] = g[n]
  <2> DEFINE I == {m \in Nat : m <= n => f[m] = g[m]}
  <2>1. 0 \in I
    BY <1>2 DEF Prefix
  <2>2. ASSUME NEW m \in Nat, m \in I
        PROVE  m + 1 \in I
    <3>1. CASE m + 1 <= n
      <4>1. m + 1 \in 0..n /\ m + 1 \in 0..k /\ m + 1 # 0 /\ (m + 1) - 1 = m /\ f[m] = g[m]
        BY <1>2, <2>2, <3>1
      <4> QED
        BY <1>2, <4>1 DEF Prefix
    <3> QED
      BY <3>1
  <2> HIDE DEF I
  <2>3. n \in I
    BY <2>1, <2>2, NatInduct
  <2> QED
    BY <2>3 DEF I
<1> DEFINE p(n) == CHOOSE f : Prefix(turn, start, S, n, f)
           F == [n \in Nat |-> p(n)[n]]
<1>3. \A n \in Nat : Prefix(turn, start, S, n, p(n))
  BY <1>1, Zenon
<1> HIDE DEF p
<1>4. \A n \in Nat : F[n] \in S
  BY <1>3 DEF Prefix
<1>5. F[0] = start
  BY <1>3 DEF Prefix
<1>6. ASSUME NEW n \in Nat, n # 0
      PROVE  F[n] = turn[F[n - 1]]
  <2>1. n - 1 \in Nat /\ n - 1 <= n /\ n \in 0..n
    BY <1>6
  <2>2. p(n)[n] = turn[p(n)[n - 1]]
    BY <1>3, <1>6, <2>1 DEF Prefix
  <2>3. p(n - 1)[n - 1] = p(n)[n - 1]
    BY <1>2, <1>3, <2>1
  <2> QED
    BY <2>1, <2>2, <2>3
<1>7. F = [n \in Nat |-> IF n = 0 THEN start ELSE turn[F[n - 1]]]
  <2>1. \A n \in Nat : F[n] = IF n = 0 THEN start ELSE turn[F[n - 1]]
    BY <1>5, <1>6
  <2> QED
    BY <2>1
<1> DEFINE R == Iterate(turn, start)
<1>8. R = [n \in Nat |-> IF n = 0 THEN start ELSE turn[R[n - 1]]]
  <2> HIDE DEF F
  <2>1. R = CHOOSE state : state = [n \in Nat |-> IF n = 0 THEN start ELSE turn[state[n - 1]]]
    BY Zenon DEF Iterate
  <2> QED
    BY <1>7, <2>1, Zenon
<1> HIDE DEF R
<1>9. \A n \in Nat : R[n] \in S
  <2> DEFINE I == {n \in Nat : R[n] \in S}
  <2>1. 0 \in I
    BY <1>8
  <2>2. ASSUME NEW n \in Nat, n \in I
        PROVE  n + 1 \in I
    BY <1>8, <2>2
  <2> HIDE DEF I
  <2>3. \A n \in Nat : n \in I
    BY <2>1, <2>2, NatInduct
  <2> QED
    BY <2>3 DEF I
<1>10. R \in [Nat -> S]
  BY <1>8, <1>9
<1>11. R[0] = start /\ \A n \in Nat : R[n + 1] = turn[R[n]]
  BY <1>8
<1> QED
  BY <1>10, <1>11 DEF R
-----------------------------------------------------------------------------
(* Vectors of hashes *)

\* The vector of a set of hashes has each of them once.
LEMMA SortedFacts ==
    ASSUME NEW H, H \subseteq Nat, IsFiniteSet(H)
    PROVE  /\ Sorted(H) \in Seq(H)
           /\ Len(Sorted(H)) = Cardinality(H)
           /\ Range(Sorted(H)) = H
<1> DEFINE below(h) == {g \in H : g < h}
           n == Cardinality(H)
           rank == [h \in H |-> Cardinality(below(h))]
           s == Sorted(H)
<1>1. n \in Nat
  BY FS_CardinalityType
<1>2. ASSUME NEW h \in H
      PROVE  IsFiniteSet(below(h)) /\ rank[h] \in 0..(n - 1)
  <2>1. below(h) \in SUBSET (H \ {h})
    BY <1>2
  <2>2. IsFiniteSet(H \ {h}) /\ Cardinality(H \ {h}) = n - 1
    BY FS_RemoveElement
  <2>3. IsFiniteSet(below(h)) /\ Cardinality(below(h)) <= n - 1
    BY <2>1, <2>2, FS_Subset
  <2>4. Cardinality(below(h)) \in Nat
    BY <2>3, FS_CardinalityType
  <2> QED
    BY <1>1, <2>3, <2>4
<1>3. ASSUME NEW g \in H, NEW h \in H, g < h
      PROVE  rank[g] # rank[h]
  <2>1. below(g) \in SUBSET (below(h) \ {g})
    <3>1. \A x \in H : x < g => x < h /\ x # g
      BY <1>3
    <3> QED
      BY <3>1
  <2>2. g \in below(h)
    BY <1>3
  <2>3. IsFiniteSet(below(h) \ {g}) /\ Cardinality(below(h) \ {g}) = Cardinality(below(h)) - 1
    BY <1>2, <2>2, FS_RemoveElement
  <2>4. Cardinality(below(g)) <= Cardinality(below(h)) - 1
    BY <2>1, <2>3, FS_Subset
  <2>5. Cardinality(below(g)) \in Nat /\ Cardinality(below(h)) \in Nat
    BY <1>2, FS_CardinalityType
  <2> HIDE DEF below
  <2> QED
    BY <2>4, <2>5
<1>4. rank \in Injection(H, 0..(n - 1))
  <2>1. \A g, h \in H : rank[g] = rank[h] => g = h
    BY <1>3
  <2>2. rank \in [H -> 0..(n - 1)]
    BY <1>2
  <2> HIDE DEF rank
  <2> QED
    BY <2>1, <2>2 DEF Injection, IsInjective
<1>5. IsFiniteSet(0..(n - 1)) /\ Cardinality(0..(n - 1)) = n
  <2> HIDE DEF n
  <2>1. 0 \in Int /\ n - 1 \in Int
    BY <1>1
  <2>2. /\ IsFiniteSet(0..(n - 1))
        /\ Cardinality(0..(n - 1)) = IF 0 > n - 1 THEN 0 ELSE (n - 1) - 0 + 1
    BY <2>1, FS_Interval
  <2> QED
    BY <1>1, <2>2
<1>6. rank \in Surjection(H, 0..(n - 1))
  BY <1>4, <1>5, FS_Injection
<1>7. \A i \in 1..n : \E h \in H : rank[h] = i - 1
  <2> HIDE DEF rank, n
  <2> QED
    BY <1>1, <1>6 DEF Surjection
<1>8. s = [i \in 1..n |-> CHOOSE h \in H : Cardinality(below(h)) = i - 1]
  BY DEF Sorted
<1>9. ASSUME NEW i \in 1..n
      PROVE  s[i] \in H /\ rank[s[i]] = i - 1
  <2>1. \E h \in H : Cardinality(below(h)) = i - 1
    BY <1>7
  <2>2. s[i] = CHOOSE h \in H : Cardinality(below(h)) = i - 1
    BY <1>8
  <2> HIDE DEF s, below
  <2>3. s[i] \in H /\ Cardinality(below(s[i])) = i - 1
    BY <2>1, <2>2, Zenon
  <2> QED
    BY <2>3
<1>10. DOMAIN s = 1..n
  BY <1>8
<1> HIDE DEF s, n
<1>11. s \in Seq(H) /\ Len(s) = n
  <2>1. s \in [1..n -> H]
    BY <1>8, <1>9, <1>10
  <2>2. s \in Seq(H)
    BY <1>1, <2>1, SeqDef
  <2>3. 1..Len(s) = 1..n /\ Len(s) \in Nat
    BY <1>10, <2>2, LenProperties
  <2> QED
    BY <1>1, <2>2, <2>3
<1>12. H \subseteq Range(s)
  <2> SUFFICES ASSUME NEW h \in H
               PROVE  h \in Range(s)
    OBVIOUS
  <2>1. rank[h] + 1 \in 1..n
    BY <1>1, <1>2
  <2>2. s[rank[h] + 1] \in H /\ rank[s[rank[h] + 1]] = rank[h]
    BY <1>2, <1>9, <2>1
  <2> HIDE DEF rank
  <2>3. s[rank[h] + 1] = h
    BY <1>4, <2>2 DEF Injection, IsInjective
  <2> QED
    BY <1>10, <2>1, <2>3 DEF Range
<1>13. Range(s) \subseteq H
  BY <1>9, <1>10 DEF Range
<1> QED
  BY <1>11, <1>12, <1>13 DEF s, n

\* Taking the last element off a stack.
LEMMA PopFacts ==
    ASSUME NEW S, NEW s \in Seq(S), s # <<>>
    PROVE  /\ Last(s) \in S
           /\ Front(s) \in Seq(S)
           /\ Len(Front(s)) = Len(s) - 1
           /\ Len(s) \in Nat \ {0}
           /\ Range(s) = Range(Front(s)) \cup {Last(s)}
<1>1. Len(s) \in Nat \ {0} /\ DOMAIN s = 1..Len(s)
  BY EmptySeq, LenProperties
<1>2. \A i \in 1..Len(s) : s[i] \in S
  BY ElementOfSeq
<1>3. /\ SubSeq(s, 1, Len(s) - 1) \in Seq(S)
      /\ Len(SubSeq(s, 1, Len(s) - 1)) = Len(s) - 1
      /\ \A i \in 1..(Len(s) - 1) : SubSeq(s, 1, Len(s) - 1)[i] = s[i]
  <2>1. 1 \in Int /\ Len(s) - 1 \in Int /\ \A i \in 1..(Len(s) - 1) : s[i] \in S
    BY <1>1, <1>2
  <2>2. /\ SubSeq(s, 1, Len(s) - 1) \in Seq(S)
        /\ Len(SubSeq(s, 1, Len(s) - 1)) = IF 1 <= Len(s) - 1 THEN (Len(s) - 1) - 1 + 1 ELSE 0
        /\ \A i \in 1..((Len(s) - 1) - 1 + 1) : SubSeq(s, 1, Len(s) - 1)[i] = s[1 + i - 1]
    BY <2>1, SubSeqProperties
  <2> QED
    BY <1>1, <2>2
<1>4. Front(s) \in Seq(S) /\ Len(Front(s)) = Len(s) - 1 /\ \A i \in 1..(Len(s) - 1) : Front(s)[i] = s[i]
  BY <1>3 DEF Front
<1>5. DOMAIN Front(s) = 1..(Len(s) - 1)
  BY <1>4, LenProperties
<1>6. Last(s) = s[Len(s)]
  BY DEF Last
<1>7. Range(s) = Range(Front(s)) \cup {Last(s)}
  BY <1>1, <1>4, <1>5, <1>6 DEF Range
<1> QED
  BY <1>1, <1>2, <1>4, <1>6, <1>7

\* Pushing hashes, and noting one more.
LEMMA PushFacts ==
    ASSUME NEW S, NEW s \in Seq(S), NEW t \in Seq(S)
    PROVE  /\ s \o t \in Seq(S)
           /\ Len(s \o t) = Len(s) + Len(t)
           /\ Range(s \o t) = Range(s) \cup Range(t)
BY ConcatProperties, RangeConcatenation

\* A sequence to which an element is appended that is not in it.
LEMMA NoteFacts ==
    ASSUME NEW S, NEW s \in Seq(S), IsInjective(s), NEW x \in S, x \notin Range(s)
    PROVE  /\ Append(s, x) \in Seq(S)
           /\ Len(Append(s, x)) = Len(s) + 1
           /\ Range(Append(s, x)) = Range(s) \cup {x}
           /\ IsInjective(Append(s, x))
<1>1. S \subseteq S
  OBVIOUS
<1> QED
  BY <1>1, AppendFacts, AppendRange DEF IsInjective, Range
-----------------------------------------------------------------------------
(* The graph *)

\* The change graph: whatever the actor ids of the documents, a change is in some
\* history, and there are finitely many.
GraphInv == HistoryInv /\ MadeIsHeld /\ IsFiniteSet(Made)

\* Whatever a step does, a change made is in some history afterwards.
LEMMA GraphInvStep ==
    ASSUME ConstantsAssumption, GraphInv, [Next]_vars
    PROVE  GraphInv'
<1> USE DEF GraphInv, HistoryInv
<1>1. HistoryInv'
  BY HistoryInvStep
<1>2. \A d \in Doc : History(d) \subseteq History(d)'
  BY HistoryGrows
<1>3. CASE Made' = Made
  BY <1>1, <1>2, <1>3 DEF MadeIsHeld
<1>4. ASSUME NEW d \in Doc, NEW h \in Hash, NEW c \in Change, Grow(d, h, c)
      PROVE  MadeIsHeld' /\ IsFiniteSet(Made)'
  <2>1. Made' = Made \cup {h} /\ h \in History(d)'
    BY <1>4, GrowFacts DEF Grow
  <2>2. IsFiniteSet(Made \cup {h})
    BY FS_AddElement
  <2> QED
    BY <1>2, <2>1, <2>2 DEF MadeIsHeld
<1>5. ASSUME Quiet \/ \E d, e \in Doc : CopyOf(d, e)
      PROVE  Made' = Made
  BY <1>5 DEF Quiet, CopyOf, Made
<1> QED
  BY <1>1, <1>3, <1>4, <1>5, StepShape

\* So it is at all times.
LEMMA GraphInvariant == Spec => []GraphInv
<1>1. Init => GraphInv
  <2> SUFFICES ASSUME Init
               PROVE  GraphInv
    OBVIOUS
  <2>1. Made = {}
    BY DEF Init, Made
  <2> QED
    BY <2>1, ConstantsAssumption, HistoryInvInit, FS_EmptySet DEF GraphInv, MadeIsHeld
<1>2. GraphInv /\ [Next]_vars => GraphInv'
  BY ConstantsAssumption, GraphInvStep
<1> QED
  BY <1>1, <1>2, PTL DEF Spec

\* The header of a change that was made; its dependencies were made, too.
LEMMA MadeFacts ==
    ASSUME GraphInv, NEW h \in Made
    PROVE  changes[h] \in Change /\ changes[h].deps \subseteq Made
BY MadeIsClosed DEF GraphInv, HistoryInv, TypeOK

\* A history is a closed set of changes.
LEMMA HistoryIsClosed ==
    ASSUME GraphInv, NEW d \in Doc
    PROVE  History(d) \subseteq Made /\ Closed(History(d))
BY HistoryHasType, TopologicalIsClosed DEF GraphInv, HistoryInv, Closed

\* AncestorsOf(H) is what its comment says, the least closed set of changes around H.
LEMMA AncestorsFacts ==
    ASSUME GraphInv, NEW H \in SUBSET Made
    PROVE  /\ H \subseteq AncestorsOf(H)
           /\ AncestorsOf(H) \subseteq Made
           /\ Closed(AncestorsOf(H))
           /\ \A C \in SUBSET Made : H \subseteq C /\ Closed(C) => AncestorsOf(H) \subseteq C
<1>1. ASSUME NEW a \in AncestorsOf(H), NEW g \in changes[a].deps
      PROVE  g \in AncestorsOf(H)
  <2> SUFFICES ASSUME NEW C \in SUBSET Made, H \subseteq C, Closed(C)
               PROVE  g \in Made /\ g \in C
    <3>1. a \in Made
      BY DEF AncestorsOf
    <3> QED
      BY <3>1, MadeFacts DEF AncestorsOf
  <2>1. a \in Made /\ a \in C
    BY DEF AncestorsOf
  <2> QED
    BY <2>1, MadeFacts DEF Closed
<1>2. Closed(AncestorsOf(H))
  BY <1>1 DEF Closed
<1> QED
  BY <1>2 DEF AncestorsOf
-----------------------------------------------------------------------------
(* Depth-first search *)

\* What a search has found and what is on its stack: all of it is below the hashes it
\* started from, and whatever is below them is found, on the stack or known.
SearchInv(w, hashes, known) ==
    /\ w \in Walk
    /\ IsInjective(w.found)
    /\ Range(w.stack) \cup Range(w.found) \subseteq AncestorsOf(hashes)
    /\ Range(w.found) \cap known = {}
    /\ hashes \subseteq Range(w.stack) \cup Range(w.found) \cup known
    /\ \A h \in Range(w.found) : changes[h].deps \subseteq Range(w.stack) \cup Range(w.found) \cup known

\* A search starts with the hashes on its stack.
LEMMA SearchStarts ==
    ASSUME GraphInv, HashAssumption, NEW hashes \in SUBSET Made, NEW known
    PROVE  /\ SearchInv([stack |-> Sorted(hashes), found |-> <<>>], hashes, known)
           /\ Len(Sorted(hashes)) = Cardinality(hashes)
<1>1. hashes \subseteq Nat /\ IsFiniteSet(hashes)
  BY FS_Subset DEF GraphInv, HistoryInv, TypeOK, HashAssumption
<1>2. /\ Sorted(hashes) \in Seq(Made)
      /\ Len(Sorted(hashes)) = Cardinality(hashes)
      /\ Range(Sorted(hashes)) = hashes
  BY <1>1, SortedFacts, SeqMonotonic
<1>3. <<>> \in Seq(Made) /\ Range(<<>>) = {} /\ IsInjective(<<>>)
  BY EmptySeq DEF Range, IsInjective
<1> DEFINE w == [stack |-> Sorted(hashes), found |-> <<>>]
<1>4. w \in Walk /\ w.stack = Sorted(hashes) /\ w.found = <<>>
  BY <1>2, <1>3 DEF Walk
<1> HIDE DEF w
<1>5. SearchInv(w, hashes, known)
  BY <1>2, <1>3, <1>4, AncestorsFacts DEF SearchInv
<1> QED
  BY <1>2, <1>5 DEF w

\* A turn keeps this; it takes a hash off the stack, and for each change it finds it
\* pushes no more hashes than there are changes.
LEMMA SearchTurns ==
    ASSUME GraphInv, HashAssumption, NEW hashes \in SUBSET Made, NEW known, NEW w,
           SearchInv(w, hashes, known), w.stack # <<>>
    PROVE  /\ SearchInv(Turn(w, known), hashes, known)
           /\ \/ /\ Len(Turn(w, known).found) = Len(w.found)
                 /\ Len(Turn(w, known).stack) = Len(w.stack) - 1
              \/ /\ Len(Turn(w, known).found) = Len(w.found) + 1
                 /\ Len(Turn(w, known).stack) <= Len(w.stack) - 1 + Cardinality(Made)
<1> DEFINE h == Last(w.stack)
           rest == Front(w.stack)
           more == Sorted(changes[h].deps)
<1>1. w.stack \in Seq(Made) /\ w.found \in Seq(Made) /\ w = [stack |-> w.stack, found |-> w.found]
  BY DEF SearchInv, Walk
<1>2. /\ h \in Made /\ rest \in Seq(Made)
      /\ Len(rest) = Len(w.stack) - 1 /\ Len(w.stack) \in Nat \ {0}
      /\ Range(w.stack) = Range(rest) \cup {h}
  BY <1>1, PopFacts
<1>3. changes[h].deps \in SUBSET Made /\ changes[h].deps \subseteq Nat /\ IsFiniteSet(changes[h].deps)
  BY <1>2, MadeFacts, FS_Subset DEF GraphInv, HistoryInv, TypeOK, HashAssumption
<1>4. /\ more \in Seq(Made)
      /\ Len(more) \in Nat
      /\ Len(more) <= Cardinality(Made)
      /\ Range(more) = changes[h].deps
  <2>1. /\ more \in Seq(changes[h].deps)
        /\ Len(more) = Cardinality(changes[h].deps)
        /\ Range(more) = changes[h].deps
    BY <1>3, SortedFacts
  <2>2. Cardinality(changes[h].deps) <= Cardinality(Made) /\ Cardinality(changes[h].deps) \in Nat
    BY <1>3, FS_Subset, FS_CardinalityType DEF GraphInv
  <2> QED
    BY <1>3, <2>1, <2>2, SeqMonotonic
<1>5. h \in AncestorsOf(hashes) /\ changes[h].deps \subseteq AncestorsOf(hashes)
  BY <1>2, AncestorsFacts DEF SearchInv, Closed
<1> HIDE DEF h, rest, more
<1>6. CASE h \in Range(w.found) \cup known
  <2> DEFINE v == [stack |-> rest, found |-> w.found]
  <2>1. Turn(w, known) = v
    BY <1>6 DEF Turn, h, rest
  <2>2. v \in Walk /\ v.stack = rest /\ v.found = w.found
    BY <1>1, <1>2 DEF Walk
  <2> HIDE DEF v
  <2>3. SearchInv(v, hashes, known)
    BY <1>2, <1>6, <2>2 DEF SearchInv
  <2> QED
    BY <1>2, <2>1, <2>2, <2>3
<1>7. CASE h \notin Range(w.found) \cup known
  <2> DEFINE v == [stack |-> rest \o more, found |-> Append(w.found, h)]
  <2>1. Turn(w, known) = v
    BY <1>7 DEF Turn, h, rest, more
  <2>2. /\ rest \o more \in Seq(Made)
        /\ Len(rest \o more) = Len(rest) + Len(more)
        /\ Range(rest \o more) = Range(rest) \cup changes[h].deps
    BY <1>2, <1>4, PushFacts
  <2>3. /\ Append(w.found, h) \in Seq(Made)
        /\ Len(Append(w.found, h)) = Len(w.found) + 1
        /\ Range(Append(w.found, h)) = Range(w.found) \cup {h}
        /\ IsInjective(Append(w.found, h))
    BY <1>1, <1>2, <1>7, NoteFacts DEF SearchInv
  <2>4. v \in Walk /\ v.stack = rest \o more /\ v.found = Append(w.found, h)
    BY <2>2, <2>3 DEF Walk
  <2> HIDE DEF v
  <2>5. Range(v.stack) = Range(rest) \cup changes[h].deps /\ Range(v.found) = Range(w.found) \cup {h}
    BY <2>2, <2>3, <2>4
  <2>6. SearchInv(v, hashes, known)
    BY <1>2, <1>5, <1>7, <2>3, <2>4, <2>5 DEF SearchInv
  <2>7. Len(v.found) = Len(w.found) + 1 /\ Len(v.stack) = Len(w.stack) - 1 + Len(more)
    BY <1>2, <2>2, <2>3, <2>4
  <2>8. Len(v.stack) <= Len(w.stack) - 1 + Cardinality(Made)
    BY <1>2, <1>4, <2>7, FS_CardinalityType DEF GraphInv
  <2> QED
    BY <2>1, <2>6, <2>7, <2>8
<1> QED
  BY <1>6, <1>7

\* The state of a search, whatever it is, has a next one.
LEMMA TurnHasType ==
    ASSUME GraphInv, HashAssumption, NEW w \in Walk, NEW known
    PROVE  Turn(w, known) \in Walk
<1>1. w.stack \in Seq(Made) /\ w.found \in Seq(Made)
  BY DEF Walk
<1>2. CASE w.stack = <<>>
  BY <1>2 DEF Turn
<1>3. CASE w.stack # <<>>
  <2> DEFINE h == Last(w.stack)
             rest == Front(w.stack)
  <2>1. h \in Made /\ rest \in Seq(Made)
    BY <1>1, <1>3, PopFacts
  <2>2. Sorted(changes[h].deps) \in Seq(Made)
    <3>1. /\ changes[h].deps \in SUBSET Made /\ changes[h].deps \subseteq Nat
          /\ IsFiniteSet(changes[h].deps)
      BY <2>1, MadeFacts, FS_Subset DEF GraphInv, HistoryInv, TypeOK, HashAssumption
    <3> QED
      BY <3>1, SortedFacts, SeqMonotonic
  <2>3. rest \o Sorted(changes[h].deps) \in Seq(Made) /\ Append(w.found, h) \in Seq(Made)
    BY <1>1, <2>1, <2>2, PushFacts, AppendProperties
  <2>4. \/ Turn(w, known) = [stack |-> rest, found |-> w.found]
        \/ Turn(w, known) = [stack |-> rest \o Sorted(changes[h].deps),
                             found |-> Append(w.found, h)]
    BY <1>3 DEF Turn
  <2> HIDE DEF h, rest
  <2>5. CASE Turn(w, known) = [stack |-> rest, found |-> w.found]
    BY <1>1, <2>1, <2>5 DEF Walk
  <2>6. CASE Turn(w, known) = [stack |-> rest \o Sorted(changes[h].deps),
                               found |-> Append(w.found, h)]
    BY <2>3, <2>6 DEF Walk
  <2> QED
    BY <2>4, <2>5, <2>6
<1> QED
  BY <1>2, <1>3

\* A sequence without repetitions is no longer than the set it is drawn from.
LEMMA InjectiveIsShort ==
    ASSUME NEW S, IsFiniteSet(S), NEW s \in Seq(S), IsInjective(s)
    PROVE  Len(s) <= Cardinality(S)
<1>1. Len(s) \in Nat /\ s \in [1..Len(s) -> S]
  BY LenProperties
<1>2. s \in Injection(1..Len(s), S)
  BY <1>1 DEF IsInjective, Injection
<1>3. IsFiniteSet(1..Len(s)) /\ Cardinality(1..Len(s)) = Len(s)
  <2>1. 1 \in Int /\ Len(s) \in Int
    BY <1>1
  <2>2. /\ IsFiniteSet(1..Len(s))
        /\ Cardinality(1..Len(s)) = IF 1 > Len(s) THEN 0 ELSE Len(s) - 1 + 1
    BY <2>1, FS_Interval
  <2> QED
    BY <1>1, <2>2
<1> QED
  BY <1>2, <1>3, FS_Injection

\* Multiplication by one more.
LEMMA OneMore ==
    ASSUME NEW m \in Nat, NEW n \in Nat
    PROVE  m * n \in Nat /\ m * (n + 1) = m * n + m
OBVIOUS

\* Multiplication by more is more.
LEMMA ProductGrows ==
    ASSUME NEW m \in Nat, NEW k \in Nat, NEW n \in Nat, k <= n
    PROVE  m * k <= m * n
OBVIOUS

\* The turns a search takes: s hashes on the stack and f found after n turns, s2 and f2
\* one turn later, when N is the number of changes and K of hashes it started from.
LEMMA TurnCount ==
    ASSUME NEW N \in Nat, NEW K \in Nat, NEW n \in Nat, NEW s \in Nat, NEW f \in Nat,
           NEW s2 \in Nat, NEW f2 \in Nat, s + n <= K + N * f,
           (f2 = f /\ s2 = s - 1) \/ (f2 = f + 1 /\ s2 <= s - 1 + N)
    PROVE  s2 + (n + 1) <= K + N * f2
<1> DEFINE p == N * f
           q == N * f2
<1>1. p \in Nat /\ N * (f + 1) = p + N
  BY OneMore
<1>2. CASE f2 = f /\ s2 = s - 1
  <2>1. q = p /\ s + n <= K + p
    BY <1>2
  <2> HIDE DEF p, q
  <2>2. s2 + (n + 1) <= K + q
    BY <1>1, <1>2, <2>1
  <2> QED
    BY <2>2 DEF q
<1>3. CASE f2 = f + 1 /\ s2 <= s - 1 + N
  <2>1. q = p + N /\ s + n <= K + p
    BY <1>1, <1>3
  <2>2. p \in Nat
    BY <1>1
  <2> HIDE DEF p, q
  <2>3. s2 + (n + 1) <= K + q
    BY <1>3, <2>1, <2>2
  <2> QED
    BY <2>3 DEF q
<1> QED
  BY <1>2, <1>3

\* A search has turns enough: after the last of them its stack is empty.
LEMMA TurnsSuffice ==
    ASSUME NEW N \in Nat, NEW K \in Nat, NEW s \in Nat, NEW f \in Nat, K <= N, f <= N,
           s + N * (N + 1) <= K + N * f
    PROVE  s = 0
<1> DEFINE p == N * f
           q == N * N
           r == N * (N + 1)
<1>1. q \in Nat /\ p \in Nat /\ r = q + N
  BY OneMore
<1>2. p <= q /\ s + r <= K + p
  BY ProductGrows
<1> HIDE DEF p, q, r
<1> QED
  BY <1>1, <1>2

\* A search ends: with the turns it is given it empties its stack.  It finds every
\* change below the hashes it started from, each once, but for those below what is
\* known, whatever the order in which the hashes of a vector come.
LEMMA DepthFirstFacts ==
    ASSUME GraphInv, HashAssumption, NEW hashes \in SUBSET Made, NEW known \in SUBSET Made,
           Closed(known)
    PROVE  /\ DepthFirst(hashes, known) \in Seq(Made)
           /\ IsInjective(DepthFirst(hashes, known))
           /\ Range(DepthFirst(hashes, known)) = AncestorsOf(hashes) \ known
<1> DEFINE turn == [w \in Walk |-> Turn(w, known)]
           start == [stack |-> Sorted(hashes), found |-> <<>>]
           state == Iterate(turn, start)
           N == Cardinality(Made)
           K == Cardinality(hashes)
<1>1. N \in Nat /\ K \in Nat /\ K <= N /\ IsFiniteSet(Made)
  BY FS_Subset, FS_CardinalityType DEF GraphInv
<1>2. SearchInv(start, hashes, known) /\ Len(start.stack) = K /\ Len(start.found) = 0
  BY SearchStarts
<1>3. start \in Walk
  BY <1>2 DEF SearchInv
<1>4. turn \in [Walk -> Walk]
  BY TurnHasType
<1>5. /\ state \in [Nat -> Walk]
      /\ state[0] = start
      /\ \A n \in Nat : state[n + 1] = turn[state[n]]
  <2> HIDE DEF turn, start
  <2>1. start \in Walk /\ turn \in [Walk -> Walk]
    BY <1>3, <1>4
  <2> QED
    BY <2>1, IterateFacts, SMTT(30)
<1>6. \A n \in Nat : state[n + 1] = Turn(state[n], known)
  <2> HIDE DEF state
  <2> QED
    BY <1>5
<1>7. DepthFirst(hashes, known) = state[N * (N + 1)].found
  BY DEF DepthFirst, MaxTurns
<1> HIDE DEF turn, start, state, N, K
<1> DEFINE InTime(n) ==
             \/ state[n].stack = <<>>
             \/ Len(state[n].stack) + n <= K + N * Len(state[n].found)
           I == {n \in Nat : SearchInv(state[n], hashes, known) /\ InTime(n)}
<1>8. 0 \in I
  <2>1. Len(state[0].stack) + 0 <= K + N * Len(state[0].found)
    BY <1>1, <1>2, <1>5
  <2> QED
    BY <1>2, <1>5, <2>1
<1>9. ASSUME NEW n \in Nat, n \in I
      PROVE  n + 1 \in I
  <2> DEFINE w == state[n]
             v == state[n + 1]
  <2>1. v = Turn(w, known)
    BY <1>6
  <2>2. CASE w.stack = <<>>
    BY <1>9, <2>1, <2>2 DEF Turn
  <2>3. CASE w.stack # <<>>
    <3>1. SearchInv(w, hashes, known) /\ Len(w.stack) + n <= K + N * Len(w.found)
      BY <1>9, <2>3
    <3> HIDE DEF w
    <3>2. /\ SearchInv(Turn(w, known), hashes, known)
          /\ \/ /\ Len(Turn(w, known).found) = Len(w.found)
                /\ Len(Turn(w, known).stack) = Len(w.stack) - 1
             \/ /\ Len(Turn(w, known).found) = Len(w.found) + 1
                /\ Len(Turn(w, known).stack) <= Len(w.stack) - 1 + Cardinality(Made)
      BY <2>3, <3>1, SearchTurns
    <3> HIDE DEF v
    <3>3. /\ SearchInv(v, hashes, known)
          /\ \/ Len(v.found) = Len(w.found) /\ Len(v.stack) = Len(w.stack) - 1
             \/ Len(v.found) = Len(w.found) + 1 /\ Len(v.stack) <= Len(w.stack) - 1 + N
      BY <2>1, <3>2 DEF N
    <3>4. /\ Len(w.stack) \in Nat /\ Len(w.found) \in Nat
          /\ Len(v.stack) \in Nat /\ Len(v.found) \in Nat
      BY <3>1, <3>3, LenProperties DEF SearchInv, Walk
    <3>5. Len(v.stack) + (n + 1) <= K + N * Len(v.found)
      BY <1>1, <3>1, <3>3, <3>4, TurnCount
    <3> QED
      BY <3>3, <3>5 DEF v
  <2> QED
    BY <2>2, <2>3
<1> HIDE DEF I
<1>10. \A n \in Nat : n \in I
  BY <1>8, <1>9, NatInduct
<1> DEFINE T == N * (N + 1)
           w == state[T]
<1>11. T \in Nat /\ T = N * N + N
  BY <1>1, OneMore
<1>12. SearchInv(w, hashes, known) /\ InTime(T)
  BY <1>10, <1>11 DEF I
<1> HIDE DEF T
<1>13. w.stack = <<>>
  <2> SUFFICES ASSUME w.stack # <<>>
               PROVE  FALSE
    OBVIOUS
  <2>1. Len(w.stack) + N * (N + 1) <= K + N * Len(w.found)
    BY <1>12 DEF T
  <2>2. w.stack \in Seq(Made) /\ w.found \in Seq(Made) /\ IsInjective(w.found)
    BY <1>12 DEF SearchInv, Walk
  <2> HIDE DEF w
  <2>3. Len(w.found) <= N /\ Len(w.found) \in Nat /\ Len(w.stack) \in Nat
    BY <1>1, <2>2, InjectiveIsShort, LenProperties DEF N
  <2>4. Len(w.stack) = 0
    BY <1>1, <2>1, <2>3, TurnsSuffice
  <2> QED
    BY <2>2, <2>4, EmptySeq
<1>14. DepthFirst(hashes, known) = w.found
  BY <1>7 DEF T
<1> HIDE DEF w
<1>15. Range(w.stack) = {}
  BY <1>13 DEF Range
<1>16. AncestorsOf(hashes) \subseteq Range(w.found) \cup known
  <2> DEFINE C == Range(w.found) \cup known
  <2>1. Range(w.found) \subseteq Made
    BY <1>12, RangeOfSeq DEF SearchInv, Walk
  <2>2. hashes \subseteq C
    BY <1>12, <1>15 DEF SearchInv
  <2>3. Closed(C)
    BY <1>12, <1>15 DEF SearchInv, Closed
  <2>4. C \in SUBSET Made
    BY <2>1
  <2> QED
    BY <2>2, <2>3, <2>4, AncestorsFacts
<1>17. Range(w.found) \subseteq AncestorsOf(hashes) \ known
  BY <1>12 DEF SearchInv
<1>18. w.found \in Seq(Made) /\ IsInjective(w.found)
  BY <1>12 DEF SearchInv, Walk
<1> QED
  BY <1>14, <1>16, <1>17, <1>18
-----------------------------------------------------------------------------
(* remove_ancestors and filter_changes *)

\* The search from the heads a document knows finds exactly their ancestors.
LEMMA TraverseFacts ==
    ASSUME GraphInv, HashAssumption, NEW d \in Doc, NEW H \in SUBSET Made
    PROVE  /\ TraverseAncestors(d, H) \in Seq(Made)
           /\ IsInjective(TraverseAncestors(d, H))
           /\ Range(TraverseAncestors(d, H)) = AncestorsOf(H \cap History(d))
<1>1. {h \in H : InHistory(d, h)} = H \cap History(d)
  BY DEF InHistory
<1>2. Closed({}) /\ {} \in SUBSET Made /\ H \cap History(d) \in SUBSET Made
  BY DEF Closed
<1>3. TraverseAncestors(d, H) = DepthFirst(H \cap History(d), {})
  BY <1>1 DEF TraverseAncestors
<1>4. /\ DepthFirst(H \cap History(d), {}) \in Seq(Made)
      /\ IsInjective(DepthFirst(H \cap History(d), {}))
      /\ Range(DepthFirst(H \cap History(d), {})) = AncestorsOf(H \cap History(d)) \ {}
  BY <1>2, DepthFirstFacts
<1> QED
  BY <1>3, <1>4

\* filter_changes leaves the hashes that are not below the heads a peer named, whether
\* or not the document knows all of these heads.
THEOREM FilterChangesIsExact == Spec => []FilterChangesExact
<1>1. GraphInv => FilterChangesExact
  <2> SUFFICES ASSUME GraphInv, NEW d \in Answering, NEW H \in SUBSET Made
               PROVE  FilterChanges(d, H, Made) = Made \ AncestorsOf(H \cap History(d))
    BY DEF FilterChangesExact
  <2>1. d \in Doc
    BY DEF Answering, GraphInv, HistoryInv, TypeOK
  <2> QED
    BY <2>1, HashAssumption, TraverseFacts DEF FilterChanges
<1> QED
  BY <1>1, GraphInvariant, PTL
-----------------------------------------------------------------------------
(* get_changes_added *)

\* Everything in a history is below one of its heads.
LEMMA HistoryIsBelowHeads ==
    ASSUME GraphInv, NEW d \in Doc
    PROVE  deps[d] \in SUBSET Made /\ AncestorsOf(deps[d]) = History(d)
<1> DEFINE A == AncestorsOf(deps[d])
           n == Len(histroy[d])
<1>1. deps[d] \subseteq History(d) /\ History(d) \in SUBSET Made /\ Closed(History(d))
  BY HistoryIsClosed DEF GraphInv, HistoryInv, HeadsExact
<1>2. A \subseteq History(d) /\ Closed(A) /\ deps[d] \subseteq A
  BY <1>1, AncestorsFacts
<1>3. n \in Nat /\ DOMAIN histroy[d] = 1..n
  BY HistoryHasType DEF GraphInv, HistoryInv
<1> DEFINE Outside == {i \in 1..n : histroy[d][i] \notin A}
           I == {n - i : i \in Outside}
<1>4. ASSUME Outside # {}
      PROVE  FALSE
  <2>1. I \subseteq Nat /\ I # {}
    <3>1. \A i \in Outside : n - i \in Nat /\ n - i \in I
      BY <1>3
    <3> HIDE DEF Outside
    <3> QED
      BY <1>4, <3>1
  <2> HIDE DEF I
  <2>2. PICK k \in I : \A j \in I : k <= j
    BY <2>1, LeastNat
  <2>3. PICK i \in Outside : k = n - i
    BY <2>2 DEF I
  <2>4. \A j \in Outside : j <= i
    <3> SUFFICES ASSUME NEW j \in Outside
                 PROVE  j <= i
      OBVIOUS
    <3>1. n - j \in I
      BY DEF I
    <3>2. n - i <= n - j
      BY <2>2, <2>3, <3>1
    <3> QED
      BY <1>3, <3>2
  <2> DEFINE h == histroy[d][i]
  <2>5. h \in History(d) /\ h \notin A
    BY <1>3 DEF History, Range
  <2>6. h \notin deps[d]
    BY <1>2, <2>5
  <2>7. PICK g \in History(d) : h \in changes[g].deps
    BY <2>5, <2>6 DEF GraphInv, HistoryInv, HeadsExact
  <2>8. PICK j \in 1..n : histroy[d][j] = g
    BY <1>3 DEF History, Range
  <2>9. PICK m \in 1..(j - 1) : histroy[d][m] = h
    <3>1. changes[histroy[d][j]].deps \subseteq {histroy[d][l] : l \in 1..(j - 1)}
      BY <1>3 DEF GraphInv, HistoryInv, HistoryTopological
    <3> HIDE DEF h
    <3> QED
      BY <2>7, <2>8, <3>1
  <2>10. i = m
    <3>1. CASE i < m
      <4>1. histroy[d][m] \notin {histroy[d][l] : l \in 1..(m - 1)} /\ i \in 1..(m - 1)
        BY <1>3, <2>9, <3>1 DEF GraphInv, HistoryInv, HistoryTopological
      <4> QED
        BY <2>9, <4>1
    <3>2. CASE m < i
      <4>1. histroy[d][i] \notin {histroy[d][l] : l \in 1..(i - 1)} /\ m \in 1..(i - 1)
        BY <1>3, <2>9, <3>2 DEF GraphInv, HistoryInv, HistoryTopological
      <4> QED
        BY <2>9, <4>1
    <3> QED
      BY <3>1, <3>2
  <2>11. j \notin Outside
    BY <2>4, <2>9, <2>10
  <2>12. g \in A
    BY <2>8, <2>11
  <2> QED
    BY <1>2, <2>5, <2>7, <2>12 DEF Closed
<1>5. History(d) \subseteq A
  BY <1>3, <1>4 DEF History, Range
<1> QED
  BY <1>1, <1>2, <1>5

\* The reverse of a sequence has the same elements.
LEMMA ReverseFacts ==
    ASSUME NEW S, NEW s \in Seq(S), IsInjective(s)
    PROVE  Range(Reverse(s)) = Range(s) /\ IsInjective(Reverse(s))
<1> DEFINE n == Len(s)
           r == Reverse(s)
<1>1. n \in Nat /\ DOMAIN s = 1..n
  BY LenProperties
<1>2. r = [i \in 1..n |-> s[(n - i) + 1]]
  BY DEF Reverse
<1> HIDE DEF r, n
<1>3. DOMAIN r = 1..n /\ \A i \in 1..n : r[i] = s[(n - i) + 1] /\ (n - i) + 1 \in 1..n
  BY <1>1, <1>2
<1>4. \A i \in 1..n : \E j \in 1..n : i = (n - j) + 1
  <2> SUFFICES ASSUME NEW i \in 1..n
               PROVE  (n - i) + 1 \in 1..n /\ i = (n - ((n - i) + 1)) + 1
    BY Zenon
  <2> QED
    BY <1>1
<1>5. Range(r) = Range(s)
  BY <1>1, <1>3, <1>4 DEF Range
<1>6. ASSUME NEW i \in 1..n, NEW j \in 1..n, r[i] = r[j]
      PROVE  i = j
  <2>1. (n - i) + 1 = (n - j) + 1
    BY <1>1, <1>3, <1>6 DEF IsInjective
  <2> QED
    BY <1>1, <2>1
<1> QED
  BY <1>3, <1>5, <1>6 DEF IsInjective, r

\* merge asks the other document for exactly what this one lacks, each change once,
\* although the search stops at the first change it knows on every path.
THEOREM GetChangesAddedIsExact == Spec => []GetChangesAddedExact
<1>1. GraphInv => GetChangesAddedExact
  <2> SUFFICES ASSUME GraphInv, NEW d \in Answering, NEW o \in Answering
               PROVE  /\ Range(GetChangesAdded(d, o)) = ChangesAdded(d, o)
                      /\ IsInjective(GetChangesAdded(d, o))
    BY DEF GetChangesAddedExact
  <2> DEFINE found == DepthFirst(deps[o], History(d))
  <2>1. d \in Doc /\ o \in Doc
    BY DEF Answering, GraphInv, HistoryInv, TypeOK
  <2>2. History(d) \in SUBSET Made /\ Closed(History(d))
    BY <2>1, HistoryIsClosed
  <2>3. deps[o] \in SUBSET Made /\ AncestorsOf(deps[o]) = History(o)
    BY <2>1, HistoryIsBelowHeads
  <2>4. /\ found \in Seq(Made) /\ IsInjective(found)
        /\ Range(found) = History(o) \ History(d)
    BY <2>2, <2>3, HashAssumption, DepthFirstFacts
  <2> HIDE DEF found
  <2>5. Range(Reverse(found)) = Range(found) /\ IsInjective(Reverse(found))
    BY <2>4, ReverseFacts
  <2> QED
    BY <2>4, <2>5 DEF found, GetChangesAdded, ChangesAdded
<1> QED
  BY <1>1, GraphInvariant, PTL
-----------------------------------------------------------------------------
(* get_missing_deps *)

\* A set of changes that were made has one that depends on no other of them.
LEMMA DependencyMinimal ==
    ASSUME GraphInv, NEW W \in SUBSET Made, W # {}
    PROVE  \E h \in W : changes[h].deps \cap W = {}
<1>1. PICK d \in Doc : W \cap History(d) # {}
  BY DEF GraphInv, MadeIsHeld
<1>2. Len(histroy[d]) \in Nat /\ DOMAIN histroy[d] = 1..Len(histroy[d])
  BY HistoryHasType DEF GraphInv, HistoryInv
<1> DEFINE I == {i \in 1..Len(histroy[d]) : histroy[d][i] \in W}
<1>3. I \subseteq Nat /\ I # {}
  BY <1>1, <1>2 DEF History, Range
<1>4. PICK i \in I : \A j \in I : i <= j
  BY <1>3, LeastNat
<1>5. changes[histroy[d][i]].deps \subseteq {histroy[d][j] : j \in 1..(i - 1)}
  BY <1>2 DEF GraphInv, HistoryInv, HistoryTopological
<1>6. \A j \in 1..(i - 1) : histroy[d][j] \notin W
  BY <1>2, <1>4
<1> QED
  BY <1>5, <1>6

\* get_missing_deps asks for no change the document holds, and only for what the
\* heads or the queue depend on.  If the document lacks part of that it asks for
\* something: were the history and the queue together closed, the first change of
\* what is lacking would be in the queue and ready, and the queue would not be blocked.
LEMMA MissingDepsFacts ==
    ASSUME GraphInv, QueueBlocked, NEW d \in Answering, NEW heads \in SUBSET Made
    PROVE  LET wanted == AncestorsOf(heads \cup Range(queue[d])) \ History(d)
           IN  /\ GetMissingDeps(d, heads) \subseteq wanted \ Range(queue[d])
               /\ wanted # {} => GetMissingDeps(d, heads) # {}
<1> DEFINE Q == Range(queue[d])
           A == AncestorsOf(heads \cup Q)
           wanted == A \ History(d)
           C == History(d) \cup Q
<1>1. d \in Doc /\ call[d] = Idle
  BY DEF Answering, GraphInv, HistoryInv, TypeOK
<1>2. /\ Q \in SUBSET Made /\ DOMAIN queue[d] = 1..Len(queue[d])
      /\ heads \cup Q \in SUBSET Made
  BY <1>1, QueueHasType DEF GraphInv, HistoryInv
<1>3. heads \cup Q \subseteq A /\ A \subseteq Made /\ Closed(A)
  BY <1>2, AncestorsFacts
<1>4. GetMissingDeps(d, heads) = ((heads \cup UNION {changes[q].deps : q \in Q}) \ History(d)) \ Q
  BY DEF GetMissingDeps
<1> HIDE DEF Q, A
<1>5. GetMissingDeps(d, heads) \subseteq wanted \ Q
  BY <1>3, <1>4 DEF Closed
<1>6. ASSUME wanted # {}, GetMissingDeps(d, heads) = {}
      PROVE  FALSE
  <2>1. heads \subseteq C /\ \A q \in Q : changes[q].deps \subseteq C
    BY <1>4, <1>6
  <2>2. History(d) \subseteq Made /\ Closed(History(d))
    BY <1>1, HistoryIsClosed
  <2>3. C \in SUBSET Made /\ Closed(C)
    BY <1>2, <2>1, <2>2 DEF Closed
  <2>4. A \subseteq C
    BY <1>2, <2>1, <2>3, AncestorsFacts DEF A
  <2>5. wanted \in SUBSET Made /\ wanted \subseteq Q
    BY <1>3, <2>4
  <2>6. PICK h \in wanted : changes[h].deps \cap wanted = {}
    BY <1>6, <2>5, DependencyMinimal
  <2>7. changes[h].deps \subseteq History(d)
    BY <1>3, <2>6 DEF Closed
  <2>8. PICK i \in DOMAIN queue[d] : queue[d][i] = h
    BY <2>5 DEF Q, Range
  <2>9. i \in ReadyAt(d)
    BY <2>7, <2>8 DEF ReadyAt, Ready
  <2> QED
    BY <1>1, <2>9 DEF QueueBlocked
<1> QED
  BY <1>5, <1>6 DEF Q, A

\* A document that asks its peers for what get_missing_deps returns is never left with
\* nothing to ask, unless it has everything the heads it was told of depend on.
THEOREM MissingDepsProgress == Spec => [](Disciplined => MissingDepsMakeProgress)
<1>1. GraphInv /\ (Disciplined => NumberingInv /\ QueueBlocked)
        => (Disciplined => MissingDepsMakeProgress)
  BY MissingDepsFacts DEF MissingDepsMakeProgress
<1> QED
  BY <1>1, GraphInvariant, QueueInvariant, PTL

-----------------------------------------------------------------------------
(* The clock of a set of heads *)

\* After some of a sequence of changes: every entry is that of a change among them, and
\* no change behind has more operations than the entry of its actor says.
FoldInv(f, order) ==
    /\ f \in Fold
    /\ Range(f.rest) \subseteq Range(order)
    /\ \A a \in Actor : f.clock[a] # NoClock =>
           \E c \in Range(order) : /\ changes[c].actor = a
                                  /\ f.clock[a].seq = changes[c].seq
                                  /\ f.clock[a].max_op = LastOp(changes[c])
    /\ \A c \in Range(order) \ Range(f.rest) :
           LastOp(changes[c]) <= f.clock[changes[c].actor].max_op

\* The counter of the last operation of a change.
LEMMA LastOpType ==
    ASSUME NEW c \in Change
    PROVE  LastOp(c) \in Nat /\ c.actor \in Actor /\ c.seq \in Nat \ {0}
BY DEF Change, LastOp

\* Including one change more.
LEMMA IncludeFacts ==
    ASSUME NEW clock \in Clock, NEW c \in Change
    PROVE  /\ Include(clock, c) \in Clock
           /\ \A a \in Actor \ {c.actor} : Include(clock, c)[a] = clock[a]
           /\ \/ Include(clock, c)[c.actor] = [max_op |-> LastOp(c), seq |-> c.seq]
              \/ /\ Include(clock, c)[c.actor] = clock[c.actor]
                 /\ clock[c.actor] # NoClock
           /\ LastOp(c) <= Include(clock, c)[c.actor].max_op
           /\ clock[c.actor].max_op <= Include(clock, c)[c.actor].max_op
<1>1. LastOp(c) \in Nat /\ c.actor \in Actor /\ c.seq \in Nat
  BY LastOpType
<1> DEFINE e == [max_op |-> LastOp(c), seq |-> c.seq]
<1>2. /\ clock \in [Actor -> [max_op : Nat, seq : Nat]]
      /\ e \in [max_op : Nat, seq : Nat] /\ e.max_op = LastOp(c)
      /\ clock[c.actor].max_op \in Nat
  BY <1>1 DEF Clock
<1> HIDE DEF e
<1>3. CASE clock[c.actor] = NoClock \/ LastOp(c) > clock[c.actor].max_op
  <2>1. Include(clock, c) = [clock EXCEPT ![c.actor] = e]
    BY <1>3 DEF Include, e
  <2>2. /\ [clock EXCEPT ![c.actor] = e] \in Clock
        /\ [clock EXCEPT ![c.actor] = e][c.actor] = e
        /\ \A a \in Actor \ {c.actor} : [clock EXCEPT ![c.actor] = e][a] = clock[a]
    BY <1>1, <1>2 DEF Clock
  <2>3. clock[c.actor].max_op <= LastOp(c)
    BY <1>1, <1>2, <1>3 DEF NoClock
  <2> QED
    BY <1>1, <1>2, <2>1, <2>2, <2>3 DEF e
<1>4. CASE ~(clock[c.actor] = NoClock \/ LastOp(c) > clock[c.actor].max_op)
  <2>1. Include(clock, c) = clock
    BY <1>4 DEF Include
  <2> QED
    BY <1>1, <1>2, <1>4, <2>1
<1> QED
  BY <1>3, <1>4

\* The fold over a sequence goes on, whatever its state, and keeps FoldInv.
LEMMA IncludeNextHasType ==
    ASSUME GraphInv, NEW f \in Fold
    PROVE  IncludeNext(f) \in Fold
<1>1. f.rest \in Seq(Made) /\ f.clock \in Clock
  BY DEF Fold
<1>2. CASE f.rest # <<>>
  <2>1. Head(f.rest) \in Made /\ Tail(f.rest) \in Seq(Made)
    BY <1>1, <1>2, TailFacts
  <2>2. Include(f.clock, changes[Head(f.rest)]) \in Clock
    BY <1>1, <2>1, MadeFacts, IncludeFacts
  <2>3. IncludeNext(f) = [rest |-> Tail(f.rest), clock |-> Include(f.clock, changes[Head(f.rest)])]
    BY <1>2 DEF IncludeNext
  <2> QED
    BY <2>1, <2>2, <2>3 DEF Fold
<1> QED
  BY <1>2 DEF IncludeNext

\* A turn of the loop that fills the clock keeps what it relies on, and takes one change.
LEMMA FoldKeeps ==
    ASSUME GraphInv, NEW order \in Seq(Made), NEW f, FoldInv(f, order)
    PROVE  /\ FoldInv(IncludeNext(f), order)
           /\ f.rest # <<>> => Len(IncludeNext(f).rest) = Len(f.rest) - 1
<1>1. f \in Fold /\ f.rest \in Seq(Made) /\ f.clock \in Clock
  BY DEF FoldInv, Fold
<1>2. CASE f.rest = <<>>
  BY <1>2 DEF IncludeNext
<1>3. CASE f.rest # <<>>
  <2> DEFINE h == Head(f.rest)
             c == changes[h]
             v == IncludeNext(f)
  <2>1. /\ h \in Made /\ Tail(f.rest) \in Seq(Made)
        /\ Range(f.rest) = Range(Tail(f.rest)) \cup {h}
        /\ Len(Tail(f.rest)) = Len(f.rest) - 1
    BY <1>1, <1>3, TailFacts
  <2>2. c \in Change
    BY <2>1, MadeFacts
  <2>3. v = [rest |-> Tail(f.rest), clock |-> Include(f.clock, c)]
    BY <1>3 DEF IncludeNext
  <2>4. v.rest = Tail(f.rest) /\ v.clock = Include(f.clock, c)
    BY <2>3
  <2>5. v \in Fold
    BY <1>1, IncludeNextHasType
  <2>6. /\ \A a \in Actor \ {c.actor} : v.clock[a] = f.clock[a]
        /\ \/ v.clock[c.actor] = [max_op |-> LastOp(c), seq |-> c.seq]
           \/ v.clock[c.actor] = f.clock[c.actor] /\ f.clock[c.actor] # NoClock
        /\ LastOp(c) <= v.clock[c.actor].max_op
        /\ f.clock[c.actor].max_op <= v.clock[c.actor].max_op
    BY <1>1, <2>2, <2>4, IncludeFacts
  <2>7. h \in Range(order) /\ Range(v.rest) \subseteq Range(order)
    BY <2>1, <2>4 DEF FoldInv
  <2> HIDE DEF v
  <2>8. ASSUME NEW a \in Actor, v.clock[a] # NoClock
        PROVE  \E g \in Range(order) : /\ changes[g].actor = a
                                       /\ v.clock[a].seq = changes[g].seq
                                       /\ v.clock[a].max_op = LastOp(changes[g])
    <3>1. CASE v.clock[a] = f.clock[a]
      BY <2>8, <3>1 DEF FoldInv
    <3>2. CASE a = c.actor /\ v.clock[c.actor] = [max_op |-> LastOp(c), seq |-> c.seq]
      <4>1. v.clock[a].seq = c.seq /\ v.clock[a].max_op = LastOp(c)
        BY <3>2
      <4> QED
        BY <2>7, <3>2, <4>1
    <3> QED
      BY <2>6, <3>1, <3>2
  <2>9. ASSUME NEW g \in Range(order) \ Range(v.rest)
        PROVE  LastOp(changes[g]) <= v.clock[changes[g].actor].max_op
    <3>1. CASE g = h
      BY <2>6, <3>1
    <3>2. CASE g # h
      <4>1. g \in Made
        BY RangeOfSeq
      <4>2. LastOp(changes[g]) \in Nat /\ changes[g].actor \in Actor
        BY <4>1, MadeFacts, LastOpType
      <4>3. LastOp(changes[g]) <= f.clock[changes[g].actor].max_op
        BY <2>1, <2>4, <3>2 DEF FoldInv
      <4>4. f.clock[changes[g].actor].max_op \in Nat /\ v.clock[changes[g].actor].max_op \in Nat
        BY <1>1, <2>5, <4>2 DEF Fold, Clock
      <4> QED
        BY <2>6, <4>2, <4>3, <4>4
    <3> QED
      BY <3>1, <3>2
  <2>10. FoldInv(v, order)
    BY <2>5, <2>7, <2>8, <2>9 DEF FoldInv
  <2>11. Len(v.rest) = Len(f.rest) - 1
    BY <2>1, <2>4
  <2> QED
    BY <2>10, <2>11 DEF v
<1> QED
  BY <1>2, <1>3

\* The clock of heads a document has: its entries are changes below these heads, and it
\* has the last operation of every such change.
ClockOf(clock, A) ==
    /\ clock \in Clock
    /\ \A a \in Actor : clock[a] # NoClock =>
           \E c \in A : /\ changes[c].actor = a
                       /\ clock[a].seq = changes[c].seq
                       /\ clock[a].max_op = LastOp(changes[c])
    /\ \A c \in A : LastOp(changes[c]) <= clock[changes[c].actor].max_op

\* What clock_for_heads computes is such a clock, in whatever order the search lists the changes.
LEMMA ClockFacts ==
    ASSUME GraphInv, HashAssumption, NEW d \in Doc, NEW H \in SUBSET History(d)
    PROVE  ClockOf(ClockForHeads(d, H), AncestorsOf(H))
<1> DEFINE order == TraverseAncestors(d, H)
           turn == [f \in Fold |-> IncludeNext(f)]
           start == [rest |-> order, clock |-> [a \in Actor |-> NoClock]]
           state == Iterate(turn, start)
           n == Len(order)
<1>1. order \in Seq(Made) /\ Range(order) = AncestorsOf(H)
  <2>1. H \in SUBSET Made /\ H \cap History(d) = H
    BY HistoryIsClosed
  <2> QED
    BY <2>1, TraverseFacts
<1>2. n \in Nat
  BY <1>1, LenProperties
<1>3. turn \in [Fold -> Fold]
  BY IncludeNextHasType
<1> HIDE DEF order
<1>4. start \in Fold /\ start.rest = order /\ \A a \in Actor : start.clock[a] = NoClock
  BY <1>1 DEF Fold, Clock, NoClock
<1>5. /\ state \in [Nat -> Fold]
      /\ state[0] = start
      /\ \A m \in Nat : state[m + 1] = turn[state[m]]
  <2> HIDE DEF turn, start
  <2>1. start \in Fold /\ turn \in [Fold -> Fold]
    BY <1>3, <1>4
  <2> QED
    BY <2>1, IterateFacts, SMTT(30)
<1>6. \A m \in Nat : state[m + 1] = IncludeNext(state[m])
  <2> HIDE DEF state
  <2> QED
    BY <1>5
<1>7. ClockForHeads(d, H) = state[n].clock
  BY DEF ClockForHeads, order
<1> HIDE DEF turn, start, state, n
<1> DEFINE I == {m \in Nat : /\ FoldInv(state[m], order)
                             /\ m <= n => Len(state[m].rest) = n - m}
<1>8. 0 \in I
  <2>1. FoldInv(start, order)
    BY <1>4 DEF FoldInv
  <2>2. Len(start.rest) = n - 0
    BY <1>2, <1>4 DEF n
  <2> QED
    BY <1>5, <2>1, <2>2
<1>9. ASSUME NEW m \in Nat, m \in I
      PROVE  m + 1 \in I
  <2> DEFINE f == state[m]
             v == state[m + 1]
  <2>1. v = IncludeNext(f) /\ FoldInv(f, order)
    BY <1>6, <1>9
  <2> HIDE DEF f, v
  <2>2. FoldInv(v, order) /\ (f.rest # <<>> => Len(v.rest) = Len(f.rest) - 1)
    BY <1>1, <2>1, FoldKeeps
  <2>3. ASSUME m + 1 <= n
        PROVE  Len(v.rest) = n - (m + 1)
    <3>1. Len(f.rest) = n - m /\ Len(f.rest) # 0
      BY <1>2, <1>9, <2>3 DEF f
    <3>2. f.rest # <<>>
      BY <3>1, EmptySeq
    <3> QED
      BY <1>2, <2>2, <3>1, <3>2
  <2> QED
    BY <2>2, <2>3 DEF v
<1> HIDE DEF I
<1>10. \A m \in Nat : m \in I
  BY <1>8, <1>9, NatInduct
<1> DEFINE f == state[n]
<1>11. FoldInv(f, order) /\ Len(f.rest) = 0
  BY <1>2, <1>10 DEF I
<1> HIDE DEF f
<1>12. Range(f.rest) = {}
  <2>1. f.rest \in Seq(Made)
    BY <1>11 DEF FoldInv, Fold
  <2> QED
    BY <1>11, <2>1, LenProperties DEF Range
<1>13. ClockOf(f.clock, Range(order))
  BY <1>11, <1>12 DEF ClockOf, FoldInv, Fold
<1> QED
  BY <1>1, <1>7, <1>13 DEF f
-----------------------------------------------------------------------------
(* get_changes, step by step *)

\* An actor's changes below some hashes have no gaps: with its change number n, the
\* ancestors have all the earlier ones.
LEMMA AncestorsHaveEarlier ==
    ASSUME GraphInv, Chained, NEW H \in SUBSET Made, NEW c \in AncestorsOf(H),
           NEW k \in 1..changes[c].seq
    PROVE  \E g \in AncestorsOf(H) : changes[g].actor = changes[c].actor /\ changes[g].seq = k
<1> DEFINE a == changes[c].actor
           Found(m) == \E g \in AncestorsOf(H) : changes[g].actor = a /\ changes[g].seq = m
           I == {m \in k..changes[c].seq : Found(m)}
<1>1. AncestorsOf(H) \subseteq Made /\ Closed(AncestorsOf(H))
  BY AncestorsFacts
<1>2. changes[c].seq \in Nat /\ k \in Nat /\ k >= 1 /\ k <= changes[c].seq
  BY <1>1, MadeFacts, LastOpType
<1>3. changes[c].seq \in I /\ I \subseteq Nat
  BY <1>2
<1> HIDE DEF I
<1>4. PICK m \in I : \A l \in I : m <= l
  BY <1>3, LeastNat
<1>5. PICK g \in AncestorsOf(H) : changes[g].actor = a /\ changes[g].seq = m
  BY <1>4 DEF I
<1>6. m \in k..changes[c].seq
  BY <1>4 DEF I
<1>7. CASE m = k
  BY <1>5, <1>7
<1>8. CASE m # k
  <2>1. m > 1 /\ m - 1 \in k..changes[c].seq
    BY <1>2, <1>6, <1>8
  <2>2. PICK f \in changes[g].deps : changes[f].actor = changes[g].actor /\ changes[f].seq = m - 1
    BY <1>1, <1>5, <2>1 DEF Chained, PredecessorIn
  <2>3. f \in AncestorsOf(H)
    BY <1>1, <2>2 DEF Closed
  <2>4. m - 1 \in I
    BY <1>5, <2>1, <2>2, <2>3 DEF I
  <2> QED
    BY <1>4, <1>6, <2>1, <2>4
<1> QED
  BY <1>7, <1>8

\* The list of an actor's changes finds a change of the history by its number.
LEMMA ListedAtNumber ==
    ASSUME TypeOK, StatesExact, NEW d \in Doc, NEW h \in History(d)
    PROVE  LET a == changes[h].actor
               k == changes[h].seq
           IN  k \in 1..Len(states[d][a]) /\ histroy[d][states[d][a][k]] = h
<1> DEFINE a == changes[h].actor
           k == changes[h].seq
           g == histroy[d][states[d][a][k]]
<1>1. h \in Made /\ a \in Actor
  BY HistoryHasType, LastOpType DEF TypeOK
<1>2. k \in 1..Len(states[d][a])
  BY NumberInRange
<1>3. k \in DOMAIN states[d][a]
  BY <1>1, <1>2, StatesFacts
<1>4. g \in History(d) /\ changes[g].actor = a /\ changes[g].seq = k
  <2>1. /\ states[d][a][k] \in DOMAIN histroy[d]
        /\ changes[histroy[d][states[d][a][k]]].actor = a
        /\ changes[histroy[d][states[d][a][k]]].seq = k
    BY <1>1, <1>3, EntryIsChange
  <2> QED
    BY <2>1 DEF History, Range
<1>5. g = h
  BY <1>4, NumberIdentifies
<1> QED
  BY <1>2, <1>5

\* What get_changes returns: of each actor's list, the changes after the entry of the clock.
LEMMA GetChangesFacts ==
    ASSUME GraphInv, StatesExact, HashAssumption, NEW d \in Doc, NEW H \in SUBSET History(d)
    PROVE  GetChanges(d, H) =
             {h \in History(d) : changes[h].seq > ClockForHeads(d, H)[changes[h].actor].seq}
<1> DEFINE clock == ClockForHeads(d, H)
<1>1. clock \in Clock
  BY ClockFacts DEF ClockOf
<1>2. GetChanges(d, H) =
        UNION {{histroy[d][states[d][a][k]] : k \in (clock[a].seq + 1)..Len(states[d][a])} :
               a \in Actor}
  BY DEF GetChanges
<1> HIDE DEF clock
<1>3. \A a \in Actor : clock[a].seq \in Nat
  BY <1>1 DEF Clock
<1>4. TypeOK
  BY DEF GraphInv, HistoryInv
<1>5. ASSUME NEW a \in Actor, NEW k \in (clock[a].seq + 1)..Len(states[d][a])
      PROVE  /\ histroy[d][states[d][a][k]] \in History(d)
             /\ changes[histroy[d][states[d][a][k]]].actor = a
             /\ changes[histroy[d][states[d][a][k]]].seq > clock[a].seq
  <2>1. k \in DOMAIN states[d][a] /\ k > clock[a].seq
    BY <1>3, <1>4, StatesFacts
  <2> QED
    BY <2>1, EntryIsChange DEF History, Range
<1>6. ASSUME NEW h \in History(d), changes[h].seq > clock[changes[h].actor].seq
      PROVE  \E a \in Actor : \E k \in (clock[a].seq + 1)..Len(states[d][a]) :
                h = histroy[d][states[d][a][k]]
  <2> DEFINE a == changes[h].actor
             k == changes[h].seq
  <2>1. k \in 1..Len(states[d][a]) /\ histroy[d][states[d][a][k]] = h
    BY <1>4, ListedAtNumber
  <2>2. a \in Actor
    BY <1>4, HistoryHasType, LastOpType DEF TypeOK
  <2>3. Len(states[d][a]) \in Nat
    BY <1>4, <2>2, StatesFacts
  <2>4. k \in (clock[a].seq + 1)..Len(states[d][a])
    BY <1>3, <1>6, <2>1, <2>2, <2>3
  <2> QED
    BY <2>1, <2>2, <2>4
<1> QED
  BY <1>2, <1>5, <1>6 DEF clock

\* Where every document writes under an actor id of its own, get_changes leaves out no
\* change the holder of have_deps lacks: below the entry of the clock, whichever change
\* of the actor made it, there are only ancestors of have_deps.
THEOREM GetChangesIsComplete == Spec => [](Disciplined => GetChangesComplete)
<1>1. ASSUME GraphInv, StatesExact, Chained, NEW d \in Answering, NEW H \in SUBSET History(d)
      PROVE  History(d) \ AncestorsOf(H) \subseteq GetChanges(d, H)
  <2> DEFINE clock == ClockForHeads(d, H)
             A == AncestorsOf(H)
  <2>1. d \in Doc
    BY <1>1 DEF Answering, GraphInv, HistoryInv, TypeOK
  <2>2. /\ History(d) \in SUBSET Made /\ H \in SUBSET Made /\ Closed(History(d))
        /\ A \subseteq History(d)
    BY <1>1, <2>1, HistoryIsClosed, AncestorsFacts
  <2>3. ClockOf(clock, A)
    BY <1>1, <2>1, HashAssumption, ClockFacts
  <2>4. GetChanges(d, H) = {h \in History(d) : changes[h].seq > clock[changes[h].actor].seq}
    BY <1>1, <2>1, HashAssumption, GetChangesFacts
  <2> HIDE DEF clock, A
  <2> SUFFICES ASSUME NEW h \in History(d), h \notin A, ~(changes[h].seq > clock[changes[h].actor].seq)
               PROVE  FALSE
    BY <2>4 DEF A
  <2> DEFINE a == changes[h].actor
  <2>5. a \in Actor /\ changes[h].seq \in Nat \ {0}
    BY <1>1, <2>2, MadeFacts, LastOpType
  <2>6. clock[a].seq \in Nat /\ clock[a].seq >= changes[h].seq /\ clock[a] # NoClock
    BY <2>3, <2>5 DEF ClockOf, Clock, NoClock
  <2>7. PICK c \in A : changes[c].actor = a /\ clock[a].seq = changes[c].seq
    BY <2>3, <2>5, <2>6 DEF ClockOf
  <2>8. changes[h].seq \in 1..changes[c].seq
    BY <2>5, <2>6, <2>7
  <2>9. PICK g \in A : changes[g].actor = changes[c].actor /\ changes[g].seq = changes[h].seq
    BY <1>1, <2>2, <2>8, AncestorsHaveEarlier DEF A
  <2>10. g = h
    BY <1>1, <2>1, <2>2, <2>7, <2>9, NumberIdentifies DEF GraphInv, HistoryInv
  <2> QED
    BY <2>10
<1>2. GraphInv /\ (Disciplined => NumberingInv) => (Disciplined => GetChangesComplete)
  BY <1>1 DEF GetChangesComplete, NumberingInv
<1> QED
  BY <1>2, GraphInvariant, NumberingInvariant, PTL
-----------------------------------------------------------------------------
(* get_changes returns nothing twice *)

\* An actor's operation counters follow its change numbers: a change starts above the
\* last operation of each earlier change of its actor.
OpsFollowNumbers ==
    \A g, h \in Made :
        changes[g].actor = changes[h].actor /\ changes[g].seq < changes[h].seq =>
            LastOp(changes[g]) < changes[h].start_op

\* A commit keeps this, since an open transaction knows the number and the counter it
\* was given whatever the document received in the meantime.
LEMMA CommitFollowsNumbers ==
    ASSUME Disciplined, ConstantsAssumption, NumberingInv, OpsFollowNumbers,
           NEW d \in Doc, NEW h \in Hash, Commit(d, h)
    PROVE  OpsFollowNumbers'
<1> USE DEF NumberingInv, HistoryInv
<1> DEFINE t == tx[d]
           c == changes'[h]
<1>1. t \in Transaction /\ t # NoTx
  BY DEF Commit, TypeOK
<1>2. /\ t.doc = d
      /\ t.seq = Len(states[d][ActorOf[d]]) + 1
      /\ \A g \in Made : changes[g].actor = ActorOf[d] => LastOp(changes[g]) < t.start_op
  BY <1>1 DEF TxCurrent
<1>3. /\ changes' = [x \in Made \cup {h} |->
                       IF x = h THEN [actor |-> ActorOf[t.doc], seq |-> t.seq,
                                      start_op |-> t.start_op, num_ops |-> t.pending,
                                      deps |-> t.deps]
                       ELSE changes[x]]
      /\ h \notin Made
  BY DEF Commit
<1>4. /\ c.actor = ActorOf[d] /\ c.seq = t.seq /\ c.start_op = t.start_op
      /\ Made' = Made \cup {h} /\ \A g \in Made : changes'[g] = changes[g]
  BY <1>2, <1>3 DEF Made
<1>5. ASSUME NEW g \in Made, changes[g].actor = ActorOf[d]
      PROVE  changes[g].seq \in Nat /\ t.seq \in Nat /\ changes[g].seq < t.seq
  <2>1. g \in History(d) /\ ActorOf[d] \in Actor
    BY <1>5, OwnChangesHeld DEF ConstantsAssumption
  <2>2. changes[g].seq \in 1..Len(states[d][ActorOf[d]])
    BY <1>5, <2>1, NumberInRange
  <2>3. Len(states[d][ActorOf[d]]) \in Nat
    BY <2>1, StatesFacts
  <2> QED
    BY <1>2, <2>2, <2>3
<1> HIDE DEF c, t
<1>6. ASSUME NEW f \in Made', NEW g \in Made',
             changes'[f].actor = changes'[g].actor, changes'[f].seq < changes'[g].seq
      PROVE  LastOp(changes'[f]) < changes'[g].start_op
  <2>1. CASE f \in Made /\ g \in Made
    BY <1>4, <1>6, <2>1 DEF OpsFollowNumbers
  <2>2. CASE f \in Made /\ g = h
    BY <1>2, <1>4, <1>6, <2>2 DEF c
  <2>3. CASE f = h /\ g \in Made
    BY <1>4, <1>5, <1>6, <2>3 DEF c
  <2>4. CASE f = h /\ g = h
    <3>1. c.seq \in Nat
      BY <1>1, <1>4 DEF Transaction
    <3> QED
      BY <1>6, <2>4, <3>1 DEF c
  <2> QED
    BY <1>4, <2>1, <2>2, <2>3, <2>4
<1> QED
  BY <1>6 DEF OpsFollowNumbers, LastOp

\* No step makes an actor's later change start below an earlier one.
LEMMA OpsFollowNumbersStep ==
    ASSUME Disciplined, ConstantsAssumption, NumberingInv, OpsFollowNumbers, [Next]_vars
    PROVE  OpsFollowNumbers'
<1>1. ASSUME changes' = changes
      PROVE  OpsFollowNumbers'
  BY <1>1 DEF OpsFollowNumbers, Made, LastOp
<1>2. ASSUME NEW d \in Doc, \/ \E n \in {0, 1} : Edit(d, n)
                            \/ \E h \in Hash : Take(d, h)
                            \/ \E e \in Doc : Fork(d, e)
      PROVE  changes' = changes
  BY <1>2 DEF Edit, Take, Fork
<1>3. CASE Still
  BY <1>1, <1>3 DEF Still
<1>4. HistoryInv
  BY DEF NumberingInv
<1> QED
  BY <1>1, <1>2, <1>3, <1>4, CommitFollowsNumbers, NumberingStepShape

\* So operations follow numbers at all times.
LEMMA OpsFollowNumbersInvariant == Spec => [](Disciplined => NumberingInv /\ OpsFollowNumbers)
<1>1. Init => OpsFollowNumbers
  BY DEF Init, OpsFollowNumbers, Made
<1>2. Init => (Disciplined => NumberingInv /\ OpsFollowNumbers)
  BY <1>1, ConstantsAssumption, NumberingInvInit
<1>3. (Disciplined => NumberingInv /\ OpsFollowNumbers) /\ [Next]_vars
        => (Disciplined => NumberingInv /\ OpsFollowNumbers)'
  BY ConstantsAssumption, NumberingInvStep, OpsFollowNumbersStep DEF Disciplined
<1> QED
  BY <1>2, <1>3, PTL DEF Spec

\* As long as no transaction commits without operations, get_changes returns nothing the
\* holder of have_deps has, in whatever order the walk meets the changes: the entry of
\* the clock with the most operations is then the actor's last change.
THEOREM GetChangesIsExact == Spec => [](Disciplined => GetChangesExactIfNoneEmpty)
<1>1. ASSUME GraphInv, StatesExact, OpsFollowNumbers, \A h \in Made : changes[h].num_ops > 0,
             NEW d \in Answering, NEW H \in SUBSET History(d)
      PROVE  NothingReturnedTwice(d, H)
  <2> DEFINE clock == ClockForHeads(d, H)
             A == AncestorsOf(H)
  <2>1. d \in Doc
    BY <1>1 DEF Answering, GraphInv, HistoryInv, TypeOK
  <2>2. H \in SUBSET Made /\ A \subseteq Made
    BY <1>1, <2>1, HistoryIsClosed, AncestorsFacts
  <2>3. ClockOf(clock, A)
    BY <1>1, <2>1, HashAssumption, ClockFacts
  <2>4. GetChanges(d, H) = {h \in History(d) : changes[h].seq > clock[changes[h].actor].seq}
    BY <1>1, <2>1, HashAssumption, GetChangesFacts
  <2> HIDE DEF clock, A
  <2> SUFFICES ASSUME NEW h \in A, changes[h].seq > clock[changes[h].actor].seq
               PROVE  FALSE
    BY <2>4 DEF NothingReturnedTwice, A
  <2> DEFINE c == changes[h]
             e == clock[c.actor]
  <2>5. /\ c.actor \in Actor /\ c.seq \in Nat
        /\ c.start_op \in Nat /\ c.num_ops \in Nat /\ c.num_ops > 0
        /\ c.start_op >= 1
    BY <1>1, <2>2, MadeFacts DEF Change
  <2>6. LastOp(c) \in Nat /\ LastOp(c) >= c.start_op
    BY <2>5 DEF LastOp
  <2>7. LastOp(c) <= e.max_op
    BY <2>3 DEF ClockOf
  <2>8. e # NoClock
    BY <2>5, <2>6, <2>7 DEF NoClock
  <2>9. PICK g \in A : changes[g].actor = c.actor /\ e.seq = changes[g].seq /\ e.max_op = LastOp(changes[g])
    BY <2>3, <2>5, <2>8 DEF ClockOf
  <2>10. changes[g].seq < c.seq
    BY <2>5, <2>9
  <2>11. LastOp(changes[g]) < c.start_op
    BY <1>1, <2>2, <2>9, <2>10 DEF OpsFollowNumbers
  <2>12. LastOp(changes[g]) \in Nat
    BY <1>1, <2>2, MadeFacts, LastOpType
  <2> QED
    BY <2>5, <2>6, <2>7, <2>9, <2>11, <2>12
<1>2. GraphInv /\ (Disciplined => NumberingInv /\ OpsFollowNumbers)
        => (Disciplined => GetChangesExactIfNoneEmpty)
  BY <1>1 DEF GetChangesExactIfNoneEmpty, NumberingInv
<1> QED
  BY <1>2, GraphInvariant, OpsFollowNumbersInvariant, PTL
=============================================================================

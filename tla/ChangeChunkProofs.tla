-------------------------- MODULE ChangeChunkProofs --------------------------
(***************************************************************************)
(* A change read from its chunk is the change that was written.            *)
(***************************************************************************)
EXTENDS ChangeOpsProofs

-----------------------------------------------------------------------------
(* What stands at a position of bytes *)

\* A part of the bytes, after which there are numbers only.
Stands(bytes, at, part) ==
    /\ \E S : bytes \in Seq(S)
    /\ at \in Nat /\ part \in Seq(Nat) /\ at + Len(part) <= Len(bytes)
    /\ \A k \in 1..Len(part) : bytes[at + k] = part[k]
    /\ \A k \in (at + 1)..Len(bytes) : bytes[k] \in Nat

\* One part and another stand one after the other.
LEMMA StandsBoth ==
    ASSUME NEW bytes, NEW at, NEW a \in Seq(Nat), NEW b \in Seq(Nat), Stands(bytes, at, a \o b)
    PROVE  Stands(bytes, at, a) /\ Stands(bytes, at + Len(a), b)
<1> DEFINE l == Len(a)
           m == Len(b)
           N == Len(bytes)
           c == a \o b
<1>1. PICK S : bytes \in Seq(S)
  BY DEF Stands
<1>2. /\ at \in Nat /\ at + Len(c) <= N /\ (\A k \in 1..Len(c) : bytes[at + k] = c[k])
      /\ \A k \in (at + 1)..N : bytes[k] \in Nat
  BY DEF Stands
<1>3. /\ l \in Nat /\ m \in Nat /\ Len(c) = l + m /\ N \in Nat
      /\ \A k \in 1..l : c[k] = a[k]
      /\ \A k \in 1..m : c[l + k] = b[k]
  BY <1>1
<1> HIDE DEF c, l, m, N
<1>4. at + l <= N /\ \A k \in 1..l : bytes[at + k] = a[k]
  <2>1. \A k \in 1..l : k \in 1..Len(c)
    BY <1>3
  <2> QED
    BY <1>2, <1>3, <2>1
<1>5. (at + l) + m <= N /\ \A k \in 1..m : bytes[(at + l) + k] = b[k]
  <2>1. (at + l) + m <= N /\ \A k \in 1..m : l + k \in 1..Len(c) /\ (at + l) + k = at + (l + k)
    BY <1>2, <1>3
  <2>2. \A k \in 1..m : bytes[at + (l + k)] = c[l + k] /\ c[l + k] = b[k]
    BY <1>2, <1>3, <2>1
  <2> QED
    BY <2>1, <2>2
<1>6. at + l \in Nat /\ \A k \in ((at + l) + 1)..N : bytes[k] \in Nat
  BY <1>2, <1>3
<1> QED
  BY <1>1, <1>2, <1>4, <1>5, <1>6 DEF Stands, l, m, N

\* It is what is between the positions, and more numbers follow.
LEMMA StandsBetween ==
    ASSUME NEW bytes, NEW at, NEW part, Stands(bytes, at, part)
    PROVE  /\ Slice(bytes, <<at, at + Len(part)>>) = part
           /\ \E rest : rest \in Seq(Nat) /\ From(bytes, at) = part \o rest
<1> DEFINE N == Len(bytes)
           m == Len(part)
<1>1. PICK S : bytes \in Seq(S)
  BY DEF Stands
<1>2. /\ at \in Nat /\ part \in Seq(Nat) /\ at + m <= N /\ (\A k \in 1..m : bytes[at + k] = part[k])
      /\ \A k \in (at + 1)..N : bytes[k] \in Nat
  BY DEF Stands
<1> DEFINE T == S \cup Nat
<1>3. bytes \in Seq(T) /\ part \in Seq(T)
  BY <1>1, <1>2, SeqWithin
<1>4. SubSeq(bytes, at + 1, at + m) = part
  BY <1>2, <1>3, PartIs
<1> DEFINE rest == SubSeq(bytes, at + m + 1, N)
           all == SubSeq(bytes, at + 1, N)
<1>5. m \in Nat /\ N \in Nat
  BY <1>1, <1>2
<1>6. Len(rest) = N - (at + m) /\ (\A k \in 1..(N - (at + m)) : rest[k] = bytes[at + m + k])
      /\ Len(all) = N - at /\ (\A k \in 1..(N - at) : all[k] = bytes[at + k]) /\ rest \in Seq(T) /\ all \in Seq(T)
  <2> HIDE DEF T
  <2> QED
    BY <1>2, <1>3, <1>5
<1>7. \A k \in 1..(N - (at + m)) : at + m + k \in (at + 1)..N
  BY <1>2, <1>5
<1>8. \A k \in 1..(N - (at + m)) : rest[k] \in Nat
  BY <1>2, <1>6, <1>7
<1> HIDE DEF rest, all, N, m, T
<1>9. rest \in Seq(Nat)
  <2>1. N - (at + m) \in Nat
    BY <1>2, <1>5
  <2>2. rest = [k \in 1..(N - (at + m)) |-> rest[k]]
    BY <1>6
  <2>3. rest \in [1..(N - (at + m)) -> Nat]
    BY <1>8, <2>2, Zenon
  <2> QED
    BY <2>1, <2>3
<1>10. all = part \o rest
  <2>1. part \o rest \in Seq(T) /\ Len(part \o rest) = m + (N - (at + m))
    <3>1. Len(part) = m /\ part \in Seq(Nat)
      BY <1>2 DEF m
    <3>2. Len(part \o rest) = Len(part) + Len(rest) /\ part \o rest \in Seq(T)
      BY <1>3, <1>6
    <3> QED
      BY <1>6, <3>1, <3>2
  <2>2. Len(all) = Len(part \o rest)
    BY <1>2, <1>5, <1>6, <2>1
  <2>3. ASSUME NEW k \in 1..Len(part \o rest)
        PROVE  all[k] = (part \o rest)[k]
    <3>1. k \in 1..(N - at) /\ k \in Int
      BY <1>2, <1>5, <1>6, <2>2
    <3>2. CASE k <= m
      <4>1. (part \o rest)[k] = part[k] /\ k \in 1..m
        BY <1>2, <1>3, <1>5, <1>6, <3>1, <3>2 DEF m
      <4> QED
        BY <1>2, <1>6, <3>1, <4>1
    <3>3. CASE k > m
      <4>1. k - m \in 1..(N - (at + m)) /\ at + m + (k - m) = at + k
        BY <1>2, <1>5, <3>1, <3>3
      <4>2. (part \o rest)[k] = rest[k - m]
        BY <1>2, <1>3, <1>5, <1>6, <3>1, <3>3 DEF m
      <4> QED
        BY <1>6, <3>1, <4>1, <4>2
    <3> QED
      BY <1>2, <1>5, <3>1, <3>2, <3>3
  <2>4. \A s \in Seq(T) : s = [k \in 1..Len(s) |-> s[k]]
    OBVIOUS
  <2>5. all = [k \in 1..Len(all) |-> all[k]] /\ part \o rest = [k \in 1..Len(part \o rest) |-> (part \o rest)[k]]
    BY <1>6, <2>1, <2>4, Zenon
  <2> QED
    BY <2>2, <2>3, <2>5
<1> QED
  BY <1>4, <1>9, <1>10 DEF Slice, From, all, N, m

\* It is what is between the positions.
LEMMA StandsThere ==
    \A bytes, at, part : Stands(bytes, at, part) => Slice(bytes, <<at, at + Len(part)>>) = part
BY StandsBetween

\* More numbers follow.
LEMMA NumbersFollow ==
    ASSUME NEW bytes, NEW at, NEW part, Stands(bytes, at, part)
    PROVE  \E rest : rest \in Seq(Nat) /\ From(bytes, at) = part \o rest
<1>1. Slice(bytes, <<at, at + Len(part)>>) = part
           /\ \E rest : rest \in Seq(Nat) /\ From(bytes, at) = part \o rest
  BY StandsBetween
<1> QED
  BY <1>1

\* A number that stands there is read.
LEMMA NumberStands ==
    ASSUME NEW bytes, NEW at, NEW n \in UnsignedNumber, Stands(bytes, at, WriteUnsigned(n))
    PROVE  ReadNumber(bytes, at) = [value |-> n, at |-> at + Len(WriteUnsigned(n))]
<1> DEFINE w == WriteUnsigned(n)
<1>0. Stands(bytes, at, w)
  OBVIOUS
<1> HIDE DEF w
<1>1. PICK rest : rest \in Seq(Nat) /\ From(bytes, at) = w \o rest
  BY <1>0, NumbersFollow
<1>2. ReadUnsigned(From(bytes, at)) = [value |-> n, size |-> Len(WriteUnsigned(n))]
  BY <1>1, UnsignedRoundTrip DEF w
<1> QED
  BY <1>2 DEF ReadNumber, MoveBy

\* A signed number that stands there is read.
LEMMA TimeStands ==
    ASSUME NEW bytes, NEW at, NEW n \in SignedNumber, Stands(bytes, at, WriteSigned(n))
    PROVE  ReadTime(bytes, at) = [value |-> n, at |-> at + Len(WriteSigned(n))]
<1> DEFINE w == WriteSigned(n)
<1>0. Stands(bytes, at, w)
  OBVIOUS
<1> HIDE DEF w
<1>1. PICK rest : rest \in Seq(Nat) /\ From(bytes, at) = w \o rest
  BY <1>0, NumbersFollow
<1>2. ReadSigned(From(bytes, at)) = [value |-> n, size |-> Len(WriteSigned(n))]
  BY <1>1, SignedRoundTrip DEF w
<1> QED
  BY <1>2 DEF ReadTime, MoveBy

\* Where bytes are whose length stands there.
LEMMA StringStands ==
    ASSUME NEW bytes, NEW at, NEW str \in Seq(Nat), Len(str) \in UnsignedNumber, NEW start,
           start = at + Len(WriteUnsigned(Len(str))), Stands(bytes, at, WriteString(str))
    PROVE  /\ SliceBytes(bytes, at) = [value |-> <<start, start + Len(str)>>, at |-> start + Len(str)]
           /\ Slice(bytes, <<start, start + Len(str)>>) = str /\ start \in Nat
           /\ at + Len(WriteString(str)) = start + Len(str)
<1> DEFINE w == WriteUnsigned(Len(str))
<1>1. w \in Seq(Nat) /\ at \in Nat
  BY NumbersAlone DEF Stands
<1>2. Stands(bytes, at, w) /\ Stands(bytes, at + Len(w), str)
  BY <1>1, StandsBoth DEF WriteString
<1>3. ReadNumber(bytes, at) = [value |-> Len(str), at |-> start]
  BY <1>2, NumberStands
<1>4. Slice(bytes, <<start, start + Len(str)>>) = str
  BY <1>2, StandsThere
<1>5. Len(WriteString(str)) = Len(w) + Len(str)
  BY <1>1 DEF WriteString
<1> QED
  BY <1>1, <1>3, <1>4, <1>5 DEF SliceBytes, RangeAfter

\* Where each of several parts stands.
LEMMA EachStands ==
    ASSUME NEW bytes, NEW at, NEW parts \in Seq(Seq(Nat)), Stands(bytes, at, FlattenSeq(parts))
    PROVE  \A i \in 1..Len(parts) : Stands(bytes, at + Before(parts, i), parts[i])
<1> DEFINE f == FlattenSeq(parts)
<1> TAKE i \in 1..Len(parts)
<1> DEFINE b == Before(parts, i)
           p == parts[i]
<1>1. /\ f \in Seq(Nat) /\ b \in Nat /\ Len(p) \in Nat /\ b + Len(p) <= Len(f)
      /\ \A k \in 1..Len(p) : f[b + k] = p[k]
  BY FlattenFacts
<1>2. p \in Seq(Nat)
  OBVIOUS
<1>3. PICK S : bytes \in Seq(S)
  BY DEF Stands
<1>4. /\ at \in Nat /\ at + Len(f) <= Len(bytes) /\ (\A k \in 1..Len(f) : bytes[at + k] = f[k])
      /\ \A k \in (at + 1)..Len(bytes) : bytes[k] \in Nat
  BY DEF Stands
<1> HIDE DEF f, b, p
<1>5. Len(bytes) \in Nat /\ Len(f) \in Nat
  BY <1>1, <1>3
<1>6. at + b \in Nat /\ (at + b) + Len(p) <= Len(bytes)
  BY <1>1, <1>4, <1>5
<1>7. ASSUME NEW k \in 1..Len(p)
      PROVE  bytes[(at + b) + k] = p[k]
  <2>1. b + k \in 1..Len(f) /\ (at + b) + k = at + (b + k)
    BY <1>1, <1>4, <1>5
  <2> QED
    BY <1>1, <1>4, <2>1
<1>8. \A k \in ((at + b) + 1)..Len(bytes) : bytes[k] \in Nat
  BY <1>1, <1>4, <1>5
<1> QED
  BY <1>2, <1>3, <1>6, <1>7, <1>8 DEF Stands, b, p

-----------------------------------------------------------------------------
(* Loops that read *)

\* Loops that start and go on alike end alike.
LEMMA SameLoop ==
    ASSUME NEW n \in Nat, NEW f, NEW g, f[0] = g[0], \A i \in 1..n : f[i - 1] = g[i - 1] => f[i] = g[i]
    PROVE  f[n] = g[n]
<1> DEFINE I == {i \in 0..n : f[i] = g[i]}
<1>1. 0 \in I
  OBVIOUS
<1>2. ASSUME NEW i \in 0..(n - 1), i \in I
      PROVE  i + 1 \in I
  <2>1. i + 1 \in 1..n /\ i + 1 \in 0..n /\ (i + 1) - 1 = i
    OBVIOUS
  <2>2. f[i + 1] = g[i + 1]
    BY <1>2, <2>1
  <2> QED
    BY <2>1, <2>2
<1> HIDE DEF I
<1>3. \A i \in 0..n : i \in I
  BY <1>1, <1>2, Throughout
<1> QED
  BY <1>3 DEF I

\* The first items of a sequence are the first but one and an item.
LEMMA FirstsGrow ==
    ASSUME NEW S, NEW s \in Seq(S)
    PROVE  \A i \in 1..Len(s) : Append(First(s, i - 1), s[i]) = First(s, i)
<1> TAKE i \in 1..Len(s)
<1>1. i - 1 \in 0..(Len(s) - 1) /\ (i - 1) + 1 = i /\ i - 1 \in 0..Len(s)
  OBVIOUS
<1>2. First(s, i - 1) \in Seq(S) /\ First(s, i) = First(s, i - 1) \o <<s[i]>>
  BY <1>1, FirstAre
<1> DEFINE a == First(s, i - 1)
           x == s[i]
<1>3. x \in S
  OBVIOUS
<1> HIDE DEF a, x
<1>4. Append(a, x) = a \o <<x>>
  BY <1>2, <1>3 DEF a
<1> QED
  BY <1>2, <1>4 DEF a, x

\* Hashes that can each be read are read.
LEMMA HashesRead ==
    ASSUME NEW bytes, NEW V, NEW items \in Seq(V), NEW pos,
           \A i \in 1..Len(items) : ReadHash(bytes, pos[i - 1]) = [value |-> items[i], at |-> pos[i]]
    PROVE  ReadEach(bytes, [value |-> Len(items), at |-> pos[0]], ReadHash) = [value |-> items, at |-> pos[Len(items)]]
<1> DEFINE n == Len(items)
           w == [i \in 0..n |-> [value |-> First(items, i), at |-> pos[i]]]
           start == [value |-> <<>>, at |-> pos[0]]
           Is(f) == f = [i \in 0..n |-> IF i = 0 THEN start ELSE OneMore(f[i - 1], ReadHash(bytes, f[i - 1].at))]
           d == CHOOSE f : Is(f)
<1>1. n \in Nat /\ 0 \in 0..n /\ n \in 0..n /\ \A i \in 1..n : i \in 0..n /\ i - 1 \in 0..n /\ i # 0
  OBVIOUS
<1>2. First(items, 0) = <<>> /\ First(items, n) = items
  BY FirstAre
<1>3. \A i \in 1..n : Append(First(items, i - 1), items[i]) = First(items, i)
  BY FirstsGrow
<1>4. \A i \in 1..n : OneMore(w[i - 1], ReadHash(bytes, w[i - 1].at)) = w[i]
  <2> TAKE i \in 1..n
  <2>1. w[i - 1] = [value |-> First(items, i - 1), at |-> pos[i - 1]] /\ w[i] = [value |-> First(items, i), at |-> pos[i]]
    BY <1>1
  <2>2. ReadHash(bytes, pos[i - 1]) = [value |-> items[i], at |-> pos[i]]
    OBVIOUS
  <2> HIDE DEF w, n
  <2>3. w[i - 1].at = pos[i - 1] /\ w[i - 1].value = First(items, i - 1)
    BY <2>1
  <2>4. ReadHash(bytes, w[i - 1].at) = [value |-> items[i], at |-> pos[i]]
    BY <2>2, <2>3, Zenon
  <2>5. OneMore(w[i - 1], [value |-> items[i], at |-> pos[i]]) = [value |-> First(items, i), at |-> pos[i]]
    BY <1>3, <2>3 DEF OneMore
  <2> QED
    BY <2>1, <2>4, <2>5, Zenon
<1>5. w[0] = start /\ w[n] = [value |-> items, at |-> pos[n]] /\ DOMAIN w = 0..n
  BY <1>1, <1>2
<1>6. w = [i \in 0..n |-> w[i]]
  OBVIOUS
<1> HIDE DEF w, start, n
<1>7. Is(w)
  <2>1. \A i \in 0..n : w[i] = IF i = 0 THEN start ELSE OneMore(w[i - 1], ReadHash(bytes, w[i - 1].at))
    <3> TAKE i \in 0..n
    <3>1. CASE i # 0
      <4>1. i \in 1..n
        BY <1>1, <3>1
      <4> QED
        BY <1>4, <3>1, <4>1, Zenon
    <3> QED
      BY <1>5, <3>1, Zenon
  <2> QED
    BY <1>6, <2>1, Zenon
<1>8. Is(d)
  BY <1>7, Zenon
<1> HIDE DEF d
<1>9. d[0] = w[0] /\ \A i \in 1..n : d[i - 1] = w[i - 1] => d[i] = w[i]
  <2>1. d[0] = start /\ \A i \in 1..n : d[i] = OneMore(d[i - 1], ReadHash(bytes, d[i - 1].at))
    BY <1>1, <1>8, Zenon
  <2> QED
    BY <1>4, <1>5, <2>1, Zenon
<1>10. d[n] = w[n]
  BY <1>1, <1>9, SameLoop
<1>11. ReadEach(bytes, [value |-> n, at |-> pos[0]], ReadHash) = d[n]
  BY DEF ReadEach, ReadNext, d, start
<1> QED
  BY <1>5, <1>10, <1>11 DEF n

\* Actors that can each be read are read.
LEMMA ActorsRead ==
    ASSUME NEW bytes, NEW V, NEW items \in Seq(V), NEW pos,
           \A i \in 1..Len(items) : ReadActor(bytes, pos[i - 1]) = [value |-> items[i], at |-> pos[i]]
    PROVE  ReadEach(bytes, [value |-> Len(items), at |-> pos[0]], ReadActor) = [value |-> items, at |-> pos[Len(items)]]
<1> DEFINE n == Len(items)
           w == [i \in 0..n |-> [value |-> First(items, i), at |-> pos[i]]]
           start == [value |-> <<>>, at |-> pos[0]]
           Is(f) == f = [i \in 0..n |-> IF i = 0 THEN start ELSE OneMore(f[i - 1], ReadActor(bytes, f[i - 1].at))]
           d == CHOOSE f : Is(f)
<1>1. n \in Nat /\ 0 \in 0..n /\ n \in 0..n /\ \A i \in 1..n : i \in 0..n /\ i - 1 \in 0..n /\ i # 0
  OBVIOUS
<1>2. First(items, 0) = <<>> /\ First(items, n) = items
  BY FirstAre
<1>3. \A i \in 1..n : Append(First(items, i - 1), items[i]) = First(items, i)
  BY FirstsGrow
<1>4. \A i \in 1..n : OneMore(w[i - 1], ReadActor(bytes, w[i - 1].at)) = w[i]
  <2> TAKE i \in 1..n
  <2>1. w[i - 1] = [value |-> First(items, i - 1), at |-> pos[i - 1]] /\ w[i] = [value |-> First(items, i), at |-> pos[i]]
    BY <1>1
  <2>2. ReadActor(bytes, pos[i - 1]) = [value |-> items[i], at |-> pos[i]]
    OBVIOUS
  <2> HIDE DEF w, n
  <2>3. w[i - 1].at = pos[i - 1] /\ w[i - 1].value = First(items, i - 1)
    BY <2>1
  <2>4. ReadActor(bytes, w[i - 1].at) = [value |-> items[i], at |-> pos[i]]
    BY <2>2, <2>3, Zenon
  <2>5. OneMore(w[i - 1], [value |-> items[i], at |-> pos[i]]) = [value |-> First(items, i), at |-> pos[i]]
    BY <1>3, <2>3 DEF OneMore
  <2> QED
    BY <2>1, <2>4, <2>5, Zenon
<1>5. w[0] = start /\ w[n] = [value |-> items, at |-> pos[n]] /\ DOMAIN w = 0..n
  BY <1>1, <1>2
<1>6. w = [i \in 0..n |-> w[i]]
  OBVIOUS
<1> HIDE DEF w, start, n
<1>7. Is(w)
  <2>1. \A i \in 0..n : w[i] = IF i = 0 THEN start ELSE OneMore(w[i - 1], ReadActor(bytes, w[i - 1].at))
    <3> TAKE i \in 0..n
    <3>1. CASE i # 0
      <4>1. i \in 1..n
        BY <1>1, <3>1
      <4> QED
        BY <1>4, <3>1, <4>1, Zenon
    <3> QED
      BY <1>5, <3>1, Zenon
  <2> QED
    BY <1>6, <2>1, Zenon
<1>8. Is(d)
  BY <1>7, Zenon
<1> HIDE DEF d
<1>9. d[0] = w[0] /\ \A i \in 1..n : d[i - 1] = w[i - 1] => d[i] = w[i]
  <2>1. d[0] = start /\ \A i \in 1..n : d[i] = OneMore(d[i - 1], ReadActor(bytes, d[i - 1].at))
    BY <1>1, <1>8, Zenon
  <2> QED
    BY <1>4, <1>5, <2>1, Zenon
<1>10. d[n] = w[n]
  BY <1>1, <1>9, SameLoop
<1>11. ReadEach(bytes, [value |-> n, at |-> pos[0]], ReadActor) = d[n]
  BY DEF ReadEach, ReadNext, d, start
<1> QED
  BY <1>5, <1>10, <1>11 DEF n

\* Ids and lengths of columns that can each be read are read.
LEMMA InfosRead ==
    ASSUME NEW bytes, NEW V, NEW items \in Seq(V), NEW pos,
           \A i \in 1..Len(items) : ReadInfo(bytes, pos[i - 1]) = [value |-> items[i], at |-> pos[i]]
    PROVE  ReadEach(bytes, [value |-> Len(items), at |-> pos[0]], ReadInfo) = [value |-> items, at |-> pos[Len(items)]]
<1> DEFINE n == Len(items)
           w == [i \in 0..n |-> [value |-> First(items, i), at |-> pos[i]]]
           start == [value |-> <<>>, at |-> pos[0]]
           Is(f) == f = [i \in 0..n |-> IF i = 0 THEN start ELSE OneMore(f[i - 1], ReadInfo(bytes, f[i - 1].at))]
           d == CHOOSE f : Is(f)
<1>1. n \in Nat /\ 0 \in 0..n /\ n \in 0..n /\ \A i \in 1..n : i \in 0..n /\ i - 1 \in 0..n /\ i # 0
  OBVIOUS
<1>2. First(items, 0) = <<>> /\ First(items, n) = items
  BY FirstAre
<1>3. \A i \in 1..n : Append(First(items, i - 1), items[i]) = First(items, i)
  BY FirstsGrow
<1>4. \A i \in 1..n : OneMore(w[i - 1], ReadInfo(bytes, w[i - 1].at)) = w[i]
  <2> TAKE i \in 1..n
  <2>1. w[i - 1] = [value |-> First(items, i - 1), at |-> pos[i - 1]] /\ w[i] = [value |-> First(items, i), at |-> pos[i]]
    BY <1>1
  <2>2. ReadInfo(bytes, pos[i - 1]) = [value |-> items[i], at |-> pos[i]]
    OBVIOUS
  <2> HIDE DEF w, n
  <2>3. w[i - 1].at = pos[i - 1] /\ w[i - 1].value = First(items, i - 1)
    BY <2>1
  <2>4. ReadInfo(bytes, w[i - 1].at) = [value |-> items[i], at |-> pos[i]]
    BY <2>2, <2>3, Zenon
  <2>5. OneMore(w[i - 1], [value |-> items[i], at |-> pos[i]]) = [value |-> First(items, i), at |-> pos[i]]
    BY <1>3, <2>3 DEF OneMore
  <2> QED
    BY <2>1, <2>4, <2>5, Zenon
<1>5. w[0] = start /\ w[n] = [value |-> items, at |-> pos[n]] /\ DOMAIN w = 0..n
  BY <1>1, <1>2
<1>6. w = [i \in 0..n |-> w[i]]
  OBVIOUS
<1> HIDE DEF w, start, n
<1>7. Is(w)
  <2>1. \A i \in 0..n : w[i] = IF i = 0 THEN start ELSE OneMore(w[i - 1], ReadInfo(bytes, w[i - 1].at))
    <3> TAKE i \in 0..n
    <3>1. CASE i # 0
      <4>1. i \in 1..n
        BY <1>1, <3>1
      <4> QED
        BY <1>4, <3>1, <4>1, Zenon
    <3> QED
      BY <1>5, <3>1, Zenon
  <2> QED
    BY <1>6, <2>1, Zenon
<1>8. Is(d)
  BY <1>7, Zenon
<1> HIDE DEF d
<1>9. d[0] = w[0] /\ \A i \in 1..n : d[i - 1] = w[i - 1] => d[i] = w[i]
  <2>1. d[0] = start /\ \A i \in 1..n : d[i] = OneMore(d[i - 1], ReadInfo(bytes, d[i - 1].at))
    BY <1>1, <1>8, Zenon
  <2> QED
    BY <1>4, <1>5, <2>1, Zenon
<1>10. d[n] = w[n]
  BY <1>1, <1>9, SameLoop
<1>11. ReadEach(bytes, [value |-> n, at |-> pos[0]], ReadInfo) = d[n]
  BY DEF ReadEach, ReadNext, d, start
<1> QED
  BY <1>5, <1>10, <1>11 DEF n

-----------------------------------------------------------------------------
(* Columns without bytes are left out *)

KeptThen(columns, i, s) == IF columns[i].data = <<>> THEN s ELSE Append(s, columns[i])

\* What is kept of the first k columns.
Kept(columns, k, s) ==
    /\ Len(s) <= k
    /\ \A i \in 1..Len(s) : \E j \in 1..k : s[i] = columns[j] /\ columns[j].data # <<>>
    /\ \A j \in 1..k : columns[j].data # <<>> => \E i \in 1..Len(s) : s[i] = columns[j]
    /\ \A i, j \in 1..Len(s) : i < j => s[i].col < s[j].col

\* One column more is kept or not.
LEMMA KeptStep ==
    ASSUME NEW C, NEW columns \in Seq(C), NEW k \in 1..Len(columns), NEW s \in Seq(C), Kept(columns, k - 1, s),
           \A i, j \in 1..Len(columns) : i < j => columns[i].col < columns[j].col
    PROVE  KeptThen(columns, k, s) \in Seq(C) /\ Kept(columns, k, KeptThen(columns, k, s))
<1> DEFINE t == KeptThen(columns, k, s)
           m == Len(s)
           c == columns[k]
<1>1. m \in Nat /\ k \in Nat /\ k >= 1 /\ c \in C /\ k <= Len(columns) /\ Len(columns) \in Nat
  OBVIOUS
<1>2. /\ m <= k - 1
      /\ \A i \in 1..m : \E j \in 1..(k - 1) : s[i] = columns[j] /\ columns[j].data # <<>>
      /\ \A j \in 1..(k - 1) : columns[j].data # <<>> => \E i \in 1..m : s[i] = columns[j]
      /\ \A i, j \in 1..m : i < j => s[i].col < s[j].col
  BY DEF Kept
<1>3. CASE c.data = <<>>
  <2>1. t = s
    BY <1>3 DEF KeptThen
  <2> HIDE DEF c, t, m
  <2>2. Len(t) = m
    BY <2>1 DEF m
  <2>3. \A j \in 1..k : columns[j].data # <<>> => j \in 1..(k - 1)
    BY <1>1, <1>3 DEF c
  <2>4. \A j \in 1..(k - 1) : j \in 1..k
    BY <1>1
  <2>5. Kept(columns, k, t)
    BY <1>1, <1>2, <2>1, <2>2, <2>3, <2>4 DEF Kept
  <2> QED
    BY <2>1, <2>5 DEF t
<1>4. CASE c.data # <<>>
  <2>1. t = Append(s, c)
    BY <1>4 DEF KeptThen
  <2>2. t \in Seq(C) /\ Len(t) = m + 1 /\ t[m + 1] = c /\ \A i \in 1..m : t[i] = s[i]
    BY <1>1, <2>1
  <2> HIDE DEF c, t, m
  <2>3. \A i \in 1..Len(t) : i \in 1..m \/ i = m + 1
    BY <1>1, <2>2
  <2>4. /\ \A j \in 1..(k - 1) : j \in 1..k /\ j \in 1..Len(columns) /\ j < k
        /\ k \in 1..k /\ m + 1 \in 1..(m + 1) /\ \A i \in 1..m : i \in 1..(m + 1)
    BY <1>1
  <2>5. \A i \in 1..Len(t) : \E j \in 1..k : t[i] = columns[j] /\ columns[j].data # <<>>
    <3> TAKE i \in 1..Len(t)
    <3>1. CASE i \in 1..m
      BY <1>2, <2>2, <2>4, <3>1
    <3>2. CASE i = m + 1
      BY <1>4, <2>2, <2>4, <3>2 DEF c
    <3> QED
      BY <2>3, <3>1, <3>2
  <2>6. \A j \in 1..k : columns[j].data # <<>> => \E i \in 1..Len(t) : t[i] = columns[j]
    <3> TAKE j \in 1..k
    <3>1. CASE j \in 1..(k - 1)
      BY <1>2, <2>2, <2>4, <3>1
    <3>2. CASE j = k
      BY <2>2, <2>4, <3>2 DEF c
    <3> QED
      BY <1>1, <3>1, <3>2
  <2>7. \A i \in 1..m : s[i].col < c.col
    <3> TAKE i \in 1..m
    <3>1. PICK j \in 1..(k - 1) : s[i] = columns[j]
      BY <1>2
    <3>2. columns[j].col < columns[k].col
      BY <2>4
    <3> QED
      BY <3>1, <3>2 DEF c
  <2>8. \A i, j \in 1..Len(t) : i < j => t[i].col < t[j].col
    <3> SUFFICES ASSUME NEW i \in 1..Len(t), NEW j \in 1..Len(t), i < j
                 PROVE  t[i].col < t[j].col
      OBVIOUS
    <3>1. i \in 1..m
      BY <1>1, <2>2
    <3>2. CASE j \in 1..m
      BY <1>2, <2>2, <3>1, <3>2
    <3>3. CASE j = m + 1
      BY <2>2, <2>7, <3>1, <3>3
    <3> QED
      BY <2>3, <3>2, <3>3
  <2>9. Len(t) <= k
    BY <1>1, <1>2, <2>2
  <2> QED
    BY <2>2, <2>5, <2>6, <2>8, <2>9 DEF Kept, t
<1> QED
  BY <1>3, <1>4

\* Those with bytes are kept, in order.
LEMMA KeptColumns ==
    ASSUME NEW C, NEW columns \in Seq(C),
           \A i, j \in 1..Len(columns) : i < j => columns[i].col < columns[j].col
    PROVE  WithBytes(columns) \in Seq(C) /\ Kept(columns, Len(columns), WithBytes(columns))
<1> DEFINE n == Len(columns)
           D == Seq(C)
           step == [p \in Nat \X D |-> IF p[1] \in 1..n THEN KeptThen(columns, p[1], p[2]) ELSE p[2]]
           Is(f) == f = [i \in 0..n |-> IF i = 0 THEN <<>> ELSE KeptThen(columns, i, f[i - 1])]
           h == CHOOSE f : Is(f)
<1>1. n \in Nat /\ <<>> \in D /\ \A i \in 1..n : columns[i] \in C
  OBVIOUS
<1>2. \A y \in D, i \in 1..n : KeptThen(columns, i, y) \in D
  BY <1>1 DEF KeptThen
<1> HIDE DEF D
<1>3. step \in [Nat \X D -> D]
  <2> SUFFICES ASSUME NEW p \in Nat \X D
               PROVE  (IF p[1] \in 1..n THEN KeptThen(columns, p[1], p[2]) ELSE p[2]) \in D
    BY Zenon
  <2>1. p[2] \in D
    OBVIOUS
  <2> HIDE DEF n
  <2> QED
    BY <1>2, <2>1, Zenon
<1>4. PICK f : States(D, <<>>, step, n, f)
  <2> HIDE DEF step, n
  <2> QED
    BY <1>1, <1>3, LoopHasStates
<1>5. f \in [0..n -> D] /\ f[0] = <<>> /\ \A i \in 1..n : f[i] = step[<<i, f[i - 1]>>]
  BY <1>4 DEF States
<1>6. \A i \in 1..n : i \in 0..n /\ i - 1 \in 0..n /\ i \in Nat /\ i # 0
  BY <1>1
<1>7. Is(f)
  <2> SUFFICES ASSUME NEW i \in 0..n
               PROVE  f[i] = IF i = 0 THEN <<>> ELSE KeptThen(columns, i, f[i - 1])
    BY <1>5, Zenon
  <2>1. CASE i # 0
    <3>1. i \in 1..n
      BY <1>1, <2>1
    <3>2. f[i - 1] \in D /\ i \in Nat
      BY <1>5, <1>6, <3>1
    <3>3. <<i, f[i - 1]>> \in Nat \X D
      BY <3>2
    <3>4. step[<<i, f[i - 1]>>] = KeptThen(columns, i, f[i - 1])
      BY <3>1, <3>3
    <3> QED
      BY <1>5, <2>1, <3>1, <3>4
  <2> QED
    BY <1>5, <2>1
<1>8. Is(h)
  BY <1>7, Zenon
<1> HIDE DEF h
<1>9. h[0] = <<>> /\ \A i \in 1..n : h[i] = KeptThen(columns, i, h[i - 1])
  <2>1. 0 \in 0..n
    BY <1>1
  <2> HIDE DEF n
  <2> QED
    BY <1>6, <1>8, <2>1, Zenon
<1>10. WithBytes(columns) = h[n]
  BY DEF WithBytes, KeptThen, h
<1> DEFINE I == {i \in 0..n : h[i] \in Seq(C) /\ Kept(columns, i, h[i])}
<1>11. 0 \in I
  <2>1. Kept(columns, 0, <<>>)
    BY DEF Kept
  <2>2. <<>> \in Seq(C) /\ 0 \in 0..n
    BY <1>1
  <2>3. h[0] \in Seq(C) /\ Kept(columns, 0, h[0])
    BY <1>9, <2>1, <2>2, Zenon
  <2> QED
    BY <2>2, <2>3, Zenon
<1>12. ASSUME NEW i \in 0..(n - 1), i \in I
       PROVE  i + 1 \in I
  <2>1. i + 1 \in 1..n /\ i + 1 \in 0..n /\ (i + 1) - 1 = i
    BY <1>1
  <2>2. h[i + 1] = KeptThen(columns, i + 1, h[i]) /\ h[i] \in Seq(C) /\ Kept(columns, i, h[i])
    BY <1>9, <1>12, <2>1
  <2>3. h[i + 1] \in Seq(C) /\ Kept(columns, i + 1, h[i + 1])
    <3> DEFINE k == i + 1
    <3>1. Kept(columns, k - 1, h[i]) /\ k \in 1..Len(columns)
      BY <2>1, <2>2
    <3> HIDE DEF k
    <3>2. KeptThen(columns, k, h[i]) \in Seq(C) /\ Kept(columns, k, KeptThen(columns, k, h[i]))
      BY <2>2, <3>1, KeptStep
    <3> QED
      BY <2>2, <3>2 DEF k
  <2> QED
    BY <2>1, <2>3
<1> HIDE DEF I
<1>13. \A i \in 0..n : i \in I
  BY <1>1, <1>11, <1>12, Throughout
<1>14. n \in I
  BY <1>1, <1>13
<1> QED
  BY <1>10, <1>14 DEF I

-----------------------------------------------------------------------------
(* The bytes of columns *)

\* Runs are written as bytes.
LEMMA RunsAreBytes ==
    ASSUME NEW kind \in Kinds, NEW column \in Seq(CellsOf(kind)), Len(column) \in SignedNumber
    PROVE  EncodeRle(kind, column) \in Seq(Nat)
<1>1. PICK e : EncodeRle(kind, column) = FinishRle(kind, e) /\ Encoded(kind, e, column)
  BY EncoderLoop
<1>2. Flushed(kind, e) \in Seq(Nat)
  BY <1>1, FlushedYields DEF Written, Yields
<1>3. <<>> \in Seq(Nat)
  OBVIOUS
<1> QED
  BY <1>1, <1>2, <1>3, Zenon DEF FinishRle

\* Booleans are written as bytes.
LEMMA BooleansAreBytes ==
    ASSUME NEW column \in Seq(BooleanCells), Len(column) \in SignedNumber
    PROVE  EncodeBooleans(column) \in Seq(Nat)
<1>1. PICK e : EncodeBooleans(column) = FinishBooleans(e) /\ EncodedBoolean(e, column)
  BY BooleanEncoderLoop
<1>2. e.buf \in Seq(Nat) /\ e.count \in Nat
  BY <1>1 DEF EncodedBoolean
<1>3. CASE e.count = 0
  BY <1>1, <1>2, <1>3 DEF FinishBooleans
<1>4. CASE e.count # 0
  <2>1. <<>> \in Seq(Nat)
    OBVIOUS
  <2>2. e.buf \o WriteUnsigned(e.count) \in Seq(Nat)
    BY <1>1, <1>4, <2>1, HeldRunRead
  <2> QED
    BY <1>1, <1>2, <1>4, <2>2 DEF FinishBooleans
<1> QED
  BY <1>3, <1>4

\* Every column is bytes.
LEMMA ColumnsAreBytes ==
    /\ \A column \in Seq(CellsOf("unsigned")) : Len(column) \in SignedNumber => EncodeColumn("unsigned", column) \in Seq(Nat)
    /\ \A column \in Seq(CellsWith(Counters)) : Len(column) \in SignedNumber => EncodeColumn("delta", column) \in Seq(Nat)
    /\ \A column \in Seq(CellsOf("string")) : Len(column) \in SignedNumber => EncodeColumn("string", column) \in Seq(Nat)
    /\ \A column \in Seq(BooleanCells) : Len(column) \in SignedNumber => EncodeColumn("boolean", column) \in Seq(Nat)
<1>1. "unsigned" \in Kinds /\ "signed" \in Kinds /\ "string" \in Kinds
  BY DEF Kinds
<1>2. ASSUME NEW column \in Seq(CellsOf("unsigned")), Len(column) \in SignedNumber
      PROVE  EncodeColumn("unsigned", column) \in Seq(Nat)
  BY <1>1, <1>2, RunsAreBytes DEF EncodeColumn
<1>3. ASSUME NEW column \in Seq(CellsOf("string")), Len(column) \in SignedNumber
      PROVE  EncodeColumn("string", column) \in Seq(Nat)
  BY <1>1, <1>3, RunsAreBytes DEF EncodeColumn
<1>4. ASSUME NEW column \in Seq(BooleanCells), Len(column) \in SignedNumber
      PROVE  EncodeColumn("boolean", column) \in Seq(Nat)
  BY <1>4, BooleansAreBytes DEF EncodeColumn
<1>5. ASSUME NEW column \in Seq(CellsWith(Counters)), Len(column) \in SignedNumber
      PROVE  EncodeColumn("delta", column) \in Seq(Nat)
  <2>1. Differences(column) \in Seq(CellsOf("signed")) /\ Len(Differences(column)) = Len(column)
    BY CountersAre, DifferencesAre
  <2> DEFINE d == Differences(column)
  <2> HIDE DEF d
  <2>2. EncodeRle("signed", d) \in Seq(Nat)
    BY <1>1, <1>5, <2>1, RunsAreBytes DEF d
  <2> QED
    BY <2>2 DEF EncodeColumn, EncodeDelta, d
<1> QED
  BY <1>2, <1>3, <1>4, <1>5

\* Raw values are bytes.
LEMMA RawValuesAreBytes ==
    ASSUME NEW ops \in Seq(OperationType)
    PROVE  RawValues(ops) \in Seq(Nat)
<1> DEFINE n == Len(ops)
           raws == [i \in DOMAIN ops |-> RawValue(ValueOf(ops[i]))]
           B == Seq(Nat)
<1>1. n \in Nat /\ DOMAIN ops = 1..n /\ \A i \in 1..n : ops[i] \in OperationType
  OBVIOUS
<1>2. \A i \in 1..n : RawValue(ValueOf(ops[i])) \in B
  BY <1>1, ActionParts, RawFacts
<1>3. \A S, f : f \in [1..n -> S] => f \in Seq(S)
  BY <1>1
<1> HIDE DEF B
<1>4. raws \in [1..n -> B]
  BY <1>1, <1>2
<1> HIDE DEF raws, n
<1>5. raws \in Seq(B)
  BY <1>3, <1>4, Zenon
<1>6. FlattenSeq(raws) \in Seq(Nat)
  BY <1>5, FlattenFacts DEF B
<1> QED
  BY <1>6 DEF RawValues, raws

\* Whichever column of operations it is.
LEMMA DataAreBytes ==
    ASSUME NEW ops \in Seq(OperationType), NEW actors, Named(ops, actors), Len(ops) \in SignedNumber,
           Len(Preds(ops)) \in SignedNumber, NEW col \in ToSet(ColumnIds)
    PROVE  ColumnData(ops, actors, col) \in Seq(Nat)
<1> DEFINE n == Len(ops)
           ids == Preds(ops)
<1>1. /\ Len(Rows(ops, actors, col)) = n
      /\ \A c \in {COL_OBJ_ACTOR, COL_OBJ_CTR, COL_KEY_ACTOR, COL_ACTION, COL_VAL_LEN, COL_PRED_NUM} :
             Rows(ops, actors, c) \in Seq(CellsOf("unsigned"))
      /\ Rows(ops, actors, COL_KEY_CTR) \in Seq(CellsWith(Counters))
      /\ Rows(ops, actors, COL_KEY_STR) \in Seq(CellsOf("string"))
      /\ Rows(ops, actors, COL_INSERT) \in Seq(BooleanCells)
  BY RowTypes
<1>2. CASE col \in OpColumns \cup {COL_PRED_NUM}
  <2>1. ColumnData(ops, actors, col) = EncodeColumn(Kind(col), Rows(ops, actors, col))
    BY <1>2, ColumnOfRows
  <2>2. CASE col \in {COL_OBJ_ACTOR, COL_OBJ_CTR, COL_KEY_ACTOR, COL_ACTION, COL_VAL_LEN, COL_PRED_NUM}
    <3>1. Kind(col) = "unsigned" /\ Rows(ops, actors, col) \in Seq(CellsOf("unsigned"))
      BY <1>1, <2>2, ColumnKinds
    <3> QED
      BY <1>1, <2>1, <3>1, ColumnsAreBytes
  <2>3. CASE col = COL_KEY_CTR
    BY <1>1, <2>1, <2>3, ColumnKinds, ColumnsAreBytes
  <2>4. CASE col = COL_KEY_STR
    BY <1>1, <2>1, <2>4, ColumnKinds, ColumnsAreBytes
  <2>5. CASE col = COL_INSERT
    BY <1>1, <2>1, <2>5, ColumnKinds, ColumnsAreBytes
  <2> QED
    BY <1>2, <2>2, <2>3, <2>4, <2>5 DEF OpColumns
<1>3. CASE col = COL_VAL_RAW
  BY <1>3, RawValuesAreBytes DEF ColumnData
<1>4. CASE col \in {COL_REF_ACTOR, COL_REF_CTR}
  <2> DEFINE column == [i \in DOMAIN ops |-> {}]
             U == CellsOf("unsigned")
  <2>1. Cells(ops, actors, col) = [i \in DOMAIN ops |-> Cell(ops[i], actors, col)] /\ col # COL_VAL_RAW
        /\ Kind(col) = "unsigned"
    BY <1>4 DEF Cells, Kind, COL_REF_ACTOR, COL_REF_CTR, COL_PRED_ACTOR, COL_PRED_CTR, COL_VAL_RAW
  <2>2. \A op : Cell(op, actors, col) = {}
    BY <1>4 DEF Cell, COL_OBJ_ACTOR, COL_OBJ_CTR, COL_KEY_ACTOR, COL_KEY_CTR, COL_KEY_STR, COL_INSERT, COL_ACTION,
       COL_VAL_LEN, COL_REF_ACTOR, COL_REF_CTR, COL_PRED_NUM
  <2>3. Cells(ops, actors, col) = column
    BY <2>1, <2>2
  <2>4. {} \in U /\ n \in Nat /\ DOMAIN ops = 1..n
    BY DEF CellsOf, CellsWith
  <2>5. column \in [1..n -> U]
    BY <2>4
  <2>6. \A S, f : f \in [1..n -> S] => f \in Seq(S) /\ Len(f) = n
    BY <2>4
  <2> HIDE DEF column, U, n
  <2>7. column \in Seq(U) /\ Len(column) = n
    BY <2>5, <2>6, Zenon
  <2>8. EncodeColumn("unsigned", column) \in Seq(Nat)
    BY <2>7, ColumnsAreBytes DEF U, n
  <2> QED
    BY <2>1, <2>3, <2>8 DEF ColumnData
<1>5. CASE col \in {COL_PRED_ACTOR, COL_PRED_CTR}
  <2> DEFINE a == ActorCells(ids, actors)
             c == CounterCells(ids)
  <2>1. ids \in Seq(NamedIds(actors)) /\ actors \in Seq(Nat) /\ Len(actors) \in UnsignedNumber
    BY PredTypes DEF Named
  <2>2. a \in Seq(CellsOf("unsigned")) /\ c \in Seq(CellsWith(Counters)) /\ Len(a) = Len(ids) /\ Len(c) = Len(ids)
    BY <2>1, IdColumnsRead
  <2> HIDE DEF a, c
  <2>3. EncodeColumn("unsigned", a) \in Seq(Nat) /\ EncodeColumn("delta", c) \in Seq(Nat)
    BY <2>2, ColumnsAreBytes
  <2>4. /\ ColumnData(ops, actors, COL_PRED_ACTOR) = EncodeColumn("unsigned", a)
        /\ ColumnData(ops, actors, COL_PRED_CTR) = EncodeColumn("delta", c)
    <3>1. COL_PRED_ACTOR # COL_VAL_RAW /\ COL_PRED_CTR # COL_VAL_RAW /\ COL_PRED_ACTOR # COL_PRED_CTR
      BY DEF COL_PRED_ACTOR, COL_PRED_CTR, COL_VAL_RAW
    <3>2. Cells(ops, actors, COL_PRED_ACTOR) = a /\ Cells(ops, actors, COL_PRED_CTR) = c
      BY <3>1 DEF Cells, a, c
    <3> QED
      BY <3>1, <3>2, ColumnKinds DEF ColumnData
  <2> QED
    BY <1>5, <2>3, <2>4
<1> QED
  BY <1>2, <1>3, <1>4, <1>5, ColumnIdsAre

-----------------------------------------------------------------------------
(* The parts of a chunk *)

\* A function over the first numbers is a sequence.
LEMMA FunctionsAreSequences == \A n \in Nat : \A S, f : f \in [1..n -> S] => f \in Seq(S) /\ Len(f) = n
OBVIOUS

\* Changes with operations, as the types of the code say.
ChangeType ==
    [actor_id : Nat, seq : UnsignedNumber, start_op : UnsignedNumber, time : SignedNumber, message : Seq(Nat),
     deps : Seq(Nat), operations : Seq(OperationType), extra_bytes : Seq(Nat)]

ActorsOf(c)  == ActorIdsInChange(c.actor_id, c.operations)
AllColumns(c) == [i \in DOMAIN ColumnIds |->
                     [col |-> ColumnIds[i], data |-> ColumnData(c.operations, ActorsOf(c), ColumnIds[i])]]
ColumnsIn(c) == ColumnsOf(c.operations, ActorsOf(c))
DatasOf(c)   == [i \in DOMAIN ColumnsIn(c) |-> ColumnsIn(c)[i].data]
HeadOf(c)    == BeforeMessage(c) \o WriteString(c.message)
OthersOf(c)  == WriteActors(Tail(ActorsOf(c)))
OpsBytes(c)  == WriteColumnInfo(ColumnsIn(c)) \o FlattenSeq(DatasOf(c))
Body(c)      == HeadOf(c) \o OthersOf(c) \o OpsBytes(c) \o c.extra_bytes

\* Changes of which all numbers fit.
NumbersFit(c) == PartsFit(c, ActorsOf(c)) /\ Len(c.operations) \in SignedNumber
Columns14 == [col : ToSet(ColumnIds), data : Seq(Nat)]

\* The actors of a change name those in its operations; the first is its own.
LEMMA ActorsOfChange ==
    ASSUME NEW c \in ChangeType, NumbersFit(c)
    PROVE  /\ Named(c.operations, ActorsOf(c)) /\ ActorsOf(c) \in Seq(Nat) /\ Len(ActorsOf(c)) >= 1
           /\ Tail(ActorsOf(c)) \in Seq(Nat) /\ <<c.actor_id>> \o Tail(ActorsOf(c)) = ActorsOf(c)
           /\ Len(Tail(ActorsOf(c))) \in UnsignedNumber
<1> DEFINE a == ActorsOf(c)
           others == {id[2] : id \in UNION {IdsIn(op) : op \in ToSet(c.operations)}} \ {c.actor_id}
           sorted == SortedSeq(SetToSeq(others), NumberOrder)
<1>1. c.actor_id \in Nat /\ c.operations \in Seq(OperationType)
  BY DEF ChangeType
<1>2. /\ a \in Seq(Nat) /\ Len(a) >= 1 /\ a[1] = c.actor_id
      /\ \A i \in 1..Len(c.operations) : \A id \in IdsIn(c.operations[i]) : \E k \in 1..Len(a) : a[k] = id[2]
  BY <1>1, ActorsNamed DEF ActorsOf
<1>3. Len(a) \in UnsignedNumber
  BY DEF NumbersFit, PartsFit
<1> HIDE DEF a
<1>4. Named(c.operations, a)
  BY <1>2, <1>3 DEF Named
<1>5. /\ Tail(a) \in Seq(Nat) /\ Len(Tail(a)) = Len(a) - 1 /\ Len(a) \in Nat /\ a # <<>>
      /\ \A i \in 1..(Len(a) - 1) : Tail(a)[i] = a[i + 1]
  BY <1>2
<1>6. <<c.actor_id>> \o Tail(a) = a
  <2> DEFINE t == Tail(a)
             x == c.actor_id
  <2>1. x \in Nat /\ t \in Seq(Nat) /\ Len(t) = Len(a) - 1 /\ \A i \in 1..(Len(a) - 1) : t[i] = a[i + 1]
    BY <1>1, <1>5
  <2>2. a[1] = x /\ a \in Seq(Nat) /\ Len(a) \in Nat /\ Len(a) >= 1
    BY <1>2, <1>5
  <2> HIDE DEF x, t
  <2>3. PICK N : N = Nat
    OBVIOUS
  <2>4. x \in N /\ t \in Seq(N) /\ a \in Seq(N)
    BY <2>1, <2>2, <2>3, Zenon
  <2> DEFINE b == <<x>> \o t
  <2>5. /\ b \in Seq(N) /\ Len(b) = Len(a) /\ b[1] = x
        /\ \A i \in 2..Len(a) : b[i] = t[i - 1]
    BY <2>1, <2>2, <2>4
  <2> HIDE DEF b
  <2>6. \A i \in 1..Len(a) : b[i] = a[i]
    <3> TAKE i \in 1..Len(a)
    <3>1. CASE i = 1
      BY <2>2, <2>5, <3>1
    <3>2. CASE i # 1
      <4>1. i \in 2..Len(a) /\ i - 1 \in 1..(Len(a) - 1) /\ (i - 1) + 1 = i
        BY <2>2, <3>2
      <4> QED
        BY <2>1, <2>5, <4>1
    <3> QED
      BY <3>1, <3>2
  <2>7. b = a
    BY <2>4, <2>5, <2>6
  <2> QED
    BY <2>7 DEF b, t, x
<1>7. Len(Tail(a)) \in UnsignedNumber
  BY <1>2, <1>3, <1>5, ModulusFacts DEF UnsignedNumber
<1> QED
  BY <1>2, <1>4, <1>5, <1>6, <1>7 DEF a

\* The ids of columns are in order, and none says that it is deflated.
LEMMA IdsInOrder ==
    /\ DOMAIN ColumnIds = 1..14 /\ Len(ColumnIds) = 14
    /\ \A i, j \in 1..14 : i < j => ColumnIds[i] < ColumnIds[j]
    /\ \A i \in 1..14 : /\ ColumnIds[i] \in ToSet(ColumnIds) /\ ColumnIds[i] \in 1..127
                        /\ ~IsDeflated(ColumnIds[i]) /\ ColumnIds[i] + COLUMN_TYPE_DEFLATE \notin ToSet(ColumnIds)
<1>1. DOMAIN ColumnIds = 1..14 /\ Len(ColumnIds) = 14
  BY DEF ColumnIds
<1>2. /\ ColumnIds[1] = 1 /\ ColumnIds[2] = 2 /\ ColumnIds[3] = 17 /\ ColumnIds[4] = 19 /\ ColumnIds[5] = 21
      /\ ColumnIds[6] = 52 /\ ColumnIds[7] = 66 /\ ColumnIds[8] = 86 /\ ColumnIds[9] = 87 /\ ColumnIds[10] = 97
      /\ ColumnIds[11] = 98 /\ ColumnIds[12] = 112 /\ ColumnIds[13] = 113 /\ ColumnIds[14] = 115
  BY DEF ColumnIds, COL_OBJ_ACTOR, COL_OBJ_CTR, COL_KEY_ACTOR, COL_KEY_CTR, COL_KEY_STR, COL_INSERT, COL_ACTION,
     COL_VAL_LEN, COL_VAL_RAW, COL_REF_ACTOR, COL_REF_CTR, COL_PRED_NUM, COL_PRED_ACTOR, COL_PRED_CTR
<1>3. ToSet(ColumnIds) = {1, 2, 17, 19, 21, 52, 66, 86, 87, 97, 98, 112, 113, 115}
  BY ColumnIdsAre DEF OpColumns, COL_OBJ_ACTOR, COL_OBJ_CTR, COL_KEY_ACTOR, COL_KEY_CTR, COL_KEY_STR, COL_INSERT, COL_ACTION,
     COL_VAL_LEN, COL_VAL_RAW, COL_REF_ACTOR, COL_REF_CTR, COL_PRED_NUM, COL_PRED_ACTOR, COL_PRED_CTR
<1>4. 1..14 = {1, 2, 3, 4, 5, 6, 7, 8, 9, 10, 11, 12, 13, 14}
  OBVIOUS
<1>5. \A i, j \in 1..14 : i < j => ColumnIds[i] < ColumnIds[j]
  BY <1>2, <1>4
<1>6. \A i \in 1..14 : ColumnIds[i] \in ToSet(ColumnIds)
  BY <1>2, <1>3, <1>4
<1>7. \A x \in ToSet(ColumnIds) : x \in 1..127 /\ ~IsDeflated(x) /\ x + COLUMN_TYPE_DEFLATE \notin ToSet(ColumnIds)
  BY <1>3 DEF IsDeflated, COLUMN_TYPE_DEFLATE
<1> QED
  BY <1>1, <1>5, <1>6, <1>7

\* What is written of the columns of a change: those with bytes, in the order of their ids.
LEMMA ColumnsOfChange ==
    ASSUME NEW c \in ChangeType, NumbersFit(c)
    PROVE  /\ ColumnsIn(c) \in Seq(Columns14) /\ Len(ColumnsIn(c)) <= 14
           /\ \A i \in 1..Len(ColumnsIn(c)) :
                  ColumnsIn(c)[i].data = ColumnData(c.operations, ActorsOf(c), ColumnsIn(c)[i].col)
           /\ \A col \in ToSet(ColumnIds) : ColumnData(c.operations, ActorsOf(c), col) # <<>> =>
                  \E i \in 1..Len(ColumnsIn(c)) : ColumnsIn(c)[i].col = col
           /\ \A i, j \in 1..Len(ColumnsIn(c)) : i < j => ColumnsIn(c)[i].col < ColumnsIn(c)[j].col
<1> DEFINE ops == c.operations
           actors == ActorsOf(c)
           all == AllColumns(c)
           kept == ColumnsIn(c)
<1>1. ops \in Seq(OperationType) /\ Named(ops, actors) /\ Len(ops) \in SignedNumber /\ Len(Preds(ops)) \in SignedNumber
  BY ActorsOfChange DEF ChangeType, NumbersFit, PartsFit
<1>2. all = [i \in 1..14 |-> [col |-> ColumnIds[i], data |-> ColumnData(ops, actors, ColumnIds[i])]]
  BY IdsInOrder DEF AllColumns
<1>3. \A i \in 1..14 : ColumnIds[i] \in ToSet(ColumnIds) /\ ColumnData(ops, actors, ColumnIds[i]) \in Seq(Nat)
  BY <1>1, IdsInOrder, DataAreBytes
<1>4. all \in Seq(Columns14) /\ Len(all) = 14
  <2>1. \A i \in 1..14 : [col |-> ColumnIds[i], data |-> ColumnData(ops, actors, ColumnIds[i])] \in Columns14
    BY <1>3 DEF Columns14
  <2>2. all \in [1..14 -> Columns14]
    BY <1>2, <2>1
  <2>3. 14 \in Nat
    OBVIOUS
  <2> HIDE DEF all
  <2> QED
    BY <2>2, <2>3, FunctionsAreSequences, Zenon
<1>5. /\ \A i \in 1..14 : all[i].col = ColumnIds[i] /\ all[i].data = ColumnData(ops, actors, ColumnIds[i])
      /\ \A i, j \in 1..14 : i < j => all[i].col < all[j].col
  BY <1>2, IdsInOrder
<1>6. kept = WithBytes(all)
  BY DEF ColumnsIn, ColumnsOf, AllColumns
<1> HIDE DEF all, kept, ops, actors
<1>7. kept \in Seq(Columns14) /\ Kept(all, 14, kept)
  BY <1>4, <1>5, <1>6, KeptColumns
<1>8. /\ Len(kept) <= 14
      /\ \A i \in 1..Len(kept) : \E j \in 1..14 : kept[i] = all[j]
      /\ \A j \in 1..14 : all[j].data # <<>> => \E i \in 1..Len(kept) : kept[i] = all[j]
      /\ \A i, j \in 1..Len(kept) : i < j => kept[i].col < kept[j].col
  BY <1>7 DEF Kept
<1>9. \A i \in 1..Len(kept) : kept[i].data = ColumnData(ops, actors, kept[i].col)
  <2> TAKE i \in 1..Len(kept)
  <2>1. PICK j \in 1..14 : kept[i] = all[j]
    BY <1>8
  <2> QED
    BY <1>5, <2>1
<1>10. ASSUME NEW col \in ToSet(ColumnIds), ColumnData(ops, actors, col) # <<>>
       PROVE  \E i \in 1..Len(kept) : kept[i].col = col
  <2>1. PICK j \in 1..14 : ColumnIds[j] = col
    BY IdsInOrder DEF ToSet
  <2>2. all[j].data # <<>> /\ all[j].col = col
    BY <1>5, <1>10, <2>1
  <2>3. PICK i \in 1..Len(kept) : kept[i] = all[j]
    BY <1>8, <2>2
  <2> QED
    BY <2>2, <2>3
<1> QED
  BY <1>7, <1>8, <1>9, <1>10 DEF kept, ops, actors

-----------------------------------------------------------------------------
(* Hashes, actors, and ids and lengths of columns that stand somewhere are read *)

\* Small numbers fit.
LEMMA SmallFit == \A n \in 0..128 : n \in UnsignedNumber /\ WriteUnsigned(n) \in Seq(Nat)
<1> TAKE n \in 0..128
<1>1. n \in UnsignedNumber
  BY ChangesAssumption, ModulusFacts DEF UnsignedNumber
<1> QED
  BY <1>1, NumbersAlone

\* Hashes are read.
LEMMA HashesStand ==
    ASSUME NEW bytes, NEW at, NEW hs \in Seq(Nat), Len(hs) \in UnsignedNumber,
           Stands(bytes, at, WriteUnsigned(Len(hs)) \o hs)
    PROVE  DecodeHashes(bytes, at) = [value |-> hs, at |-> at + Len(WriteUnsigned(Len(hs)) \o hs)]
<1> DEFINE w == WriteUnsigned(Len(hs))
           n == Len(hs)
           a0 == at + Len(w)
           pos == [i \in 0..n |-> a0 + i]
<1>1. w \in Seq(Nat) /\ at \in Nat /\ n \in Nat
  BY NumbersAlone DEF Stands
<1>2. Stands(bytes, at, w) /\ Stands(bytes, a0, hs)
  BY <1>1, StandsBoth
<1>3. ReadNumber(bytes, at) = [value |-> n, at |-> a0]
  BY <1>2, NumberStands
<1>4. a0 \in Nat /\ Len(w \o hs) = Len(w) + n
  BY <1>1
<1>5. \A i \in 1..n : bytes[a0 + i] = hs[i]
  BY <1>2 DEF Stands
<1> HIDE DEF a0, w
<1>6. \A i \in 1..n : ReadHash(bytes, pos[i - 1]) = [value |-> hs[i], at |-> pos[i]]
  <2> TAKE i \in 1..n
  <2>1. pos[i - 1] = a0 + (i - 1) /\ pos[i] = a0 + i /\ pos[i - 1] + 1 = a0 + i
    BY <1>1, <1>4
  <2> HIDE DEF pos
  <2> QED
    BY <1>5, <2>1 DEF ReadHash, HASH_SIZE
<1>7. pos[0] = a0 /\ pos[n] = a0 + n
  BY <1>1, <1>4
<1> HIDE DEF pos
<1>8. ReadEach(bytes, [value |-> n, at |-> pos[0]], ReadHash) = [value |-> hs, at |-> pos[n]]
  BY <1>6, HashesRead
<1>9. a0 + n = at + Len(w \o hs)
  BY <1>1, <1>4 DEF a0, w
<1> QED
  BY <1>3, <1>7, <1>8, <1>9 DEF DecodeHashes, ReadMany, w

\* An actor is read.
LEMMA ActorStands ==
    ASSUME NEW bytes, NEW at, NEW actor \in Nat, Stands(bytes, at, WriteActor(actor))
    PROVE  /\ WriteActor(actor) \in Seq(Nat)
           /\ SliceBytes(bytes, at).at = at + Len(WriteActor(actor))
           /\ Slice(bytes, SliceBytes(bytes, at).value) = <<actor>>
           /\ ReadActor(bytes, at) = [value |-> actor, at |-> at + Len(WriteActor(actor))]
<1> DEFINE str == <<actor>>
<1>1. str \in Seq(Nat) /\ Len(str) = 1 /\ 1 \in UnsignedNumber /\ WriteUnsigned(1) \in Seq(Nat)
  BY SmallFit
<1>2. WriteActor(actor) = WriteString(str)
  BY <1>1 DEF WriteActor, WriteString, ACTOR_ID_SIZE
<1>3. WriteActor(actor) \in Seq(Nat)
  BY <1>1 DEF WriteActor, ACTOR_ID_SIZE
<1>4. str[1] = actor
  OBVIOUS
<1> HIDE DEF str
<1> DEFINE s == at + Len(WriteUnsigned(Len(str)))
<1>5. s = at + Len(WriteUnsigned(Len(str)))
  OBVIOUS
<1> HIDE DEF s
<1>6. /\ SliceBytes(bytes, at) = [value |-> <<s, s + Len(str)>>, at |-> s + Len(str)]
      /\ Slice(bytes, <<s, s + Len(str)>>) = str /\ s \in Nat
      /\ at + Len(WriteString(str)) = s + Len(str)
  <2>1. Stands(bytes, at, WriteString(str)) /\ Len(str) \in UnsignedNumber /\ str \in Seq(Nat)
    BY <1>1, <1>2
  <2>2. ASSUME NEW start, start = at + Len(WriteUnsigned(Len(str)))
        PROVE  /\ SliceBytes(bytes, at) = [value |-> <<start, start + Len(str)>>, at |-> start + Len(str)]
               /\ Slice(bytes, <<start, start + Len(str)>>) = str /\ start \in Nat
               /\ at + Len(WriteString(str)) = start + Len(str)
    BY <2>1, <2>2, StringStands
  <2> QED
    BY <1>5, <2>2
<1>7. SliceBytes(bytes, at).at = at + Len(WriteActor(actor)) /\ Slice(bytes, SliceBytes(bytes, at).value) = str
  BY <1>2, <1>6
<1>8. ReadActor(bytes, at) = [value |-> str[1], at |-> at + Len(WriteActor(actor))]
  BY <1>7 DEF ReadActor, ActorAt
<1> QED
  BY <1>3, <1>4, <1>7, <1>8 DEF str

\* The positions of parts.
LEMMA PositionsAre ==
    ASSUME NEW parts \in Seq(Seq(Nat)), NEW at \in Nat
    PROVE  \E pos : /\ pos[0] = at /\ pos[Len(parts)] = at + Len(FlattenSeq(parts))
                    /\ \A i \in 1..Len(parts) : /\ pos[i - 1] = at + Before(parts, i)
                                                /\ pos[i] = pos[i - 1] + Len(parts[i])
<1> DEFINE n == Len(parts)
           sums == SumsOf(Lens(parts))
           pos == [i \in 0..n |-> at + sums[i]]
<1>1. /\ Lens(parts) \in Seq(Nat) /\ Len(Lens(parts)) = n /\ (\A i \in 1..n : Lens(parts)[i] = Len(parts[i]))
      /\ n \in Nat
  BY LensAre
<1>2. /\ SumOf(Lens(parts)) = sums[n] /\ sums[0] = 0 /\ (\A i \in 0..n : sums[i] \in Nat)
      /\ \A i \in 1..n : sums[i] = sums[i - 1] + Lens(parts)[i]
  BY <1>1, SumsFacts
<1>3. Len(FlattenSeq(parts)) = SumOf(Lens(parts))
  BY FlattenFacts
<1> HIDE DEF sums, n
<1>4. pos[0] = at /\ pos[n] = at + Len(FlattenSeq(parts))
  BY <1>1, <1>2, <1>3
<1>5. ASSUME NEW i \in 1..n
      PROVE  pos[i - 1] = at + Before(parts, i) /\ pos[i] = pos[i - 1] + Len(parts[i])
  <2>1. i \in 0..n /\ i - 1 \in 0..n
    BY <1>1
  <2>2. pos[i - 1] = at + sums[i - 1] /\ pos[i] = at + sums[i] /\ sums[i - 1] \in Nat /\ sums[i] \in Nat
    BY <1>2, <2>1
  <2>3. sums[i] = sums[i - 1] + Len(parts[i])
    BY <1>1, <1>2
  <2>4. Before(parts, i) = sums[i - 1]
    BY DEF Before, sums
  <2>5. Len(parts[i]) \in Nat
    BY <1>1 DEF n
  <2> HIDE DEF pos
  <2> QED
    BY <2>2, <2>3, <2>4, <2>5
<1> HIDE DEF pos
<1> QED
  BY <1>4, <1>5 DEF n

ActorParts(actors) == [i \in DOMAIN actors |-> WriteActor(actors[i])]

\* Actors are written one after the other.
LEMMA ActorPartsAre ==
    ASSUME NEW actors \in Seq(Nat)
    PROVE  /\ ActorParts(actors) \in Seq(Seq(Nat)) /\ Len(ActorParts(actors)) = Len(actors)
           /\ \A i \in 1..Len(actors) : ActorParts(actors)[i] = WriteActor(actors[i])
<1> DEFINE n == Len(actors)
           B == Seq(Nat)
           parts == ActorParts(actors)
<1>1. n \in Nat /\ DOMAIN actors = 1..n /\ \A i \in 1..n : actors[i] \in Nat
  OBVIOUS
<1>2. \A i \in 1..n : WriteActor(actors[i]) \in B
  <2> TAKE i \in 1..n
  <2>1. WriteUnsigned(1) \in Seq(Nat) /\ <<actors[i]>> \in Seq(Nat)
    BY <1>1, SmallFit
  <2> QED
    BY <2>1, ConcatBytes DEF WriteActor, ACTOR_ID_SIZE
<1> HIDE DEF B, n
<1>3. parts = [i \in 1..n |-> WriteActor(actors[i])]
  BY <1>1 DEF ActorParts
<1> HIDE DEF parts
<1>4. parts \in [1..n -> B]
  BY <1>2, <1>3
<1>5. parts \in Seq(B) /\ Len(parts) = n
  BY <1>1, <1>4, FunctionsAreSequences, Zenon
<1> QED
  BY <1>3, <1>5 DEF B, parts, n

\* Actors are read.
LEMMA ActorsStand ==
    ASSUME NEW bytes, NEW at, NEW actors \in Seq(Nat), Len(actors) \in UnsignedNumber,
           Stands(bytes, at, WriteActors(actors))
    PROVE  /\ WriteActors(actors) \in Seq(Nat)
           /\ DecodeActors(bytes, at) = [value |-> actors, at |-> at + Len(WriteActors(actors))]
<1> DEFINE w == WriteUnsigned(Len(actors))
           parts == ActorParts(actors)
           f == FlattenSeq(parts)
           n == Len(actors)
           a0 == at + Len(w)
<1>1. /\ parts \in Seq(Seq(Nat)) /\ Len(parts) = n /\ \A i \in 1..n : parts[i] = WriteActor(actors[i])
  BY ActorPartsAre
<1>2. w \in Seq(Nat) /\ at \in Nat /\ n \in Nat
  BY NumbersAlone DEF Stands
<1>3. WriteActors(actors) = w \o f
  BY DEF WriteActors, ActorParts
<1> HIDE DEF parts, w
<1>4. f \in Seq(Nat)
  BY <1>1, FlattenFacts
<1> HIDE DEF f
<1>5. Stands(bytes, at, w) /\ Stands(bytes, a0, f)
  BY <1>2, <1>3, <1>4, StandsBoth
<1>6. ReadNumber(bytes, at) = [value |-> n, at |-> a0]
  BY <1>5, NumberStands DEF w
<1>7. a0 \in Nat /\ Len(w \o f) = Len(w) + Len(f) /\ w \o f \in Seq(Nat) /\ Len(f) \in Nat /\ Len(w) \in Nat
  BY <1>2, <1>4
<1> HIDE DEF a0
<1>8. PICK pos : /\ pos[0] = a0 /\ pos[n] = a0 + Len(f)
                 /\ \A i \in 1..n : pos[i - 1] = a0 + Before(parts, i) /\ pos[i] = pos[i - 1] + Len(parts[i])
  <2>1. \E pos : /\ pos[0] = a0 /\ pos[Len(parts)] = a0 + Len(FlattenSeq(parts))
                 /\ \A i \in 1..Len(parts) : pos[i - 1] = a0 + Before(parts, i) /\ pos[i] = pos[i - 1] + Len(parts[i])
    BY <1>1, <1>7, PositionsAre
  <2> QED
    BY <1>1, <2>1 DEF f
<1>9. \A i \in 1..n : ReadActor(bytes, pos[i - 1]) = [value |-> actors[i], at |-> pos[i]]
  <2> TAKE i \in 1..n
  <2>1. Stands(bytes, a0 + Before(parts, i), parts[i])
    BY <1>1, <1>5, EachStands DEF f
  <2>2. Stands(bytes, pos[i - 1], WriteActor(actors[i])) /\ actors[i] \in Nat
    BY <1>1, <1>8, <2>1
  <2>3. ReadActor(bytes, pos[i - 1]) = [value |-> actors[i], at |-> pos[i - 1] + Len(WriteActor(actors[i]))]
    BY <2>2, ActorStands
  <2> QED
    BY <1>1, <1>8, <2>3
<1>10. ReadEach(bytes, [value |-> n, at |-> pos[0]], ReadActor) = [value |-> actors, at |-> pos[n]]
  BY <1>9, ActorsRead
<1>11. a0 + Len(f) = at + Len(w \o f)
  BY <1>2, <1>7 DEF a0
<1>12. DecodeActors(bytes, at) = ReadEach(bytes, [value |-> n, at |-> a0], ReadActor)
  BY <1>6 DEF DecodeActors, ReadMany
<1> QED
  BY <1>3, <1>7, <1>8, <1>10, <1>11, <1>12

InfoParts(columns) == [i \in DOMAIN columns |-> WriteUnsigned(columns[i].col) \o WriteUnsigned(Len(columns[i].data))]

\* Columns of which ids and lengths fit.
FittingColumns == {column \in [col : 0..128, data : Seq(Nat)] : Len(column.data) \in UnsignedNumber}

\* Ids and lengths are written one after the other.
LEMMA InfoPartsAre ==
    ASSUME NEW columns \in Seq(FittingColumns)
    PROVE  /\ InfoParts(columns) \in Seq(Seq(Nat)) /\ Len(InfoParts(columns)) = Len(columns)
           /\ \A i \in 1..Len(columns) :
                  /\ InfoParts(columns)[i] = WriteUnsigned(columns[i].col) \o WriteUnsigned(Len(columns[i].data))
                  /\ columns[i].col \in UnsignedNumber /\ Len(columns[i].data) \in UnsignedNumber
<1> DEFINE n == Len(columns)
           B == Seq(Nat)
           parts == InfoParts(columns)
           part(i) == WriteUnsigned(columns[i].col) \o WriteUnsigned(Len(columns[i].data))
<1>1. n \in Nat /\ DOMAIN columns = 1..n /\ \A i \in 1..n : columns[i] \in FittingColumns
  OBVIOUS
<1>2. \A i \in 1..n : columns[i].col \in UnsignedNumber /\ Len(columns[i].data) \in UnsignedNumber
  BY <1>1, SmallFit DEF FittingColumns
<1>3. \A i \in 1..n : part(i) \in B
  BY <1>2, NumbersAlone, ConcatBytes
<1> HIDE DEF B, n
<1>4. parts = [i \in 1..n |-> part(i)]
  BY <1>1 DEF InfoParts
<1> HIDE DEF parts
<1>5. parts \in [1..n -> B] /\ \A i \in 1..n : parts[i] = part(i)
  BY <1>3, <1>4
<1> HIDE DEF part
<1>6. parts \in Seq(B) /\ Len(parts) = n
  BY <1>1, <1>5, FunctionsAreSequences, Zenon
<1> QED
  BY <1>2, <1>5, <1>6 DEF B, parts, n, part

\* The id and length of a column are read.
LEMMA InfoStands ==
    ASSUME NEW bytes, NEW at, NEW col \in UnsignedNumber, NEW len \in UnsignedNumber,
           Stands(bytes, at, WriteUnsigned(col) \o WriteUnsigned(len))
    PROVE  ReadInfo(bytes, at) = [value |-> [col |-> col, len |-> len],
                                  at |-> at + Len(WriteUnsigned(col) \o WriteUnsigned(len))]
<1> DEFINE v == WriteUnsigned(col)
           w == WriteUnsigned(len)
<1>1. v \in Seq(Nat) /\ w \in Seq(Nat) /\ at \in Nat
  BY NumbersAlone DEF Stands
<1>2. Stands(bytes, at, v) /\ Stands(bytes, at + Len(v), w)
  BY <1>1, StandsBoth
<1>3. ReadNumber(bytes, at) = [value |-> col, at |-> at + Len(v)]
  BY <1>2, NumberStands
<1>4. ReadNumber(bytes, at + Len(v)) = [value |-> len, at |-> (at + Len(v)) + Len(w)]
  BY <1>2, NumberStands
<1> HIDE DEF v, w
<1>5. (at + Len(v)) + Len(w) = at + Len(v \o w)
  BY <1>1
<1> QED
  BY <1>3, <1>4, <1>5 DEF ReadInfo, InfoAfter, InfoAt, v, w

\* What is written of columns is read.
LEMMA InfosStand ==
    ASSUME NEW bytes, NEW at, NEW columns \in Seq(FittingColumns), Len(columns) \in UnsignedNumber,
           Stands(bytes, at, WriteColumnInfo(columns))
    PROVE  DecodeColumnInfo(bytes, at) = [value |-> InfoOf(columns), at |-> at + Len(WriteColumnInfo(columns))]
<1> DEFINE w == WriteUnsigned(Len(columns))
           parts == InfoParts(columns)
           f == FlattenSeq(parts)
           n == Len(columns)
           a0 == at + Len(w)
           info == InfoOf(columns)
           R == [col : UnsignedNumber, len : UnsignedNumber]
<1>1. /\ parts \in Seq(Seq(Nat)) /\ Len(parts) = n
      /\ \A i \in 1..n :
             /\ parts[i] = WriteUnsigned(columns[i].col) \o WriteUnsigned(Len(columns[i].data))
             /\ columns[i].col \in UnsignedNumber /\ Len(columns[i].data) \in UnsignedNumber
  BY InfoPartsAre
<1>2. w \in Seq(Nat) /\ at \in Nat /\ n \in Nat /\ DOMAIN columns = 1..n
  BY NumbersAlone DEF Stands
<1>3. WriteColumnInfo(columns) = w \o f
  BY DEF WriteColumnInfo, InfoParts
<1>a. info \in Seq(R) /\ Len(info) = n /\ \A i \in 1..n : info[i] = [col |-> columns[i].col, len |-> Len(columns[i].data)]
  <2>1. info = [i \in 1..n |-> [col |-> columns[i].col, len |-> Len(columns[i].data)]]
    BY <1>2 DEF InfoOf
  <2>2. \A i \in 1..n : [col |-> columns[i].col, len |-> Len(columns[i].data)] \in R
    BY <1>1
  <2> HIDE DEF info, R
  <2>3. info \in [1..n -> R]
    BY <2>1, <2>2
  <2>4. info \in Seq(R) /\ Len(info) = n
    BY <1>2, <2>3, FunctionsAreSequences, Zenon
  <2> QED
    BY <2>1, <2>4
<1> HIDE DEF parts, w, info, R
<1>4. f \in Seq(Nat)
  BY <1>1, FlattenFacts
<1> HIDE DEF f
<1>5. Stands(bytes, at, w) /\ Stands(bytes, a0, f)
  BY <1>2, <1>3, <1>4, StandsBoth
<1>6. ReadNumber(bytes, at) = [value |-> n, at |-> a0]
  BY <1>5, NumberStands DEF w
<1>7. a0 \in Nat /\ Len(w \o f) = Len(w) + Len(f) /\ Len(f) \in Nat /\ Len(w) \in Nat
  BY <1>2, <1>4
<1> HIDE DEF a0
<1>8. PICK pos : /\ pos[0] = a0 /\ pos[n] = a0 + Len(f)
                 /\ \A i \in 1..n : pos[i - 1] = a0 + Before(parts, i) /\ pos[i] = pos[i - 1] + Len(parts[i])
  <2>1. \E pos : /\ pos[0] = a0 /\ pos[Len(parts)] = a0 + Len(FlattenSeq(parts))
                 /\ \A i \in 1..Len(parts) : pos[i - 1] = a0 + Before(parts, i) /\ pos[i] = pos[i - 1] + Len(parts[i])
    BY <1>1, <1>7, PositionsAre
  <2> QED
    BY <1>1, <2>1 DEF f
<1>9. \A i \in 1..n : ReadInfo(bytes, pos[i - 1]) = [value |-> info[i], at |-> pos[i]]
  <2> TAKE i \in 1..n
  <2> DEFINE c == columns[i].col
             l == Len(columns[i].data)
  <2>1. Stands(bytes, a0 + Before(parts, i), parts[i])
    BY <1>1, <1>5, EachStands DEF f
  <2>2. Stands(bytes, pos[i - 1], WriteUnsigned(c) \o WriteUnsigned(l)) /\ c \in UnsignedNumber /\ l \in UnsignedNumber
    BY <1>1, <1>8, <2>1
  <2>3. info[i] = [col |-> c, len |-> l] /\ parts[i] = WriteUnsigned(c) \o WriteUnsigned(l)
    BY <1>1, <1>a
  <2> HIDE DEF c, l
  <2>4. ReadInfo(bytes, pos[i - 1]) = [value |-> [col |-> c, len |-> l],
                                       at |-> pos[i - 1] + Len(WriteUnsigned(c) \o WriteUnsigned(l))]
    BY <2>2, InfoStands
  <2> QED
    BY <1>8, <2>3, <2>4
<1>10. ReadEach(bytes, [value |-> n, at |-> pos[0]], ReadInfo) = [value |-> info, at |-> pos[n]]
  <2>1. info \in Seq(R) /\ \A i \in 1..Len(info) : ReadInfo(bytes, pos[i - 1]) = [value |-> info[i], at |-> pos[i]]
    BY <1>9, <1>a
  <2>2. ReadEach(bytes, [value |-> Len(info), at |-> pos[0]], ReadInfo) = [value |-> info, at |-> pos[Len(info)]]
    BY <2>1, InfosRead
  <2> QED
    BY <2>2, <1>a
<1>11. a0 + Len(f) = at + Len(w \o f)
  BY <1>2, <1>7 DEF a0
<1>12. DecodeColumnInfo(bytes, at) = ReadEach(bytes, [value |-> n, at |-> a0], ReadInfo)
  BY <1>6 DEF DecodeColumnInfo, ReadMany
<1> QED
  BY <1>3, <1>8, <1>10, <1>11, <1>12 DEF info

-----------------------------------------------------------------------------
(* The parts of a body are bytes *)

\* The bytes of the columns, and what tells their ids and lengths.
LEMMA ColumnsFitting ==
    ASSUME NEW c \in ChangeType, NumbersFit(c)
    PROVE  /\ ColumnsIn(c) \in Seq(FittingColumns) /\ Len(ColumnsIn(c)) \in UnsignedNumber
           /\ DatasOf(c) \in Seq(Seq(Nat)) /\ Len(DatasOf(c)) = Len(ColumnsIn(c))
           /\ \A i \in 1..Len(ColumnsIn(c)) : DatasOf(c)[i] = ColumnsIn(c)[i].data
           /\ WriteColumnInfo(ColumnsIn(c)) \in Seq(Nat) /\ FlattenSeq(DatasOf(c)) \in Seq(Nat)
           /\ OpsBytes(c) \in Seq(Nat)
<1> DEFINE columns == ColumnsIn(c)
           n == Len(columns)
           B == Seq(Nat)
<1>1. /\ columns \in Seq(Columns14) /\ n <= 14
      /\ \A i \in 1..n : columns[i].data = ColumnData(c.operations, ActorsOf(c), columns[i].col)
  BY ColumnsOfChange
<1> HIDE DEF columns
<1>2. n \in Nat /\ DOMAIN columns = 1..n /\ \A i \in 1..n : columns[i] \in Columns14
  BY <1>1
<1>3. \A i \in 1..n : columns[i] \in FittingColumns
  <2> TAKE i \in 1..n
  <2>1. columns[i] \in [col : ToSet(ColumnIds), data : Seq(Nat)]
    BY <1>2 DEF Columns14
  <2>2. PICK k \in 1..14 : columns[i].col = ColumnIds[k]
    BY <2>1, IdsInOrder DEF ToSet
  <2>a. ColumnIds[k] \in 1..127
    BY IdsInOrder
  <2>3. columns[i].col \in 0..128
    BY <2>2, <2>a
  <2>4. Len(ColumnData(c.operations, ActorsOf(c), columns[i].col)) \in UnsignedNumber
    BY <2>1 DEF NumbersFit, PartsFit, ColumnsFit
  <2> QED
    BY <1>1, <2>1, <2>3, <2>4 DEF FittingColumns
<1>4. columns \in Seq(FittingColumns)
  <2> HIDE DEF n
  <2>1. columns \in [1..n -> FittingColumns]
    BY <1>1, <1>2, <1>3
  <2> QED
    BY <1>2, <2>1, FunctionsAreSequences, Zenon
<1>5. n \in UnsignedNumber
  <2>0. n \in Nat /\ n <= 14
    BY <1>1, <1>2
  <2> HIDE DEF n
  <2>1. n \in 0..128
    BY <2>0
  <2> QED
    BY <2>1, SmallFit
<1>6. /\ DatasOf(c) \in Seq(B) /\ Len(DatasOf(c)) = n /\ \A i \in 1..n : DatasOf(c)[i] = columns[i].data
  <2>1. DatasOf(c) = [i \in 1..n |-> columns[i].data]
    BY <1>2 DEF DatasOf, columns
  <2>2. \A i \in 1..n : columns[i].data \in B
    BY <1>2 DEF Columns14
  <2> HIDE DEF B
  <2>3. DatasOf(c) \in [1..n -> B]
    BY <2>1, <2>2
  <2>4. DatasOf(c) \in Seq(B) /\ Len(DatasOf(c)) = n
    BY <1>2, <2>3, FunctionsAreSequences, Zenon
  <2> QED
    BY <2>1, <2>4
<1>7. FlattenSeq(DatasOf(c)) \in Seq(Nat)
  BY <1>6, FlattenFacts
<1>8. WriteColumnInfo(columns) \in Seq(Nat)
  <2>1. InfoParts(columns) \in Seq(Seq(Nat))
    BY <1>4, InfoPartsAre
  <2>2. FlattenSeq(InfoParts(columns)) \in Seq(Nat)
    BY <2>1, FlattenFacts
  <2>3. WriteUnsigned(n) \in Seq(Nat)
    BY <1>5, NumbersAlone
  <2> QED
    BY <2>2, <2>3, ConcatBytes DEF WriteColumnInfo, InfoParts
<1>9. OpsBytes(c) \in Seq(Nat)
  BY <1>7, <1>8, ConcatBytes DEF OpsBytes, columns
<1> QED
  BY <1>4, <1>5, <1>6, <1>7, <1>8, <1>9 DEF columns

\* What stands before the columns, part after part.
LEMMA HeadIsBytes ==
    ASSUME NEW c \in ChangeType, NumbersFit(c)
    PROVE  /\ WriteUnsigned(Len(c.deps)) \o c.deps \in Seq(Nat) /\ WriteActor(c.actor_id) \in Seq(Nat)
           /\ WriteUnsigned(c.seq) \in Seq(Nat) /\ WriteUnsigned(c.start_op) \in Seq(Nat)
           /\ WriteSigned(c.time) \in Seq(Nat) /\ WriteString(c.message) \in Seq(Nat)
           /\ BeforeMessage(c) \in Seq(Nat) /\ HeadOf(c) \in Seq(Nat)
           /\ OthersOf(c) \in Seq(Nat)
<1>1. /\ c.actor_id \in Nat /\ c.seq \in UnsignedNumber /\ c.start_op \in UnsignedNumber /\ c.time \in SignedNumber
      /\ c.message \in Seq(Nat) /\ c.deps \in Seq(Nat)
  BY DEF ChangeType
<1>2. Len(c.deps) \in UnsignedNumber /\ Len(c.message) \in UnsignedNumber
  BY DEF NumbersFit, PartsFit
<1>3. WriteUnsigned(Len(c.deps)) \in Seq(Nat) /\ WriteUnsigned(c.seq) \in Seq(Nat)
      /\ WriteUnsigned(c.start_op) \in Seq(Nat) /\ WriteSigned(c.time) \in Seq(Nat)
      /\ WriteUnsigned(Len(c.message)) \in Seq(Nat)
  BY <1>1, <1>2, NumbersAlone
<1>4. WriteUnsigned(Len(c.deps)) \o c.deps \in Seq(Nat)
  BY <1>1, <1>3, ConcatBytes
<1>5. WriteActor(c.actor_id) \in Seq(Nat)
  <2>1. WriteUnsigned(ACTOR_ID_SIZE) \in Seq(Nat) /\ <<c.actor_id>> \in Seq(Nat)
    BY <1>1, SmallFit DEF ACTOR_ID_SIZE
  <2> QED
    BY <2>1, ConcatBytes DEF WriteActor
<1>6. WriteString(c.message) \in Seq(Nat)
  BY <1>1, <1>3, ConcatBytes DEF WriteString
<1>7. BeforeMessage(c) \in Seq(Nat)
  BY <1>3, <1>4, <1>5, ConcatBytes DEF BeforeMessage
<1>8. HeadOf(c) \in Seq(Nat)
  BY <1>6, <1>7, ConcatBytes DEF HeadOf
<1>9. OthersOf(c) \in Seq(Nat)
  <2>1. Tail(ActorsOf(c)) \in Seq(Nat) /\ Len(Tail(ActorsOf(c))) \in UnsignedNumber
    BY ActorsOfChange
  <2>2. ActorParts(Tail(ActorsOf(c))) \in Seq(Seq(Nat))
    BY <2>1, ActorPartsAre
  <2>3. FlattenSeq(ActorParts(Tail(ActorsOf(c)))) \in Seq(Nat) /\ WriteUnsigned(Len(Tail(ActorsOf(c)))) \in Seq(Nat)
    BY <2>1, <2>2, FlattenFacts, NumbersAlone
  <2> QED
    BY <2>3, ConcatBytes DEF OthersOf, WriteActors, ActorParts
<1> QED
  BY <1>3, <1>4, <1>5, <1>6, <1>7, <1>8, <1>9

\* A body, and its length.
LEMMA BodyIsBytes ==
    ASSUME NEW c \in ChangeType, NumbersFit(c)
    PROVE  /\ Body(c) \in Seq(Nat)
           /\ HeadOf(c) \o OthersOf(c) \in Seq(Nat) /\ HeadOf(c) \o OthersOf(c) \o OpsBytes(c) \in Seq(Nat)
           /\ Len(HeadOf(c) \o OthersOf(c)) = Len(HeadOf(c)) + Len(OthersOf(c))
           /\ Len(HeadOf(c) \o OthersOf(c) \o OpsBytes(c)) = Len(HeadOf(c)) + Len(OthersOf(c)) + Len(OpsBytes(c))
           /\ Len(Body(c)) = Len(HeadOf(c)) + Len(OthersOf(c)) + Len(OpsBytes(c)) + Len(c.extra_bytes)
           /\ Len(OpsBytes(c)) = Len(WriteColumnInfo(ColumnsIn(c))) + Len(FlattenSeq(DatasOf(c)))
           /\ Len(HeadOf(c)) = Len(BeforeMessage(c)) + Len(WriteString(c.message))
           /\ Len(WriteString(c.message)) = Len(WriteUnsigned(Len(c.message))) + Len(c.message)
<1> DEFINE h == HeadOf(c)
           o == OthersOf(c)
           p == OpsBytes(c)
           x == c.extra_bytes
<1>1. h \in Seq(Nat) /\ o \in Seq(Nat) /\ p \in Seq(Nat) /\ x \in Seq(Nat)
  BY HeadIsBytes, ColumnsFitting DEF ChangeType
<1>2. Len(p) = Len(WriteColumnInfo(ColumnsIn(c))) + Len(FlattenSeq(DatasOf(c)))
  BY ColumnsFitting DEF OpsBytes
<1>3. Len(h) = Len(BeforeMessage(c)) + Len(WriteString(c.message))
  BY HeadIsBytes DEF HeadOf
<1>4. Len(WriteString(c.message)) = Len(WriteUnsigned(Len(c.message))) + Len(c.message)
  <2>1. WriteUnsigned(Len(c.message)) \in Seq(Nat) /\ c.message \in Seq(Nat)
    BY NumbersAlone DEF ChangeType, NumbersFit, PartsFit
  <2> QED
    BY <2>1 DEF WriteString
<1>5. Body(c) = h \o o \o p \o x
  BY DEF Body
<1> HIDE DEF h, o, p, x
<1>6. h \o o \in Seq(Nat) /\ Len(h \o o) = Len(h) + Len(o)
  BY <1>1
<1>7. (h \o o) \o p \in Seq(Nat) /\ Len((h \o o) \o p) = Len(h \o o) + Len(p)
  BY <1>1, <1>6
<1>8. ((h \o o) \o p) \o x \in Seq(Nat) /\ Len(((h \o o) \o p) \o x) = Len((h \o o) \o p) + Len(x)
  BY <1>1, <1>7
<1> QED
  BY <1>2, <1>3, <1>4, <1>5, <1>6, <1>7, <1>8 DEF h, o, p, x

-----------------------------------------------------------------------------
(* A body is read *)

\* The numbers before the message are read.
LEMMA BeforeStands ==
    ASSUME NEW c \in ChangeType, NumbersFit(c), NEW bytes, NEW at, Stands(bytes, at, BeforeMessage(c))
    PROVE  \E d1, d2, d3, d4, d5 :
               /\ DecodeHashes(bytes, at) = [value |-> c.deps, at |-> d1]
               /\ Slice(bytes, SliceBytes(bytes, d1).value) = <<c.actor_id>> /\ SliceBytes(bytes, d1).at = d2
               /\ ReadNumber(bytes, d2) = [value |-> c.seq, at |-> d3]
               /\ ReadNumber(bytes, d3) = [value |-> c.start_op, at |-> d4]
               /\ ReadTime(bytes, d4) = [value |-> c.time, at |-> d5]
               /\ d5 = at + Len(BeforeMessage(c))
<1> DEFINE D == WriteUnsigned(Len(c.deps)) \o c.deps
           A == WriteActor(c.actor_id)
           q == WriteUnsigned(c.seq)
           o == WriteUnsigned(c.start_op)
           t == WriteSigned(c.time)
           d1 == at + Len(D)
           d2 == d1 + Len(A)
           d3 == d2 + Len(q)
           d4 == d3 + Len(o)
           d5 == d4 + Len(t)
<1>1. D \in Seq(Nat) /\ A \in Seq(Nat) /\ q \in Seq(Nat) /\ o \in Seq(Nat) /\ t \in Seq(Nat)
  BY HeadIsBytes
<1>2. BeforeMessage(c) = (((D \o A) \o q) \o o) \o t
  BY DEF BeforeMessage
<1>3. /\ c.actor_id \in Nat /\ c.seq \in UnsignedNumber /\ c.start_op \in UnsignedNumber /\ c.time \in SignedNumber
      /\ c.deps \in Seq(Nat) /\ Len(c.deps) \in UnsignedNumber
  BY DEF ChangeType, NumbersFit, PartsFit
<1>4. Stands(bytes, at, (((D \o A) \o q) \o o) \o t)
  BY <1>2
<1>5. /\ Stands(bytes, at, D) /\ Stands(bytes, d1, A) /\ Stands(bytes, d2, q) /\ Stands(bytes, d3, o)
      /\ Stands(bytes, d4, t) /\ d5 = at + Len((((D \o A) \o q) \o o) \o t)
  <2> HIDE DEF D, A, q, o, t
  <2>1. /\ D \o A \in Seq(Nat) /\ Len(D \o A) = Len(D) + Len(A)
        /\ (D \o A) \o q \in Seq(Nat) /\ Len((D \o A) \o q) = Len(D \o A) + Len(q)
        /\ ((D \o A) \o q) \o o \in Seq(Nat) /\ Len(((D \o A) \o q) \o o) = Len((D \o A) \o q) + Len(o)
        /\ Len((((D \o A) \o q) \o o) \o t) = Len(((D \o A) \o q) \o o) + Len(t)
    BY <1>1
  <2>2. Len(D) \in Nat /\ Len(A) \in Nat /\ Len(q) \in Nat /\ Len(o) \in Nat /\ Len(t) \in Nat /\ at \in Nat
    BY <1>1, <1>4 DEF Stands
  <2>3. /\ at + Len(D \o A) = d2 /\ at + Len((D \o A) \o q) = d3 /\ at + Len(((D \o A) \o q) \o o) = d4
        /\ d5 = at + Len((((D \o A) \o q) \o o) \o t)
    BY <2>1, <2>2
  <2>4. Stands(bytes, at, ((D \o A) \o q) \o o) /\ Stands(bytes, at + Len(((D \o A) \o q) \o o), t)
    BY <1>1, <1>4, <2>1, StandsBoth
  <2>5. Stands(bytes, at, (D \o A) \o q) /\ Stands(bytes, at + Len((D \o A) \o q), o)
    BY <1>1, <2>4, <2>1, StandsBoth
  <2>6. Stands(bytes, at, D \o A) /\ Stands(bytes, at + Len(D \o A), q)
    BY <1>1, <2>5, <2>1, StandsBoth
  <2>7. Stands(bytes, at, D) /\ Stands(bytes, at + Len(D), A)
    BY <1>1, <2>6, StandsBoth
  <2> HIDE DEF d2, d3, d4, d5
  <2> QED
    BY <2>3, <2>4, <2>5, <2>6, <2>7
<1> HIDE DEF d1, d2, d3, d4, d5
<1>6. DecodeHashes(bytes, at) = [value |-> c.deps, at |-> d1]
  BY <1>3, <1>5, HashesStand DEF d1
<1>7. Slice(bytes, SliceBytes(bytes, d1).value) = <<c.actor_id>> /\ SliceBytes(bytes, d1).at = d2
  BY <1>3, <1>5, ActorStands DEF d2
<1>8. ReadNumber(bytes, d2) = [value |-> c.seq, at |-> d3]
  BY <1>3, <1>5, NumberStands DEF d3
<1>9. ReadNumber(bytes, d3) = [value |-> c.start_op, at |-> d4]
  BY <1>3, <1>5, NumberStands DEF d4
<1>10. ReadTime(bytes, d4) = [value |-> c.time, at |-> d5]
  BY <1>3, <1>5, TimeStands DEF d5
<1> QED
  BY <1>2, <1>5, <1>6, <1>7, <1>8, <1>9, <1>10

\* Where the message starts, and the columns.
MessageAt(c, start) == start + Len(BeforeMessage(c)) + Len(WriteUnsigned(Len(c.message)))
MessageEnd(c, start) == start + Len(HeadOf(c))
ColumnsAt(c, start) == start + Len(HeadOf(c)) + Len(OthersOf(c)) + Len(WriteColumnInfo(ColumnsIn(c)))

\* What is read of a body that stands somewhere.
LEMMA BodyRead ==
    ASSUME NEW c \in ChangeType, NumbersFit(c), NEW bytes, NEW start, Stands(bytes, start, Body(c))
    PROVE  \E actor :
               /\ Slice(bytes, actor) = <<c.actor_id>>
               /\ ReadBody(bytes, start) =
                      [deps |-> c.deps, actor |-> actor, seq |-> c.seq, start_op |-> c.start_op, time |-> c.time,
                       message |-> <<MessageAt(c, start), MessageEnd(c, start)>>,
                       others |-> Tail(ActorsOf(c)), info |-> InfoOf(ColumnsIn(c)), at |-> ColumnsAt(c, start)]
               /\ Slice(bytes, <<MessageAt(c, start), MessageEnd(c, start)>>) = c.message
               /\ Stands(bytes, ColumnsAt(c, start), FlattenSeq(DatasOf(c)))
               /\ Stands(bytes, ColumnsAt(c, start) + Len(FlattenSeq(DatasOf(c))), c.extra_bytes)
<1> DEFINE h == HeadOf(c)
           o == OthersOf(c)
           p == OpsBytes(c)
           x == c.extra_bytes
           b == BeforeMessage(c)
           m == WriteString(c.message)
           w == WriteColumnInfo(ColumnsIn(c))
           f == FlattenSeq(DatasOf(c))
           e1 == start + Len(h)
           e2 == e1 + Len(o)
           e3 == e2 + Len(w)
           e4 == e3 + Len(f)
<1>1. /\ h \in Seq(Nat) /\ o \in Seq(Nat) /\ p \in Seq(Nat) /\ x \in Seq(Nat) /\ b \in Seq(Nat) /\ m \in Seq(Nat)
      /\ w \in Seq(Nat) /\ f \in Seq(Nat)
  BY HeadIsBytes, ColumnsFitting DEF ChangeType
<1>2. Stands(bytes, start, ((h \o o) \o p) \o x) /\ h = b \o m /\ p = w \o f
  BY DEF Body, HeadOf, OpsBytes
<1>3. /\ Stands(bytes, start, b) /\ Stands(bytes, start + Len(b), m) /\ start + Len(b \o m) = e1
      /\ Stands(bytes, e1, o) /\ Stands(bytes, e2, w) /\ Stands(bytes, e3, f) /\ Stands(bytes, e4, x)
  <2> HIDE DEF h, o, p, x, b, m, w, f
  <2>1. /\ h \o o \in Seq(Nat) /\ Len(h \o o) = Len(h) + Len(o)
        /\ (h \o o) \o p \in Seq(Nat) /\ Len((h \o o) \o p) = Len(h \o o) + Len(p)
        /\ Len(p) = Len(w) + Len(f)
    BY <1>1, <1>2
  <2>2. Len(h) \in Nat /\ Len(o) \in Nat /\ Len(w) \in Nat /\ Len(f) \in Nat /\ start \in Nat
    BY <1>1, <1>2 DEF Stands
  <2>3. start + Len(h \o o) = e2 /\ start + Len((h \o o) \o p) = e4
    BY <2>1, <2>2
  <2>4. Stands(bytes, start, (h \o o) \o p) /\ Stands(bytes, start + Len((h \o o) \o p), x)
    BY <1>1, <1>2, <2>1, StandsBoth
  <2>5. Stands(bytes, start, h \o o) /\ Stands(bytes, start + Len(h \o o), p)
    BY <1>1, <2>1, <2>4, StandsBoth
  <2>6. Stands(bytes, start, h) /\ Stands(bytes, start + Len(h), o)
    BY <1>1, <2>5, StandsBoth
  <2>7. Stands(bytes, start, b \o m)
    BY <1>2, <2>6
  <2>8. Stands(bytes, start, b) /\ Stands(bytes, start + Len(b), m)
    BY <1>1, <2>7, StandsBoth
  <2> HIDE DEF e2, e3, e4
  <2>9. Stands(bytes, e2, w \o f)
    BY <1>2, <2>3, <2>5
  <2>10. Stands(bytes, e2, w) /\ Stands(bytes, e2 + Len(w), f)
    BY <1>1, <2>9, StandsBoth
  <2> QED
    BY <1>2, <2>3, <2>4, <2>6, <2>8, <2>10 DEF e3
<1>4. PICK d1, d2, d3, d4, d5 :
          /\ DecodeHashes(bytes, start) = [value |-> c.deps, at |-> d1]
          /\ Slice(bytes, SliceBytes(bytes, d1).value) = <<c.actor_id>> /\ SliceBytes(bytes, d1).at = d2
          /\ ReadNumber(bytes, d2) = [value |-> c.seq, at |-> d3]
          /\ ReadNumber(bytes, d3) = [value |-> c.start_op, at |-> d4]
          /\ ReadTime(bytes, d4) = [value |-> c.time, at |-> d5]
          /\ d5 = start + Len(BeforeMessage(c))
  BY <1>3, BeforeStands
<1>5. /\ SliceBytes(bytes, d5) = [value |-> <<MessageAt(c, start), e1>>, at |-> e1]
      /\ Slice(bytes, <<MessageAt(c, start), e1>>) = c.message
  <2> DEFINE s == MessageAt(c, start)
  <2>1. c.message \in Seq(Nat) /\ Len(c.message) \in UnsignedNumber /\ s = d5 + Len(WriteUnsigned(Len(c.message)))
    BY <1>4 DEF ChangeType, NumbersFit, PartsFit, MessageAt
  <2>2. Stands(bytes, d5, WriteString(c.message))
    BY <1>3, <1>4
  <2> HIDE DEF s
  <2>3. /\ SliceBytes(bytes, d5) = [value |-> <<s, s + Len(c.message)>>, at |-> s + Len(c.message)]
        /\ Slice(bytes, <<s, s + Len(c.message)>>) = c.message /\ s \in Nat
        /\ d5 + Len(WriteString(c.message)) = s + Len(c.message)
    BY <2>1, <2>2, StringStands
  <2>4. d5 + Len(WriteString(c.message)) = e1
    <3> HIDE DEF h, b, m, e1
    <3>1. Len(b \o m) = Len(b) + Len(m) /\ Len(b) \in Nat /\ Len(m) \in Nat /\ start \in Nat
      <4>1. b \in Seq(Nat) /\ m \in Seq(Nat)
        BY <1>1
      <4>2. start \in Nat
        BY <1>3 DEF Stands
      <4>3. Len(b \o m) = Len(b) + Len(m)
        BY <4>1
      <4>4. Len(b) \in Nat /\ Len(m) \in Nat
        BY <4>1
      <4> QED
        BY <4>2, <4>3, <4>4
    <3>2. d5 = start + Len(b)
      BY <1>4 DEF b
    <3> QED
      BY <1>3, <3>1, <3>2 DEF m
  <2> HIDE DEF e1
  <2> QED
    BY <2>3, <2>4 DEF s
<1>6. DecodeActors(bytes, e1) = [value |-> Tail(ActorsOf(c)), at |-> e2]
  <2>1. Tail(ActorsOf(c)) \in Seq(Nat) /\ Len(Tail(ActorsOf(c))) \in UnsignedNumber
    BY ActorsOfChange
  <2>2. Stands(bytes, e1, WriteActors(Tail(ActorsOf(c))))
    BY <1>3 DEF OthersOf
  <2> HIDE DEF e1
  <2> QED
    BY <2>1, <2>2, ActorsStand DEF OthersOf
<1>7. DecodeColumnInfo(bytes, e2) = [value |-> InfoOf(ColumnsIn(c)), at |-> e3]
  <2>1. ColumnsIn(c) \in Seq(FittingColumns) /\ Len(ColumnsIn(c)) \in UnsignedNumber
    BY ColumnsFitting
  <2> HIDE DEF e2
  <2> QED
    BY <1>3, <2>1, InfosStand
<1> DEFINE a == SliceBytes(bytes, d1).value
<1>8. ReadBody(bytes, start) =
          [deps |-> c.deps, actor |-> a, seq |-> c.seq, start_op |-> c.start_op, time |-> c.time,
           message |-> <<MessageAt(c, start), e1>>,
           others |-> Tail(ActorsOf(c)), info |-> InfoOf(ColumnsIn(c)), at |-> e3]
  <2> DEFINE s == MessageAt(c, start)
             others == Tail(ActorsOf(c))
             info == InfoOf(ColumnsIn(c))
  <2> HIDE DEF e1, e2, e3, a, s, others, info
  <2>1. DecodeHashes(bytes, start).value = c.deps /\ DecodeHashes(bytes, start).at = d1
    BY <1>4
  <2>2. SliceBytes(bytes, d1).value = a /\ SliceBytes(bytes, d1).at = d2
    BY <1>4 DEF a
  <2>3. ReadNumber(bytes, d2).value = c.seq /\ ReadNumber(bytes, d2).at = d3
    BY <1>4
  <2>4. ReadNumber(bytes, d3).value = c.start_op /\ ReadNumber(bytes, d3).at = d4
    BY <1>4
  <2>5. ReadTime(bytes, d4).value = c.time /\ ReadTime(bytes, d4).at = d5
    BY <1>4
  <2>6. SliceBytes(bytes, d5).value = <<s, e1>> /\ SliceBytes(bytes, d5).at = e1
    BY <1>5 DEF s
  <2>7. DecodeActors(bytes, e1).value = others /\ DecodeActors(bytes, e1).at = e2
    BY <1>6 DEF others
  <2>8. DecodeColumnInfo(bytes, e2).value = info /\ DecodeColumnInfo(bytes, e2).at = e3
    BY <1>7 DEF info
  <2>9. ReadBody(bytes, start) =
            [deps |-> c.deps, actor |-> a, seq |-> c.seq, start_op |-> c.start_op, time |-> c.time,
             message |-> <<s, e1>>, others |-> others, info |-> info, at |-> e3]
    BY <2>1, <2>2, <2>3, <2>4, <2>5, <2>6, <2>7, <2>8, Zenon DEF ReadBody
  <2> QED
    BY <2>9 DEF s, others, info
<1>9. e1 = MessageEnd(c, start) /\ e3 = ColumnsAt(c, start)
  BY DEF MessageEnd, ColumnsAt
<1> HIDE DEF e1, e3, a, f, x
<1>10. Stands(bytes, ColumnsAt(c, start), f) /\ Stands(bytes, ColumnsAt(c, start) + Len(f), x)
  BY <1>3, <1>9 DEF e4
<1>11. Slice(bytes, a) = <<c.actor_id>>
  BY <1>4 DEF a
<1> QED
  BY <1>5, <1>8, <1>9, <1>10, <1>11 DEF f, x

-----------------------------------------------------------------------------
(* A block is read *)

\* What is hashed of a block, and where its body starts.
HashedOf(body) == <<BLOCK_TYPE_CHANGE>> \o WriteUnsigned(Len(body)) \o body
StartOf(body)  == HEADER_BYTES + Len(WriteUnsigned(Len(body)))

\* The bytes of a block: a number is a byte, and each part of a checksum.
BlockBytes(body) == Nat \cup {Checksum(HashedOf(body))[i] : i \in 1..4}

\* Two sequences one after the other.
LEMMA TwoJoined ==
    ASSUME NEW S, NEW a \in Seq(S), NEW b \in Seq(S)
    PROVE  /\ a \o b \in Seq(S) /\ Len(a \o b) = Len(a) + Len(b)
           /\ \A k \in 1..Len(a) : (a \o b)[k] = a[k]
           /\ \A k \in 1..Len(b) : (a \o b)[Len(a) + k] = b[k]
OBVIOUS

\* Three sequences one after the other.
LEMMA ThreeJoined ==
    ASSUME NEW S, NEW a \in Seq(S), NEW b \in Seq(S), NEW c \in Seq(S)
    PROVE  /\ (a \o b) \o c \in Seq(S) /\ Len((a \o b) \o c) = Len(a) + Len(b) + Len(c)
           /\ \A k \in 1..Len(a) : ((a \o b) \o c)[k] = a[k]
           /\ \A k \in 1..Len(b) : ((a \o b) \o c)[Len(a) + k] = b[k]
           /\ \A k \in 1..Len(c) : ((a \o b) \o c)[Len(a) + Len(b) + k] = c[k]
<1> DEFINE ab == a \o b
           l == Len(a)
           m == Len(b)
           n == Len(c)
<1>1. /\ ab \in Seq(S) /\ Len(ab) = l + m /\ l \in Nat /\ m \in Nat /\ n \in Nat
      /\ \A k \in 1..l : ab[k] = a[k]
      /\ \A k \in 1..m : ab[l + k] = b[k]
  OBVIOUS
<1> HIDE DEF ab
<1>2. /\ ab \o c \in Seq(S) /\ Len(ab \o c) = Len(ab) + n
      /\ \A k \in 1..Len(ab) : (ab \o c)[k] = ab[k]
      /\ \A k \in 1..n : (ab \o c)[Len(ab) + k] = c[k]
  <2>1. ab \in Seq(S)
    BY <1>1
  <2> QED
    BY <2>1, TwoJoined
<1> HIDE DEF l, m, n
<1>3. /\ \A k \in 1..l : k \in 1..(l + m)
      /\ \A k \in 1..m : l + k \in 1..(l + m)
  BY <1>1
<1>4. /\ \A k \in 1..l : (ab \o c)[k] = a[k]
      /\ \A k \in 1..m : (ab \o c)[l + k] = b[k]
      /\ \A k \in 1..n : (ab \o c)[l + m + k] = c[k]
  BY <1>1, <1>2, <1>3
<1>5. ab \o c \in Seq(S) /\ Len(ab \o c) = l + m + n
  BY <1>1, <1>2
<1> QED
  BY <1>4, <1>5 DEF ab, l, m, n

\* What is hashed: the type, the length, and the body.
LEMMA HashedIs ==
    ASSUME NEW body \in Seq(Nat), Len(body) \in UnsignedNumber
    PROVE  /\ HashedOf(body) \in Seq(Nat) /\ WriteUnsigned(Len(body)) \in Seq(Nat)
           /\ HashedOf(body)[1] = BLOCK_TYPE_CHANGE
           /\ Len(HashedOf(body)) = 1 + Len(WriteUnsigned(Len(body)) \o body)
           /\ \A k \in 1..Len(WriteUnsigned(Len(body)) \o body) :
                  HashedOf(body)[1 + k] = (WriteUnsigned(Len(body)) \o body)[k]
<1> DEFINE w == WriteUnsigned(Len(body))
           t == <<BLOCK_TYPE_CHANGE>>
<1>1. w \in Seq(Nat) /\ t \in Seq(Nat) /\ Len(t) = 1 /\ t[1] = BLOCK_TYPE_CHANGE
  BY NumbersAlone DEF BLOCK_TYPE_CHANGE
<1>2. HashedOf(body) = (t \o w) \o body
  BY DEF HashedOf
<1> HIDE DEF w, t
<1>3. HashedOf(body) = t \o (w \o body)
  BY <1>1, <1>2, ConcatFacts
<1>4. w \o body \in Seq(Nat)
  BY <1>1, ConcatBytes
<1> DEFINE r == w \o body
<1> HIDE DEF r
<1>5. /\ t \o r \in Seq(Nat) /\ (t \o r)[1] = t[1] /\ Len(t \o r) = 1 + Len(r)
      /\ \A k \in 1..Len(r) : (t \o r)[1 + k] = r[k]
  <2>1. t \in Seq(Nat) /\ r \in Seq(Nat)
    BY <1>1, <1>4 DEF r
  <2>2. /\ t \o r \in Seq(Nat) /\ Len(t \o r) = Len(t) + Len(r)
        /\ \A k \in 1..Len(t) : (t \o r)[k] = t[k]
        /\ \A k \in 1..Len(r) : (t \o r)[Len(t) + k] = r[k]
    BY <2>1, TwoJoined
  <2> QED
    BY <1>1, <2>2
<1> QED
  BY <1>1, <1>3, <1>5 DEF r, w

\* Of a block, everything a decoder looks at.
LEMMA BlockIs ==
    ASSUME NEW body \in Seq(Nat), Len(body) \in UnsignedNumber, NEW bytes, bytes = Block(BLOCK_TYPE_CHANGE, body)
    PROVE  /\ bytes \in Seq(BlockBytes(body)) /\ Len(bytes) = StartOf(body) + Len(body)
           /\ Len(bytes) = PREAMBLE_BYTES + Len(HashedOf(body)) /\ Len(bytes) > HEADER_BYTES
           /\ SubSeq(bytes, 1, 4) = MAGIC_BYTES /\ SubSeq(bytes, 5, 8) = Checksum(HashedOf(body))
           /\ Hashed(bytes) = HashedOf(body) /\ bytes[HEADER_BYTES] = BLOCK_TYPE_CHANGE
           /\ ReadNumber(bytes, HEADER_BYTES) = [value |-> Len(body), at |-> StartOf(body)]
           /\ Stands(bytes, HEADER_BYTES, WriteUnsigned(Len(body))) /\ Stands(bytes, StartOf(body), body)
<1> DEFINE S == BlockBytes(body)
           h == HashedOf(body)
           m == MAGIC_BYTES
           k == Checksum(h)
           w == WriteUnsigned(Len(body))
           r == w \o body
<1>1. /\ h \in Seq(Nat) /\ w \in Seq(Nat) /\ h[1] = BLOCK_TYPE_CHANGE /\ Len(h) = 1 + Len(r)
      /\ \A j \in 1..Len(r) : h[1 + j] = r[j]
  BY HashedIs
<1>2. m \in Seq(S) /\ Len(m) = 4
  BY DEF MAGIC_BYTES, BlockBytes
<1>3. k \in Seq(S) /\ Len(k) = 4
  BY DEF Checksum, BlockBytes
<1>4. h \in Seq(S)
  BY <1>1, SeqWithin DEF BlockBytes
<1>5. bytes = (m \o k) \o h
  BY DEF Block, Sealed, HashedOf
<1>6. r \in Seq(Nat) /\ Len(r) = Len(w) + Len(body) /\ Len(w) \in Nat /\ Len(body) \in Nat
  BY <1>1
<1> HIDE DEF m, k, h, w, S
<1>7. /\ bytes \in Seq(S) /\ Len(bytes) = Len(m) + Len(k) + Len(h)
      /\ \A j \in 1..Len(m) : bytes[j] = m[j]
      /\ \A j \in 1..Len(k) : bytes[Len(m) + j] = k[j]
      /\ \A j \in 1..Len(h) : bytes[Len(m) + Len(k) + j] = h[j]
  <2>1. /\ (m \o k) \o h \in Seq(S) /\ Len((m \o k) \o h) = Len(m) + Len(k) + Len(h)
        /\ \A j \in 1..Len(m) : ((m \o k) \o h)[j] = m[j]
        /\ \A j \in 1..Len(k) : ((m \o k) \o h)[Len(m) + j] = k[j]
        /\ \A j \in 1..Len(h) : ((m \o k) \o h)[Len(m) + Len(k) + j] = h[j]
    <3>1. m \in Seq(S) /\ k \in Seq(S) /\ h \in Seq(S)
      BY <1>2, <1>3, <1>4
    <3> QED
      BY <3>1, ThreeJoined
  <2> QED
    BY <1>5, <2>1
<1>8. /\ Len(bytes) = 8 + Len(h)
      /\ \A j \in 1..4 : bytes[j] = m[j]
      /\ \A j \in 1..4 : bytes[4 + j] = k[j]
      /\ \A j \in 1..Len(h) : bytes[8 + j] = h[j]
  BY <1>2, <1>3, <1>7
<1> HIDE DEF r
<1>9. Len(h) \in Nat /\ Len(h) >= 1 /\ Len(r) \in Nat
  BY <1>1, <1>6
<1>10. SubSeq(bytes, 1, 4) = m
  <2>1. SubSeq(bytes, 0 + 1, 0 + Len(m)) = m
    <3>1. /\ m \in Seq(S) /\ 0 \in Nat /\ 0 + Len(m) <= Len(bytes)
          /\ \A j \in 1..Len(m) : bytes[0 + j] = m[j]
      BY <1>2, <1>8, <1>9
    <3> QED
      BY <1>7, <3>1, PartIs
  <2> QED
    BY <1>2, <2>1
<1>11. SubSeq(bytes, 5, 8) = k
  <2>1. SubSeq(bytes, 4 + 1, 4 + Len(k)) = k
    <3>1. /\ k \in Seq(S) /\ 4 \in Nat /\ 4 + Len(k) <= Len(bytes)
          /\ \A j \in 1..Len(k) : bytes[4 + j] = k[j]
      BY <1>3, <1>8, <1>9
    <3> QED
      BY <1>7, <3>1, PartIs
  <2> QED
    BY <1>3, <2>1
<1>12. Hashed(bytes) = h
  <2>1. SubSeq(bytes, 8 + 1, 8 + Len(h)) = h
    <3>1. /\ h \in Seq(S) /\ 8 \in Nat /\ 8 + Len(h) <= Len(bytes)
          /\ \A j \in 1..Len(h) : bytes[8 + j] = h[j]
      BY <1>4, <1>8, <1>9
    <3> QED
      BY <1>7, <3>1, PartIs
  <2> QED
    BY <1>8, <2>1 DEF Hashed, From, PREAMBLE_BYTES
<1>13. bytes[9] = BLOCK_TYPE_CHANGE
  <2>1. bytes[8 + 1] = h[1]
    BY <1>8, <1>9
  <2> QED
    BY <1>1, <2>1
<1>14. Stands(bytes, 9, r)
  <2>1. \E T : bytes \in Seq(T)
    BY <1>7
  <2>2. 9 + Len(r) <= Len(bytes)
    BY <1>1, <1>8, <1>9
  <2>3. \A j \in 1..Len(r) : bytes[9 + j] = r[j]
    <3> TAKE j \in 1..Len(r)
    <3>1. 1 + j \in 1..Len(h) /\ 8 + (1 + j) = 9 + j
      BY <1>1, <1>9
    <3> QED
      BY <1>1, <1>8, <3>1
  <2>4. \A j \in 10..Len(bytes) : bytes[j] \in Nat
    <3> TAKE j \in 10..Len(bytes)
    <3>1. j - 8 \in 1..Len(h) /\ 8 + (j - 8) = j
      BY <1>8, <1>9
    <3>2. bytes[j] = h[j - 8]
      BY <1>8, <3>1
    <3> QED
      BY <1>1, <3>1, <3>2
  <2> QED
    BY <1>6, <2>1, <2>2, <2>3, <2>4 DEF Stands
<1>15. Stands(bytes, 9, w) /\ Stands(bytes, 9 + Len(w), body)
  BY <1>1, <1>14, StandsBoth DEF r
<1>16. ReadNumber(bytes, 9) = [value |-> Len(body), at |-> 9 + Len(w)]
  BY <1>15, NumberStands DEF w
<1>17. StartOf(body) = 9 + Len(w) /\ HEADER_BYTES = 9 /\ PREAMBLE_BYTES = 8
  BY DEF StartOf, w, HEADER_BYTES, PREAMBLE_BYTES
<1>18. 0 < Len(r)
  <2>1. w # <<>>
    BY NumbersTakeBytes DEF w
  <2> QED
    BY <1>1, <1>6, <2>1
<1>19. Len(bytes) = 9 + Len(w) + Len(body) /\ Len(bytes) > 9
  BY <1>1, <1>6, <1>8, <1>18
<1> QED
  BY <1>7, <1>8, <1>10, <1>11, <1>12, <1>13, <1>15, <1>16, <1>17, <1>19 DEF S, m, k, h, w

-----------------------------------------------------------------------------
(* The columns of a body are where their lengths say *)

\* Of the columns of a change, their ids, lengths and places.
LEMMA InfoIs ==
    ASSUME NEW c \in ChangeType, NumbersFit(c), NEW info, info = InfoOf(ColumnsIn(c))
    PROVE  /\ Len(ColumnsIn(c)) \in Nat /\ DOMAIN info = 1..Len(ColumnsIn(c)) /\ DOMAIN ColumnsIn(c) = 1..Len(ColumnsIn(c))
           /\ \A i \in 1..Len(ColumnsIn(c)) :
                  /\ info[i] = [col |-> ColumnsIn(c)[i].col, len |-> Len(DatasOf(c)[i])]
                  /\ DatasOf(c)[i] \in Seq(Nat) /\ ColumnsIn(c)[i].col \in ToSet(ColumnIds)
           /\ LengthOf(info) = Len(FlattenSeq(DatasOf(c)))
           /\ \A i \in 1..Len(ColumnsIn(c)) :
                  /\ SumOf([j \in 1..(i - 1) |-> info[j].len]) = Before(DatasOf(c), i)
                  /\ Before(DatasOf(c), i) \in Nat /\ IndexOf(info, ColumnsIn(c)[i].col) = i
<1> DEFINE columns == ColumnsIn(c)
           datas == DatasOf(c)
           n == Len(columns)
           lens == Lens(datas)
<1>1. /\ columns \in Seq(Columns14) /\ datas \in Seq(Seq(Nat)) /\ Len(datas) = n
      /\ \A i \in 1..n : datas[i] = columns[i].data
      /\ \A i, j \in 1..n : i < j => columns[i].col < columns[j].col
  BY ColumnsFitting, ColumnsOfChange
<1> HIDE DEF datas, columns
<1>2. n \in Nat /\ DOMAIN columns = 1..n /\ \A i \in 1..n : columns[i] \in Columns14 /\ datas[i] \in Seq(Nat)
  BY <1>1
<1>3. info = [i \in 1..n |-> [col |-> columns[i].col, len |-> Len(columns[i].data)]]
  BY <1>2 DEF InfoOf, columns
<1>4. \A i \in 1..n : info[i] = [col |-> columns[i].col, len |-> Len(datas[i])] /\ columns[i].col \in ToSet(ColumnIds)
  <2> TAKE i \in 1..n
  <2>1. columns[i].data = datas[i] /\ columns[i].col \in ToSet(ColumnIds)
    BY <1>1, <1>2 DEF Columns14
  <2> QED
    BY <1>3, <2>1
<1>5. lens \in Seq(Nat) /\ Len(lens) = n /\ \A i \in 1..n : lens[i] = Len(datas[i])
  <2>1. lens \in Seq(Nat) /\ Len(lens) = Len(datas) /\ \A i \in 1..Len(datas) : lens[i] = Len(datas[i])
    BY <1>1, LensAre
  <2> QED
    BY <1>1, <2>1
<1> HIDE DEF lens, n
<1>6. lens = [i \in 1..n |-> lens[i]]
  BY <1>2, <1>5
<1>7. DOMAIN info = 1..n /\ \A i \in 1..n : info[i].len = lens[i] /\ info[i].col = columns[i].col
  <2>1. DOMAIN info = 1..n
    BY <1>3
  <2>2. ASSUME NEW i \in 1..n
        PROVE  info[i].len = lens[i] /\ info[i].col = columns[i].col
    <3>1. info[i] = [col |-> columns[i].col, len |-> Len(datas[i])]
      BY <1>4
    <3>2. lens[i] = Len(datas[i])
      BY <1>5
    <3> QED
      BY <3>1, <3>2
  <2> QED
    BY <2>1, <2>2
<1>8. LengthOf(info) = Len(FlattenSeq(datas))
  <2>1. LengthOf(info) = SumOf([i \in 1..n |-> lens[i]])
    BY <1>7 DEF LengthOf
  <2>2. Len(FlattenSeq(datas)) = SumOf(lens)
    BY <1>1, FlattenFacts DEF lens
  <2> QED
    BY <1>6, <2>1, <2>2
<1>9. \A i \in 1..n : /\ SumOf([j \in 1..(i - 1) |-> info[j].len]) = Before(datas, i)
                      /\ Before(datas, i) \in Nat /\ IndexOf(info, columns[i].col) = i
  <2> TAKE i \in 1..n
  <2> DEFINE k == i - 1
  <2>1. k \in 0..Len(lens) /\ \A j \in 1..k : j \in 1..n
    BY <1>2, <1>5
  <2>2. [j \in 1..k |-> info[j].len] = [j \in 1..k |-> lens[j]]
    BY <1>7, <2>1
  <2> HIDE DEF k
  <2>3. SubSeq(lens, 1, k) = [j \in 1..k |-> lens[j]]
    BY <1>5, <2>1
  <2>4. SumOf(SubSeq(lens, 1, k)) = SumsOf(lens)[k]
    BY <1>5, <2>1, SumOfFirst
  <2>5. SumsOf(lens)[k] \in Nat
    BY <1>5, <2>1, SumsFacts
  <2>6. Before(datas, i) = SumsOf(lens)[k]
    BY DEF Before, lens, k
  <2>7. IndexOf(info, columns[i].col) = i
    <3>1. \A j \in 1..n : columns[j].col = columns[i].col => j = i
      <4> TAKE j \in 1..n
      <4>1. columns[i].col \in Nat /\ columns[j].col \in Nat
        <5>1. \A m \in 1..14 : ColumnIds[m] \in 1..127
          BY IdsInOrder
        <5>2. ASSUME NEW x \in ToSet(ColumnIds)
              PROVE  x \in Nat
          <6>1. PICK m \in 1..14 : x = ColumnIds[m]
            BY IdsInOrder DEF ToSet
          <6>2. ColumnIds[m] \in 1..127
            BY <5>1
          <6> QED
            BY <6>1, <6>2
        <5> QED
          BY <1>4, <5>2
      <4>2. i < j => columns[i].col < columns[j].col
        BY <1>1 DEF n
      <4>3. j < i => columns[j].col < columns[i].col
        BY <1>1 DEF n
      <4>4. i \in Nat /\ j \in Nat
        BY <1>2
      <4> QED
        BY <4>1, <4>2, <4>3, <4>4
    <3>2. \A j \in DOMAIN info : info[j].col = columns[i].col <=> j = i
      BY <1>7, <3>1
    <3> QED
      BY <1>7, <3>2 DEF IndexOf
  <2> QED
    BY <2>2, <2>3, <2>4, <2>5, <2>6, <2>7 DEF k
<1> QED
  BY <1>2, <1>4, <1>7, <1>8, <1>9 DEF n, columns, datas

\* Where each column is.
LEMMA RangesAre ==
    ASSUME NEW c \in ChangeType, NumbersFit(c), NEW info, info = InfoOf(ColumnsIn(c)), NEW at \in Nat
    PROVE  /\ DOMAIN Ranges(info, at) = {ColumnsIn(c)[i].col : i \in 1..Len(ColumnsIn(c))}
           /\ \A i \in 1..Len(ColumnsIn(c)) : Ranges(info, at)[ColumnsIn(c)[i].col] =
                  <<at + Before(DatasOf(c), i), (at + Before(DatasOf(c), i)) + Len(DatasOf(c)[i])>>
<1> DEFINE columns == ColumnsIn(c)
           datas == DatasOf(c)
           n == Len(columns)
<1>1. /\ n \in Nat /\ DOMAIN info = 1..n
      /\ \A i \in 1..n : /\ info[i] = [col |-> columns[i].col, len |-> Len(datas[i])] /\ datas[i] \in Seq(Nat)
                         /\ SumOf([j \in 1..(i - 1) |-> info[j].len]) = Before(datas, i)
                         /\ Before(datas, i) \in Nat /\ IndexOf(info, columns[i].col) = i
  <2>1. /\ Len(ColumnsIn(c)) \in Nat /\ DOMAIN info = 1..Len(ColumnsIn(c)) /\ DOMAIN ColumnsIn(c) = 1..Len(ColumnsIn(c))
        /\ \A i \in 1..Len(ColumnsIn(c)) :
               /\ info[i] = [col |-> ColumnsIn(c)[i].col, len |-> Len(DatasOf(c)[i])]
               /\ DatasOf(c)[i] \in Seq(Nat) /\ ColumnsIn(c)[i].col \in ToSet(ColumnIds)
        /\ LengthOf(info) = Len(FlattenSeq(DatasOf(c)))
        /\ \A i \in 1..Len(ColumnsIn(c)) :
               /\ SumOf([j \in 1..(i - 1) |-> info[j].len]) = Before(DatasOf(c), i)
               /\ Before(DatasOf(c), i) \in Nat /\ IndexOf(info, ColumnsIn(c)[i].col) = i
    BY InfoIs
  <2> QED
    BY <2>1, Zenon
<1> DEFINE Cols == {columns[i].col : i \in 1..n}
           b(i) == Before(datas, i)
<1> HIDE DEF columns, datas, n
<1>2. {x.col : x \in ToSet(info)} = Cols
  <2>1. ToSet(info) = {info[i] : i \in 1..n}
    BY <1>1 DEF ToSet
  <2>2. ASSUME NEW i \in 1..n
        PROVE  info[i].col = columns[i].col
    <3>1. info[i] = [col |-> columns[i].col, len |-> Len(datas[i])]
      BY <1>1
    <3> QED
      BY <3>1
  <2> QED
    BY <2>1, <2>2
<1>3. Ranges(info, at) = [col \in Cols |-> RangeOf(info, at, IndexOf(info, col))]
  BY <1>2 DEF Ranges
<1>4. \A i \in 1..n : Ranges(info, at)[columns[i].col] = <<at + b(i), (at + b(i)) + Len(datas[i])>>
  <2> TAKE i \in 1..n
  <2>1. columns[i].col \in Cols
    OBVIOUS
  <2> HIDE DEF Cols, b
  <2>2. Ranges(info, at)[columns[i].col] = RangeOf(info, at, i)
    BY <1>1, <1>3, <2>1
  <2>3. RangeOf(info, at, i) = <<0 + (at + b(i)), info[i].len + (at + b(i))>>
    BY <1>1 DEF RangeOf, Shift, b
  <2>4. info[i].len = Len(datas[i]) /\ Len(datas[i]) \in Nat /\ b(i) \in Nat
    <3>1. info[i] = [col |-> columns[i].col, len |-> Len(datas[i])] /\ datas[i] \in Seq(Nat) /\ b(i) \in Nat
      BY <1>1 DEF b
    <3> QED
      BY <3>1
  <2> DEFINE l == Len(datas[i])
             e == at + b(i)
  <2>5. e \in Nat /\ 0 + e = e /\ l + e = e + l
    BY <2>4
  <2> QED
    BY <2>2, <2>3, <2>4, <2>5
<1> QED
  BY <1>3, <1>4 DEF columns, datas, n

\* All ranges are moved by moving where the first is.
LEMMA RangesMove ==
    ASSUME NEW c \in ChangeType, NumbersFit(c), NEW info, info = InfoOf(ColumnsIn(c)), NEW at \in Nat, NEW n \in Nat
    PROVE  [col \in DOMAIN Ranges(info, at) |-> Shift(Ranges(info, at)[col], n)] = Ranges(info, at + n)
<1> DEFINE columns == ColumnsIn(c)
           datas == DatasOf(c)
           N == Len(columns)
           Cols == {columns[i].col : i \in 1..N}
           r == Ranges(info, at)
           s == Ranges(info, at + n)
           b(i) == Before(datas, i)
           l(i) == Len(datas[i])
<1>1. /\ DOMAIN r = Cols
      /\ \A i \in 1..N : r[columns[i].col] = <<at + b(i), (at + b(i)) + l(i)>>
  BY RangesAre
<1>2. /\ DOMAIN s = Cols
      /\ \A i \in 1..N : s[columns[i].col] = <<(at + n) + b(i), ((at + n) + b(i)) + l(i)>>
  <2>1. at + n \in Nat
    OBVIOUS
  <2> QED
    BY <2>1, RangesAre
<1>3. ASSUME NEW i \in 1..N
      PROVE  b(i) \in Nat /\ l(i) \in Nat
  <2>1. Before(datas, i) \in Nat /\ datas[i] \in Seq(Nat)
    BY InfoIs, Zenon
  <2> QED
    BY <2>1
<1> HIDE DEF r, columns, datas, N, b, l
<1>4. \A i \in 1..N : Shift(r[columns[i].col], n) = s[columns[i].col]
  <2> HIDE DEF s
  <2> TAKE i \in 1..N
  <2>1. b(i) \in Nat /\ l(i) \in Nat
    BY <1>3
  <2>2. (at + b(i)) + n = (at + n) + b(i) /\ ((at + b(i)) + l(i)) + n = ((at + n) + b(i)) + l(i)
    BY <2>1
  <2>3. Shift(r[columns[i].col], n) = <<(at + b(i)) + n, ((at + b(i)) + l(i)) + n>>
    BY <1>1 DEF Shift
  <2> QED
    BY <1>2, <2>2, <2>3
<1>5. s = [col \in Cols |-> s[col]]
  <2>1. s = [col \in {x.col : x \in ToSet(info)} |-> RangeOf(info, at + n, IndexOf(info, col))]
    BY DEF Ranges
  <2> HIDE DEF s, Cols
  <2> QED
    BY <1>2, <2>1
<1> HIDE DEF s
<1>6. \A col \in Cols : Shift(r[col], n) = s[col]
  BY <1>4
<1> HIDE DEF Cols
<1>7. [col \in DOMAIN r |-> Shift(r[col], n)] = [col \in Cols |-> s[col]]
  BY <1>1, <1>6
<1> QED
  BY <1>5, <1>7 DEF r, s

\* Columns that stand one after the other hold the operations.
LEMMA ColumnsHold ==
    ASSUME NEW c \in ChangeType, NumbersFit(c), NEW bytes, NEW at, Stands(bytes, at, FlattenSeq(DatasOf(c))),
           NEW ranges, ranges = Ranges(InfoOf(ColumnsIn(c)), at), NEW col \in ToSet(ColumnIds)
    PROVE  ColIter(bytes, ranges, col) = ColumnData(c.operations, ActorsOf(c), col)
<1> DEFINE columns == ColumnsIn(c)
           datas == DatasOf(c)
           n == Len(columns)
           data == ColumnData(c.operations, ActorsOf(c), col)
<1>1. /\ datas \in Seq(Seq(Nat)) /\ Len(datas) = n
      /\ \A i \in 1..n : datas[i] = columns[i].data
      /\ \A i \in 1..n : columns[i].data = ColumnData(c.operations, ActorsOf(c), columns[i].col)
      /\ data # <<>> => \E i \in 1..n : columns[i].col = col
  BY ColumnsFitting, ColumnsOfChange
<1>2. at \in Nat
  BY DEF Stands
<1>3. /\ DOMAIN ranges = {columns[i].col : i \in 1..n}
      /\ \A i \in 1..n : ranges[columns[i].col] = <<at + Before(datas, i), (at + Before(datas, i)) + Len(datas[i])>>
  BY <1>2, RangesAre
<1>4. col + COLUMN_TYPE_DEFLATE \notin DOMAIN ranges
  <2>1. \A i \in 1..n : columns[i].col \in ToSet(ColumnIds)
    BY InfoIs
  <2>2. col + COLUMN_TYPE_DEFLATE \notin ToSet(ColumnIds)
    <3>1. PICK k \in 1..14 : col = ColumnIds[k]
      BY IdsInOrder DEF ToSet
    <3>2. ColumnIds[k] + COLUMN_TYPE_DEFLATE \notin ToSet(ColumnIds)
      BY IdsInOrder
    <3> QED
      BY <3>1, <3>2
  <2> HIDE DEF columns, n
  <2> QED
    BY <1>3, <2>1, <2>2
<1> HIDE DEF columns, datas, n
<1>5. CASE col \in DOMAIN ranges
  <2>1. PICK i \in 1..n : columns[i].col = col
    BY <1>3, <1>5
  <2> DEFINE b == at + Before(datas, i)
  <2>2. ranges[col] = <<b, b + Len(datas[i])>>
    BY <1>3, <2>1
  <2>3. Stands(bytes, b, datas[i])
    <3>1. \A j \in 1..Len(datas) : Stands(bytes, at + Before(datas, j), datas[j])
      BY <1>1, EachStands DEF datas
    <3> QED
      BY <1>1, <3>1
  <2> HIDE DEF b
  <2>4. Slice(bytes, <<b, b + Len(datas[i])>>) = datas[i]
    BY <2>3, StandsThere
  <2>5. datas[i] = data
    BY <1>1, <2>1
  <2>6. ColIter(bytes, ranges, col) = Slice(bytes, ranges[col])
    BY <1>4, <1>5 DEF ColIter
  <2> QED
    BY <2>2, <2>4, <2>5, <2>6
<1>6. CASE col \notin DOMAIN ranges
  <2>1. \A i \in 1..n : columns[i].col # col
    BY <1>3, <1>6
  <2>2. data = <<>>
    BY <1>1, <2>1
  <2>3. ColIter(bytes, ranges, col) = <<>>
    BY <1>4, <1>6 DEF ColIter
  <2> QED
    BY <2>2, <2>3
<1> QED
  BY <1>5, <1>6

\* They are read.
LEMMA OpsRead ==
    ASSUME NEW c \in ChangeType, NumbersFit(c), NEW read, NEW at, Stands(read.bytes, at, FlattenSeq(DatasOf(c))),
           read.ops = Ranges(InfoOf(ColumnsIn(c)), at), read.actors = ActorsOf(c)
    PROVE  OpsIn(read) = c.operations
<1>1. \A col \in ToSet(ColumnIds) :
          ColIter(read.bytes, read.ops, col) = ColumnData(c.operations, ActorsOf(c), col)
  BY ColumnsHold
<1>2. Hold(ColumnBytes(read), c.operations, ActorsOf(c))
  BY <1>1 DEF Hold, ColumnBytes
<1>3. /\ c.operations \in Seq(OperationType) /\ Named(c.operations, ActorsOf(c))
      /\ Len(c.operations) \in SignedNumber /\ Len(Preds(c.operations)) \in SignedNumber
  BY ActorsOfChange DEF ChangeType, NumbersFit, PartsFit
<1>4. IterOps(ColumnBytes(read), ActorsOf(c)) = c.operations
  BY <1>2, <1>3, OperationsRead
<1> QED
  BY <1>4 DEF OpsIn

-----------------------------------------------------------------------------
(* A change that is made, and the change that is read *)

\* Changes of which the bytes fit, too.
BytesFit(c) == NumbersFit(c) /\ Len(Body(c)) \in UnsignedNumber

BytesOf(c) == Block(BLOCK_TYPE_CHANGE, Body(c))
BodyOf(c)  == StartOf(Body(c))
ExtraAt(c) == ColumnsAt(c, BodyOf(c)) + Len(FlattenSeq(DatasOf(c)))

\* A change with its message at a position.
ChangeWith(c, at) ==
    [bytes       |-> BytesOf(c),
     body_start  |-> BodyOf(c),
     hash        |-> HashedOf(Body(c)),
     seq         |-> c.seq,
     start_op    |-> c.start_op,
     time        |-> c.time,
     message     |-> <<at, MessageEnd(c, BodyOf(c))>>,
     actors      |-> ActorsOf(c),
     deps        |-> c.deps,
     ops         |-> Ranges(InfoOf(ColumnsIn(c)), ColumnsAt(c, BodyOf(c))),
     extra_bytes |-> <<ExtraAt(c), ExtraAt(c) + Len(c.extra_bytes)>>,
     num_ops     |-> Len(c.operations)]

\* Where the message of a change is taken to be, and where it is.
MadeAt(c) == BodyOf(c) + (Len(BeforeMessage(c)) + 1)
TrueAt(c) == MessageAt(c, BodyOf(c))

\* The lengths of all parts are numbers.
LEMMA LengthsAre ==
    ASSUME NEW c \in ChangeType, BytesFit(c)
    PROVE  /\ Len(BeforeMessage(c)) \in Nat /\ Len(HeadOf(c)) \in Nat /\ Len(OthersOf(c)) \in Nat
           /\ Len(WriteColumnInfo(ColumnsIn(c))) \in Nat /\ Len(FlattenSeq(DatasOf(c))) \in Nat
           /\ Len(OpsBytes(c)) \in Nat /\ Len(c.extra_bytes) \in Nat /\ Len(c.message) \in Nat
           /\ Len(WriteUnsigned(Len(c.message))) \in Nat
           /\ BodyOf(c) \in Nat /\ Len(Body(c)) \in Nat
           /\ Len(BytesOf(c)) = BodyOf(c) + Len(Body(c))
<1>1. NumbersFit(c) /\ Len(Body(c)) \in UnsignedNumber /\ Body(c) \in Seq(Nat)
  BY BodyIsBytes DEF BytesFit
<1>2. /\ BeforeMessage(c) \in Seq(Nat) /\ HeadOf(c) \in Seq(Nat) /\ OthersOf(c) \in Seq(Nat)
      /\ WriteColumnInfo(ColumnsIn(c)) \in Seq(Nat) /\ FlattenSeq(DatasOf(c)) \in Seq(Nat)
      /\ OpsBytes(c) \in Seq(Nat) /\ c.extra_bytes \in Seq(Nat) /\ c.message \in Seq(Nat)
  BY <1>1, HeadIsBytes, ColumnsFitting DEF ChangeType
<1>3. Len(c.message) \in UnsignedNumber
  BY <1>1 DEF NumbersFit, PartsFit
<1>4. WriteUnsigned(Len(c.message)) \in Seq(Nat) /\ WriteUnsigned(Len(Body(c))) \in Seq(Nat)
  BY <1>1, <1>3, NumbersAlone
<1>5. BodyOf(c) \in Nat
  BY <1>4 DEF BodyOf, StartOf, HEADER_BYTES, PREAMBLE_BYTES
<1>6. Len(BytesOf(c)) = BodyOf(c) + Len(Body(c))
  BY <1>1, BlockIs DEF BytesOf, BodyOf
<1>7. \A q \in Seq(Nat) : Len(q) \in Nat
  OBVIOUS
<1> QED
  BY <1>1, <1>2, <1>4, <1>5, <1>6, <1>7, Zenon

\* The chunk of a change.
LEMMA ChunkIs ==
    ASSUME NEW c \in ChangeType, BytesFit(c)
    PROVE  /\ EncodeChunk(c).bytes = Body(c) /\ EncodeChunk(c).actors = ActorsOf(c)
           /\ EncodeChunk(c).message = <<Len(BeforeMessage(c)) + 1, Len(HeadOf(c))>>
           /\ EncodeChunk(c).ops =
                  Ranges(InfoOf(ColumnsIn(c)), Len(WriteColumnInfo(ColumnsIn(c))) + (Len(HeadOf(c)) + Len(OthersOf(c))))
           /\ EncodeChunk(c).extra_bytes =
                  Shift(<<0, Len(c.extra_bytes)>>, Len(HeadOf(c)) + Len(OthersOf(c)) + Len(OpsBytes(c)))
<1> DEFINE ops == EncodeOps(c.operations, ActorsOf(c))
           w == WriteColumnInfo(ColumnsIn(c))
           info == InfoOf(ColumnsIn(c))
           n == Len(HeadOf(c)) + Len(OthersOf(c))
<1>1. ops = [bytes |-> OpsBytes(c), ops |-> Ranges(info, Len(w))]
  BY DEF EncodeOps, FinishColumns, JoinColumns, OpsBytes, DatasOf, ColumnsIn
<1>2. EncodeChunk(c) = JoinParts(c, ActorsOf(c), BeforeMessage(c), HeadOf(c), OthersOf(c), ops)
  BY DEF EncodeChunk, WithActors, HeadOf, OthersOf, ActorsOf
<1> DEFINE y == HeadOf(c) \o OthersOf(c) \o ops.bytes \o c.extra_bytes
<1> HIDE DEF ops
<1>3. EncodeChunk(c) =
        [bytes       |-> y,
         actors      |-> ActorsOf(c),
         message     |-> <<Len(BeforeMessage(c)) + 1, Len(HeadOf(c))>>,
         ops         |-> [col \in DOMAIN ops.ops |-> Shift(ops.ops[col], n)],
         extra_bytes |-> Shift(<<0, Len(c.extra_bytes)>>, Len(HeadOf(c)) + Len(OthersOf(c)) + Len(ops.bytes))]
  BY <1>2 DEF JoinParts, MessageStart, OpsStart
<1> HIDE DEF y
<1>4. ops.bytes = OpsBytes(c) /\ ops.ops = Ranges(info, Len(w))
  BY <1>1
<1>5. Len(w) \in Nat /\ n \in Nat /\ NumbersFit(c)
  BY LengthsAre DEF BytesFit
<1>6. [col \in DOMAIN Ranges(info, Len(w)) |-> Shift(Ranges(info, Len(w))[col], n)] = Ranges(info, Len(w) + n)
  <2> HIDE DEF w, n
  <2> QED
    BY <1>5, RangesMove
<1> HIDE DEF info, w, n
<1>7. EncodeChunk(c).ops = Ranges(info, Len(w) + n)
  BY <1>3, <1>4, <1>6
<1>8. EncodeChunk(c).bytes = Body(c)
  <2>1. EncodeChunk(c).bytes = y
    BY <1>3
  <2> QED
    BY <1>4, <2>1 DEF Body, y
<1>9. EncodeChunk(c).actors = ActorsOf(c) /\ EncodeChunk(c).message = <<Len(BeforeMessage(c)) + 1, Len(HeadOf(c))>>
  BY <1>3
<1>10. EncodeChunk(c).extra_bytes =
           Shift(<<0, Len(c.extra_bytes)>>, Len(HeadOf(c)) + Len(OthersOf(c)) + Len(OpsBytes(c)))
  <2>1. EncodeChunk(c).extra_bytes =
            Shift(<<0, Len(c.extra_bytes)>>, Len(HeadOf(c)) + Len(OthersOf(c)) + Len(ops.bytes))
    BY <1>3
  <2> QED
    BY <1>4, <2>1
<1> QED
  BY <1>7, <1>8, <1>9, <1>10 DEF info, w, n

\* What its maker has in memory.
LEMMA MadeIs ==
    ASSUME NEW c \in ChangeType, BytesFit(c)
    PROVE  WithSortedDeps(c) = ChangeWith(c, MadeAt(c))
<1> DEFINE chunk == EncodeChunk(c)
           s == BodyOf(c)
           info == InfoOf(ColumnsIn(c))
           h == Len(HeadOf(c))
           o == Len(OthersOf(c))
           b == Len(BeforeMessage(c))
           w == Len(WriteColumnInfo(ColumnsIn(c)))
           f == Len(FlattenSeq(DatasOf(c)))
           p == Len(OpsBytes(c))
           x == Len(c.extra_bytes)
<1>1. /\ chunk.bytes = Body(c) /\ chunk.actors = ActorsOf(c) /\ chunk.message = <<b + 1, h>>
      /\ chunk.ops = Ranges(info, w + (h + o)) /\ chunk.extra_bytes = Shift(<<0, x>>, h + o + p)
  BY ChunkIs
<1>2. /\ b \in Nat /\ h \in Nat /\ o \in Nat /\ w \in Nat /\ f \in Nat /\ p \in Nat /\ x \in Nat /\ s \in Nat
      /\ Len(Body(c)) \in Nat /\ Len(BytesOf(c)) = s + Len(Body(c)) /\ p = w + f /\ NumbersFit(c)
  BY LengthsAre, BodyIsBytes DEF BytesFit
<1>3. Hashed(BytesOf(c)) = HashedOf(Body(c))
  <2>1. Body(c) \in Seq(Nat) /\ Len(Body(c)) \in UnsignedNumber
    BY BodyIsBytes DEF BytesFit
  <2> QED
    BY <2>1, BlockIs DEF BytesOf
<1>4. WithSortedDeps(c) = ChangeAt(c, chunk, BytesOf(c), Len(BytesOf(c)) - Len(Body(c)))
  BY <1>1 DEF WithSortedDeps, WithChunk, InBlock, BytesOf
<1> HIDE DEF chunk, s, info, h, o, b, w, f, p, x
<1>5. Len(BytesOf(c)) - Len(Body(c)) = s
  BY <1>2
<1>6. Shift(chunk.message, s) = <<MadeAt(c), MessageEnd(c, s)>>
  <2>1. Shift(chunk.message, s) = <<(b + 1) + s, h + s>>
    BY <1>1 DEF Shift
  <2>2. (b + 1) + s = s + (b + 1) /\ h + s = s + h
    BY <1>2
  <2> QED
    BY <2>1, <2>2 DEF MadeAt, MessageEnd, b, h, s
<1>7. [col \in DOMAIN chunk.ops |-> Shift(chunk.ops[col], s)] = Ranges(info, ColumnsAt(c, s))
  <2> DEFINE at == w + (h + o)
  <2>1. at \in Nat /\ at + s = s + h + o + w
    BY <1>2
  <2> HIDE DEF at
  <2>2. [col \in DOMAIN Ranges(info, at) |-> Shift(Ranges(info, at)[col], s)] = Ranges(info, at + s)
    BY <1>2, <2>1, RangesMove DEF info
  <2> QED
    BY <1>1, <2>1, <2>2 DEF ColumnsAt, at, h, o, w
<1>8. Shift(chunk.extra_bytes, s) = <<ExtraAt(c), ExtraAt(c) + x>>
  <2> DEFINE e == h + o + p
  <2>1. chunk.extra_bytes = <<0 + e, x + e>>
    BY <1>1 DEF Shift
  <2>2. Shift(chunk.extra_bytes, s) = <<(0 + e) + s, (x + e) + s>>
    BY <2>1 DEF Shift
  <2>3. ExtraAt(c) = s + h + o + w + f
    BY DEF ExtraAt, ColumnsAt, s, h, o, w, f
  <2>4. (0 + e) + s = s + h + o + w + f /\ (x + e) + s = (s + h + o + w + f) + x
    BY <1>2
  <2> QED
    BY <2>2, <2>3, <2>4
<1>9. ChangeAt(c, chunk, BytesOf(c), s) = ChangeWith(c, MadeAt(c))
  BY <1>1, <1>3, <1>6, <1>7, <1>8 DEF ChangeAt, ChangeWith, s, info, x
<1> QED
  BY <1>4, <1>5, <1>9

\* The operations are counted last.
LEMMA CountedLast ==
    ASSUME NEW b, NEW s, NEW h, NEW q, NEW o, NEW t, NEW m, NEW a, NEW d, NEW p, NEW x, NEW k, NEW n
    PROVE  [[bytes |-> b, body_start |-> s, hash |-> h, seq |-> q, start_op |-> o, time |-> t, message |-> m,
             actors |-> a, deps |-> d, ops |-> p, extra_bytes |-> x, num_ops |-> k] EXCEPT !.num_ops = n] =
           [bytes |-> b, body_start |-> s, hash |-> h, seq |-> q, start_op |-> o, time |-> t, message |-> m,
            actors |-> a, deps |-> d, ops |-> p, extra_bytes |-> x, num_ops |-> n]
OBVIOUS

\* What a block of it is read as.
LEMMA ReadIs ==
    ASSUME NEW c \in ChangeType, BytesFit(c)
    PROVE  /\ DecodeInflated(BytesOf(c)) = {ChangeWith(c, TrueAt(c))}
           /\ DecodeChange(BytesOf(c)) = {ChangeWith(c, TrueAt(c))}
           /\ GetMessage(ChangeWith(c, TrueAt(c))) = c.message
           /\ \A at : OpsIn(ChangeWith(c, at)) = c.operations
           /\ \A at : Slice(BytesOf(c), ChangeWith(c, at).extra_bytes) = c.extra_bytes
<1> DEFINE bytes == BytesOf(c)
           body == Body(c)
           s == BodyOf(c)
           info == InfoOf(ColumnsIn(c))
           read == ChangeWith(c, TrueAt(c))
<1>1. body \in Seq(Nat) /\ Len(body) \in UnsignedNumber /\ NumbersFit(c) /\ bytes = Block(BLOCK_TYPE_CHANGE, body)
  BY BodyIsBytes DEF BytesFit, BytesOf
<1> HIDE DEF bytes, body
<1>2. /\ Len(bytes) = StartOf(body) + Len(body) /\ Len(bytes) > HEADER_BYTES
      /\ SubSeq(bytes, 1, 4) = MAGIC_BYTES /\ SubSeq(bytes, 5, 8) = Checksum(HashedOf(body))
      /\ Hashed(bytes) = HashedOf(body) /\ bytes[HEADER_BYTES] = BLOCK_TYPE_CHANGE
      /\ ReadNumber(bytes, HEADER_BYTES) = [value |-> Len(body), at |-> StartOf(body)]
      /\ Stands(bytes, StartOf(body), body)
  BY <1>1, BlockIs
<1>3. s = StartOf(body)
  BY DEF BodyOf, body
<1>4. PICK actor :
          /\ Slice(bytes, actor) = <<c.actor_id>>
          /\ ReadBody(bytes, s) =
                 [deps |-> c.deps, actor |-> actor, seq |-> c.seq, start_op |-> c.start_op, time |-> c.time,
                  message |-> <<MessageAt(c, s), MessageEnd(c, s)>>,
                  others |-> Tail(ActorsOf(c)), info |-> info, at |-> ColumnsAt(c, s)]
          /\ Slice(bytes, <<MessageAt(c, s), MessageEnd(c, s)>>) = c.message
          /\ Stands(bytes, ColumnsAt(c, s), FlattenSeq(DatasOf(c)))
          /\ Stands(bytes, ColumnsAt(c, s) + Len(FlattenSeq(DatasOf(c))), c.extra_bytes)
  <2>1. Stands(bytes, s, Body(c))
    BY <1>2, <1>3 DEF body
  <2> HIDE DEF s
  <2> QED
    BY <1>1, <2>1, BodyRead
<1>5. \A at : OpsIn(ChangeWith(c, at)) = c.operations
  <2> TAKE at
  <2> DEFINE ch == ChangeWith(c, at)
  <2>1. ch.bytes = bytes /\ ch.ops = Ranges(info, ColumnsAt(c, s)) /\ ch.actors = ActorsOf(c)
    BY DEF ChangeWith, bytes
  <2> HIDE DEF ch, s, info
  <2>2. Stands(ch.bytes, ColumnsAt(c, s), FlattenSeq(DatasOf(c)))
    BY <1>4, <2>1
  <2> QED
    BY <1>1, <2>1, <2>2, OpsRead DEF ch, info
<1>6. GetMessage(read) = c.message
  BY <1>4 DEF GetMessage, ChangeWith, TrueAt, bytes
<1>7. \A at : Slice(bytes, ChangeWith(c, at).extra_bytes) = c.extra_bytes
  <2>1. Stands(bytes, ExtraAt(c), c.extra_bytes)
    BY <1>4 DEF ExtraAt
  <2>2. Slice(bytes, <<ExtraAt(c), ExtraAt(c) + Len(c.extra_bytes)>>) = c.extra_bytes
    BY <2>1, StandsThere
  <2> QED
    BY <2>2 DEF ChangeWith
<1>8. HeaderValid(bytes) /\ ChecksumValid(bytes) /\ BodyStart(bytes) = s
  BY <1>2, <1>3 DEF HeaderValid, HeaderFits, ChecksumValid, BodyStart
<1>9. InfoValid(info, FALSE)
  <2>1. /\ DOMAIN info = 1..Len(ColumnsIn(c))
        /\ \A i \in 1..Len(ColumnsIn(c)) : /\ info[i].col = ColumnsIn(c)[i].col
                                           /\ ColumnsIn(c)[i].col \in ToSet(ColumnIds)
    <3>1. /\ DOMAIN info = 1..Len(ColumnsIn(c))
          /\ \A i \in 1..Len(ColumnsIn(c)) :
                 /\ info[i] = [col |-> ColumnsIn(c)[i].col, len |-> Len(DatasOf(c)[i])]
                 /\ ColumnsIn(c)[i].col \in ToSet(ColumnIds)
      BY <1>1, InfoIs, Zenon
    <3> HIDE DEF info
    <3> QED
      BY <3>1
  <2>2. \A i, j \in 1..Len(ColumnsIn(c)) : i < j => ColumnsIn(c)[i].col < ColumnsIn(c)[j].col
    BY <1>1, ColumnsOfChange
  <2>3. Len(ColumnsIn(c)) \in Nat
    BY <1>1, InfoIs, Zenon
  <2>4. ASSUME NEW col \in ToSet(ColumnIds)
        PROVE  col \in 1..127 /\ ~IsDeflated(col) /\ Unmarked(col) = col
    <3>1. PICK k \in 1..14 : col = ColumnIds[k]
      BY IdsInOrder DEF ToSet
    <3>2. ColumnIds[k] \in 1..127 /\ ~IsDeflated(ColumnIds[k])
      BY IdsInOrder
    <3> QED
      BY <3>1, <3>2 DEF Unmarked
  <2> HIDE DEF info
  <2>5. ASSUME NEW i \in DOMAIN info
        PROVE  ~IsDeflated(info[i].col) /\ Unmarked(info[i].col) > IF i = 1 THEN 0 ELSE Unmarked(info[i - 1].col)
    <3> DEFINE n == Len(ColumnsIn(c))
               col(j) == ColumnsIn(c)[j].col
    <3>1. i \in 1..n /\ info[i].col = col(i) /\ col(i) \in ToSet(ColumnIds)
      BY <2>1
    <3>2. col(i) \in 1..127 /\ ~IsDeflated(col(i)) /\ Unmarked(col(i)) = col(i)
      BY <2>4, <3>1
    <3>3. i # 1 => /\ info[i - 1].col = col(i - 1) /\ Unmarked(col(i - 1)) = col(i - 1) /\ col(i - 1) < col(i)
      <4> SUFFICES ASSUME i # 1
                   PROVE  /\ info[i - 1].col = col(i - 1) /\ Unmarked(col(i - 1)) = col(i - 1) /\ col(i - 1) < col(i)
        OBVIOUS
      <4>1. i - 1 \in 1..n /\ i - 1 < i
        BY <2>3, <3>1
      <4>2. info[i - 1].col = col(i - 1) /\ col(i - 1) \in ToSet(ColumnIds)
        BY <2>1, <4>1
      <4>3. Unmarked(col(i - 1)) = col(i - 1)
        BY <2>4, <4>2
      <4>4. col(i - 1) < col(i)
        BY <2>2, <3>1, <4>1
      <4> QED
        BY <4>2, <4>3, <4>4
    <3> HIDE DEF n, col
    <3>4. CASE i = 1
      BY <3>1, <3>2, <3>4
    <3>5. CASE i # 1
      BY <3>1, <3>2, <3>3, <3>5
    <3> QED
      BY <3>4, <3>5
  <2> QED
    BY <2>5 DEF InfoValid
<1>10. CountOps(ChangeOf(bytes, s, ReadBody(bytes, s))) = read
  <2> DEFINE ch == ChangeOf(bytes, s, ReadBody(bytes, s))
  <2>1. Slice(bytes, actor) \o Tail(ActorsOf(c)) = ActorsOf(c)
    BY <1>1, <1>4, ActorsOfChange
  <2>2. <<ColumnsAt(c, s) + LengthOf(info), Len(bytes)>> = <<ExtraAt(c), ExtraAt(c) + Len(c.extra_bytes)>>
    <3>1. LengthOf(info) = Len(FlattenSeq(DatasOf(c)))
      BY <1>1, InfoIs, Zenon
    <3>2. Len(bytes) = ExtraAt(c) + Len(c.extra_bytes)
      <4> DEFINE h == Len(HeadOf(c))
                 o == Len(OthersOf(c))
                 p == Len(OpsBytes(c))
                 w == Len(WriteColumnInfo(ColumnsIn(c)))
                 f == Len(FlattenSeq(DatasOf(c)))
                 x == Len(c.extra_bytes)
      <4>1. /\ Len(bytes) = s + Len(body) /\ Len(body) = h + o + p + x /\ p = w + f
            /\ h \in Nat /\ o \in Nat /\ w \in Nat /\ f \in Nat /\ x \in Nat /\ s \in Nat
        BY <1>1, LengthsAre, BodyIsBytes DEF bytes, body
      <4>2. ExtraAt(c) = s + h + o + w + f
        BY DEF ExtraAt, ColumnsAt
      <4> HIDE DEF h, o, p, w, f, x, s
      <4>3. s + (h + o + (w + f) + x) = (s + h + o + w + f) + x
        BY <4>1
      <4> QED
        BY <4>1, <4>2, <4>3 DEF x
    <3> QED
      BY <3>1, <3>2 DEF ExtraAt
  <2> HIDE DEF info
  <2>3. ch =
      [bytes       |-> bytes,
       body_start  |-> s,
       hash        |-> Hashed(bytes),
       seq         |-> c.seq,
       start_op    |-> c.start_op,
       time        |-> c.time,
       message     |-> <<MessageAt(c, s), MessageEnd(c, s)>>,
       actors      |-> Slice(bytes, actor) \o Tail(ActorsOf(c)),
       deps        |-> c.deps,
       ops         |-> Ranges(info, ColumnsAt(c, s)),
       extra_bytes |-> <<ColumnsAt(c, s) + LengthOf(info), Len(bytes)>>,
       num_ops     |-> 0]
    <3> DEFINE b == ReadBody(bytes, s)
    <3>1. /\ b.deps = c.deps /\ b.actor = actor /\ b.seq = c.seq /\ b.start_op = c.start_op /\ b.time = c.time
          /\ b.message = <<MessageAt(c, s), MessageEnd(c, s)>> /\ b.others = Tail(ActorsOf(c))
          /\ b.info = info /\ b.at = ColumnsAt(c, s)
      BY <1>4
    <3> HIDE DEF b, s
    <3> QED
      BY <3>1, Zenon DEF ChangeOf, b
  <2>4. [ch EXCEPT !.num_ops = Len(c.operations)] = read
    <3> DEFINE m == <<MessageAt(c, s), MessageEnd(c, s)>>
               p == Ranges(info, ColumnsAt(c, s))
               x == <<ExtraAt(c), ExtraAt(c) + Len(c.extra_bytes)>>
               n == Len(c.operations)
    <3>1. read = [bytes |-> bytes, body_start |-> s, hash |-> HashedOf(body), seq |-> c.seq, start_op |-> c.start_op,
                  time |-> c.time, message |-> m, actors |-> ActorsOf(c), deps |-> c.deps, ops |-> p,
                  extra_bytes |-> x, num_ops |-> n]
      BY DEF ChangeWith, TrueAt, info, bytes, body
    <3>2. ch = [bytes |-> bytes, body_start |-> s, hash |-> HashedOf(body), seq |-> c.seq, start_op |-> c.start_op,
                time |-> c.time, message |-> m, actors |-> ActorsOf(c), deps |-> c.deps, ops |-> p,
                extra_bytes |-> x, num_ops |-> 0]
      BY <1>2, <2>1, <2>2, <2>3
    <3> HIDE DEF ch, read, m, p, x, n, s
    <3> QED
      BY <3>1, <3>2, CountedLast DEF n
  <2>5. OpsIn(ch) = c.operations
    <3>1. ch.bytes = bytes /\ ch.ops = Ranges(info, ColumnsAt(c, s)) /\ ch.actors = ActorsOf(c)
      BY <2>1, <2>3
    <3> HIDE DEF ch, s
    <3>2. Stands(ch.bytes, ColumnsAt(c, s), FlattenSeq(DatasOf(c)))
      BY <1>4, <3>1
    <3> QED
      BY <1>1, <3>1, <3>2, OpsRead DEF info
  <2>6. CountOps(ch) = [ch EXCEPT !.num_ops = Len(c.operations)]
    BY <2>5 DEF CountOps
  <2> QED
    BY <2>4, <2>6
<1>11. DecodeInflated(bytes) = {read}
  <2>1. DecodeInflated(bytes) = DecodeBody(bytes)
    BY <1>2, <1>8 DEF DecodeInflated
  <2>2. DecodeBody(bytes) = DecodeBodyAt(bytes, s, ReadBody(bytes, s))
    BY <1>8 DEF DecodeBody, DecodeBodyFrom
  <2>3. ReadBody(bytes, s).info = info
    BY <1>4
  <2> QED
    BY <1>9, <1>10, <2>1, <2>2, <2>3 DEF DecodeBodyAt
<1>12. DecodeChange(bytes) = {read}
  <2>1. Decompressed(bytes) = bytes
    BY <1>2 DEF Decompressed, BLOCK_TYPE_CHANGE, BLOCK_TYPE_DEFLATE
  <2> QED
    BY <1>8, <1>11, <2>1 DEF DecodeChange
<1> QED
  BY <1>5, <1>6, <1>7, <1>11, <1>12 DEF bytes, read

-----------------------------------------------------------------------------
(* Parts of sequences, and numbers among bytes *)

\* A part that ends a sequence.
LEMMA EndIs ==
    ASSUME NEW S, NEW s \in Seq(S), NEW part \in Seq(S), NEW at \in Nat, at + Len(part) = Len(s),
           \A k \in 1..Len(part) : s[at + k] = part[k]
    PROVE  From(s, at) = part
<1>1. at + Len(part) <= Len(s)
  OBVIOUS
<1>2. SubSeq(s, at + 1, at + Len(part)) = part
  BY <1>1, PartIs
<1> QED
  BY <1>2 DEF From

\* A part that begins a sequence.
LEMMA BeginIs ==
    ASSUME NEW S, NEW s \in Seq(S), NEW part \in Seq(S), NEW n \in Nat, n = Len(part), n <= Len(s),
           \A k \in 1..n : s[k] = part[k]
    PROVE  SubSeq(s, 1, n) = part
<1>1. 0 \in Nat /\ 0 + Len(part) <= Len(s) /\ \A k \in 1..Len(part) : s[0 + k] = part[k]
  OBVIOUS
<1>2. SubSeq(s, 0 + 1, 0 + Len(part)) = part
  BY <1>1, PartIs
<1> QED
  BY <1>2

\* The rest of a sequence.
LEMMA RestIs ==
    ASSUME NEW S, NEW b \in Seq(S), NEW at \in 0..Len(b)
    PROVE  /\ From(b, at) \in Seq(S) /\ Len(From(b, at)) = Len(b) - at
           /\ \A i \in 1..(Len(b) - at) : From(b, at)[i] = b[at + i]
<1> DEFINE n == Len(b) - at
           r == [i \in 1..n |-> b[at + i]]
<1>1. Len(b) \in Nat /\ n \in Nat /\ at \in Nat /\ at + n = Len(b)
  BY LenProperties
<1> HIDE DEF n
<1>2. \A i \in 1..n : at + i \in 1..Len(b)
  BY <1>1
<1>3. r \in [1..n -> S]
  BY <1>2, LenProperties
<1>4. \A i \in 1..n : r[i] = b[at + i]
  OBVIOUS
<1> HIDE DEF r
<1>5. r \in Seq(S) /\ Len(r) = n
  BY <1>1, <1>3, FunctionsAreSequences, Zenon
<1>6. From(b, at) = r
  BY <1>1, <1>4, <1>5, EndIs
<1> QED
  BY <1>4, <1>5, <1>6 DEF n

\* The number one takes one byte.
LEMMA OneByte == WriteUnsigned(1) = <<1>>
<1>1. Power(1) = CONTINUATION_BIT /\ Power(0) = 1 /\ CONTINUATION_BIT \in Nat /\ CONTINUATION_BIT >= 4
  <2>1. Power(0 + 1) = CONTINUATION_BIT * Power(0) /\ Power(0) = 1
    BY PowerFacts
  <2>2. CONTINUATION_BIT \in Nat /\ CONTINUATION_BIT >= 4
    BY BitFacts
  <2> QED
    BY <2>1, <2>2
<1>2. 1 \div CONTINUATION_BIT = 0 /\ 1 % CONTINUATION_BIT = 1
  <2>1. CONTINUATION_BIT > 0 /\ 1 \in 0..(CONTINUATION_BIT - 1)
    BY <1>1
  <2> QED
    BY <1>1, <2>1, SmallNumber
<1>3. Min(UnsignedSizes(1)) = 1
  <2>1. 1 \in UnsignedSizes(1) /\ UnsignedSizes(1) \subseteq Nat /\ \A n \in UnsignedSizes(1) : n >= 1
    BY <1>1, <1>2, Leb128Assumption DEF UnsignedSizes
  <2>2. Min(UnsignedSizes(1)) \in UnsignedSizes(1) /\ \A j \in UnsignedSizes(1) : Min(UnsignedSizes(1)) <= j
    BY <2>1, MinIsLeast
  <2> DEFINE m == Min(UnsignedSizes(1))
  <2>3. m \in Nat /\ m >= 1 /\ m <= 1
    BY <2>1, <2>2
  <2> HIDE DEF m
  <2>4. m = 1
    BY <2>3
  <2> QED
    BY <2>4 DEF m
<1>4. Groups(1, 1) = <<1>>
  <2>1. 1 \div 1 = 1
    OBVIOUS
  <2>2. \A i \in 1..1 : LowBits(1 \div Power(i - 1)) + (IF i < 1 THEN CONTINUATION_BIT ELSE 0) = 1
    BY <1>1, <1>2, <2>1 DEF LowBits
  <2> QED
    BY <2>2 DEF Groups
<1> QED
  BY <1>3, <1>4 DEF WriteUnsigned

\* A number takes at least one byte, and no more than there may be.
LEMMA NumberLength ==
    ASSUME NEW n \in UnsignedNumber
    PROVE  Len(WriteUnsigned(n)) \in 1..MaxSize
<1> DEFINE size == Min(UnsignedSizes(n))
<1>1. size \in 1..MaxSize
  BY UnsignedSize
<1>2. n \in Int /\ size \in Nat
  BY <1>1, ItemsAre
<1> HIDE DEF size
<1>3. Len(Groups(n, size)) = size
  BY <1>2, GroupsFacts
<1> QED
  BY <1>1, <1>3 DEF WriteUnsigned, size

\* The groups of a number are those up to the first without a continuation bit, whatever
\* stands behind them.
LEMMA GroupsBegin ==
    ASSUME NEW n \in UnsignedNumber, NEW S, NEW b \in Seq(S), NEW k, k = Len(WriteUnsigned(n)), k <= Len(b),
           \A i \in 1..k : b[i] = WriteUnsigned(n)[i]
    PROVE  FirstGroups(b, {0, 1}) = Possible(WriteUnsigned(n), {0, 1})
<1> DEFINE w == WriteUnsigned(n)
           size == Min(UnsignedSizes(n))
<1>1. n \in Int /\ size \in Nat /\ size >= 1
  <2>1. size \in 1..MaxSize /\ n \in Int
    BY UnsignedSize, ItemsAre
  <2> QED
    BY <2>1, Leb128Assumption
<1>2. /\ w \in Seq(Nat) /\ Len(w) = size
      /\ \A i \in 1..size : w[i] >= CONTINUATION_BIT <=> i < size
  <2> HIDE DEF size
  <2>1. w = Groups(n, size)
    BY DEF WriteUnsigned, size
  <2> QED
    BY <1>1, <2>1, GroupsFacts
<1> HIDE DEF w, size
<1>3. k = size /\ \A i \in 1..k : b[i] = w[i] /\ w[i] \in Nat
  <2>1. k = size /\ \A i \in 1..k : b[i] = w[i]
    BY <1>2 DEF w
  <2>2. \A i \in 1..size : w[i] \in Nat
    BY <1>2, LenProperties
  <2> QED
    BY <2>1, <2>2
<1>4. CONTINUATION_BIT \in Nat
  BY BitFacts
<1>5. DOMAIN b = 1..Len(b) /\ Len(b) \in Nat /\ k \in 1..Len(b)
  BY <1>1, <1>3, LenProperties
<1>6. \A m \in 1..Len(b) : IsEnd(b, m) <=> m = k
  <2> TAKE m \in 1..Len(b)
  <2>1. CASE m < k
    <3>1. m \in 1..k /\ m < size
      BY <1>1, <1>3, <2>1
    <3>2. b[m] >= CONTINUATION_BIT /\ b[m] \in Nat
      BY <1>2, <1>3, <3>1
    <3>3. ~(b[m] < CONTINUATION_BIT)
      BY <1>4, <3>2
    <3> QED
      BY <1>1, <1>3, <2>1, <3>3 DEF IsEnd
  <2>2. CASE m = k
    <3>1. ~(w[k] >= CONTINUATION_BIT) /\ b[k] = w[k] /\ w[k] \in Nat
      BY <1>1, <1>2, <1>3
    <3>2. b[k] < CONTINUATION_BIT
      BY <1>4, <3>1
    <3>3. \A i \in 1..(k - 1) : b[i] >= CONTINUATION_BIT
      BY <1>1, <1>2, <1>3
    <3> QED
      BY <2>2, <3>2, <3>3 DEF IsEnd
  <2>3. CASE m > k
    <3>1. k \in 1..(m - 1) /\ k \in 1..size
      BY <1>1, <1>3, <2>3
    <3>2. ~(b[k] >= CONTINUATION_BIT)
      BY <1>2, <1>3, <3>1
    <3> QED
      BY <1>1, <1>3, <2>3, <3>1, <3>2 DEF IsEnd
  <2> QED
    BY <1>1, <1>3, <2>1, <2>2, <2>3
<1>7. EndOf(b) = k
  BY <1>5, <1>6 DEF EndOf
<1>8. SubSeq(b, 1, k) = w
  <2>1. b \in Seq(S \cup Nat) /\ w \in Seq(S \cup Nat)
    BY <1>2, SeqWithin
  <2>2. k \in Nat /\ k = Len(w) /\ k <= Len(b) /\ \A i \in 1..k : b[i] = w[i]
    BY <1>1, <1>2, <1>3
  <2> QED
    BY <2>1, <2>2, BeginIs
<1> QED
  BY <1>7, <1>8 DEF FirstGroups, w

\* A number is read from its bytes, whatever stands behind them.
LEMMA NumberBegins ==
    ASSUME NEW n \in UnsignedNumber, NEW S, NEW b \in Seq(S), NEW k, k = Len(WriteUnsigned(n)), k <= Len(b),
           \A i \in 1..k : b[i] = WriteUnsigned(n)[i]
    PROVE  ReadUnsigned(b) = [value |-> n, size |-> k]
<1> DEFINE w == WriteUnsigned(n)
<1>1. <<>> \in Seq(Nat)
  OBVIOUS
<1>2. w \in Seq(Nat) /\ ReadUnsigned(w \o <<>>) = [value |-> n, size |-> Len(w)]
  BY <1>1, UnsignedRoundTrip
<1>3. FirstGroups(b, {0, 1}) = Possible(w, {0, 1})
  BY GroupsBegin
<1>4. k <= Len(w) /\ \A i \in 1..k : w[i] = w[i]
  <2>1. Len(w) \in Nat
    BY <1>2
  <2> QED
    BY <2>1
<1>5. FirstGroups(w, {0, 1}) = Possible(w, {0, 1})
  BY <1>2, <1>4, GroupsBegin
<1> HIDE DEF w
<1>6. w \o <<>> = w
  BY <1>2
<1> QED
  BY <1>2, <1>3, <1>5, <1>6 DEF ReadUnsigned, w

-----------------------------------------------------------------------------
(* What is inflated of what was deflated *)

\* An int is small, and a small number is the same as an int.
LEMMA IntIs ==
    ASSUME NEW n \in Nat
    PROVE  /\ ToInt(n) \in Int /\ ToInt(n) < IntHalf
           /\ n < IntHalf => ToInt(n) = n
<1> DEFINE d == 2 * IntHalf
           r == (n + IntHalf) % d
<1>1. IntHalf \in Nat /\ IntHalf > 0 /\ d \in Nat /\ d > 0 /\ d = IntHalf + IntHalf /\ n + IntHalf \in Int
  BY DeflateAssumption
<1>2. ToInt(n) = r - IntHalf
  BY DEF ToInt
<1> HIDE DEF d
<1>3. r \in 0..(d - 1)
  BY <1>1, Division
<1>4. ASSUME n < IntHalf PROVE r = n + IntHalf
  <2>1. n + IntHalf \in 0..(d - 1)
    BY <1>1, <1>4
  <2> QED
    BY <1>1, <2>1, SmallNumber
<1> HIDE DEF r
<1> QED
  BY <1>1, <1>2, <1>3, <1>4

\* What is left of bytes of which there may be too many.
LEMMA AtMostIs ==
    ASSUME NEW s \in Seq(Nat), NEW n \in Int
    PROVE  /\ AtMost(s, n) \in Seq(Nat) /\ Len(AtMost(s, n)) <= Len(s)
           /\ n >= Len(s) => AtMost(s, n) = s
           /\ n < Len(s) /\ Len(s) >= 1 => Len(AtMost(s, n)) < Len(s)
<1>1. Len(s) \in Nat
  OBVIOUS
<1>2. CASE n < Len(s)
  <2> DEFINE t == SubSeq(s, 1, n)
  <2>1. AtMost(s, n) = t /\ ~(n >= Len(s))
    BY <1>1, <1>2 DEF AtMost
  <2>2. CASE n >= 1
    <3>1. t \in Seq(Nat) /\ Len(t) = n
      BY <1>1, <1>2, <2>2
    <3> HIDE DEF t
    <3> QED
      BY <1>1, <1>2, <2>1, <3>1
  <2>3. CASE n < 1
    <3>1. t = <<>>
      BY <2>3
    <3>2. <<>> \in Seq(Nat) /\ Len(<<>>) = 0
      OBVIOUS
    <3>3. t \in Seq(Nat) /\ Len(t) = 0
      BY <3>1, <3>2, Zenon
    <3> HIDE DEF t
    <3> QED
      BY <1>1, <2>1, <3>3
  <2> QED
    BY <2>2, <2>3
<1>3. CASE ~(n < Len(s))
  <2>1. AtMost(s, n) = s
    BY <1>3 DEF AtMost
  <2> QED
    BY <1>1, <1>3, <2>1
<1> QED
  BY <1>2, <1>3

\* What is inflated is what was deflated if there is room for all of it, and less if there is not.
LEMMA InflateIs ==
    ASSUME NEW data \in Seq(Nat), Len(data) >= 1, Deflates(data), NEW d, d = Deflate(data)
    PROVE  /\ d \in Seq({[deflated |-> Taken(data)]}) /\ Len(d) \in UnsignedNumber
           /\ Inflate(d) \in Seq(Nat)
           /\ Inflates(data) => Inflate(d) = data
           /\ ~Inflates(data) => Len(Inflate(d)) < Len(data)
<1> DEFINE taken == Taken(data)
           rec == [deflated |-> taken]
           k == DeflatedSize(taken)
           room == Capacity(k)
           n == Len(data)
<1>1. k \in Nat /\ k >= 1 /\ k <= IntHalf - 1 /\ IntHalf \in Nat /\ IntHalf <= HalfModulus /\ InflateRatio \in Nat
  BY DeflateAssumption DEF Deflates
<1>2. n \in Nat /\ n >= 1 /\ ToInt(n) \in Int /\ (n < IntHalf => ToInt(n) = n)
  <2>1. n \in Nat
    OBVIOUS
  <2> QED
    BY <2>1, IntIs
<1>3. /\ taken \in Seq(Nat) /\ Len(taken) <= n
      /\ ToInt(n) >= n => taken = data
      /\ ToInt(n) < n => Len(taken) < n
  BY <1>2, AtMostIs DEF Taken
<1>4. d = [i \in 1..k |-> rec]
  BY DEF Deflate, DeflatedFrom
<1> HIDE DEF taken, k, n
<1>5. d \in Seq({rec}) /\ Len(d) = k /\ d[1] = rec
  <2> HIDE DEF rec
  <2>1. d \in [1..k -> {rec}]
    BY <1>4
  <2>2. 1 \in 1..k
    BY <1>1
  <2> QED
    BY <1>1, <1>4, <2>1, <2>2, FunctionsAreSequences
<1>6. Len(d) \in UnsignedNumber
  BY <1>1, <1>5, ModulusFacts DEF UnsignedNumber
<1>7. room \in Int /\ room < IntHalf
  <2>1. InflateRatio * k \in Nat
    BY <1>1
  <2> QED
    BY <2>1, IntIs DEF Capacity
<1>8. Inflate(d) = AtMost(taken, room)
  BY <1>5 DEF Inflate
<1>9. Inflates(data) <=> n <= room
  BY DEF Inflates, k, n, taken
<1> HIDE DEF room
<1>10. Len(taken) \in Nat
  BY <1>3
<1>11. /\ AtMost(taken, room) \in Seq(Nat) /\ Len(AtMost(taken, room)) <= Len(taken)
       /\ room >= Len(taken) => AtMost(taken, room) = taken
       /\ room < Len(taken) /\ Len(taken) >= 1 => Len(AtMost(taken, room)) < Len(taken)
  BY <1>3, <1>7, AtMostIs
<1>12. ASSUME n <= room PROVE Inflate(d) = data
  <2>1. taken = data
    BY <1>1, <1>2, <1>3, <1>7, <1>12
  <2>2. room >= Len(taken)
    BY <1>12, <2>1 DEF n
  <2> QED
    BY <1>8, <1>11, <2>1, <2>2
<1>13. ASSUME ~(n <= room) PROVE Len(AtMost(taken, room)) < n
  <2>1. Len(AtMost(taken, room)) \in Nat
    BY <1>11
  <2>2. CASE ToInt(n) < n
    BY <1>2, <1>3, <1>10, <1>11, <2>1, <2>2
  <2>3. CASE ~(ToInt(n) < n)
    <3>1. taken = data
      BY <1>2, <1>3, <2>3
    <3>2. Len(taken) = n
      BY <3>1 DEF n
    <3> QED
      BY <1>2, <1>7, <1>11, <1>13, <2>1, <3>2
  <2> QED
    BY <2>2, <2>3
<1> QED
  BY <1>5, <1>6, <1>8, <1>9, <1>11, <1>12, <1>13 DEF n, rec, taken

-----------------------------------------------------------------------------
(* A block that is deflated is read *)

\* It does not matter which two are joined first.
LEMMA JoinedAgain ==
    ASSUME NEW S, NEW first \in Seq(S), NEW second \in Seq(S), NEW third \in Seq(S)
    PROVE  (first \o second) \o third = first \o (second \o third)
<1>1. Associative(S)
  BY ConcatIsAssociative
<1> QED
  BY <1>1, Zenon DEF Associative

\* Four sequences one after the other.
InARow(p, q, r, s) == ((p \o q) \o r) \o s

FourParts(x, S, p, q, r, s) ==
    /\ x \in Seq(S) /\ Len(x) = Len(p) + Len(q) + Len(r) + Len(s)
    /\ \A i \in 1..Len(p) : x[i] = p[i]
    /\ \A i \in 1..Len(q) : x[Len(p) + i] = q[i]
    /\ \A i \in 1..Len(r) : x[Len(p) + Len(q) + i] = r[i]
    /\ \A i \in 1..Len(s) : x[Len(p) + Len(q) + Len(r) + i] = s[i]
    /\ x = p \o ((q \o r) \o s)

LEMMA FourJoined ==
    ASSUME NEW S, NEW p \in Seq(S), NEW q \in Seq(S), NEW r \in Seq(S), NEW s \in Seq(S)
    PROVE  FourParts(InARow(p, q, r, s), S, p, q, r, s)
<1> DEFINE t == (p \o q) \o r
           x == InARow(p, q, r, s)
<1>1. /\ t \in Seq(S) /\ Len(t) = Len(p) + Len(q) + Len(r)
      /\ \A i \in 1..Len(p) : t[i] = p[i]
      /\ \A i \in 1..Len(q) : t[Len(p) + i] = q[i]
      /\ \A i \in 1..Len(r) : t[Len(p) + Len(q) + i] = r[i]
  <2> DEFINE pq == p \o q
  <2>1. /\ pq \in Seq(S) /\ Len(pq) = Len(p) + Len(q)
        /\ \A i \in 1..Len(p) : pq[i] = p[i]
        /\ \A i \in 1..Len(q) : pq[Len(p) + i] = q[i]
    BY TwoJoined
  <2> HIDE DEF pq
  <2>2. pq \in Seq(S)
    BY <2>1
  <2>3. /\ pq \o r \in Seq(S) /\ Len(pq \o r) = Len(pq) + Len(r)
        /\ \A i \in 1..Len(pq) : (pq \o r)[i] = pq[i]
        /\ \A i \in 1..Len(r) : (pq \o r)[Len(pq) + i] = r[i]
    BY <2>2, TwoJoined
  <2>4. t = pq \o r
    BY DEF pq
  <2> HIDE DEF t
  <2>5. t \in Seq(S) /\ Len(t) = Len(p) + Len(q) + Len(r)
    BY <2>1, <2>3, <2>4
  <2>6. \A i \in 1..Len(r) : t[Len(p) + Len(q) + i] = r[i]
    BY <2>1, <2>3, <2>4
  <2>7. \A i \in 1..Len(p) : i \in 1..Len(pq) /\ t[i] = p[i]
    BY <2>1, <2>3, <2>4
  <2>8. \A i \in 1..Len(q) : Len(p) + i \in 1..Len(pq) /\ t[Len(p) + i] = q[i]
    BY <2>1, <2>3, <2>4
  <2> QED
    BY <2>5, <2>6, <2>7, <2>8
<1>2. Len(p) \in Nat /\ Len(q) \in Nat /\ Len(r) \in Nat /\ Len(s) \in Nat
  OBVIOUS
<1>3. x = p \o ((q \o r) \o s)
  <2> DEFINE qr == q \o r
  <2>1. qr \in Seq(S)
    OBVIOUS
  <2>2. t = p \o qr
    BY JoinedAgain
  <2> HIDE DEF qr, t
  <2>3. (p \o qr) \o s = p \o (qr \o s)
    BY <2>1, JoinedAgain, SMTT(20)
  <2> QED
    BY <2>2, <2>3 DEF InARow, qr, t
<1>4. x = t \o s
  BY DEF InARow
<1> HIDE DEF t, x
<1>5. /\ x \in Seq(S) /\ Len(x) = Len(t) + Len(s)
      /\ \A i \in 1..Len(t) : x[i] = t[i]
      /\ \A i \in 1..Len(s) : x[Len(t) + i] = s[i]
  <2>1. t \in Seq(S)
    BY <1>1
  <2>2. /\ t \o s \in Seq(S) /\ Len(t \o s) = Len(t) + Len(s)
        /\ \A i \in 1..Len(t) : (t \o s)[i] = t[i]
        /\ \A i \in 1..Len(s) : (t \o s)[Len(t) + i] = s[i]
    BY <2>1, TwoJoined
  <2> QED
    BY <1>4, <2>2
<1>6. /\ \A i \in 1..Len(p) : x[i] = p[i]
      /\ \A i \in 1..Len(q) : x[Len(p) + i] = q[i]
      /\ \A i \in 1..Len(r) : x[Len(p) + Len(q) + i] = r[i]
  <2>1. /\ \A i \in 1..Len(p) : i \in 1..Len(t)
        /\ \A i \in 1..Len(q) : Len(p) + i \in 1..Len(t)
        /\ \A i \in 1..Len(r) : Len(p) + Len(q) + i \in 1..Len(t)
    BY <1>1, <1>2
  <2> QED
    BY <1>1, <1>5, <2>1
<1>7. /\ Len(x) = Len(p) + Len(q) + Len(r) + Len(s)
      /\ \A i \in 1..Len(s) : x[Len(p) + Len(q) + Len(r) + i] = s[i]
  BY <1>1, <1>5
<1> QED
  BY <1>3, <1>5, <1>6, <1>7 DEF FourParts, x

\* A number that stands at a position, whatever is behind it.
NumberAt(x, at, n) ==
    /\ at + Len(WriteUnsigned(n)) <= Len(x)
    /\ \A i \in 1..Len(WriteUnsigned(n)) : x[at + i] = WriteUnsigned(n)[i]

LEMMA NumberThere ==
    ASSUME NEW S, NEW x \in Seq(S), NEW at \in Nat, NEW n \in UnsignedNumber, NumberAt(x, at, n)
    PROVE  ReadNumber(x, at) = [value |-> n, at |-> at + Len(WriteUnsigned(n))]
<1> DEFINE rest == From(x, at)
           k == Len(WriteUnsigned(n))
<1>1. k \in Nat /\ n \in Nat
  <2>1. k \in 1..MaxSize
    BY NumberLength
  <2> QED
    BY <2>1, ItemsAre, Leb128Assumption
<1>2. at \in 0..Len(x) /\ at + k <= Len(x) /\ \A i \in 1..k : x[at + i] = WriteUnsigned(n)[i]
  BY <1>1 DEF NumberAt
<1>3. rest \in Seq(S) /\ Len(rest) = Len(x) - at /\ \A i \in 1..(Len(x) - at) : rest[i] = x[at + i]
  BY <1>2, RestIs
<1> HIDE DEF rest, k
<1>4. k <= Len(rest) /\ \A i \in 1..k : i \in 1..(Len(x) - at)
  BY <1>1, <1>2, <1>3
<1>5. \A i \in 1..k : rest[i] = WriteUnsigned(n)[i]
  BY <1>2, <1>3, <1>4
<1>6. ReadUnsigned(rest) = [value |-> n, size |-> k]
  BY <1>3, <1>4, <1>5, NumberBegins DEF k
<1> QED
  BY <1>6 DEF ReadNumber, MoveBy, rest, k

\* Bytes, one byte, bytes and bytes: each stands in its place.
Frame(p, e, w, r) == InARow(p, <<e>>, w, r)

InFrame(x, S, p, e, w, r) ==
    /\ x \in Seq(S) /\ Len(x) = Len(p) + 1 + Len(w) + Len(r)
    /\ \A i \in 1..Len(p) : x[i] = p[i]
    /\ x[Len(p) + 1] = e
    /\ \A i \in 1..Len(w) : x[Len(p) + 1 + i] = w[i]
    /\ \A i \in 1..Len(r) : x[Len(p) + 1 + Len(w) + i] = r[i]
    /\ x = p \o ((<<e>> \o w) \o r)

LEMMA FrameIs ==
    ASSUME NEW S, NEW p \in Seq(S), NEW e \in S, NEW w \in Seq(S), NEW r \in Seq(S)
    PROVE  InFrame(Frame(p, e, w, r), S, p, e, w, r)
<1> DEFINE t == <<e>>
           x == InARow(p, t, w, r)
<1>1. t \in Seq(S)
  OBVIOUS
<1>2. Len(t) = 1 /\ t[1] = e
  OBVIOUS
<1>3. Frame(p, e, w, r) = x
  BY DEF Frame
<1> HIDE DEF t
<1>4. /\ x \in Seq(S)
      /\ Len(x) = Len(p) + Len(t) + Len(w) + Len(r)
      /\ \A i \in 1..Len(p) : x[i] = p[i]
      /\ \A i \in 1..Len(t) : x[Len(p) + i] = t[i]
      /\ \A i \in 1..Len(w) : x[Len(p) + Len(t) + i] = w[i]
      /\ \A i \in 1..Len(r) : x[Len(p) + Len(t) + Len(w) + i] = r[i]
      /\ x = p \o ((t \o w) \o r)
  <2>1. FourParts(x, S, p, t, w, r)
    BY <1>1, FourJoined
  <2> QED
    BY <2>1 DEF FourParts
<1> HIDE DEF x
<1>5. Len(x) = Len(p) + 1 + Len(w) + Len(r)
  BY <1>2, <1>4
<1>6. x[Len(p) + 1] = e
  BY <1>2, <1>4
<1>7. \A i \in 1..Len(w) : x[Len(p) + 1 + i] = w[i]
  BY <1>2, <1>4
<1>8. \A i \in 1..Len(r) : x[Len(p) + 1 + Len(w) + i] = r[i]
  BY <1>2, <1>4
<1> QED
  BY <1>3, <1>4, <1>5, <1>6, <1>7, <1>8 DEF InFrame, t

\* Bytes before the length of a body, and the body.
Framed(first, type, body) == first \o <<type>> \o WriteUnsigned(Len(body)) \o body

FramedParts(x, S, first, type, body) ==
    LET at == Len(first) + 1
        w  == WriteUnsigned(Len(body))
    IN  /\ x \in Seq(S) /\ at \in Nat /\ Len(x) = at + Len(w) + Len(body) /\ Len(w) \in Nat /\ Len(w) >= 1
        /\ \A i \in 1..Len(first) : x[i] = first[i]
        /\ x[at] = type /\ NumberAt(x, at, Len(body))
        /\ ReadNumber(x, at) = [value |-> Len(body), at |-> at + Len(w)]
        /\ From(x, at + Len(w)) = body /\ x = first \o From(x, Len(first))

LEMMA FramedIs ==
    ASSUME NEW S, Nat \subseteq S, NEW first \in Seq(S), NEW type \in Nat,
           NEW body \in Seq(S), Len(body) \in UnsignedNumber
    PROVE  FramedParts(Framed(first, type, body), S, first, type, body)
<1> DEFINE w == WriteUnsigned(Len(body))
           at == Len(first) + 1
           x == Framed(first, type, body)
           rest == (<<type>> \o w) \o body
           f == Frame(first, type, w, body)
<1>1. w \in Seq(Nat) /\ Len(w) \in Nat /\ Len(w) >= 1
  <2>1. w \in Seq(Nat)
    BY NumbersAlone
  <2>2. Len(w) \in 1..MaxSize
    BY NumberLength
  <2> QED
    BY <2>1, <2>2, Leb128Assumption
<1>2. w \in Seq(S) /\ type \in S
  BY <1>1, SeqWithin
<1>3. x = f
  BY DEF Framed, Frame, InARow
<1>4. rest \in Seq(S)
  BY <1>2
<1>5. /\ f \in Seq(S) /\ Len(f) = Len(first) + 1 + Len(w) + Len(body)
      /\ \A i \in 1..Len(first) : f[i] = first[i]
      /\ f[Len(first) + 1] = type
      /\ \A i \in 1..Len(w) : f[Len(first) + 1 + i] = w[i]
      /\ \A i \in 1..Len(body) : f[Len(first) + 1 + Len(w) + i] = body[i]
      /\ f = first \o rest
  <2>1. InFrame(f, S, first, type, w, body)
    BY <1>2, FrameIs
  <2> HIDE DEF f
  <2> QED
    BY <2>1 DEF InFrame
<1> HIDE DEF rest, f, x, w
<1>6. /\ x \in Seq(S) /\ Len(x) = at + Len(w) + Len(body)
      /\ \A i \in 1..Len(first) : x[i] = first[i]
      /\ x[at] = type
      /\ \A i \in 1..Len(w) : x[at + i] = w[i]
      /\ \A i \in 1..Len(body) : x[at + Len(w) + i] = body[i]
      /\ x = first \o rest
  BY <1>3, <1>5
<1> HIDE DEF at
<1>7. Len(body) \in Nat /\ Len(rest) \in Nat /\ at \in Nat
  BY <1>4 DEF at
<1>11. NumberAt(x, at, Len(body))
  <2>1. at + Len(w) <= Len(x)
    BY <1>1, <1>6, <1>7
  <2> QED
    BY <1>6, <2>1 DEF NumberAt, w
<1>8. ReadNumber(x, at) = [value |-> Len(body), at |-> at + Len(w)]
  BY <1>6, <1>7, <1>11, NumberThere DEF w
<1>9. From(x, at + Len(w)) = body
  <2>1. at + Len(w) \in Nat /\ at + Len(w) + Len(body) = Len(x)
    BY <1>1, <1>6, <1>7
  <2> QED
    BY <1>6, <2>1, EndIs
<1>10. From(x, Len(first)) = rest
  <2>1. /\ Len(first \o rest) = Len(first) + Len(rest)
        /\ \A i \in 1..Len(rest) : (first \o rest)[Len(first) + i] = rest[i]
    BY <1>4, TwoJoined
  <2>2. Len(first) \in Nat /\ Len(first) + Len(rest) = Len(x) /\ \A i \in 1..Len(rest) : x[Len(first) + i] = rest[i]
    BY <1>6, <1>7, <2>1
  <2> QED
    BY <1>4, <1>6, <2>2, EndIs
<1> QED
  BY <1>1, <1>6, <1>7, <1>8, <1>9, <1>10, <1>11 DEF FramedParts, x, w, at

\* What is framed after the first bytes of a block has a valid header, and is found there.
FramedReads(x, S, first, type, body) ==
    LET w == WriteUnsigned(Len(body))
    IN  /\ x \in Seq(S) /\ Len(x) = HEADER_BYTES + Len(w) + Len(body)
        /\ HeaderValid(x) /\ BodyStart(x) = HEADER_BYTES + Len(w)
        /\ From(x, BodyStart(x)) = body /\ x[HEADER_BYTES] = type
        /\ ReadNumber(x, HEADER_BYTES).value = Len(body) /\ NumberAt(x, HEADER_BYTES, Len(body))
        /\ SubSeq(x, 1, PREAMBLE_BYTES) = first /\ SubSeq(x, 5, 8) = SubSeq(first, 5, 8)
        /\ x = first \o Hashed(x)

LEMMA FramedHeader ==
    ASSUME NEW S, Nat \subseteq S, NEW first \in Seq(S), Len(first) = PREAMBLE_BYTES, SubSeq(first, 1, 4) = MAGIC_BYTES,
           NEW type \in Nat, NEW body \in Seq(S), Len(body) \in UnsignedNumber
    PROVE  FramedReads(Framed(first, type, body), S, first, type, body)
<1> DEFINE w == WriteUnsigned(Len(body))
           at == Len(first) + 1
           x == Framed(first, type, body)
<1>a. FramedParts(x, S, first, type, body)
  BY FramedIs
<1> HIDE DEF x
<1>1. /\ x \in Seq(S) /\ at \in Nat /\ Len(x) = at + Len(w) + Len(body) /\ Len(w) \in Nat /\ Len(w) >= 1
      /\ \A i \in 1..Len(first) : x[i] = first[i]
      /\ x[at] = type /\ NumberAt(x, at, Len(body))
      /\ ReadNumber(x, at) = [value |-> Len(body), at |-> at + Len(w)]
      /\ From(x, at + Len(w)) = body
      /\ x = first \o From(x, Len(first))
  BY <1>a, Zenon DEF FramedParts
<1>2. at = HEADER_BYTES /\ HEADER_BYTES = 9 /\ Len(first) = 8 /\ PREAMBLE_BYTES = 8
  BY DEF HEADER_BYTES, PREAMBLE_BYTES
<1> HIDE DEF w, at
<1>3. Len(body) \in Nat
  OBVIOUS
<1>4. \A i \in 1..8 : x[i] = first[i]
  BY <1>1, <1>2
<1>5. Len(x) > 9 /\ 8 <= Len(x)
  BY <1>1, <1>2, <1>3
<1>6. SubSeq(x, 1, 8) = first
  BY <1>1, <1>2, <1>4, <1>5, BeginIs
<1>7. SubSeq(x, 1, 4) = SubSeq(first, 1, 4) /\ SubSeq(x, 5, 8) = SubSeq(first, 5, 8)
  <2>1. SubSeq(x, 1, 4) = [i \in 1..4 |-> x[i]] /\ SubSeq(x, 5, 8) = [i \in 1..4 |-> x[i + 4]]
    BY <1>1, <1>5
  <2>2. SubSeq(first, 1, 4) = [i \in 1..4 |-> first[i]] /\ SubSeq(first, 5, 8) = [i \in 1..4 |-> first[i + 4]]
    BY <1>2
  <2>3. \A i \in 1..4 : x[i] = first[i] /\ x[i + 4] = first[i + 4]
    BY <1>4
  <2> QED
    BY <2>1, <2>2, <2>3
<1>8. HeaderValid(x)
  <2> DEFINE r == ReadNumber(x, HEADER_BYTES)
  <2>1. r.value = Len(body) /\ r.at = HEADER_BYTES + Len(w)
    BY <1>1, <1>2
  <2> HIDE DEF r
  <2>2. Len(x) = r.at + r.value
    BY <1>1, <1>2, <2>1
  <2>3. Len(x) > HEADER_BYTES /\ SubSeq(x, 1, 4) = MAGIC_BYTES
    BY <1>2, <1>5, <1>7
  <2> QED
    BY <2>2, <2>3 DEF HeaderValid, HeaderFits, r
<1>9. /\ BodyStart(x) = HEADER_BYTES + Len(w) /\ ReadNumber(x, HEADER_BYTES).value = Len(body)
      /\ Len(x) = HEADER_BYTES + Len(w) + Len(body) /\ x[HEADER_BYTES] = type
      /\ NumberAt(x, HEADER_BYTES, Len(body))
  BY <1>1, <1>2 DEF BodyStart
<1>10. From(x, BodyStart(x)) = body
  BY <1>1, <1>2, <1>9
<1>11. x = first \o Hashed(x)
  BY <1>1, <1>2 DEF Hashed
<1>12. SubSeq(x, 1, PREAMBLE_BYTES) = first
  BY <1>2, <1>6
<1> QED
  BY <1>1, <1>7, <1>8, <1>9, <1>10, <1>11, <1>12, Zenon DEF FramedReads, w, x

\* The body of a change, and what is before it.
LEMMA BodyFound ==
    ASSUME NEW c \in ChangeType, BytesFit(c), NEW P, P = SubSeq(BytesOf(c), 1, PREAMBLE_BYTES)
    PROVE  /\ \A at : BodyBytes(ChangeWith(c, at)) = Body(c)
           /\ Body(c) \in Seq(Nat) /\ Len(Body(c)) \in UnsignedNumber /\ Len(Body(c)) >= 1
           /\ P \in Seq(BlockBytes(Body(c))) /\ Len(P) = PREAMBLE_BYTES /\ SubSeq(P, 1, 4) = MAGIC_BYTES
           /\ SubSeq(P, 5, 8) = Checksum(HashedOf(Body(c)))
           /\ BytesOf(c) = Framed(P, BLOCK_TYPE_CHANGE, Body(c)) /\ Hashed(BytesOf(c)) = HashedOf(Body(c))
<1> DEFINE bytes == BytesOf(c)
           body == Body(c)
           s == BodyOf(c)
           h == HashedOf(body)
           S == BlockBytes(body)
<1>1. body \in Seq(Nat) /\ Len(body) \in UnsignedNumber /\ bytes = Block(BLOCK_TYPE_CHANGE, body)
  BY BodyIsBytes DEF BytesFit, BytesOf
<1>2. Len(body) >= 1
  <2> DEFINE b == Len(BeforeMessage(c))
             o == Len(OthersOf(c))
             p == Len(OpsBytes(c))
             x == Len(c.extra_bytes)
             k == Len(WriteUnsigned(Len(c.message)))
             l == Len(c.message)
             n == Len(body)
             m == Len(HeadOf(c))
             v == Len(WriteString(c.message))
  <2>1. b \in Nat /\ o \in Nat /\ p \in Nat /\ x \in Nat
    BY LengthsAre
  <2>2. n = m + o + p + x /\ m = b + v /\ v = k + l
    BY BodyIsBytes DEF BytesFit
  <2>3. k \in 1..MaxSize /\ l \in Nat /\ MaxSize \in Nat
    <3>1. Len(c.message) \in UnsignedNumber
      BY DEF BytesFit, NumbersFit, PartsFit
    <3> QED
      BY <3>1, NumberLength, ItemsAre, Leb128Assumption
  <2> HIDE DEF b, o, p, x, k, l, n, m, v
  <2>4. k \in Nat /\ k >= 1
    BY <2>3
  <2>5. v >= 1 /\ v \in Nat
    BY <2>2, <2>3, <2>4
  <2>6. n >= 1
    BY <2>1, <2>2, <2>5
  <2> QED
    BY <2>6 DEF n
<1> HIDE DEF bytes, body
<1>3. /\ bytes \in Seq(S) /\ Len(bytes) = StartOf(body) + Len(body) /\ Len(bytes) > HEADER_BYTES
      /\ SubSeq(bytes, 1, 4) = MAGIC_BYTES /\ SubSeq(bytes, 5, 8) = Checksum(h) /\ Hashed(bytes) = h
      /\ Stands(bytes, StartOf(body), body)
  BY <1>1, BlockIs
<1>4. s = StartOf(body)
  BY DEF BodyOf, body
<1>5. From(bytes, s) = body
  <2>1. Slice(bytes, <<s, s + Len(body)>>) = body
    BY <1>3, <1>4, StandsThere
  <2>2. s + Len(body) = Len(bytes)
    BY <1>3, <1>4
  <2> QED
    BY <2>1, <2>2 DEF Slice, From
<1>6. \A at : BodyBytes(ChangeWith(c, at)) = body
  BY <1>5 DEF BodyBytes, ChangeWith, bytes
<1> HIDE DEF s, h, S
<1>7. Len(bytes) > 9 /\ P = SubSeq(bytes, 1, 8)
  BY <1>3 DEF HEADER_BYTES, PREAMBLE_BYTES, bytes
<1>b. \A i \in 1..4 : i \in 1..8 /\ i + 4 \in 1..8
  OBVIOUS
<1>8. P \in Seq(S) /\ Len(P) = 8 /\ \A i \in 1..8 : P[i] = bytes[i]
  <2>1. bytes \in Seq(S) /\ Len(bytes) \in Nat /\ 8 <= Len(bytes)
    BY <1>3, <1>7
  <2> DEFINE p == SubSeq(bytes, 1, 8)
  <2>2. p \in Seq(S) /\ Len(p) = 8 /\ \A i \in 1..8 : p[i] = bytes[i]
    BY <2>1
  <2> QED
    BY <1>7, <2>2
<1>9. SubSeq(P, 1, 4) = SubSeq(bytes, 1, 4) /\ SubSeq(P, 5, 8) = SubSeq(bytes, 5, 8)
  <2>1. SubSeq(bytes, 1, 4) = [i \in 1..4 |-> bytes[i]] /\ SubSeq(bytes, 5, 8) = [i \in 1..4 |-> bytes[i + 4]]
    BY <1>3, <1>7
  <2>2. SubSeq(P, 1, 4) = [i \in 1..4 |-> P[i]] /\ SubSeq(P, 5, 8) = [i \in 1..4 |-> P[i + 4]]
    BY <1>8
  <2>3. \A i \in 1..4 : P[i] = bytes[i] /\ P[i + 4] = bytes[i + 4]
    BY <1>8, <1>b
  <2>4. /\ [i \in 1..4 |-> P[i]] = [i \in 1..4 |-> bytes[i]]
        /\ [i \in 1..4 |-> P[i + 4]] = [i \in 1..4 |-> bytes[i + 4]]
    BY <2>3, Zenon
  <2> QED
    BY <2>1, <2>2, <2>4, Zenon
<1>10. P \o h = bytes
  <2>1. From(bytes, 8) = h
    BY <1>3 DEF Hashed, PREAMBLE_BYTES
  <2>2. SubSeq(bytes, 1, 8) \o SubSeq(bytes, 8 + 1, Len(bytes)) = bytes
    <3>1. 8 \in 0..Len(bytes)
      BY <1>3, <1>7
    <3> QED
      BY <1>3, <3>1
  <2> QED
    BY <1>7, <2>1, <2>2 DEF From
<1>11. Framed(P, BLOCK_TYPE_CHANGE, body) = P \o h
  <2> DEFINE t == <<BLOCK_TYPE_CHANGE>>
             w == WriteUnsigned(Len(body))
  <2>1. P \in Seq(S) /\ t \in Seq(S) /\ w \in Seq(S) /\ body \in Seq(S)
    <3>1. t \in Seq(Nat) /\ w \in Seq(Nat) /\ body \in Seq(Nat)
      BY <1>1, NumbersAlone DEF BLOCK_TYPE_CHANGE
    <3>2. Nat \subseteq S
      BY DEF S, BlockBytes
    <3> HIDE DEF t, w
    <3> QED
      BY <1>8, <3>1, <3>2, SeqWithin
  <2>2. h = (t \o w) \o body /\ Framed(P, BLOCK_TYPE_CHANGE, body) = ((P \o t) \o w) \o body
    BY DEF h, HashedOf, Framed
  <2> HIDE DEF t, w
  <2>3. ((P \o t) \o w) \o body = P \o ((t \o w) \o body)
    <3>1. FourParts(InARow(P, t, w, body), S, P, t, w, body)
      BY <2>1, FourJoined
    <3> QED
      BY <3>1, Zenon DEF FourParts, InARow
  <2> QED
    BY <2>2, <2>3
<1> QED
  BY <1>1, <1>2, <1>3, <1>6, <1>8, <1>9, <1>10, <1>11 DEF PREAMBLE_BYTES, bytes, body, S, h

\* What compress makes of the bytes of a change.
Packed(c) == Framed(SubSeq(BytesOf(c), 1, PREAMBLE_BYTES), BLOCK_TYPE_DEFLATE, Deflate(Body(c)))
PackedBytes(c) == BlockBytes(Body(c)) \cup {[deflated |-> Taken(Body(c))]}

LEMMA CompressedIs ==
    ASSUME NEW c \in ChangeType, BytesFit(c), NEW at
    PROVE  Compressed(ChangeWith(c, at)) = IF Len(BytesOf(c)) <= DEFLATE_MIN_SIZE THEN BytesOf(c) ELSE Packed(c)
<1>1. BodyBytes(ChangeWith(c, at)) = Body(c)
  BY BodyFound
<1>2. ChangeWith(c, at).bytes = BytesOf(c)
  BY DEF ChangeWith
<1> QED
  BY <1>1, <1>2 DEF Compressed, Packed, Framed

LEMMA PackedIs ==
    ASSUME NEW c \in ChangeType, BytesFit(c), Deflates(Body(c)), NEW raw, raw = Packed(c),
           NEW w, w = WriteUnsigned(Len(Deflate(Body(c))))
    PROVE  /\ raw \in Seq(PackedBytes(c)) /\ Len(raw) = HEADER_BYTES + Len(w) + Len(Deflate(Body(c)))
           /\ Len(Deflate(Body(c))) \in UnsignedNumber
           /\ HeaderValid(raw)
           /\ From(raw, BodyStart(raw)) = Deflate(Body(c)) /\ raw[HEADER_BYTES] = BLOCK_TYPE_DEFLATE
           /\ SubSeq(raw, 1, PREAMBLE_BYTES) = SubSeq(BytesOf(c), 1, PREAMBLE_BYTES)
           /\ SubSeq(raw, 1, 4) = MAGIC_BYTES /\ BodyStart(raw) = HEADER_BYTES + Len(w)
           /\ NumberAt(raw, HEADER_BYTES, Len(Deflate(Body(c))))
<1> DEFINE P == SubSeq(BytesOf(c), 1, PREAMBLE_BYTES)
           d == Deflate(Body(c))
           S == BlockBytes(Body(c))
           rec == [deflated |-> Taken(Body(c))]
           T == PackedBytes(c)
<1>1. /\ Body(c) \in Seq(Nat) /\ Len(Body(c)) >= 1 /\ P \in Seq(S) /\ Len(P) = PREAMBLE_BYTES
      /\ SubSeq(P, 1, 4) = MAGIC_BYTES
  BY BodyFound
<1>2. d \in Seq({rec}) /\ Len(d) \in UnsignedNumber
  BY <1>1, InflateIs
<1>3. Nat \subseteq T /\ S \subseteq T /\ {rec} \subseteq T
  BY DEF BlockBytes, PackedBytes
<1>4. raw = Framed(P, BLOCK_TYPE_DEFLATE, d) /\ BLOCK_TYPE_DEFLATE \in Nat
  BY DEF Packed, BLOCK_TYPE_DEFLATE
<1> HIDE DEF P, d, S, T, rec
<1>5. P \in Seq(T) /\ d \in Seq(T)
  BY <1>1, <1>2, <1>3, SeqWithin
<1>6. /\ raw \in Seq(T) /\ Len(raw) = HEADER_BYTES + Len(WriteUnsigned(Len(d))) + Len(d)
      /\ HeaderValid(raw) /\ BodyStart(raw) = HEADER_BYTES + Len(WriteUnsigned(Len(d)))
      /\ From(raw, BodyStart(raw)) = d /\ raw[HEADER_BYTES] = BLOCK_TYPE_DEFLATE
      /\ SubSeq(raw, 1, PREAMBLE_BYTES) = P /\ NumberAt(raw, HEADER_BYTES, Len(d))
  <2>1. FramedReads(raw, T, P, BLOCK_TYPE_DEFLATE, d)
    BY <1>1, <1>2, <1>3, <1>4, <1>5, FramedHeader
  <2> QED
    BY <2>1, Zenon DEF FramedReads
<1>7. SubSeq(raw, 1, 4) = MAGIC_BYTES
  BY <1>6 DEF HeaderValid
<1> QED
  BY <1>2, <1>6, <1>7 DEF P, d, T

\* Of a change with a body cut short, the checksum is not that of its bytes.
LEMMA CutIsRefused ==
    ASSUME NEW c \in ChangeType, BytesFit(c), NEW z \in Seq(Nat), Len(z) < Len(Body(c)),
           NEW P, P = SubSeq(BytesOf(c), 1, PREAMBLE_BYTES), NEW y, y = Framed(P, BLOCK_TYPE_CHANGE, z)
    PROVE  DecodeInflated(y) = {}
<1> DEFINE body == Body(c)
           bytes == BytesOf(c)
           h == HashedOf(body)
           S == BlockBytes(body)
<1>1. /\ body \in Seq(Nat) /\ Len(body) \in UnsignedNumber
      /\ P \in Seq(S) /\ Len(P) = PREAMBLE_BYTES /\ SubSeq(P, 1, 4) = MAGIC_BYTES
      /\ SubSeq(P, 5, 8) = Checksum(h) /\ bytes = Framed(P, BLOCK_TYPE_CHANGE, body) /\ Hashed(bytes) = h
  BY BodyFound
<1>2. Nat \subseteq S /\ BLOCK_TYPE_CHANGE \in Nat
  BY DEF BlockBytes, BLOCK_TYPE_CHANGE
<1> HIDE DEF S, h, body, bytes
<1>3. Len(z) \in Nat /\ Len(body) \in Nat /\ Len(z) < Len(body) /\ Len(z) \in UnsignedNumber
  <2>1. \A n : n \in UnsignedNumber <=> n \in Nat /\ n < Modulus
    BY ModulusFacts DEF UnsignedNumber
  <2>2. Len(z) \in Nat /\ Len(body) \in Nat /\ Len(z) < Len(body)
    BY <1>1 DEF body
  <2>3. Modulus \in Nat /\ Len(body) < Modulus
    BY <1>1, <2>1, ModulusFacts
  <2> QED
    BY <2>1, <2>2, <2>3
<1>4. z \in Seq(S) /\ body \in Seq(S)
  BY <1>1, <1>2, SeqWithin
<1>5. /\ ReadNumber(y, HEADER_BYTES).value = Len(z) /\ SubSeq(y, 5, 8) = SubSeq(P, 5, 8) /\ y = P \o Hashed(y)
  <2>1. FramedReads(y, S, P, BLOCK_TYPE_CHANGE, z)
    BY <1>1, <1>2, <1>3, <1>4, FramedHeader
  <2> QED
    BY <2>1, Zenon DEF FramedReads
<1>6. /\ ReadNumber(bytes, HEADER_BYTES).value = Len(body) /\ bytes = P \o Hashed(bytes)
  <2>1. FramedReads(bytes, S, P, BLOCK_TYPE_CHANGE, body)
    BY <1>1, <1>2, <1>4, FramedHeader
  <2> QED
    BY <2>1, Zenon DEF FramedReads
<1>7. ASSUME ChecksumValid(y) PROVE FALSE
  <2>1. Checksum(h) = Checksum(Hashed(y))
    BY <1>1, <1>5, <1>7 DEF ChecksumValid
  <2>2. Checksum(h)[1].of = h /\ Checksum(Hashed(y))[1].of = Hashed(y)
    BY DEF Checksum
  <2>3. h = Hashed(y)
    BY <2>1, <2>2
  <2>4. y = bytes
    BY <1>1, <1>5, <1>6, <2>3
  <2> QED
    BY <1>3, <1>5, <1>6, <2>4
<1> QED
  BY <1>7 DEF DecodeInflated

\* What compress makes of the bytes of a change is read as the same change if there is room to
\* inflate it, and refused if there is not.
LEMMA DeflatedRead ==
    ASSUME NEW c \in ChangeType, BytesFit(c), Deflates(Body(c)), NEW at
    PROVE  DecodeChange(Compressed(ChangeWith(c, at))) =
               IF ChangeStored(ChangeWith(c, at)) THEN {ChangeWith(c, TrueAt(c))} ELSE {}
<1> DEFINE bytes == BytesOf(c)
           body == Body(c)
           P == SubSeq(bytes, 1, PREAMBLE_BYTES)
           d == Deflate(body)
           raw == Packed(c)
           read == ChangeWith(c, TrueAt(c))
<1>1. DecodeChange(bytes) = {read} /\ DecodeInflated(bytes) = {read}
  BY ReadIs
<1>2. Compressed(ChangeWith(c, at)) = IF Len(bytes) <= DEFLATE_MIN_SIZE THEN bytes ELSE raw
  BY CompressedIs
<1>3. /\ BodyBytes(ChangeWith(c, at)) = body /\ body \in Seq(Nat) /\ Len(body) >= 1
      /\ bytes = Framed(P, BLOCK_TYPE_CHANGE, body)
  BY BodyFound
<1>4. ChangeStored(ChangeWith(c, at)) <=> Len(bytes) <= DEFLATE_MIN_SIZE \/ Inflates(body)
  BY <1>3 DEF ChangeStored, Stored, ChangeWith
<1>5. /\ HeaderValid(raw) /\ From(raw, BodyStart(raw)) = d /\ raw[HEADER_BYTES] = BLOCK_TYPE_DEFLATE
      /\ SubSeq(raw, 1, PREAMBLE_BYTES) = P
  BY PackedIs
<1>6. /\ Inflate(d) \in Seq(Nat)
      /\ Inflates(body) => Inflate(d) = body
      /\ ~Inflates(body) => Len(Inflate(d)) < Len(body)
  BY <1>3, InflateIs
<1> HIDE DEF raw, read, d, P, bytes, body
<1>7. DecodeChange(raw) = DecodeInflated(Framed(P, BLOCK_TYPE_CHANGE, Inflate(d)))
  BY <1>5, Zenon DEF DecodeChange, Decompressed, Inflated, Framed
<1>8. CASE Inflates(body)
  <2>1. DecodeChange(raw) = {read}
    BY <1>1, <1>3, <1>6, <1>7, <1>8
  <2> QED
    BY <1>1, <1>2, <1>4, <1>8, <2>1 DEF read
<1>9. CASE ~Inflates(body)
  <2>1. DecodeInflated(Framed(P, BLOCK_TYPE_CHANGE, Inflate(d))) = {}
    <3> DEFINE z == Inflate(d)
    <3>1. z \in Seq(Nat) /\ Len(z) < Len(Body(c))
      BY <1>6, <1>9 DEF body
    <3>2. P = SubSeq(BytesOf(c), 1, PREAMBLE_BYTES)
      BY DEF P, bytes
    <3> HIDE DEF z
    <3>3. DecodeInflated(Framed(P, BLOCK_TYPE_CHANGE, z)) = {}
      BY <3>1, <3>2, CutIsRefused
    <3> QED
      BY <3>3 DEF z
  <2> QED
    BY <1>1, <1>2, <1>4, <1>7, <1>9, <2>1 DEF read
<1> QED
  BY <1>8, <1>9
-----------------------------------------------------------------------------
(* Changes that differ in the order of dependencies and in the message *)

\* What stands before the message is as long as its parts.
LEMMA BeforeLength ==
    ASSUME NEW c \in ChangeType, NumbersFit(c)
    PROVE  Len(BeforeMessage(c)) =
               Len(WriteUnsigned(Len(c.deps))) + Len(c.deps) + Len(WriteActor(c.actor_id))
                   + Len(WriteUnsigned(c.seq)) + Len(WriteUnsigned(c.start_op)) + Len(WriteSigned(c.time))
<1> DEFINE u == WriteUnsigned(Len(c.deps))
           d == c.deps
           D == u \o d
           A == WriteActor(c.actor_id)
           q == WriteUnsigned(c.seq)
           o == WriteUnsigned(c.start_op)
           t == WriteSigned(c.time)
<1>1. D \in Seq(Nat) /\ A \in Seq(Nat) /\ q \in Seq(Nat) /\ o \in Seq(Nat) /\ t \in Seq(Nat)
  BY HeadIsBytes
<1>2. u \in Seq(Nat) /\ d \in Seq(Nat)
  BY NumbersAlone DEF ChangeType, NumbersFit, PartsFit
<1>3. BeforeMessage(c) = (((D \o A) \o q) \o o) \o t
  BY DEF BeforeMessage
<1> HIDE DEF u, d, A, q, o, t
<1>4. Len(D) = Len(u) + Len(d)
  BY <1>2
<1> HIDE DEF D
<1>5. /\ D \o A \in Seq(Nat) /\ Len(D \o A) = Len(D) + Len(A)
      /\ (D \o A) \o q \in Seq(Nat) /\ Len((D \o A) \o q) = Len(D \o A) + Len(q)
      /\ ((D \o A) \o q) \o o \in Seq(Nat) /\ Len(((D \o A) \o q) \o o) = Len((D \o A) \o q) + Len(o)
      /\ Len((((D \o A) \o q) \o o) \o t) = Len(((D \o A) \o q) \o o) + Len(t)
  BY <1>1
<1> QED
  BY <1>3, <1>4, <1>5 DEF u, d, A, q, o, t

\* Two changes that have the same parts except dependencies and message.
SameExceptMessage(c, d) ==
    /\ c.actor_id = d.actor_id /\ c.seq = d.seq /\ c.start_op = d.start_op /\ c.time = d.time
    /\ c.operations = d.operations /\ c.extra_bytes = d.extra_bytes /\ Len(c.deps) = Len(d.deps)

\* What fits of the one fits of the other, if its message fits.
LEMMA NumbersFitAlike ==
    ASSUME NEW c \in ChangeType, NumbersFit(c), NEW d \in ChangeType, SameExceptMessage(c, d),
           Len(d.message) \in UnsignedNumber
    PROVE  NumbersFit(d)
<1>1. d.operations = c.operations /\ d.actor_id = c.actor_id /\ Len(d.deps) = Len(c.deps)
  BY DEF SameExceptMessage
<1>2. ActorsOf(d) = ActorsOf(c)
  BY <1>1 DEF ActorsOf
<1> QED
  BY <1>1, <1>2 DEF NumbersFit, PartsFit

\* Their bodies differ in length as their messages do.
LEMMA BodyLengths ==
    ASSUME NEW c \in ChangeType, NumbersFit(c), NEW d \in ChangeType, NumbersFit(d), SameExceptMessage(c, d)
    PROVE  /\ Len(Body(d)) + Len(WriteString(c.message)) = Len(Body(c)) + Len(WriteString(d.message))
           /\ Len(BeforeMessage(d)) = Len(BeforeMessage(c))
<1> DEFINE b == Len(BeforeMessage(c))
           m == Len(WriteString(c.message))
           n == Len(WriteString(d.message))
           o == Len(OthersOf(c))
           p == Len(OpsBytes(c))
           x == Len(c.extra_bytes)
<1>1. /\ d.operations = c.operations /\ d.actor_id = c.actor_id /\ d.extra_bytes = c.extra_bytes
      /\ Len(d.deps) = Len(c.deps) /\ d.seq = c.seq /\ d.start_op = c.start_op /\ d.time = c.time
  BY DEF SameExceptMessage
<1>2. ActorsOf(d) = ActorsOf(c)
  BY <1>1 DEF ActorsOf
<1>3. ColumnsIn(d) = ColumnsIn(c)
  BY <1>1, <1>2 DEF ColumnsIn
<1>4. DatasOf(d) = DatasOf(c)
  BY <1>3 DEF DatasOf
<1>5. OpsBytes(d) = OpsBytes(c) /\ OthersOf(d) = OthersOf(c)
  BY <1>2, <1>3, <1>4 DEF OpsBytes, OthersOf
<1>6. Len(BeforeMessage(d)) = b
  <2>1. Len(BeforeMessage(c)) =
            Len(WriteUnsigned(Len(c.deps))) + Len(c.deps) + Len(WriteActor(c.actor_id))
                + Len(WriteUnsigned(c.seq)) + Len(WriteUnsigned(c.start_op)) + Len(WriteSigned(c.time))
    BY BeforeLength
  <2>2. Len(BeforeMessage(d)) =
            Len(WriteUnsigned(Len(d.deps))) + Len(d.deps) + Len(WriteActor(d.actor_id))
                + Len(WriteUnsigned(d.seq)) + Len(WriteUnsigned(d.start_op)) + Len(WriteSigned(d.time))
    BY BeforeLength
  <2> QED
    BY <1>1, <2>1, <2>2
<1>7. Len(Body(c)) = (b + m) + o + p + x
  <2>1. Len(HeadOf(c)) = Len(BeforeMessage(c)) + Len(WriteString(c.message))
    BY BodyIsBytes
  <2>2. Len(Body(c)) = Len(HeadOf(c)) + Len(OthersOf(c)) + Len(OpsBytes(c)) + Len(c.extra_bytes)
    BY BodyIsBytes
  <2> QED
    BY <2>1, <2>2
<1>8. Len(Body(d)) = (b + n) + o + p + x
  <2>1. Len(HeadOf(d)) = Len(BeforeMessage(d)) + Len(WriteString(d.message))
    BY BodyIsBytes
  <2>2. Len(Body(d)) = Len(HeadOf(d)) + Len(OthersOf(d)) + Len(OpsBytes(d)) + Len(d.extra_bytes)
    BY BodyIsBytes
  <2> QED
    BY <1>1, <1>5, <1>6, <2>1, <2>2
<1>9. b \in Nat /\ m \in Nat /\ n \in Nat /\ o \in Nat /\ p \in Nat /\ x \in Nat
  <2>1. \A s \in Seq(Nat) : Len(s) \in Nat
    OBVIOUS
  <2>2. /\ BeforeMessage(c) \in Seq(Nat) /\ WriteString(c.message) \in Seq(Nat) /\ OthersOf(c) \in Seq(Nat)
        /\ WriteString(d.message) \in Seq(Nat) /\ OpsBytes(c) \in Seq(Nat) /\ c.extra_bytes \in Seq(Nat)
    BY HeadIsBytes, ColumnsFitting DEF ChangeType
  <2> QED
    BY <2>1, <2>2, Zenon
<1> HIDE DEF b, m, n, o, p, x
<1>10. ((b + n) + o + p + x) + m = ((b + m) + o + p + x) + n
  BY <1>9
<1> QED
  BY <1>6, <1>7, <1>8, <1>10 DEF b, m, n

\* A change with its dependencies sorted.
DepsSorted(old) == [old EXCEPT !.deps = SortedSeq(@, NumberOrder)]

\* It fits if the change fits.
LEMMA SortedFits ==
    ASSUME NEW old \in ChangeType, BytesFit(old)
    PROVE  /\ DepsSorted(old) \in ChangeType /\ BytesFit(DepsSorted(old)) /\ SameExceptMessage(old, DepsSorted(old))
           /\ DepsSorted(old).message = old.message /\ DepsSorted(old).operations = old.operations
           /\ DepsSorted(old).extra_bytes = old.extra_bytes
           /\ FromOldChange(old) = ChangeWith(DepsSorted(old), MadeAt(DepsSorted(old)))
<1> DEFINE c == DepsSorted(old)
           d == SortedSeq(old.deps, NumberOrder)
<1>1. d \in Seq(Nat) /\ Len(d) = Len(old.deps)
  <2>1. old.deps \in Seq(Nat)
    BY DEF ChangeType
  <2> QED
    BY <2>1, SortedHas
<1>2. c = [old EXCEPT !.deps = d]
  BY DEF DepsSorted
<1> HIDE DEF d, c
<1>3. /\ c \in ChangeType /\ c.deps = d /\ c.actor_id = old.actor_id /\ c.seq = old.seq /\ c.start_op = old.start_op
      /\ c.time = old.time /\ c.operations = old.operations /\ c.extra_bytes = old.extra_bytes
      /\ c.message = old.message
  BY <1>1, <1>2 DEF ChangeType
<1>4. SameExceptMessage(old, c)
  BY <1>1, <1>3 DEF SameExceptMessage
<1>5. NumbersFit(old) /\ Len(old.message) \in UnsignedNumber
  BY DEF BytesFit, NumbersFit, PartsFit
<1>6. NumbersFit(c)
  BY <1>3, <1>4, <1>5, NumbersFitAlike
<1>7. Len(Body(c)) = Len(Body(old))
  <2>1. Len(Body(c)) + Len(WriteString(old.message)) = Len(Body(old)) + Len(WriteString(c.message))
    BY <1>3, <1>4, <1>5, <1>6, BodyLengths
  <2> DEFINE m == Len(WriteString(old.message))
             x == Len(Body(c))
             y == Len(Body(old))
  <2>2. m \in Nat /\ x \in Nat /\ y \in Nat
    <3>1. WriteString(old.message) \in Seq(Nat) /\ Body(c) \in Seq(Nat) /\ Body(old) \in Seq(Nat)
      BY <1>3, <1>5, <1>6, HeadIsBytes, BodyIsBytes
    <3>2. \A s \in Seq(Nat) : Len(s) \in Nat
      OBVIOUS
    <3> QED
      BY <3>1, <3>2, Zenon
  <2>3. x + m = y + m
    BY <1>3, <2>1
  <2> HIDE DEF m, x, y
  <2>4. x = y
    BY <2>2, <2>3
  <2> QED
    BY <2>4 DEF x, y
<1>8. BytesFit(c)
  BY <1>6, <1>7 DEF BytesFit
<1>9. FromOldChange(old) = WithSortedDeps(c)
  BY DEF FromOldChange, c, DepsSorted
<1>10. FromOldChange(old) = ChangeWith(c, MadeAt(c))
  BY <1>3, <1>8, <1>9, MadeIs
<1> QED
  BY <1>3, <1>4, <1>8, <1>10 DEF c

-----------------------------------------------------------------------------
(* What is written is what is read *)

\* Only the message's range changes.
LEMMA MessageMoved ==
    ASSUME NEW b, NEW s, NEW h, NEW q, NEW o, NEW t, NEW m, NEW a, NEW d, NEW p, NEW x, NEW k, NEW n
    PROVE  [[bytes |-> b, body_start |-> s, hash |-> h, seq |-> q, start_op |-> o, time |-> t, message |-> m,
             actors |-> a, deps |-> d, ops |-> p, extra_bytes |-> x, num_ops |-> k] EXCEPT !.message = n] =
           [bytes |-> b, body_start |-> s, hash |-> h, seq |-> q, start_op |-> o, time |-> t, message |-> n,
            actors |-> a, deps |-> d, ops |-> p, extra_bytes |-> x, num_ops |-> k]
OBVIOUS

\* A change as its bytes tell it has its message where it is.
LEMMA WrittenIs ==
    ASSUME NEW c \in ChangeType, BytesFit(c), NEW old, old.message = c.message
    PROVE  /\ AsWritten(ChangeWith(c, MadeAt(c)), old) = ChangeWith(c, TrueAt(c))
           /\ TrueAt(c) = MadeAt(c) <=> LengthTakesOneByte(c.message)
           /\ TrueAt(c) + 1 = MadeAt(c) + Len(WriteUnsigned(Len(c.message)))
           /\ MessageEnd(c, BodyOf(c)) = TrueAt(c) + Len(c.message)
           /\ MadeAt(c) \in Nat /\ TrueAt(c) \in Nat
<1> DEFINE b == Len(BeforeMessage(c))
           k == Len(WriteUnsigned(Len(c.message)))
           l == Len(c.message)
           s == BodyOf(c)
           e == MessageEnd(c, s)
<1>1. b \in Nat /\ k \in Nat /\ l \in Nat /\ s \in Nat
  BY LengthsAre
<1>2. e = s + (b + (k + l)) /\ TrueAt(c) = s + b + k /\ MadeAt(c) = s + (b + 1)
  <2>1. Len(HeadOf(c)) = b + Len(WriteString(c.message)) /\ Len(WriteString(c.message)) = k + l
    BY BodyIsBytes DEF BytesFit
  <2>2. Len(HeadOf(c)) = b + (k + l)
    BY <2>1
  <2> QED
    BY <2>2 DEF MessageEnd, TrueAt, MadeAt, MessageAt
<1> HIDE DEF b, k, l, s, e
<1>3. e = TrueAt(c) + l /\ e - l = TrueAt(c) /\ TrueAt(c) + 1 = MadeAt(c) + k /\ (TrueAt(c) = MadeAt(c) <=> k = 1)
      /\ MadeAt(c) \in Nat /\ TrueAt(c) \in Nat
  BY <1>1, <1>2
<1>4. AsWritten(ChangeWith(c, MadeAt(c)), old) = ChangeWith(c, TrueAt(c))
  <2> DEFINE made == ChangeWith(c, MadeAt(c))
             m == <<MadeAt(c), e>>
             n == <<TrueAt(c), e>>
             bytes == BytesOf(c)
             h == HashedOf(Body(c))
             p == Ranges(InfoOf(ColumnsIn(c)), ColumnsAt(c, s))
             x == <<ExtraAt(c), ExtraAt(c) + Len(c.extra_bytes)>>
             j == Len(c.operations)
             a == ActorsOf(c)
  <2>1. made = [bytes |-> bytes, body_start |-> s, hash |-> h, seq |-> c.seq, start_op |-> c.start_op,
                time |-> c.time, message |-> m, actors |-> a, deps |-> c.deps, ops |-> p,
                extra_bytes |-> x, num_ops |-> j]
    BY DEF ChangeWith, s, e
  <2>2. ChangeWith(c, TrueAt(c)) =
               [bytes |-> bytes, body_start |-> s, hash |-> h, seq |-> c.seq, start_op |-> c.start_op,
                time |-> c.time, message |-> n, actors |-> a, deps |-> c.deps, ops |-> p,
                extra_bytes |-> x, num_ops |-> j]
    BY DEF ChangeWith, s, e
  <2>3. made.message = m
    BY DEF ChangeWith, s, e
  <2>4. <<m[2] - l, m[2]>> = n
    BY <1>3
  <2> HIDE DEF made, m, n, bytes, h, p, x, j, a
  <2>5. [made EXCEPT !.message = n] = ChangeWith(c, TrueAt(c))
    BY <2>1, <2>2, MessageMoved
  <2>6. AsWritten(made, old) = [made EXCEPT !.message = <<made.message[2] - l, made.message[2]>>]
    BY DEF AsWritten, l
  <2> QED
    BY <2>3, <2>4, <2>5, <2>6 DEF made
<1> QED
  BY <1>3, <1>4 DEF LengthTakesOneByte, k, e, l, s

\* Changes with the message in another place differ.
LEMMA PlaceTells ==
    ASSUME NEW c, NEW x, NEW y
    PROVE  ChangeWith(c, x) = ChangeWith(c, y) <=> x = y
<1>1. ChangeWith(c, x).message = <<x, MessageEnd(c, BodyOf(c))>> /\ ChangeWith(c, y).message = <<y, MessageEnd(c, BodyOf(c))>>
  BY DEF ChangeWith
<1>2. ASSUME ChangeWith(c, x) = ChangeWith(c, y) PROVE x = y
  <2>1. <<x, MessageEnd(c, BodyOf(c))>> = <<y, MessageEnd(c, BodyOf(c))>>
    BY <1>1, <1>2
  <2> QED
    BY <2>1
<1> QED
  BY <1>2

\* What the compressor makes of a change is what it makes of its body.
LEMMA SortedDeflates ==
    ASSUME NEW old \in ChangeType, BytesFit(old), ChangeDeflates(old)
    PROVE  Deflates(Body(DepsSorted(old)))
<1> DEFINE c == DepsSorted(old)
<1>1. c \in ChangeType /\ BytesFit(c) /\ FromOldChange(old) = ChangeWith(c, MadeAt(c))
  BY SortedFits
<1> HIDE DEF c
<1>2. BodyBytes(ChangeWith(c, MadeAt(c))) = Body(c)
  BY <1>1, BodyFound
<1> QED
  BY <1>1, <1>2 DEF ChangeDeflates, c

\* Any change of which the bytes fit is read from its bytes.  Compressed, it is read as the same
\* if there is room to inflate what deflate_compress made of it, and refused if there is not,
\* whatever the compressor makes of it and however much room there is.
THEOREM ChangeIsRead ==
    ASSUME NEW old \in ChangeType, BytesFit(old), ChangeDeflates(old), NEW made, made = FromOldChange(old)
    PROVE  RoundTrips(old, made, AsWritten(made, old))
<1> DEFINE c == DepsSorted(old)
           read == ChangeWith(c, TrueAt(c))
<1>1. c \in ChangeType /\ BytesFit(c) /\ c.message = old.message /\ c.operations = old.operations
      /\ made = ChangeWith(c, MadeAt(c))
  BY SortedFits
<1>a. Deflates(Body(c))
  BY SortedDeflates
<1> HIDE DEF c
<1>2. AsWritten(made, old) = read /\ (TrueAt(c) = MadeAt(c) <=> LengthTakesOneByte(old.message))
  BY <1>1, WrittenIs
<1>3. made.bytes = BytesOf(c)
  BY <1>1 DEF ChangeWith
<1>4. /\ DecodeChange(BytesOf(c)) = {read} /\ GetMessage(read) = c.message
      /\ \A at : OpsIn(ChangeWith(c, at)) = c.operations
  BY <1>1, ReadIs
<1>5. DecodeChange(Compressed(made)) = IF ChangeStored(made) THEN {read} ELSE {}
  BY <1>1, <1>a, DeflatedRead
<1>6. made = read <=> LengthTakesOneByte(old.message)
  BY <1>1, <1>2, PlaceTells
<1> QED
  BY <1>1, <1>2, <1>3, <1>4, <1>5, <1>6 DEF RoundTrips

-----------------------------------------------------------------------------
(* A change that is made again *)

\* Equal hashes are of equal messages.
LEMMA HashTells ==
    ASSUME NEW c \in ChangeType, BytesFit(c), NEW d \in ChangeType, BytesFit(d), HashedOf(Body(c)) = HashedOf(Body(d))
    PROVE  c.message = d.message
<1>1. \A body : Block(BLOCK_TYPE_CHANGE, body) = Sealed(HashedOf(body))
  BY DEF Block, HashedOf
<1>2. BytesOf(c) = BytesOf(d)
  BY <1>1 DEF BytesOf
<1>3. /\ DecodeChange(BytesOf(c)) = {ChangeWith(c, TrueAt(c))} /\ GetMessage(ChangeWith(c, TrueAt(c))) = c.message
      /\ DecodeChange(BytesOf(d)) = {ChangeWith(d, TrueAt(d))} /\ GetMessage(ChangeWith(d, TrueAt(d))) = d.message
  BY ReadIs
<1>4. ChangeWith(c, TrueAt(c)) = ChangeWith(d, TrueAt(d))
  BY <1>2, <1>3
<1> QED
  BY <1>3, <1>4

\* Only the message changes.
LEMMA MessageReplaced ==
    ASSUME NEW c \in ChangeType, NEW m
    PROVE  [c EXCEPT !.message = m] =
               [actor_id |-> c.actor_id, seq |-> c.seq, start_op |-> c.start_op, time |-> c.time,
                message |-> m, deps |-> c.deps, operations |-> c.operations, extra_bytes |-> c.extra_bytes]
<1>1. \A a, q, o, t, n, d, p, x :
          c = [actor_id |-> a, seq |-> q, start_op |-> o, time |-> t, message |-> n, deps |-> d,
               operations |-> p, extra_bytes |-> x] =>
          [c EXCEPT !.message = m] =
              [actor_id |-> a, seq |-> q, start_op |-> o, time |-> t, message |-> m, deps |-> d,
               operations |-> p, extra_bytes |-> x]
  OBVIOUS
<1>2. c = [actor_id |-> c.actor_id, seq |-> c.seq, start_op |-> c.start_op, time |-> c.time, message |-> c.message,
           deps |-> c.deps, operations |-> c.operations, extra_bytes |-> c.extra_bytes]
  BY DEF ChangeType
<1> QED
  BY <1>1, <1>2

\* What can be read of a change is the change, with the message that its range tells.
LEMMA RebuiltIs ==
    ASSUME NEW c \in ChangeType, BytesFit(c), NEW at
    PROVE  Rebuilt(ChangeWith(c, at)) = [c EXCEPT !.message = Slice(BytesOf(c), <<at, MessageEnd(c, BodyOf(c))>>)]
<1> DEFINE ch == ChangeWith(c, at)
           m == Slice(BytesOf(c), <<at, MessageEnd(c, BodyOf(c))>>)
<1>1. /\ ch.seq = c.seq /\ ch.start_op = c.start_op /\ ch.time = c.time /\ ch.deps = c.deps
      /\ ch.actors = ActorsOf(c) /\ ch.bytes = BytesOf(c)
  BY DEF ChangeWith
<1>2. GetMessage(ch) = m
  BY DEF GetMessage, ChangeWith
<1>3. OpsIn(ch) = c.operations /\ Slice(ch.bytes, ch.extra_bytes) = c.extra_bytes
  BY <1>1, ReadIs
<1>4. ActorsOf(c)[1] = c.actor_id
  <2>1. c.actor_id \in Nat /\ c.operations \in Seq(OperationType)
    BY DEF ChangeType
  <2> QED
    BY <2>1, ActorsNamed DEF ActorsOf
<1> HIDE DEF ch, m
<1>5. Rebuilt(ch) = [actor_id |-> c.actor_id, seq |-> c.seq, start_op |-> c.start_op, time |-> c.time,
                     message |-> m, deps |-> c.deps, operations |-> c.operations, extra_bytes |-> c.extra_bytes]
  BY <1>1, <1>2, <1>3, <1>4, Zenon DEF Rebuilt
<1>6. [c EXCEPT !.message = m] =
          [actor_id |-> c.actor_id, seq |-> c.seq, start_op |-> c.start_op, time |-> c.time,
           message |-> m, deps |-> c.deps, operations |-> c.operations, extra_bytes |-> c.extra_bytes]
  BY MessageReplaced
<1> QED
  BY <1>5, <1>6 DEF ch, m

\* Changes whose dependencies are in order are made as they are.
LEMMA SortedIsMade ==
    ASSUME NEW c \in ChangeType, BytesFit(c), SortedSeq(c.deps, NumberOrder) = c.deps
    PROVE  FromOldChange(c).hash = HashedOf(Body(c))
<1>1. DepsSorted(c) = c
  BY DEF DepsSorted, ChangeType
<1>2. FromOldChange(c) = ChangeWith(DepsSorted(c), MadeAt(DepsSorted(c)))
  BY SortedFits
<1> QED
  BY <1>1, <1>2 DEF ChangeWith

\* A long message taken from where it is said to start is longer; it still fits.
LEMMA LongMessage ==
    ASSUME NEW c \in ChangeType, BytesFit(c), Len(Body(c)) + 2 * MaxSize \in UnsignedNumber,
           ~LengthTakesOneByte(c.message),
           NEW m, m = Slice(BytesOf(c), <<MadeAt(c), MessageEnd(c, BodyOf(c))>>),
           NEW d, d = [c EXCEPT !.message = m]
    PROVE  d \in ChangeType /\ BytesFit(d) /\ d.message # c.message /\ d.deps = c.deps
<1> DEFINE bytes == BytesOf(c)
           s == BodyOf(c)
           at == MadeAt(c)
           e == MessageEnd(c, s)
           k == Len(WriteUnsigned(Len(c.message)))
           l == Len(c.message)
           B == Len(Body(c))
<1>1. NumbersFit(c) /\ Body(c) \in Seq(Nat) /\ B \in UnsignedNumber /\ l \in UnsignedNumber /\ c.message \in Seq(Nat)
  BY BodyIsBytes DEF BytesFit, NumbersFit, PartsFit, ChangeType
<1>2. k \in 1..MaxSize /\ MaxSize \in Nat
  BY <1>1, NumberLength, Leb128Assumption
<1>a. k \in Nat /\ k >= 1 /\ k <= MaxSize
  BY <1>2
<1>3. k # 1
  BY DEF LengthTakesOneByte
<1>4. at + k = TrueAt(c) + 1 /\ e = TrueAt(c) + l /\ at \in Nat /\ TrueAt(c) \in Nat /\ l \in Nat /\ B \in Nat
  BY <1>1, WrittenIs, LengthsAre
<1>5. \A n : n \in UnsignedNumber <=> n \in Nat /\ n < Modulus
  BY ModulusFacts DEF UnsignedNumber
<1>6. Modulus \in Nat
  BY ModulusFacts
<1>7. Stands(bytes, s, Body(c)) /\ Len(bytes) = s + B /\ s \in Nat
  <2>1. Body(c) \in Seq(Nat) /\ Len(Body(c)) \in UnsignedNumber
    BY <1>1
  <2>2. Stands(bytes, StartOf(Body(c)), Body(c))
    BY <2>1, BlockIs DEF BytesOf
  <2> QED
    BY <2>2, LengthsAre DEF BodyOf
<1>8. s <= at /\ e <= Len(bytes) /\ l <= B
  <2> DEFINE b == Len(BeforeMessage(c))
             h == Len(HeadOf(c))
             o == Len(OthersOf(c))
             p == Len(OpsBytes(c))
             x == Len(c.extra_bytes)
             w == Len(WriteString(c.message))
  <2>1. b \in Nat /\ h \in Nat /\ o \in Nat /\ p \in Nat /\ x \in Nat
    BY LengthsAre
  <2>2. B = h + o + p + x /\ h = b + w /\ w = k + l
    BY <1>1, BodyIsBytes
  <2>3. at = s + (b + 1) /\ e = s + h
    BY DEF MadeAt, MessageEnd
  <2> HIDE DEF b, h, o, p, x, w, k, l, s, at, e, B
  <2>4. h = b + (k + l) /\ B >= h /\ B >= l
    <3>1. h = b + (k + l)
      BY <2>2
    <3>2. B >= h
      BY <2>1, <2>2
    <3>3. h >= l
      BY <1>a, <1>4, <2>1, <3>1
    <3>4. B >= l
      BY <1>4, <2>1, <3>2, <3>3
    <3> QED
      BY <3>1, <3>2, <3>4
  <2> DEFINE z == Len(bytes)
  <2>5. s \in Nat /\ z = s + B /\ B \in Nat
    BY <1>4, <1>7
  <2> HIDE DEF z
  <2>6. s <= at
    BY <2>1, <2>3, <2>5
  <2>7. e <= z
    BY <2>1, <2>3, <2>4, <2>5
  <2> QED
    BY <2>4, <2>6, <2>7 DEF z
<1> HIDE DEF bytes, s, at, e, k, l, B
<1>9. m \in Seq(Nat) /\ Len(m) = l + (k - 1)
  <2>1. m = SubSeq(bytes, at + 1, e)
    BY DEF Slice, bytes, at, e, s
  <2> DEFINE n == e - at
  <2>2. n \in Nat /\ n = l + (k - 1) /\ at + n = e /\ at + n <= Len(bytes)
    <3> DEFINE t == TrueAt(c)
    <3>a. e = t + l /\ at + k = t + 1 /\ k >= 1 /\ at \in Nat /\ l \in Nat /\ k \in Nat /\ t \in Nat
      BY <1>a, <1>4
    <3> HIDE DEF t
    <3>1. n = l + (k - 1)
      BY <3>a
    <3>2. n \in Nat
      BY <3>a, <3>1
    <3>3. at + n = e
      BY <3>a
    <3> QED
      BY <1>8, <3>1, <3>2, <3>3
  <2>3. PICK S : bytes \in Seq(S)
    BY <1>7 DEF Stands
  <2>4. \A j \in (s + 1)..Len(bytes) : bytes[j] \in Nat
    BY <1>7 DEF Stands
  <2> DEFINE part == [j \in 1..n |-> bytes[at + j]]
  <2> HIDE DEF n
  <2>5. \A j \in 1..n : at + j \in (s + 1)..Len(bytes) /\ at + j \in 1..Len(bytes)
    <3> DEFINE z == Len(bytes)
    <3>1. z \in Nat /\ at \in Nat /\ s \in Nat /\ s <= at /\ n \in Nat /\ at + n <= z
      BY <1>4, <1>7, <1>8, <2>2, <2>3
    <3> HIDE DEF z
    <3>2. \A j \in 1..n : at + j \in (s + 1)..z /\ at + j \in 1..z
      BY <3>1
    <3> QED
      BY <3>2 DEF z
  <2>6. part \in [1..n -> Nat] /\ \A j \in 1..n : part[j] = bytes[at + j]
    BY <2>4, <2>5
  <2>7. part \in [1..n -> S]
    BY <2>3, <2>5
  <2> HIDE DEF part
  <2>8. part \in Seq(Nat) /\ Len(part) = n
    <3>1. PICK N : N = Nat
      OBVIOUS
    <3>2. part \in [1..n -> N]
      BY <2>6, <3>1, Zenon
    <3>3. part \in Seq(N) /\ Len(part) = n
      BY <2>2, <3>2, FunctionsAreSequences, Zenon
    <3> QED
      BY <3>1, <3>3, Zenon
  <2>9. part \in Seq(S)
    BY <2>2, <2>7, FunctionsAreSequences, Zenon
  <2>10. SubSeq(bytes, at + 1, at + Len(part)) = part
    <3>1. at + Len(part) <= Len(bytes) /\ \A j \in 1..Len(part) : bytes[at + j] = part[j]
      BY <2>2, <2>6, <2>8
    <3> QED
      BY <1>4, <2>3, <2>9, <3>1, PartIs
  <2>11. m = part
    BY <2>1, <2>2, <2>8, <2>10
  <2> QED
    BY <2>2, <2>8, <2>11
<1>10. Len(m) \in UnsignedNumber /\ Len(m) # l
  <2>1. Len(m) \in Nat /\ Len(m) # l /\ Len(m) <= B + 2 * MaxSize /\ B + 2 * MaxSize \in Nat
    <3> DEFINE j == Len(m)
               y == MaxSize
    <3>1. j = l + (k - 1) /\ 1 <= k /\ k <= y /\ k # 1 /\ l <= B
      BY <1>a, <1>3, <1>8, <1>9
    <3>2. l \in Nat /\ k \in Nat /\ B \in Nat /\ y \in Nat
      BY <1>a, <1>2, <1>4
    <3> HIDE DEF j, y
    <3>3. j \in Nat /\ j # l /\ j <= B + 2 * y /\ B + 2 * y \in Nat
      BY <3>1, <3>2
    <3> QED
      BY <3>3 DEF j, y
  <2>2. B + 2 * MaxSize < Modulus
    BY <1>5 DEF B
  <2>3. Len(m) < Modulus
    BY <1>6, <2>1, <2>2
  <2> QED
    BY <1>5, <2>1, <2>3
<1>11. /\ d \in ChangeType /\ SameExceptMessage(c, d) /\ d.message = m /\ d.deps = c.deps
  BY <1>9 DEF ChangeType, SameExceptMessage
<1>12. NumbersFit(d)
  BY <1>1, <1>10, <1>11, NumbersFitAlike
<1>13. Len(Body(d)) \in UnsignedNumber
  <2> DEFINE v == Len(WriteUnsigned(Len(m)))
             D == Len(Body(d))
  <2>1. Len(Body(d)) + Len(WriteString(c.message)) = Len(Body(c)) + Len(WriteString(d.message))
    BY <1>1, <1>11, <1>12, BodyLengths
  <2>2. Len(WriteString(c.message)) = k + l
    BY <1>1, BodyIsBytes DEF k, l
  <2>3. Len(WriteString(d.message)) = v + Len(m)
    BY <1>11, <1>12, BodyIsBytes
  <2>4. v \in 1..MaxSize
    BY <1>10, NumberLength
  <2>5. D \in Nat
    <3>1. Body(d) \in Seq(Nat)
      BY <1>11, <1>12, BodyIsBytes
    <3> QED
      BY <3>1
  <2>6. D + (k + l) = B + (v + (l + (k - 1)))
    BY <1>9, <2>1, <2>2, <2>3 DEF B
  <2> HIDE DEF v, D
  <2>7. D <= B + 2 * MaxSize /\ B + 2 * MaxSize \in Nat
    <3>1. v \in Nat /\ v <= MaxSize /\ k \in Nat /\ k <= MaxSize /\ l \in Nat /\ B \in Nat /\ MaxSize \in Nat
      BY <1>a, <1>2, <1>4, <2>4
    <3>2. v + (l + (k - 1)) = (v - 1) + (k + l)
      BY <3>1
    <3> DEFINE a == k + l
    <3>3. D + a = B + ((v - 1) + a) /\ a \in Nat /\ D \in Nat /\ B \in Nat /\ v \in Nat
      BY <2>5, <2>6, <3>1, <3>2
    <3> HIDE DEF a
    <3>4. D = B + (v - 1)
      BY <3>3
    <3> QED
      BY <2>5, <3>1, <3>4
  <2>8. B + 2 * MaxSize < Modulus
    BY <1>5 DEF B
  <2>9. D < Modulus
    BY <1>6, <2>5, <2>7, <2>8
  <2> QED
    BY <1>5, <2>5, <2>9 DEF D
<1>14. d.message # c.message
  <2>1. d.message = c.message => Len(m) = l
    BY <1>11 DEF l
  <2> QED
    BY <1>10, <2>1
<1> QED
  BY <1>11, <1>12, <1>13, <1>14 DEF BytesFit

\* Any change that fits with some bytes to spare is made again from what its bytes tell, and from
\* what its maker has in memory only if the length of its message takes one byte.
THEOREM ChangeIsRebuilt ==
    ASSUME NEW old \in ChangeType, BytesFit(old), Len(Body(old)) + 2 * MaxSize \in UnsignedNumber,
           NEW made, made = FromOldChange(old), NEW ch \in {made, AsWritten(made, old)}
    PROVE  FromOldChange(Rebuilt(ch)).hash = made.hash
               <=> ch = AsWritten(made, old) \/ LengthTakesOneByte(old.message)
<1> DEFINE c == DepsSorted(old)
           read == ChangeWith(c, TrueAt(c))
           one == LengthTakesOneByte(old.message)
<1>1. /\ c \in ChangeType /\ BytesFit(c) /\ c.message = old.message /\ SameExceptMessage(old, c)
      /\ made = ChangeWith(c, MadeAt(c))
  BY SortedFits
<1>2. SortedSeq(c.deps, NumberOrder) = c.deps
  <2>1. old.deps \in Seq(Nat) /\ c.deps = SortedSeq(old.deps, NumberOrder)
    BY DEF ChangeType, DepsSorted
  <2> QED
    BY <2>1, SortedTwice
<1>3. Len(Body(c)) + 2 * MaxSize \in UnsignedNumber
  <2>1. Len(Body(c)) + Len(WriteString(old.message)) = Len(Body(old)) + Len(WriteString(c.message))
    BY <1>1, BodyLengths DEF BytesFit
  <2>2. Len(WriteString(old.message)) \in Nat /\ Len(Body(c)) \in Nat /\ Len(Body(old)) \in Nat
    <3>1. WriteString(old.message) \in Seq(Nat) /\ Body(c) \in Seq(Nat) /\ Body(old) \in Seq(Nat)
      BY <1>1, HeadIsBytes, BodyIsBytes DEF BytesFit
    <3>2. \A q \in Seq(Nat) : Len(q) \in Nat
      OBVIOUS
    <3> QED
      BY <3>1, <3>2, Zenon
  <2> DEFINE x == Len(Body(c))
             y == Len(Body(old))
             w == Len(WriteString(old.message))
  <2>3. x + w = y + w
    BY <1>1, <2>1
  <2> HIDE DEF x, y, w
  <2>4. x = y
    BY <2>2, <2>3 DEF x, y, w
  <2> QED
    BY <2>4 DEF x, y
<1> HIDE DEF c
<1>4. AsWritten(made, old) = read /\ (TrueAt(c) = MadeAt(c) <=> one) /\ MessageEnd(c, BodyOf(c)) = TrueAt(c) + Len(c.message)
  BY <1>1, WrittenIs
<1>5. made.hash = HashedOf(Body(c))
  BY <1>1 DEF ChangeWith
<1>6. FromOldChange(c).hash = HashedOf(Body(c))
  BY <1>1, <1>2, SortedIsMade
<1>7. Rebuilt(read) = c
  <2>1. Slice(BytesOf(c), <<TrueAt(c), MessageEnd(c, BodyOf(c))>>) = c.message
    <3>1. GetMessage(read) = c.message
      BY <1>1, ReadIs
    <3> QED
      BY <3>1 DEF GetMessage, ChangeWith
  <2>2. Rebuilt(read) = [c EXCEPT !.message = Slice(BytesOf(c), <<TrueAt(c), MessageEnd(c, BodyOf(c))>>)]
    BY <1>1, RebuiltIs
  <2>3. [c EXCEPT !.message = c.message] = c
    BY <1>1 DEF ChangeType
  <2> QED
    BY <2>1, <2>2, <2>3
<1>8. CASE ch = read
  BY <1>4, <1>5, <1>6, <1>7, <1>8
<1>9. CASE ch # read
  <2>1. ch = made /\ made # read
    BY <1>4, <1>9
  <2>2. ~one
    BY <1>1, <1>4, <2>1
  <2> DEFINE m == Slice(BytesOf(c), <<MadeAt(c), MessageEnd(c, BodyOf(c))>>)
             d == [c EXCEPT !.message = m]
  <2>3. Rebuilt(ch) = d
    BY <1>1, <2>1, RebuiltIs
  <2>4. ~LengthTakesOneByte(c.message)
    BY <1>1, <2>2
  <2>5. d \in ChangeType /\ BytesFit(d) /\ d.message # c.message /\ d.deps = c.deps
    BY <1>1, <1>3, <2>4, LongMessage
  <2> HIDE DEF d, m, one
  <2>6. FromOldChange(d).hash = HashedOf(Body(d))
    BY <1>2, <2>5, SortedIsMade
  <2>7. HashedOf(Body(c)) # HashedOf(Body(d))
    BY <1>1, <2>5, HashTells
  <2>8. FromOldChange(Rebuilt(ch)).hash # made.hash
    BY <1>5, <2>3, <2>6, <2>7
  <2>9. ch # AsWritten(made, old)
    BY <1>4, <1>9
  <2> QED
    BY <2>2, <2>8, <2>9 DEF one
<1> QED
  BY <1>8, <1>9

-----------------------------------------------------------------------------
(* Every change that there may be *)

\* The change, if there is one, is made of a draft and of operations.
ChangesInv == change \subseteq Changes

\* Sequences of operations there may be.
LEMMA MadeOfOperations ==
    ASSUME NEW draft \in Drafts, NEW m \in 0..MaxOperations, NEW ops \in [1..m -> Operations]
    PROVE  [draft EXCEPT !.operations = ops] \in Changes
<1>1. ops \in FewOperations
  <2>1. [1..m -> Operations] \in {[1..n -> Operations] : n \in 0..MaxOperations}
    OBVIOUS
  <2> QED
    BY <2>1 DEF FewOperations
<1> QED
  BY <1>1 DEF Changes

\* The bytes of a chunk are the parts of the body.
LEMMA ChunkBytes ==
    ASSUME NEW c
    PROVE  EncodeChunk(c).bytes = Body(c)
<1> DEFINE ops == EncodeOps(c.operations, ActorsOf(c))
           y == HeadOf(c) \o OthersOf(c) \o ops.bytes \o c.extra_bytes
           n == Len(HeadOf(c)) + Len(OthersOf(c))
<1>1. ops.bytes = OpsBytes(c)
  BY DEF EncodeOps, FinishColumns, JoinColumns, OpsBytes, DatasOf, ColumnsIn
<1>2. EncodeChunk(c) = JoinParts(c, ActorsOf(c), BeforeMessage(c), HeadOf(c), OthersOf(c), ops)
  BY DEF EncodeChunk, WithActors, HeadOf, OthersOf, ActorsOf
<1> HIDE DEF ops
<1>3. EncodeChunk(c) =
        [bytes       |-> y,
         actors      |-> ActorsOf(c),
         message     |-> <<Len(BeforeMessage(c)) + 1, Len(HeadOf(c))>>,
         ops         |-> [col \in DOMAIN ops.ops |-> Shift(ops.ops[col], n)],
         extra_bytes |-> Shift(<<0, Len(c.extra_bytes)>>, Len(HeadOf(c)) + Len(OthersOf(c)) + Len(ops.bytes))]
  BY <1>2 DEF JoinParts, MessageStart, OpsStart
<1> HIDE DEF y
<1>4. EncodeChunk(c).bytes = y
  BY <1>3
<1> QED
  BY <1>1, <1>4 DEF Body, y

\* All changes there may be fit.
LEMMA ChangesAreTyped ==
    ASSUME NEW c \in Changes
    PROVE  c \in ChangeType /\ BytesFit(c) /\ Len(Body(c)) + 2 * MaxSize \in UnsignedNumber /\ ChangeDeflates(c)
<1>1. PICK draft \in Drafts, ops \in FewOperations :
          c = [draft EXCEPT !.operations = ops]
  BY DEF Changes
<1>2. PICK n \in 0..MaxOperations : ops \in [1..n -> Operations]
  BY DEF FewOperations
<1>3. draft \in DraftType /\ Operations \subseteq OperationType /\ n \in Nat
  BY ChangesAssumption
<1>4. ops \in Seq(OperationType) /\ Len(ops) = n
  <2>1. ops \in [1..n -> OperationType]
    BY <1>2, <1>3
  <2> QED
    BY <1>3, <2>1, FunctionsAreSequences, Zenon
<1>5. c \in ChangeType /\ c.operations = ops
  BY <1>1, <1>3, <1>4 DEF DraftType, ChangeType
<1>6. n \in SignedNumber
  BY ChangesAssumption, ModulusFacts DEF SignedNumber
<1>7. /\ PartsFit(c, ActorsOf(c)) /\ Len(EncodeChunk(c).bytes) + 2 * MaxSize \in UnsignedNumber
      /\ ChangeDeflates(c)
  BY ChangesAssumption DEF ChangeFits, ActorsOf
<1>8. NumbersFit(c)
  BY <1>4, <1>5, <1>6, <1>7 DEF NumbersFit
<1>9. Len(Body(c)) + 2 * MaxSize \in UnsignedNumber
  BY <1>7, ChunkBytes
<1>10. Len(Body(c)) \in UnsignedNumber
  <2>1. Len(Body(c)) \in Nat
    <3>1. Body(c) \in Seq(Nat)
      BY <1>5, <1>8, BodyIsBytes
    <3> QED
      BY <3>1
  <2> DEFINE l == Len(Body(c))
  <2> HIDE DEF l
  <2>2. l \in Nat /\ l + 2 * MaxSize \in UnsignedNumber
    BY <1>9, <2>1 DEF l
  <2>3. l \in UnsignedNumber
    BY <2>2, Leb128Assumption, ModulusFacts DEF UnsignedNumber
  <2> QED
    BY <2>3 DEF l
<1> QED
  BY <1>5, <1>7, <1>8, <1>9, <1>10 DEF BytesFit

\* A draft is a change without operations.
LEMMA InitChangesInv == Init => ChangesInv
<1> SUFFICES ASSUME Init PROVE ChangesInv
  OBVIOUS
<1>1. ASSUME NEW draft \in Drafts PROVE draft \in Changes
  <2>1. draft \in DraftType /\ 0 \in 0..MaxOperations
    BY ChangesAssumption
  <2>2. draft = [draft EXCEPT !.operations = <<>>]
    <3>1. draft.operations = <<>> /\ draft = [draft EXCEPT !.operations = draft.operations]
      BY <2>1 DEF DraftType
    <3> QED
      BY <3>1
  <2>3. <<>> \in [1..0 -> Operations]
    OBVIOUS
  <2> QED
    <3>1. [draft EXCEPT !.operations = <<>>] \in Changes
      BY <2>1, <2>3, MadeOfOperations, Zenon
    <3> QED
      BY <2>2, <3>1, Zenon
<1> QED
  BY <1>1 DEF Init, ChangesInv

\* One operation more is a change as long as there are not too many.
LEMMA NextChangesInv == ChangesInv /\ [Next]_vars => ChangesInv'
<1> SUFFICES ASSUME ChangesInv, [Next]_vars PROVE ChangesInv'
  OBVIOUS
<1>1. CASE AppendCell
  BY <1>1 DEF AppendCell, ChangesInv
<1>2. CASE AddOperation
  <2>1. PICK c \in change : Len(c.operations) < MaxOperations
                            /\ \E op \in Operations : change' = {[c EXCEPT !.operations = Append(@, op)]}
    BY <1>2 DEF AddOperation
  <2>2. PICK op \in Operations : change' = {[c EXCEPT !.operations = Append(c.operations, op)]}
    BY <2>1
  <2>3. PICK draft \in Drafts, ops \in FewOperations :
            c = [draft EXCEPT !.operations = ops]
    BY DEF ChangesInv, Changes
  <2>4. PICK n \in 0..MaxOperations : ops \in [1..n -> Operations]
    BY DEF FewOperations
  <2>5. draft \in DraftType /\ MaxOperations \in Nat
    BY ChangesAssumption
  <2>6. c.operations = ops /\ n \in Nat
    BY <2>3, <2>5 DEF DraftType
  <2>7. ops \in Seq(Operations) /\ Len(ops) = n
    BY <2>4, <2>6, FunctionsAreSequences, Zenon
  <2>8. n + 1 \in 0..MaxOperations
    BY <2>1, <2>5, <2>6, <2>7
  <2>9. Append(ops, op) \in [1..(n + 1) -> Operations]
    <3> DEFINE a == Append(ops, op)
    <3>1. a \in Seq(Operations) /\ Len(a) = n + 1
      BY <2>7
    <3> HIDE DEF a
    <3>2. a \in [1..(n + 1) -> Operations]
      BY <3>1
    <3> QED
      BY <3>2 DEF a
  <2>10. [c EXCEPT !.operations = Append(c.operations, op)] = [draft EXCEPT !.operations = Append(ops, op)]
    BY <2>3, <2>5, <2>6 DEF DraftType
  <2>11. [draft EXCEPT !.operations = Append(ops, op)] \in Changes
    BY <2>8, <2>9, MadeOfOperations, Zenon
  <2> QED
    BY <2>2, <2>10, <2>11 DEF ChangesInv
<1>3. CASE UNCHANGED vars
  BY <1>3 DEF vars, ChangesInv
<1> QED
  BY <1>1, <1>2, <1>3 DEF Next

\* What there is of changes is always made of a draft and of operations.
LEMMA ChangesAlways == Spec => []ChangesInv
<1> QED
  BY InitChangesInv, NextChangesInv, PTL DEF Spec

\* Every change is read from its bytes as its maker has it, and as long as the length of its
\* message takes one byte, and no longer, with the message where its maker has it.  Of deflated
\* bytes it is read as the same if there is room to inflate them, and not at all if there is not.
THEOREM ChangesRoundTrip == Spec => []ChangeRoundTrip
<1>1. ChangesInv => ChangeRoundTrip
  BY ChangesAreTyped, ChangeIsRead DEF ChangesInv, ChangeRoundTrip
<1> QED
  BY <1>1, ChangesAlways, PTL

\* Every change made again from what its bytes tell has the hash it had; made again from what its
\* maker has in memory, it has it only if the length of its message takes one byte.
THEOREM ChangesRebuilt == Spec => []RebuiltUnchanged
<1>1. ChangesInv => RebuiltUnchanged
  BY ChangesAreTyped, ChangeIsRebuilt DEF ChangesInv, RebuiltUnchanged
<1> QED
  BY <1>1, ChangesAlways, PTL

-----------------------------------------------------------------------------
(* A number that is cut *)

\* Of a number that is cut nothing is read.
LEMMA NumberTorn ==
    ASSUME NEW n \in UnsignedNumber, NEW S, NEW b \in Seq(S), Len(b) < Len(WriteUnsigned(n)),
           \A i \in 1..Len(b) : b[i] = WriteUnsigned(n)[i]
    PROVE  ReadUnsigned(b).size = 0
<1> DEFINE w == WriteUnsigned(n)
           size == Min(UnsignedSizes(n))
<1>1. n \in Int /\ size \in Nat
  <2>1. size \in 1..MaxSize /\ n \in Int
    BY UnsignedSize, ItemsAre
  <2> QED
    BY <2>1, Leb128Assumption
<1>2. /\ w \in Seq(Nat) /\ Len(w) = size
      /\ \A i \in 1..size : w[i] >= CONTINUATION_BIT <=> i < size
  <2> HIDE DEF size
  <2>1. w = Groups(n, size)
    BY DEF WriteUnsigned, size
  <2> QED
    BY <1>1, <2>1, GroupsFacts
<1> HIDE DEF size
<1>3. CONTINUATION_BIT \in Nat
  BY BitFacts
<1>4. DOMAIN b = 1..Len(b) /\ Len(b) \in Nat /\ Len(b) < size
  BY <1>2, LenProperties
<1>5. \A m \in 1..Len(b) : ~IsEnd(b, m)
  <2> TAKE m \in 1..Len(b)
  <2>1. m \in 1..size /\ m < size
    BY <1>1, <1>4
  <2>2. w[m] >= CONTINUATION_BIT
    BY <1>2, <2>1
  <2>3. w[m] \in Nat
    BY <1>2, <2>1, LenProperties
  <2>4. b[m] = w[m]
    OBVIOUS
  <2> HIDE DEF w
  <2> QED
    BY <1>3, <2>2, <2>3, <2>4 DEF IsEnd
<1>6. EndOf(b) = 0
  BY <1>4, <1>5 DEF EndOf
<1>7. FirstGroups(b, {0, 1}) = <<>>
  <2>1. SubSeq(b, 1, 0) = <<>>
    OBVIOUS
  <2> QED
    BY <1>6, <2>1 DEF FirstGroups, Possible
<1> QED
  BY <1>7 DEF ReadUnsigned, Unsigned

-----------------------------------------------------------------------------
(* A file that is cut *)

\* A block with m bytes after their number, all from S.
IsBlock(x, S, m) ==
    /\ m \in UnsignedNumber /\ x \in Seq(S) /\ Len(x) = HEADER_BYTES + Len(WriteUnsigned(m)) + m
    /\ \A i \in 1..4 : x[i] = MAGIC_BYTES[i]
    /\ \A i \in 1..Len(WriteUnsigned(m)) : x[HEADER_BYTES + i] = WriteUnsigned(m)[i]

\* A block is found at the start of bytes that have all of it, and not if they end before.
LEMMA Popped ==
    ASSUME NEW S, NEW m, NEW x, IsBlock(x, S, m), NEW b \in Seq(S),
           \A i \in 1..Len(b) : i <= Len(x) => b[i] = x[i]
    PROVE  /\ Len(x) <= Len(b) => PopBlock(b) = [tag |-> "block", end |-> Len(x)]
           /\ Len(b) < Len(x) => PopBlock(b) \in {[tag |-> "none"], [tag |-> "error"]}
           /\ Len(b) < 4 => PopBlock(b) = [tag |-> "none"]
<1> DEFINE w == WriteUnsigned(m)
           k == Len(w)
           r == From(b, HEADER_BYTES)
<1>1. m \in UnsignedNumber /\ m \in Nat /\ k \in Nat /\ k >= 1 /\ HEADER_BYTES = 9
  <2>1. m \in UnsignedNumber /\ m \in Nat
    BY ItemsAre DEF IsBlock
  <2>2. k \in 1..MaxSize
    BY <2>1, NumberLength
  <2> QED
    BY <2>1, <2>2, Leb128Assumption DEF HEADER_BYTES, PREAMBLE_BYTES
<1>2. Len(b) \in Nat /\ Len(x) = 9 + k + m /\ Len(x) \in Nat /\ Len(x) >= 10
  <2>1. Len(b) \in Nat
    BY LenProperties
  <2>2. Len(x) = 9 + k + m
    BY <1>1 DEF IsBlock
  <2> HIDE DEF k
  <2> QED
    BY <1>1, <2>1, <2>2
<1>3. CASE Len(b) < 4
  <2>1. PopBlock(b) = [tag |-> "none"]
    BY <1>3 DEF PopBlock
  <2> QED
    BY <1>2, <1>3, <2>1
<1>4. CASE Len(b) >= 4
  <2>1. SubSeq(b, 1, 4) = MAGIC_BYTES
    <3>1. MAGIC_BYTES \in Seq(Nat) /\ Len(MAGIC_BYTES) = 4
      BY DEF MAGIC_BYTES
    <3>2. b \in Seq(S \cup Nat) /\ MAGIC_BYTES \in Seq(S \cup Nat)
      BY <3>1, SeqWithin
    <3>3. \A i \in 1..4 : b[i] = MAGIC_BYTES[i]
      <4>1. \A i \in 1..4 : x[i] = MAGIC_BYTES[i]
        BY DEF IsBlock
      <4>2. \A i \in 1..4 : i \in 1..Len(b) /\ i <= Len(x)
        BY <1>2, <1>4
      <4> QED
        BY <4>1, <4>2
    <3>4. 4 \in Nat /\ 4 = Len(MAGIC_BYTES) /\ 4 <= Len(b)
      BY <1>2, <1>4, <3>1
    <3> QED
      BY <3>2, <3>3, <3>4, BeginIs
  <2>2. PopBlock(b) = IF Len(b) < HEADER_BYTES + 1 THEN [tag |-> "error"] ELSE BlockOfLength(b, ReadUnsigned(r))
    BY <1>2, <1>4, <2>1 DEF PopBlock
  <2>3. CASE Len(b) < 10
    <3>1. PopBlock(b) = [tag |-> "error"]
      BY <1>1, <2>2, <2>3
    <3> QED
      BY <1>2, <1>4, <2>3, <3>1
  <2>4. CASE Len(b) >= 10
    <3>1. /\ r \in Seq(S) /\ Len(r) = Len(b) - 9
          /\ \A i \in 1..(Len(b) - 9) : r[i] = b[9 + i]
      <4>1. 9 \in 0..Len(b)
        BY <1>2, <2>4
      <4> QED
        BY <1>1, <4>1, RestIs
    <3>2. \A i \in 1..k : i <= Len(b) - 9 => r[i] = w[i]
      <4> SUFFICES ASSUME NEW i \in 1..k, i <= Len(b) - 9
                   PROVE  r[i] = w[i]
        OBVIOUS
      <4>1. i \in 1..(Len(b) - 9) /\ 9 + i \in 1..Len(b) /\ 9 + i <= Len(x)
        <5> HIDE DEF k
        <5> QED
          BY <1>1, <1>2
      <4>2. r[i] = b[9 + i] /\ b[9 + i] = x[9 + i]
        BY <3>1, <4>1
      <4>3. x[9 + i] = w[i]
        BY <1>1 DEF IsBlock
      <4> QED
        BY <4>2, <4>3
    <3>3. PopBlock(b) = BlockOfLength(b, ReadUnsigned(r))
      BY <1>1, <1>2, <2>2, <2>4
    <3> HIDE DEF r
    <3>4. CASE Len(r) < k
      <4>1. \A i \in 1..Len(r) : r[i] = w[i]
        <5> HIDE DEF k
        <5>1. \A i \in 1..Len(r) : i \in 1..k /\ i <= Len(b) - 9
          <6>1. Len(r) = Len(b) - 9
            BY <3>1
          <6> QED
            BY <1>1, <1>2, <3>4, <6>1
        <5> QED
          BY <3>2, <5>1
      <4>2. ReadUnsigned(r).size = 0
        BY <1>1, <3>1, <3>4, <4>1, NumberTorn
      <4>3. PopBlock(b) = [tag |-> "error"]
        BY <3>3, <4>2 DEF BlockOfLength
      <4>4. Len(b) < Len(x)
        BY <1>1, <1>2, <3>1, <3>4
      <4> QED
        BY <1>2, <1>4, <4>3, <4>4
    <3>5. CASE k <= Len(r)
      <4>1. \A i \in 1..k : r[i] = w[i]
        BY <1>1, <1>2, <3>1, <3>2, <3>5
      <4>2. ReadUnsigned(r) = [value |-> m, size |-> k]
        BY <1>1, <3>1, <3>5, <4>1, NumberBegins
      <4> HIDE DEF k
      <4>3. PopBlock(b) = BlockEnd(b, Len(x))
        <5>1. ReadUnsigned(r).size = k /\ ReadUnsigned(r).value = m /\ k # 0
          BY <1>1, <4>2
        <5> QED
          BY <1>1, <1>2, <3>3, <5>1 DEF BlockOfLength
      <4>4. Len(x) <= Len(b) => PopBlock(b) = [tag |-> "block", end |-> Len(x)]
        BY <1>2, <4>3 DEF BlockEnd, Incomplete
      <4>5. Len(b) < Len(x) => PopBlock(b) = [tag |-> "none"]
        BY <1>2, <4>3 DEF BlockEnd, Incomplete
      <4> QED
        BY <1>2, <1>4, <4>4, <4>5
    <3> QED
      BY <1>1, <1>2, <3>1, <3>4, <3>5
  <2> QED
    BY <1>2, <2>3, <2>4
<1> QED
  BY <1>2, <1>3, <1>4

\* The loop of split_blocks, if it ends after three turns.
LEMMA SplitEnds ==
    ASSUME NEW b, NEW start, start = [at |-> 0, blocks |-> <<>>, tag |-> "block"],
           NEW s1, s1 = TakeBlock(b, start), NEW s2, s2 = TakeBlock(b, s1), NEW s3, s3 = TakeBlock(b, s2),
           s3.tag # "block", Len(b) \in Nat, Len(b) >= 8 \/ s1.tag # "block"
    PROVE  SplitBlocks(b) = s3
<1> DEFINE n == SplitTurns(b)
           Turns(g) == g = [i \in 0..n |-> IF i = 0 THEN start ELSE TakeBlock(b, g[i - 1])]
           f == [i \in 0..n |-> IF i = 0 THEN start ELSE IF i = 1 THEN s1 ELSE IF i = 2 THEN s2 ELSE s3]
           g == CHOOSE h : Turns(h)
<1>1. n \in Nat /\ n >= 1 /\ (n >= 3 \/ s1.tag # "block")
  <2> DEFINE l == Len(b)
  <2>1. l \in Nat /\ n = (l \div 4) + 1 /\ (l >= 8 \/ s1.tag # "block")
    BY DEF SplitTurns
  <2> HIDE DEF l, n
  <2>2. l \div 4 \in Nat /\ (l >= 8 => l \div 4 >= 2)
    BY <2>1
  <2> QED
    BY <2>1, <2>2
<1> HIDE DEF n
<1>2. TakeBlock(b, s3) = s3
  BY DEF TakeBlock
<1>3. s1.tag # "block" => s2 = s1 /\ s3 = s1
  BY DEF TakeBlock
<1>4. Turns(f)
  <2>1. \A i \in 0..n : f[i] = IF i = 0 THEN start ELSE TakeBlock(b, f[i - 1])
    <3> TAKE i \in 0..n
    <3>1. i = 0 \/ i = 1 \/ i = 2 \/ i >= 3
      BY <1>1
    <3>2. i > 0 => i - 1 \in 0..n
      BY <1>1
    <3>3. CASE i = 0
      BY <3>3
    <3>4. CASE i = 1
      BY <3>2, <3>4
    <3>5. CASE i = 2
      BY <3>2, <3>5
    <3>6. CASE i >= 3
      <4>1. f[i] = s3 /\ i # 0
        BY <3>6
      <4>2. f[i - 1] = IF i = 3 THEN s2 ELSE s3
        BY <1>1, <3>2, <3>6
      <4> QED
        BY <1>2, <4>1, <4>2
    <3> QED
      BY <3>1, <3>3, <3>4, <3>5, <3>6
  <2>2. f = [i \in 0..n |-> f[i]]
    OBVIOUS
  <2> HIDE DEF f
  <2> QED
    BY <2>1, <2>2
<1>5. f[n] = s3
  <2>1. f[n] = IF n = 1 THEN s1 ELSE IF n = 2 THEN s2 ELSE s3
    BY <1>1
  <2>2. n = 1 \/ n = 2 => s1.tag # "block"
    BY <1>1
  <2> QED
    BY <1>3, <2>1, <2>2
<1> HIDE DEF f
<1>6. Turns(g)
  BY <1>4
<1>7. SplitBlocks(b) = g[n]
  BY DEF SplitBlocks, n
<1>8. g[0] = start /\ f[0] = start /\ \A i \in 1..n : g[i] = TakeBlock(b, g[i - 1]) /\ f[i] = TakeBlock(b, f[i - 1])
  <2>1. 0 \in 0..n /\ \A i \in 1..n : i \in 0..n /\ i # 0
    BY <1>1
  <2> HIDE DEF g
  <2> QED
    BY <1>4, <1>6, <2>1
<1> HIDE DEF g
<1>9. g[n] = f[n]
  BY <1>1, <1>8, SameLoop
<1> QED
  BY <1>5, <1>7, <1>9

\* A block has ten bytes or more.
LEMMA BlockLength ==
    ASSUME NEW S, NEW m, NEW x, IsBlock(x, S, m)
    PROVE  Len(x) \in Nat /\ Len(x) >= 10
<1>1. m \in UnsignedNumber /\ m \in Nat /\ Len(x) = HEADER_BYTES + Len(WriteUnsigned(m)) + m
  BY ItemsAre DEF IsBlock
<1>2. Len(WriteUnsigned(m)) \in Nat /\ Len(WriteUnsigned(m)) >= 1
  <2>1. Len(WriteUnsigned(m)) \in 1..MaxSize
    BY <1>1, NumberLength
  <2> QED
    BY <2>1, Leb128Assumption
<1> QED
  BY <1>1, <1>2 DEF HEADER_BYTES, PREAMBLE_BYTES

\* A block read after others: what is read of it comes last.
LEMMA OneMoreLoaded ==
    ASSUME NEW changes, NEW block
    PROVE  Loaded({changes}, block) = {Append(changes, v) : v \in DecodeChange(block)}
BY DEF Loaded

\* Numbers up to two.
LEMMA UpToTwo == \A p \in 0..2 : \A j \in 0..p : j = 0 \/ (j = 1 /\ 1 <= p) \/ (j = 2 /\ 2 <= p)
OBVIOUS

\* At most two blocks are read, one after the other.
LEMMA LoadEnds ==
    ASSUME NEW split, split.tag # "error", NEW n \in 0..2, n = Len(split.blocks),
           NEW l1, 1 <= n => l1 = Loaded({<<>>}, split.blocks[1]),
           NEW l2, 2 <= n => l2 = Loaded(l1, split.blocks[2])
    PROVE  LoadSplit(split) = IF n = 0 THEN {<<>>} ELSE IF n = 1 THEN l1 ELSE l2
<1> DEFINE Turns(g) == g = [i \in 0..n |-> IF i = 0 THEN {<<>>} ELSE Loaded(g[i - 1], split.blocks[i])]
           f == [i \in 0..n |-> IF i = 0 THEN {<<>>} ELSE IF i = 1 THEN l1 ELSE l2]
           g == CHOOSE h : Turns(h)
<1>1. n \in Nat /\ (n = 0 \/ n = 1 \/ n = 2)
  OBVIOUS
<1>2. Turns(f)
  <2>1. \A i \in 0..n : f[i] = IF i = 0 THEN {<<>>} ELSE Loaded(f[i - 1], split.blocks[i])
    <3> TAKE i \in 0..n
    <3>1. i = 0 \/ (i = 1 /\ 1 <= n) \/ (i = 2 /\ 2 <= n)
      <4>1. \A p \in 0..2 : \A j \in 0..p : j = 0 \/ (j = 1 /\ 1 <= p) \/ (j = 2 /\ 2 <= p)
        BY UpToTwo
      <4> QED
        BY <4>1, Zenon
    <3>2. i > 0 => i - 1 \in 0..n
      BY <1>1
    <3>3. CASE i = 0
      BY <3>3
    <3>4. CASE i = 1 /\ 1 <= n
      <4>1. f[i] = l1 /\ f[i - 1] = {<<>>}
        BY <3>2, <3>4
      <4> QED
        BY <3>4, <4>1
    <3>5. CASE i = 2 /\ 2 <= n
      <4>1. f[i] = l2 /\ f[i - 1] = l1
        BY <3>2, <3>5
      <4> QED
        BY <3>5, <4>1
    <3> QED
      BY <3>1, <3>3, <3>4, <3>5
  <2>2. f = [i \in 0..n |-> f[i]]
    OBVIOUS
  <2> HIDE DEF f
  <2> QED
    BY <2>1, <2>2
<1>3. f[n] = IF n = 0 THEN {<<>>} ELSE IF n = 1 THEN l1 ELSE l2
  BY <1>1
<1> HIDE DEF f
<1>4. Turns(g)
  BY <1>2
<1>5. LoadSplit(split) = g[n]
  BY DEF LoadSplit
<1>6. /\ g[0] = {<<>>} /\ f[0] = {<<>>}
      /\ \A i \in 1..n : g[i] = Loaded(g[i - 1], split.blocks[i]) /\ f[i] = Loaded(f[i - 1], split.blocks[i])
  <2>1. 0 \in 0..n /\ \A i \in 1..n : i \in 0..n /\ i # 0
    BY <1>1
  <2> HIDE DEF g
  <2> QED
    BY <1>2, <1>4, <2>1
<1> HIDE DEF g
<1>7. g[n] = f[n]
  <2>1. g[0] = f[0] /\ \A i \in 1..n : g[i - 1] = f[i - 1] => g[i] = f[i]
    BY <1>6
  <2>2. n \in Nat
    BY <1>1
  <2> QED
    BY <2>1, <2>2, SameLoop
<1> QED
  BY <1>3, <1>5, <1>7

\* A part of two sequences one after the other, up to any length.
LEMMA CutIs ==
    ASSUME NEW S, NEW x \in Seq(S), NEW y \in Seq(S), NEW n \in 0..Len(x \o y), NEW b, b = SubSeq(x \o y, 1, n)
    PROVE  /\ b \in Seq(S) /\ Len(b) = n /\ Len(x \o y) = Len(x) + Len(y) /\ Len(x) \in Nat /\ Len(y) \in Nat
           /\ \A i \in 1..n : i <= Len(x) => b[i] = x[i]
           /\ \A i \in 1..Len(y) : Len(x) + i <= n => b[Len(x) + i] = y[i]
<1> DEFINE z == x \o y
<1>1. /\ z \in Seq(S) /\ Len(z) = Len(x) + Len(y)
      /\ \A k \in 1..Len(x) : z[k] = x[k]
      /\ \A k \in 1..Len(y) : z[Len(x) + k] = y[k]
  BY TwoJoined
<1>2. Len(x) \in Nat /\ Len(y) \in Nat
  BY LenProperties
<1> HIDE DEF z
<1>3. n \in Nat /\ n <= Len(z)
  BY <1>1, <1>2 DEF z
<1>4. b = SubSeq(z, 1, n)
  BY DEF z
<1>5. b \in Seq(S) /\ Len(b) = n /\ \A i \in 1..n : b[i] = z[i]
  BY <1>1, <1>3, <1>4
<1>6. \A i \in 1..n : i <= Len(x) => i \in 1..Len(x)
  OBVIOUS
<1>7. \A i \in 1..Len(y) : Len(x) + i <= n => Len(x) + i \in 1..n
  BY <1>2
<1> QED
  BY <1>1, <1>2, <1>5, <1>6, <1>7 DEF z

\* Sequences of one and of two.
LEMMA OneAndTwo == \A a, c : Append(<<>>, a) = <<a>> /\ Append(<<a>>, c) = <<a, c>>
<1> SUFFICES ASSUME NEW a, NEW c
             PROVE  Append(<<>>, a) = <<a>> /\ Append(<<a>>, c) = <<a, c>>
  OBVIOUS
<1> DEFINE T == {a, c}
           s == <<a>>
           t == Append(s, c)
           u == <<a, c>>
<1>1. Append(<<>>, a) = <<a>>
  OBVIOUS
<1>2. s \in Seq(T) /\ Len(s) = 1 /\ s[1] = a /\ u \in Seq(T) /\ Len(u) = 2 /\ u[1] = a /\ u[2] = c /\ c \in T
  OBVIOUS
<1> HIDE DEF s, u, T
<1>3. t \in Seq(T) /\ Len(t) = 2 /\ t[1] = a /\ t[2] = c
  <2>1. s \in Seq(T) /\ c \in T
    BY <1>2
  <2>2. /\ t \in Seq(T) /\ Len(t) = Len(s) + 1
        /\ \A i \in 1..Len(s) : t[i] = s[i]
        /\ t[Len(s) + 1] = c
    BY <2>1, AppendProperties
  <2>3. 1 + 1 = 2 /\ 1 \in 1..1
    OBVIOUS
  <2> HIDE DEF t
  <2> QED
    BY <1>2, <2>2, <2>3
<1> HIDE DEF t
<1>4. \A i \in 1..2 : t[i] = u[i]
  <2>1. 1..2 = {1, 2}
    OBVIOUS
  <2> QED
    BY <1>2, <1>3, <2>1
<1>5. t = u
  BY <1>2, <1>3, <1>4, SeqEqual
<1> QED
  BY <1>1, <1>5 DEF s, t, u

\* What is loaded of the first n bytes b of two blocks, of which the first is read as v, and the
\* second as one of W.
CutLoads(x, y, v, W, n, b) ==
    /\ n < Len(x) => LoadBlocks(b) \subseteq {<<>>}
    /\ Len(x) <= n /\ n < Len(x) + Len(y) => LoadBlocks(b) \subseteq {<<v>>}
    /\ Len(x) <= n /\ n < Len(x) + 4 => LoadBlocks(b) = {<<v>>}
    /\ n = Len(x) + Len(y) => LoadBlocks(b) = {<<v, w>> : w \in W}
    /\ Len(x) >= 10 /\ Len(y) >= 10

\* A file of two blocks that is cut anywhere: the blocks that are complete are read, and
\* nothing else; it may be refused unless it is cut between them, less than four bytes behind
\* the first, or not at all.
LEMMA CutFileLoads ==
    ASSUME NEW S, NEW k, NEW x, IsBlock(x, S, k), NEW m, NEW y, IsBlock(y, S, m),
           NEW v, DecodeChange(x) = {v}, NEW W, DecodeChange(y) = W,
           NEW n \in 0..Len(x \o y), NEW b, b = SubSeq(x \o y, 1, n)
    PROVE  CutLoads(x, y, v, W, n, b)
<1> DEFINE start == [at |-> 0, blocks |-> <<>>, tag |-> "block"]
           s1 == TakeBlock(b, start)
           s2 == TakeBlock(b, s1)
           s3 == TakeBlock(b, s2)
           p1 == PopBlock(b)
           r == From(b, Len(x))
           p2 == PopBlock(r)
<1>1. x \in Seq(S) /\ y \in Seq(S)
  BY DEF IsBlock
<1>2. /\ b \in Seq(S) /\ Len(b) = n /\ Len(x \o y) = Len(x) + Len(y) /\ Len(x) \in Nat /\ Len(y) \in Nat
      /\ \A i \in 1..n : i <= Len(x) => b[i] = x[i]
      /\ \A i \in 1..Len(y) : Len(x) + i <= n => b[Len(x) + i] = y[i]
  BY <1>1, CutIs
<1>3. n \in Nat /\ n <= Len(x) + Len(y)
  BY <1>2
<1>4. Len(x) >= 10 /\ Len(y) >= 10
  BY BlockLength
<1>5. From(b, 0) = b
  BY <1>2 DEF From
<1>6. /\ Len(x) <= n => p1 = [tag |-> "block", end |-> Len(x)]
      /\ n < Len(x) => p1 \in {[tag |-> "none"], [tag |-> "error"]}
  <2>1. \A i \in 1..Len(b) : i <= Len(x) => b[i] = x[i]
    BY <1>2
  <2>2. /\ Len(x) <= Len(b) => PopBlock(b) = [tag |-> "block", end |-> Len(x)]
        /\ Len(b) < Len(x) => PopBlock(b) \in {[tag |-> "none"], [tag |-> "error"]}
    BY <1>2, <2>1, Popped
  <2> QED
    BY <1>2, <2>2
<1> HIDE DEF p1
<1>7. s1 = Took(b, start, p1)
  BY <1>5 DEF TakeBlock, p1
<1>8. ASSUME n < Len(x)
      PROVE  LoadBlocks(b) \subseteq {<<>>}
  <2>1. p1.tag \in {"none", "error"}
    BY <1>6, <1>8
  <2>2. s1 = [at |-> 0, blocks |-> <<>>, tag |-> p1.tag]
    BY <1>7, <2>1 DEF Took
  <2>3. s1.tag # "block" /\ s2 = s1 /\ s3 = s1
    <3> HIDE DEF start
    <3>1. s1.tag # "block"
      BY <2>1, <2>2
    <3> HIDE DEF s1
    <3> QED
      BY <3>1 DEF TakeBlock
  <2>4. SplitBlocks(b) = s3
    <3> HIDE DEF s1, s2, s3
    <3>1. s1 = TakeBlock(b, start) /\ s2 = TakeBlock(b, s1) /\ s3 = TakeBlock(b, s2)
      BY DEF s1, s2, s3
    <3>2. s3.tag # "block" /\ Len(b) \in Nat /\ s1.tag # "block"
      BY <1>2, <1>3, <2>3
    <3> QED
      BY <3>1, <3>2, SplitEnds
  <2> HIDE DEF s1, s2, s3
  <2>5. CASE s1.tag = "error"
    BY <2>3, <2>4, <2>5 DEF LoadBlocks, LoadSplit
  <2>6. CASE s1.tag # "error"
    <3>1. 0 \in 0..2 /\ 0 = Len(s1.blocks) /\ ~(1 <= 0) /\ ~(2 <= 0)
      BY <2>2
    <3>2. LoadSplit(s1) = {<<>>}
      BY <2>6, <3>1, LoadEnds
    <3> QED
      BY <2>3, <2>4, <3>2 DEF LoadBlocks
  <2> QED
    BY <2>5, <2>6
<1>9. ASSUME Len(x) <= n
      PROVE  /\ n < Len(x) + Len(y) => LoadBlocks(b) \subseteq {<<v>>}
             /\ n < Len(x) + 4 => LoadBlocks(b) = {<<v>>}
             /\ n = Len(x) + Len(y) => LoadBlocks(b) = {<<v, w>> : w \in W}
  <2>1. s1 = [at |-> Len(x), blocks |-> <<x>>, tag |-> "block"]
    <3>1. PartAt(b, 0, Len(x)) = x
      <4>1. SubSeq(b, 1, Len(x)) = x
        <5>1. Len(x) \in Nat /\ Len(x) = Len(x) /\ Len(x) <= Len(b) /\ \A i \in 1..Len(x) : b[i] = x[i]
          BY <1>2, <1>3, <1>9
        <5> QED
          BY <1>1, <1>2, <5>1, BeginIs
      <4>2. 0 + 1 = 1 /\ 0 + Len(x) = Len(x)
        BY <1>2
      <4> QED
        BY <4>1, <4>2 DEF PartAt
    <3>2. p1 = [tag |-> "block", end |-> Len(x)]
      BY <1>6, <1>9
    <3>3. Took(b, start, p1) = [at |-> 0 + Len(x), blocks |-> Append(<<>>, PartAt(b, 0, Len(x))), tag |-> "block"]
      BY <3>2 DEF Took
    <3>4. Append(<<>>, x) = <<x>> /\ 0 + Len(x) = Len(x)
      BY <1>2
    <3> QED
      BY <1>7, <3>1, <3>3, <3>4
  <2>2. /\ r \in Seq(S) /\ Len(r) = n - Len(x)
        /\ \A i \in 1..(n - Len(x)) : r[i] = b[Len(x) + i]
    <3>1. Len(x) \in 0..Len(b)
      BY <1>2, <1>3, <1>9
    <3>2. b \in Seq(S)
      BY <1>2
    <3>3. /\ From(b, Len(x)) \in Seq(S) /\ Len(From(b, Len(x))) = Len(b) - Len(x)
          /\ \A i \in 1..(Len(b) - Len(x)) : From(b, Len(x))[i] = b[Len(x) + i]
      BY <3>1, <3>2, RestIs
    <3>4. Len(b) = n
      BY <1>2
    <3> QED
      BY <3>3, <3>4
  <2>3. \A i \in 1..Len(r) : i <= Len(y) => r[i] = y[i]
    <3> TAKE i \in 1..Len(r)
    <3>1. i \in 1..(n - Len(x)) /\ Len(x) + i <= n
      BY <1>2, <1>3, <2>2
    <3>2. i <= Len(y) => i \in 1..Len(y)
      OBVIOUS
    <3> QED
      BY <1>2, <2>2, <3>1, <3>2
  <2> HIDE DEF r
  <2>4. /\ Len(y) <= Len(r) => p2 = [tag |-> "block", end |-> Len(y)]
        /\ Len(r) < Len(y) => p2 \in {[tag |-> "none"], [tag |-> "error"]}
        /\ Len(r) < 4 => p2 = [tag |-> "none"]
    BY <2>2, <2>3, Popped
  <2> HIDE DEF s1, p2
  <2>5. s2 = Took(b, s1, p2)
    BY <2>1 DEF TakeBlock, p2, r
  <2>6. n >= 2 /\ Len(b) \in Nat /\ Len(b) >= 8
    BY <1>2, <1>3, <1>4, <1>9
  <2>7. s1 = TakeBlock(b, start) /\ s2 = TakeBlock(b, s1) /\ s3 = TakeBlock(b, s2)
    BY DEF s1
  <2> HIDE DEF s2, s3, start
  <2>8. ASSUME n < Len(x) + Len(y)
        PROVE  /\ LoadBlocks(b) \subseteq {<<v>>}
               /\ n < Len(x) + 4 => LoadBlocks(b) = {<<v>>}
    <3>1. p2.tag \in {"none", "error"} /\ (n < Len(x) + 4 => p2.tag = "none")
      BY <1>2, <1>3, <2>2, <2>4, <2>8
    <3>2. s2 = [at |-> Len(x), blocks |-> <<x>>, tag |-> p2.tag]
      BY <2>1, <2>5, <3>1 DEF Took
    <3>3. s3 = s2 /\ s3.tag # "block"
      <4>1. s2.tag # "block"
        BY <3>1, <3>2
      <4> QED
        BY <2>7, <4>1 DEF TakeBlock
    <3>4. SplitBlocks(b) = s2
      BY <2>6, <2>7, <3>3, SplitEnds DEF start
    <3>5. CASE p2.tag = "error"
      BY <3>1, <3>2, <3>4, <3>5 DEF LoadBlocks, LoadSplit
    <3>6. CASE p2.tag # "error"
      <4>1. Loaded({<<>>}, x) = {<<v>>}
        <5>1. Loaded({<<>>}, x) = {Append(<<>>, u) : u \in {v}}
          BY OneMoreLoaded
        <5> QED
          BY <5>1, OneAndTwo
      <4>2. s2.tag # "error" /\ 1 \in 0..2 /\ 1 = Len(s2.blocks) /\ s2.blocks[1] = x /\ ~(2 <= 1)
        BY <3>2, <3>6
      <4>3. LoadSplit(s2) = {<<v>>}
        BY <4>1, <4>2, LoadEnds
      <4> QED
        BY <3>4, <4>3 DEF LoadBlocks
    <3> QED
      BY <3>1, <3>5, <3>6
  <2>9. ASSUME n = Len(x) + Len(y)
        PROVE  LoadBlocks(b) = {<<v, w>> : w \in W}
    <3>1. p2 = [tag |-> "block", end |-> Len(y)]
      BY <1>2, <2>2, <2>4, <2>9
    <3>2. PartAt(b, Len(x), Len(y)) = y
      <4>1. SubSeq(b, Len(x) + 1, Len(x) + Len(y)) = y
        <5>1. Len(x) \in Nat /\ Len(x) + Len(y) <= Len(b) /\ \A i \in 1..Len(y) : b[Len(x) + i] = y[i]
          BY <1>2, <2>9
        <5> QED
          BY <1>1, <1>2, <5>1, PartIs
      <4> QED
        BY <4>1 DEF PartAt
    <3>3. s2 = [at |-> n, blocks |-> <<x, y>>, tag |-> "block"]
      <4>1. Took(b, s1, p2) = [at |-> Len(x) + Len(y), blocks |-> Append(<<x>>, PartAt(b, Len(x), Len(y))), tag |-> "block"]
        BY <2>1, <3>1 DEF Took
      <4>2. Append(<<x>>, y) = <<x, y>>
        BY OneAndTwo
      <4> QED
        BY <2>5, <2>9, <3>2, <4>1, <4>2
    <3>4. PopBlock(From(b, n)) = [tag |-> "none"]
      <4>1. n \in 0..Len(b)
        BY <1>2, <1>3
      <4>2. From(b, n) \in Seq(S) /\ Len(From(b, n)) = Len(b) - n
        BY <1>2, <4>1, RestIs
      <4>3. Len(From(b, n)) < 4
        BY <1>2, <1>3, <4>2
      <4> QED
        BY <4>3 DEF PopBlock
    <3>5. s3 = [at |-> n, blocks |-> <<x, y>>, tag |-> "none"]
      <4> DEFINE p3 == PopBlock(From(b, n))
      <4>1. s3 = Took(b, s2, p3)
        BY <2>7, <3>3 DEF TakeBlock
      <4>2. p3.tag = "none"
        BY <3>4
      <4> HIDE DEF p3
      <4>3. Took(b, s2, p3) = [s2 EXCEPT !.tag = "none"]
        BY <4>2 DEF Took
      <4> QED
        BY <3>3, <4>1, <4>3
    <3>6. SplitBlocks(b) = s3
      <4>1. s3.tag # "block"
        BY <3>5
      <4> QED
        BY <2>6, <2>7, <4>1, SplitEnds DEF start
    <3>7. Loaded({<<>>}, x) = {<<v>>} /\ Loaded({<<v>>}, y) = {<<v, w>> : w \in W}
      <4>1. Append(<<>>, v) = <<v>> /\ \A w : Append(<<v>>, w) = <<v, w>>
        BY OneAndTwo
      <4>2. /\ Loaded({<<>>}, x) = {Append(<<>>, u) : u \in {v}}
            /\ Loaded({<<v>>}, y) = {Append(<<v>>, u) : u \in W}
        BY OneMoreLoaded
      <4> QED
        BY <4>1, <4>2
    <3>8. s3.tag # "error" /\ 2 \in 0..2 /\ 2 = Len(s3.blocks) /\ s3.blocks[1] = x /\ s3.blocks[2] = y
      BY <3>5
    <3>9. LoadSplit(s3) = {<<v, w>> : w \in W}
      <4> DEFINE l1 == {<<v>>}
                 l2 == {<<v, w>> : w \in W}
                 l == 2
      <4>1. l1 = Loaded({<<>>}, s3.blocks[1]) /\ l2 = Loaded(l1, s3.blocks[2])
        BY <3>7, <3>8
      <4>2. s3.tag # "error" /\ l \in 0..2 /\ l = Len(s3.blocks)
        BY <3>8
      <4> HIDE DEF l1, l2, l
      <4>3. LoadSplit(s3) = IF l = 0 THEN {<<>>} ELSE IF l = 1 THEN l1 ELSE l2
        BY <4>1, <4>2, LoadEnds
      <4> QED
        BY <4>3 DEF l, l2
    <3> QED
      BY <3>6, <3>9 DEF LoadBlocks
  <2> QED
    BY <1>2, <1>3, <1>4, <2>8, <2>9
<1> QED
  BY <1>3, <1>4, <1>8, <1>9 DEF CutLoads

\* What a change is written as is a block.
LEMMA WrittenAreBlocks ==
    ASSUME NEW c \in ChangeType, BytesFit(c), NEW S, BlockBytes(Body(c)) \subseteq S
    PROVE  IsBlock(BytesOf(c), S, Len(Body(c)))
<1> DEFINE body == Body(c)
           bytes == BytesOf(c)
           m == Len(body)
           w == WriteUnsigned(m)
<1>1. body \in Seq(Nat) /\ m \in UnsignedNumber
  BY BodyIsBytes DEF BytesFit
<1>2. /\ bytes \in Seq(BlockBytes(body)) /\ Len(bytes) = StartOf(body) + m
      /\ SubSeq(bytes, 1, 4) = MAGIC_BYTES /\ Stands(bytes, HEADER_BYTES, w)
  BY <1>1, BlockIs DEF BytesOf
<1>3. bytes \in Seq(S)
  BY <1>2, SeqWithin
<1>4. StartOf(body) = HEADER_BYTES + Len(w)
  BY DEF StartOf
<1>5. \A i \in 1..Len(w) : bytes[HEADER_BYTES + i] = w[i]
  BY <1>2 DEF Stands
<1>6. \A i \in 1..4 : bytes[i] = MAGIC_BYTES[i]
  <2>1. \A s \in Seq(S), i \in 1..4 : SubSeq(s, 1, 4)[i] = s[i]
    OBVIOUS
  <2> QED
    BY <1>2, <1>3, <2>1
<1> HIDE DEF body, bytes, m, w
<1>7. IsBlock(bytes, S, m)
  BY <1>1, <1>2, <1>3, <1>4, <1>5, <1>6 DEF IsBlock, w
<1> QED
  BY <1>7 DEF bytes, m, body

\* So is what it is compressed to.
LEMMA PackedAreBlocks ==
    ASSUME NEW c \in ChangeType, BytesFit(c), Deflates(Body(c)), NEW S, PackedBytes(c) \subseteq S
    PROVE  IsBlock(Packed(c), S, Len(Deflate(Body(c))))
<1> DEFINE raw == Packed(c)
           m == Len(Deflate(Body(c)))
           w == WriteUnsigned(m)
<1>1. /\ raw \in Seq(PackedBytes(c)) /\ Len(raw) = HEADER_BYTES + Len(w) + m /\ m \in UnsignedNumber
      /\ SubSeq(raw, 1, 4) = MAGIC_BYTES /\ NumberAt(raw, HEADER_BYTES, m)
  BY PackedIs
<1> HIDE DEF raw, m
<1>2. raw \in Seq(S)
  BY <1>1, SeqWithin
<1>3. \A i \in 1..4 : raw[i] = MAGIC_BYTES[i]
  <2>1. \A s \in Seq(S), i \in 1..4 : SubSeq(s, 1, 4)[i] = s[i]
    OBVIOUS
  <2> QED
    BY <1>1, <1>2, <2>1
<1>4. \A i \in 1..Len(w) : raw[HEADER_BYTES + i] = w[i]
  BY <1>1 DEF NumberAt
<1>5. IsBlock(raw, S, m)
  BY <1>1, <1>2, <1>3, <1>4 DEF IsBlock
<1> QED
  BY <1>5 DEF raw, m

\* A change with the number 1 in place of its own fits if the change fits.
LEMMA FirstFits ==
    ASSUME NEW c \in ChangeType, BytesFit(c), NEW d, d = [c EXCEPT !.seq = 1]
    PROVE  d \in ChangeType /\ BytesFit(d)
<1>1. 1 \in UnsignedNumber
  BY SmallFit
<1>2. /\ d \in ChangeType /\ d.seq = 1 /\ d.deps = c.deps /\ d.actor_id = c.actor_id /\ d.start_op = c.start_op
      /\ d.time = c.time /\ d.operations = c.operations /\ d.extra_bytes = c.extra_bytes /\ d.message = c.message
  BY <1>1 DEF ChangeType
<1>3. ActorsOf(d) = ActorsOf(c)
  BY <1>2 DEF ActorsOf
<1>4. NumbersFit(c) /\ NumbersFit(d)
  BY <1>2, <1>3 DEF BytesFit, NumbersFit, PartsFit
<1>5. Len(BeforeMessage(c)) =
          Len(WriteUnsigned(Len(c.deps))) + Len(c.deps) + Len(WriteActor(c.actor_id))
              + Len(WriteUnsigned(c.seq)) + Len(WriteUnsigned(c.start_op)) + Len(WriteSigned(c.time))
  BY <1>4, BeforeLength
<1>6. Len(BeforeMessage(d)) =
          Len(WriteUnsigned(Len(d.deps))) + Len(d.deps) + Len(WriteActor(d.actor_id))
              + Len(WriteUnsigned(d.seq)) + Len(WriteUnsigned(d.start_op)) + Len(WriteSigned(d.time))
  BY <1>2, <1>4, BeforeLength
<1>7. Len(WriteUnsigned(1)) = 1 /\ Len(WriteUnsigned(c.seq)) \in Nat /\ Len(WriteUnsigned(c.seq)) >= 1
  <2>1. Len(WriteUnsigned(1)) = 1
    BY OneByte
  <2>2. c.seq \in UnsignedNumber
    BY DEF ChangeType
  <2>3. Len(WriteUnsigned(c.seq)) \in 1..MaxSize
    BY <2>2, NumberLength
  <2> QED
    BY <2>1, <2>3
<1>8. ColumnsIn(d) = ColumnsIn(c)
  BY <1>2, <1>3 DEF ColumnsIn
<1>9. DatasOf(d) = DatasOf(c)
  BY <1>8 DEF DatasOf
<1>10. OpsBytes(d) = OpsBytes(c) /\ OthersOf(d) = OthersOf(c)
  BY <1>3, <1>8, <1>9 DEF OpsBytes, OthersOf
<1> DEFINE b == Len(BeforeMessage(c))
           a == Len(BeforeMessage(d))
           m == Len(WriteString(c.message))
           o == Len(OthersOf(c))
           p == Len(OpsBytes(c))
           x == Len(c.extra_bytes)
           u == Len(WriteUnsigned(Len(c.deps)))
           v == Len(c.deps)
           w == Len(WriteActor(c.actor_id))
           q == Len(WriteUnsigned(c.seq))
           r == Len(WriteUnsigned(c.start_op))
           t == Len(WriteSigned(c.time))
<1>11. Len(Body(c)) = (b + m) + o + p + x
  <2>1. Len(HeadOf(c)) = Len(BeforeMessage(c)) + Len(WriteString(c.message))
    BY <1>4, BodyIsBytes
  <2>2. Len(Body(c)) = Len(HeadOf(c)) + Len(OthersOf(c)) + Len(OpsBytes(c)) + Len(c.extra_bytes)
    BY <1>4, BodyIsBytes
  <2> QED
    BY <2>1, <2>2
<1>12. Len(Body(d)) = (a + m) + o + p + x
  <2>1. Len(HeadOf(d)) = Len(BeforeMessage(d)) + Len(WriteString(d.message))
    BY <1>2, <1>4, BodyIsBytes
  <2>2. Len(Body(d)) = Len(HeadOf(d)) + Len(OthersOf(d)) + Len(OpsBytes(d)) + Len(d.extra_bytes)
    BY <1>2, <1>4, BodyIsBytes
  <2> QED
    BY <1>2, <1>10, <2>1, <2>2
<1>13. /\ b \in Nat /\ a \in Nat /\ m \in Nat /\ o \in Nat /\ p \in Nat /\ x \in Nat
       /\ u \in Nat /\ v \in Nat /\ w \in Nat /\ r \in Nat /\ t \in Nat
  <2>1. \A s \in Seq(Nat) : Len(s) \in Nat
    OBVIOUS
  <2>2. /\ BeforeMessage(c) \in Seq(Nat) /\ WriteString(c.message) \in Seq(Nat) /\ OthersOf(c) \in Seq(Nat)
        /\ BeforeMessage(d) \in Seq(Nat) /\ OpsBytes(c) \in Seq(Nat) /\ c.extra_bytes \in Seq(Nat)
        /\ WriteActor(c.actor_id) \in Seq(Nat) /\ WriteUnsigned(c.start_op) \in Seq(Nat) /\ WriteSigned(c.time) \in Seq(Nat)
    BY <1>2, <1>4, HeadIsBytes, ColumnsFitting DEF ChangeType
  <2>3. c.deps \in Seq(Nat) /\ WriteUnsigned(Len(c.deps)) \in Seq(Nat)
    BY <1>4, NumbersAlone DEF ChangeType, NumbersFit, PartsFit
  <2> QED
    BY <2>1, <2>2, <2>3, Zenon
<1>14. b = u + v + w + q + r + t /\ a = u + v + w + 1 + r + t /\ q \in Nat /\ q >= 1
  BY <1>2, <1>5, <1>6, <1>7
<1>15. Len(Body(c)) \in UnsignedNumber
  BY DEF BytesFit
<1> HIDE DEF b, a, m, o, p, x, u, v, w, q, r, t
<1>16. a <= b
  BY <1>13, <1>14
<1>17. ((b + m) + o + p + x) \in UnsignedNumber
  BY <1>11, <1>15
<1>18. ((a + m) + o + p + x) \in UnsignedNumber
  BY <1>13, <1>16, <1>17, ModulusFacts DEF UnsignedNumber
<1> QED
  BY <1>2, <1>4, <1>12, <1>18 DEF BytesFit

\* A change that fits, as its bytes tell it: what is read from its bytes.
LEMMA WrittenChangeIs ==
    ASSUME NEW old \in ChangeType, BytesFit(old), NEW c, c = DepsSorted(old)
    PROVE  /\ c \in ChangeType /\ BytesFit(c) /\ WrittenChange(old) = ChangeWith(c, TrueAt(c))
           /\ DecodeChange(BytesOf(c)) = {WrittenChange(old)} /\ WrittenChange(old).bytes = BytesOf(c)
<1> DEFINE read == ChangeWith(c, TrueAt(c))
<1>1. c \in ChangeType /\ BytesFit(c) /\ old.message = c.message /\ FromOldChange(old) = ChangeWith(c, MadeAt(c))
  BY SortedFits
<1>2. AsWritten(ChangeWith(c, MadeAt(c)), old) = read
  BY <1>1, WrittenIs
<1>3. WrittenChange(old) = read
  BY <1>1, <1>2 DEF WrittenChange
<1>4. DecodeChange(BytesOf(c)) = {read}
  BY <1>1, ReadIs
<1>5. read.bytes = BytesOf(c)
  BY DEF ChangeWith
<1> QED
  BY <1>1, <1>3, <1>4, <1>5

\* What is read from the bytes it is compressed to, which are a block.
LEMMA WrittenChangeStored ==
    ASSUME NEW old \in ChangeType, BytesFit(old), ChangeDeflates(old), NEW w, w = WrittenChange(old),
           NEW S, PackedBytes(DepsSorted(old)) \subseteq S
    PROVE  /\ DecodeChange(Compressed(w)) = IF ChangeStored(w) THEN {w} ELSE {}
           /\ \E m : IsBlock(Compressed(w), S, m)
<1> DEFINE c == DepsSorted(old)
<1>1. c \in ChangeType /\ BytesFit(c) /\ w = ChangeWith(c, TrueAt(c))
  BY WrittenChangeIs
<1>2. Deflates(Body(c))
  BY SortedDeflates
<1>3. BlockBytes(Body(c)) \subseteq S /\ PackedBytes(c) \subseteq S
  BY DEF PackedBytes
<1> HIDE DEF c
<1>4. DecodeChange(Compressed(w)) = IF ChangeStored(w) THEN {w} ELSE {}
  BY <1>1, <1>2, DeflatedRead
<1>5. Compressed(w) = IF Len(BytesOf(c)) <= DEFLATE_MIN_SIZE THEN BytesOf(c) ELSE Packed(c)
  BY <1>1, CompressedIs
<1>6. IsBlock(BytesOf(c), S, Len(Body(c))) /\ IsBlock(Packed(c), S, Len(Deflate(Body(c))))
  BY <1>1, <1>2, <1>3, WrittenAreBlocks, PackedAreBlocks
<1> QED
  BY <1>4, <1>5, <1>6

\* A sequence of two, and the first of them alone.
LEMMA FirstOfTwo ==
    ASSUME NEW v, NEW w, NEW s, s = [i \in 1..2 |-> IF i = 1 THEN v ELSE w]
    PROVE  s = <<v, w>> /\ SubSeq(s, 1, 1) = <<v>> /\ s[1] = v /\ s[2] = w
<1> DEFINE T == {v, w}
           t == <<v, w>>
<1>1. t \in Seq(T) /\ Len(t) = 2 /\ t[1] = v /\ t[2] = w /\ DOMAIN t = 1..2
  OBVIOUS
<1>2. s[1] = v /\ s[2] = w /\ DOMAIN s = 1..2
  OBVIOUS
<1>3. s = t
  <2>1. s = [i \in 1..2 |-> s[i]] /\ t = [i \in 1..2 |-> t[i]]
    BY <1>1
  <2>2. \A i \in 1..2 : i = 1 \/ i = 2
    OBVIOUS
  <2>3. \A i \in 1..2 : s[i] = t[i]
    BY <1>1, <1>2, <2>2
  <2> HIDE DEF t
  <2> QED
    BY <2>1, <2>3, Zenon
<1>4. SubSeq(t, 1, 1) = <<v>>
  <2> DEFINE o == <<v>>
  <2>1. o \in Seq(T) /\ Len(o) = 1 /\ o[1] = v
    OBVIOUS
  <2>2. \A i \in 1..1 : i = 1
    OBVIOUS
  <2> HIDE DEF o, t, T
  <2>3. \A i \in 1..1 : t[i] = o[i]
    BY <1>1, <2>1, <2>2
  <2>4. 1 \in Nat /\ 1 = Len(o) /\ 1 <= Len(t)
    BY <1>1, <2>1
  <2>5. SubSeq(t, 1, 1) = o
    BY <1>1, <2>1, <2>3, <2>4, BeginIs
  <2> QED
    BY <2>5 DEF o
<1> QED
  BY <1>2, <1>3, <1>4

\* Of two changes in a file that is cut, those are read that are complete; a file that is not
\* cut is refused if, and only if, there is no room to inflate the second, which is compressed.
THEOREM TwoChangesKept ==
    ASSUME NEW a \in ChangeType, BytesFit(a), NEW b \in ChangeType, BytesFit(b), ChangeDeflates(b),
           NEW written, written = [i \in 1..2 |-> IF i = 1 THEN WrittenChange(a) ELSE WrittenChange(b)],
           NEW file, file = written[1].bytes \o Compressed(written[2])
    PROVE  KeepsPrefix(written, file)
<1> DEFINE v == WrittenChange(a)
           w == WrittenChange(b)
           y == Compressed(w)
           x == v.bytes
<1> DEFINE c == DepsSorted(a)
           S == BlockBytes(Body(c)) \cup PackedBytes(DepsSorted(b))
           W == IF ChangeStored(w) THEN {w} ELSE {}
           k == Len(Body(c))
<1>1. c \in ChangeType /\ BytesFit(c) /\ DecodeChange(BytesOf(c)) = {v} /\ x = BytesOf(c)
  BY WrittenChangeIs
<1>2. DecodeChange(y) = W /\ \E m : IsBlock(y, S, m)
  <2>1. PackedBytes(DepsSorted(b)) \subseteq S
    OBVIOUS
  <2> HIDE DEF S
  <2> QED
    BY <2>1, WrittenChangeStored
<1>3. IsBlock(x, S, k)
  <2>1. BlockBytes(Body(c)) \subseteq S
    OBVIOUS
  <2> HIDE DEF S, c
  <2> QED
    BY <1>1, <2>1, WrittenAreBlocks
<1> HIDE DEF v, w, x, y, S, W, k, c
<1>5. PICK m : IsBlock(y, S, m)
  BY <1>2
<1>6. DecodeChange(x) = {v} /\ DecodeChange(y) = W
  BY <1>1, <1>2
<1>7. written = <<v, w>> /\ SubSeq(written, 1, 1) = <<v>> /\ written[1] = v /\ written[2] = w
  BY FirstOfTwo DEF v, w
<1>8. file = x \o y /\ written[1].bytes = x
  BY <1>7 DEF x, y
<1>9. Len(file) = Len(x) + Len(y) /\ Len(x) \in Nat /\ Len(y) \in Nat
  <2>1. x \in Seq(S) /\ y \in Seq(S)
    BY <1>3, <1>5 DEF IsBlock
  <2>2. Len(x \o y) = Len(x) + Len(y) /\ Len(x) \in Nat /\ Len(y) \in Nat
    BY <2>1
  <2> QED
    BY <1>8, <2>2
<1>10. ASSUME NEW n \in 0..Len(file), NEW loaded, loaded = LoadBlocks(SubSeq(file, 1, n))
       PROVE  /\ loaded \subseteq {Complete(written, file, n)}
              /\ n \in {Len(written[1].bytes), Len(written[1].bytes) + 3} => loaded # {}
              /\ n = Len(file) => (loaded # {} <=> ChangeStored(written[2]))
  <2> DEFINE f == SubSeq(x \o y, 1, n)
  <2>1. n \in 0..Len(x \o y) /\ loaded = LoadBlocks(f) /\ f = SubSeq(x \o y, 1, n)
    BY <1>8, <1>10
  <2> HIDE DEF f
  <2>2. /\ n < Len(x) => LoadBlocks(f) \subseteq {<<>>}
        /\ Len(x) <= n /\ n < Len(x) + Len(y) => LoadBlocks(f) \subseteq {<<v>>}
        /\ Len(x) <= n /\ n < Len(x) + 4 => LoadBlocks(f) = {<<v>>}
        /\ n = Len(x) + Len(y) => LoadBlocks(f) = {<<v, u>> : u \in W}
        /\ Len(x) >= 10 /\ Len(y) >= 10
    <3>1. CutLoads(x, y, v, W, n, f)
      BY <1>3, <1>5, <1>6, <2>1, CutFileLoads, Zenon
    <3> QED
      BY <3>1 DEF CutLoads
  <2> DEFINE p == Len(x)
             q == Len(y)
             l == Len(file)
  <2>3. n \in Nat /\ p \in Nat /\ q \in Nat /\ l = p + q /\ n <= l /\ p >= 10 /\ q >= 10
    BY <1>9, <2>2
  <2>4. /\ n < p => loaded \subseteq {<<>>}
        /\ p <= n /\ n < p + q => loaded \subseteq {<<v>>}
        /\ p <= n /\ n < p + 4 => loaded = {<<v>>}
        /\ n = p + q => loaded = {<<v, u>> : u \in W}
    BY <2>1, <2>2
  <2>5. /\ n = l => Complete(written, file, n) = <<v, w>>
        /\ n # l /\ p <= n /\ n < l => Complete(written, file, n) = <<v>>
        /\ n # l /\ n < p => Complete(written, file, n) = <<>>
    <3>1. ASSUME n = l PROVE Complete(written, file, n) = <<v, w>>
      BY <3>1, <1>7 DEF Complete
    <3>2. ASSUME n # l, p <= n, n < l PROVE Complete(written, file, n) = <<v>>
      BY <3>2, <1>7, <1>8, <2>3 DEF Complete
    <3>3. ASSUME n # l, n < p PROVE Complete(written, file, n) = <<>>
      BY <3>3, <1>7, <1>8, <2>3 DEF Complete
    <3> QED
      BY <3>1, <3>2, <3>3
  <2> DEFINE known == Complete(written, file, n)
  <2> HIDE DEF p, q, l, known
  <2>6. CASE n = l
    <3>1. loaded = {<<v, u>> : u \in W}
      <4>1. n = p + q
        BY <2>3, <2>6
      <4> QED
        BY <2>4, <4>1
    <3>2. known = <<v, w>> /\ n \notin {p, p + 3}
      BY <2>3, <2>5, <2>6 DEF known
    <3>3. W \subseteq {w} /\ (W # {} <=> ChangeStored(w))
      BY DEF W
    <3>4. loaded \subseteq {known} /\ (loaded # {} <=> ChangeStored(w))
      BY <3>1, <3>2, <3>3
    <3> QED
      BY <1>7, <1>8, <3>2, <3>4 DEF known, p
  <2>7. CASE p <= n /\ n < l
    <3>1. n # l /\ n < p + q
      BY <2>3, <2>7
    <3>2. loaded \subseteq {known}
      BY <2>4, <2>5, <2>7, <3>1 DEF known
    <3>3. ASSUME n \in {p, p + 3} PROVE loaded # {}
      <4>1. n < p + 4
        BY <2>3, <3>3
      <4> QED
        BY <2>4, <2>7, <4>1
    <3> QED
      BY <1>8, <3>1, <3>2, <3>3 DEF known, p, l
  <2>8. CASE n < p
    <3>1. n # l /\ n \notin {p, p + 3}
      BY <2>3, <2>8
    <3>2. loaded \subseteq {known}
      BY <2>4, <2>5, <2>8, <3>1 DEF known
    <3> QED
      BY <1>8, <3>1, <3>2 DEF known, p, l
  <2> QED
    BY <2>3, <2>6, <2>7, <2>8
<1> QED
  BY <1>10 DEF KeepsPrefix

\* A change with no operations and the first number is there too, and fits.
LEMMA FirstAndLaterFit ==
    ASSUME NEW old \in Changes
    PROVE  [old EXCEPT !.seq = 1, !.operations = <<>>] \in ChangeType /\ BytesFit([old EXCEPT !.seq = 1, !.operations = <<>>])
<1>1. PICK draft \in Drafts, ops \in FewOperations : old = [draft EXCEPT !.operations = ops]
  BY DEF Changes
<1>2. draft \in DraftType /\ 0 \in 0..MaxOperations
  BY ChangesAssumption
<1> DEFINE c == [draft EXCEPT !.operations = <<>>]
<1>3. c \in Changes
  <2>1. <<>> \in [1..0 -> Operations]
    OBVIOUS
  <2> QED
    BY <1>2, <2>1, MadeOfOperations, Zenon
<1>4. [old EXCEPT !.seq = 1, !.operations = <<>>] = [c EXCEPT !.seq = 1]
  BY <1>1, <1>2 DEF DraftType
<1> HIDE DEF c
<1>5. c \in ChangeType /\ BytesFit(c)
  BY <1>3, ChangesAreTyped
<1>6. [c EXCEPT !.seq = 1] \in ChangeType /\ BytesFit([c EXCEPT !.seq = 1])
  BY <1>5, FirstFits
<1> QED
  BY <1>4, <1>6

\* Whatever change a file ends with, and wherever the file is cut: what is loaded are the
\* changes that are complete, and no other; cut between its blocks it is not refused, and
\* complete it is if, and only if, there is no room to inflate the second.
THEOREM TornFilesKeepPrefix == Spec => []TornFileKeepsPrefix
<1>1. ASSUME NEW old \in Changes
      PROVE  KeepsPrefix(FirstAndLater(old), FirstAndLater(old)[1].bytes \o Compressed(FirstAndLater(old)[2]))
  <2> DEFINE a == [old EXCEPT !.seq = 1, !.operations = <<>>]
  <2>1. a \in ChangeType /\ BytesFit(a)
    BY FirstAndLaterFit
  <2>2. old \in ChangeType /\ BytesFit(old) /\ ChangeDeflates(old)
    BY ChangesAreTyped
  <2>3. FirstAndLater(old) = [i \in 1..2 |-> IF i = 1 THEN WrittenChange(a) ELSE WrittenChange(old)]
    <3>1. \A i \in 1..2 : WrittenChange(IF i = 1 THEN a ELSE old) = IF i = 1 THEN WrittenChange(a) ELSE WrittenChange(old)
      OBVIOUS
    <3>2. FirstAndLater(old) = [i \in 1..2 |-> WrittenChange(IF i = 1 THEN a ELSE old)]
      BY DEF FirstAndLater
    <3> HIDE DEF a
    <3> QED
      BY <3>1, <3>2
  <2> HIDE DEF a
  <2> QED
    BY <2>1, <2>2, <2>3, TwoChangesKept
<1>2. ChangesInv => TornFileKeepsPrefix
  BY <1>1 DEF ChangesInv, TornFileKeepsPrefix
<1> QED
  BY <1>2, ChangesAlways, PTL
====

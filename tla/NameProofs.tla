----------------------------- MODULE NameProofs -----------------------------
(***************************************************************************)
(* Theorems about normalize_path and about the loop that reads .spkdel,    *)
(* for texts, paths and lists of any length: what the recursive function   *)
(* of Normalize computes, and what every line of a file names.  First the  *)
(* lemmas about sequences that these and the index codec rest on.          *)
(***************************************************************************)
EXTENDS DeletionList, SequenceTheorems, FiniteSetTheorems, TLAPS

\* Induction over the numbers, for a set of them.
LEMMA SetInduction ==
  ASSUME NEW S, 0 \in S, \A n \in Nat : n \in S => n + 1 \in S
  PROVE  Nat \subseteq S
<1> DEFINE T == Nat \ S
           R == OpToRel(<, Nat)
<1>1. SUFFICES ASSUME T # {} PROVE FALSE
  OBVIOUS
<1>2. PICK x \in T : \A y \in T : ~ (<<y, x>> \in R)
  <2>1. T \subseteq Nat
    OBVIOUS
  <2>2. IsWellFoundedOn(R, Nat)
    BY NatLessThanWellFounded
  <2> HIDE DEF T, R
  <2> QED
    BY <1>1, <2>1, <2>2, WFMin
<1>3. x \in Nat /\ x # 0 /\ x - 1 \in T
  OBVIOUS
<1>4. <<x - 1, x>> \in R
  BY <1>3 DEF OpToRel
<1> QED
  BY <1>2, <1>3, <1>4

\* Kept folded where only what it is called with matters.
Cat(s, t) == s \o t

\* The sequence ss put together: w[k] is what its first k parts make.
Grows(ss, C, n, w) ==
  /\ w \in [0..n -> Seq(C)]
  /\ w[0] = <<>>
  /\ \A k \in 1..n : w[k] = Cat(w[k - 1], ss[k])

\* u is s and then t.
Joins(u, s, t) ==
  /\ Len(u) = Len(s) + Len(t)
  /\ \A i \in 1..Len(s) : u[i] = s[i]
  /\ \A i \in 1..Len(t) : u[Len(s) + i] = t[i]

LEMMA CatSeq ==
  ASSUME NEW C, NEW s \in Seq(C), NEW t \in Seq(C)
  PROVE  Cat(s, t) \in Seq(C) /\ Joins(Cat(s, t), s, t)
BY ConcatProperties DEF Cat, Joins

LEMMA CatEmpty ==
  ASSUME NEW C, NEW s \in Seq(C)
  PROVE  Cat(<<>>, s) = s
BY ConcatEmptySeq DEF Cat

\* A function over 1..n is a sequence, and so is a value alone.
LEMMA FunctionSeq ==
  ASSUME NEW C, NEW n \in Nat, NEW f \in [1..n -> C]
  PROVE  f \in Seq(C) /\ Len(f) = n
OBVIOUS

LEMMA OneSeq ==
  ASSUME NEW C, NEW x \in C
  PROVE  <<x>> \in Seq(C) /\ Len(<<x>>) = 1 /\ <<x>>[1] = x
OBVIOUS

LEMMA GrowsExists ==
  ASSUME NEW C, NEW ss, NEW n \in Nat, \A k \in 1..n : ss[k] \in Seq(C)
  PROVE  \E w : Grows(ss, C, n, w)
<1> DEFINE S == {m \in Nat : m <= n => \E w : Grows(ss, C, m, w)}
<1>1. 0 \in S
  <2>1. Grows(ss, C, 0, [m \in 0..0 |-> <<>>])
    BY DEF Grows
  <2> QED
    BY <2>1
<1>2. ASSUME NEW m \in Nat, m \in S PROVE m + 1 \in S
  <2> SUFFICES ASSUME m + 1 <= n PROVE \E w : Grows(ss, C, m + 1, w)
    OBVIOUS
  <2>1. PICK w : Grows(ss, C, m, w)
    BY <1>2
  <2> DEFINE v == [k \in 0..(m + 1) |-> IF k = m + 1 THEN Cat(w[m], ss[k]) ELSE w[k]]
  <2>2. w[m] \in Seq(C) /\ ss[m + 1] \in Seq(C)
    BY <2>1 DEF Grows
  <2>3. Cat(w[m], ss[m + 1]) \in Seq(C)
    BY <2>2, CatSeq
  <2>4. Grows(ss, C, m + 1, v)
    BY <2>1, <2>3 DEF Grows
  <2> QED
    BY <2>4
<1> HIDE DEF S
<1>3. Nat \subseteq S
  BY <1>1, <1>2, SetInduction
<1> QED
  BY <1>3 DEF S

LEMMA FlattenGrows ==
  ASSUME NEW C, NEW ss, NEW n \in Nat, ss \in [1..n -> Seq(C)], NEW w, Grows(ss, C, n, w)
  PROVE  FlattenSeq(ss) = w[n]
<1>0. Len(ss) = n
  OBVIOUS
<1>1. CASE n = 0
  BY <1>0, <1>1 DEF FlattenSeq, Grows
<1>2. CASE n > 0
  <2> DEFINE Eq(g) == g = [i \in 1..n |-> IF i = 1 THEN ss[i] ELSE Cat(g[i - 1], ss[i])]
             f == CHOOSE g : Eq(g)
             v == [i \in 1..n |-> w[i]]
  <2>1. FlattenSeq(ss) = f[n]
    BY <1>0, <1>2 DEF FlattenSeq, Cat
  <2>2. w[1] = ss[1]
    BY <1>2, CatEmpty DEF Grows
  <2>3. Eq(v)
    <3>1. \A i \in 1..n : v[i] = IF i = 1 THEN ss[i] ELSE Cat(v[i - 1], ss[i])
      <4>1. \A i \in 2..n : i \in 1..n /\ i - 1 \in 1..n /\ w[i] = Cat(w[i - 1], ss[i])
        BY DEF Grows
      <4> QED
        BY <2>2, <4>1
    <3> QED
      BY <3>1
  <2>4. Eq(f)
    <3> HIDE DEF Eq, v
    <3> QED
      BY <2>3
  <2> HIDE DEF f
  <2> DEFINE S == {m \in Nat : m + 1 <= n => f[m + 1] = w[m + 1]}
  <2>5. 0 \in S
    BY <2>2, <2>4, <1>2
  <2>6. ASSUME NEW m \in Nat, m \in S PROVE m + 1 \in S
    <3>1. SUFFICES ASSUME m + 2 <= n PROVE f[m + 2] = w[m + 2]
      OBVIOUS
    <3>2. f[m + 2] = Cat(f[m + 1], ss[m + 2])
      BY <2>4, <3>1
    <3>3. w[m + 2] = Cat(w[m + 1], ss[m + 2])
      BY <3>1 DEF Grows
    <3> QED
      BY <2>6, <3>1, <3>2, <3>3
  <2> HIDE DEF S
  <2>7. Nat \subseteq S
    BY <2>5, <2>6, SetInduction
  <2>8. n - 1 \in S
    BY <2>7, <1>2
  <2> QED
    BY <2>1, <2>8, <1>2 DEF S
<1> QED
  BY <1>1, <1>2

\* Where the parts of ss are in FlattenSeq(ss): the one with number k begins after at[k - 1].
Pieces(ss, C, n, at) ==
  /\ at \in [0..n -> Nat] /\ at[0] = 0 /\ at[n] = Len(FlattenSeq(ss))
  /\ \A k \in 1..n : at[k] = at[k - 1] + Len(ss[k])
  /\ \A k \in 0..n : at[k] <= at[n]
  /\ \A k \in 1..n : \A i \in 1..Len(ss[k]) : FlattenSeq(ss)[at[k - 1] + i] = ss[k][i]

LEMMA OnlyZero == \A k \in 0..0 : k = 0
OBVIOUS

LEMMA FlattenPieces ==
  ASSUME NEW C, NEW ss, NEW n \in Nat, ss \in [1..n -> Seq(C)]
  PROVE  FlattenSeq(ss) \in Seq(C) /\ \E at : Pieces(ss, C, n, at)
<1>1. PICK w : Grows(ss, C, n, w)
  BY GrowsExists
<1>2. FlattenSeq(ss) = w[n]
  BY <1>1, FlattenGrows
<1>3. \A k \in 0..n : w[k] \in Seq(C) /\ Len(w[k]) \in Nat
  BY <1>1, LenProperties DEF Grows
<1>4. \A k \in 1..n : ss[k] \in Seq(C) /\ Len(ss[k]) \in Nat
  BY LenProperties
<1> DEFINE Sum(k) == Len(w[k]) = Len(w[k - 1]) + Len(ss[k])
           Prefix(k, m) == Len(w[k]) <= Len(w[m]) /\ \A i \in 1..Len(w[k]) : w[m][i] = w[k][i]
           Piece(k, m) == \A i \in 1..Len(ss[k]) : w[m][Len(w[k - 1]) + i] = ss[k][i]
<1>5. ASSUME NEW k \in 1..n PROVE Sum(k) /\ Prefix(k - 1, k) /\ Piece(k, k)
  <2>1. w[k] = Cat(w[k - 1], ss[k]) /\ k - 1 \in 0..n
    BY <1>1 DEF Grows
  <2>2. w[k - 1] \in Seq(C) /\ ss[k] \in Seq(C)
    BY <2>1, <1>3, <1>4
  <2>3. Len(w[k - 1]) \in Nat /\ Len(ss[k]) \in Nat
    BY <2>1, <1>3, <1>4
  <2>4. /\ Len(w[k]) = Len(w[k - 1]) + Len(ss[k])
        /\ \A i \in 1..Len(w[k - 1]) : w[k][i] = w[k - 1][i]
        /\ \A i \in 1..Len(ss[k]) : w[k][Len(w[k - 1]) + i] = ss[k][i]
    <3>1. Joins(w[k], w[k - 1], ss[k])
      BY <2>1, <2>2, CatSeq
    <3> QED
      BY <3>1 DEF Joins
  <2> QED
    BY <2>3, <2>4
<1> DEFINE S == {m \in Nat : m <= n => \A k \in 0..m : Prefix(k, m)}
<1>6. 0 \in S
  <2>1. Len(w[0]) \in Nat
    BY <1>3
  <2>2. Prefix(0, 0)
    BY <2>1
  <2> HIDE DEF Prefix
  <2> QED
    BY <2>2, OnlyZero
<1>7. ASSUME NEW m \in Nat, m \in S PROVE m + 1 \in S
  <2>1. ASSUME m + 1 <= n, NEW k \in 0..(m + 1) PROVE Prefix(k, m + 1)
    <3>1. CASE k = m + 1
      BY <2>1, <3>1, <1>3
    <3>2. CASE k \in 0..m
      <4>1. Prefix(k, m)
        <5> HIDE DEF Prefix
        <5> QED
          BY <1>7, <2>1, <3>2
      <4>2. Prefix(m, m + 1)
        BY <1>5, <2>1
      <4>3. Len(w[k]) \in Nat /\ Len(w[m]) \in Nat /\ Len(w[m + 1]) \in Nat
        BY <1>3, <2>1
      <4> QED
        BY <4>1, <4>2, <4>3
    <3> QED
      BY <2>1, <3>1, <3>2
  <2> HIDE DEF Prefix
  <2> QED
    BY <2>1
<1> HIDE DEF S
<1>8. Nat \subseteq S
  BY <1>6, <1>7, SetInduction
<1>9. \A k \in 0..n : Prefix(k, n)
  BY <1>8 DEF S
<1>10. ASSUME NEW k \in 1..n PROVE Piece(k, n)
  <2>1. Prefix(k, n) /\ Piece(k, k) /\ Sum(k)
    BY <1>5, <1>9
  <2>2. Len(w[k - 1]) \in Nat /\ Len(ss[k]) \in Nat /\ k - 1 \in 0..n
    BY <1>3, <1>4
  <2>3. SUFFICES ASSUME NEW i \in 1..Len(ss[k]) PROVE w[n][Len(w[k - 1]) + i] = ss[k][i]
    OBVIOUS
  <2>4. Len(w[k - 1]) + i \in 1..Len(w[k])
    BY <2>1, <2>2
  <2>5. w[n][Len(w[k - 1]) + i] = w[k][Len(w[k - 1]) + i]
    BY <2>1, <2>4
  <2> QED
    BY <2>1, <2>5
<1> DEFINE at == [k \in 0..n |-> Len(w[k])]
<1>11. Pieces(ss, C, n, at)
  <2>1. at \in [0..n -> Nat] /\ at[0] = 0 /\ at[n] = Len(FlattenSeq(ss))
    BY <1>1, <1>2, <1>3 DEF Grows
  <2>2. \A k \in 1..n : at[k] = at[k - 1] + Len(ss[k])
    BY <1>5
  <2>3. \A k \in 0..n : at[k] <= at[n]
    BY <1>9
  <2>4. \A k \in 1..n : \A i \in 1..Len(ss[k]) : FlattenSeq(ss)[at[k - 1] + i] = ss[k][i]
    BY <1>10, <1>2
  <2> HIDE DEF at
  <2> QED
    BY <2>1, <2>2, <2>3, <2>4 DEF Pieces
<1> QED
  BY <1>2, <1>3, <1>11

PieceIs(ss, at, k) ==
  /\ at[k - 1] \in Nat /\ at[k] \in Nat /\ at[k] = at[k - 1] + Len(ss[k])
  /\ \A i \in 1..Len(ss[k]) : FlattenSeq(ss)[at[k - 1] + i] = ss[k][i]

LEMMA PieceAt ==
  ASSUME NEW C, NEW ss, NEW n \in Nat, NEW at, Pieces(ss, C, n, at)
  PROVE  \A k \in 1..n : PieceIs(ss, at, k)
<1>1. SUFFICES ASSUME NEW k \in 1..n PROVE PieceIs(ss, at, k)
  OBVIOUS
<1>2. k - 1 \in 0..n /\ k \in 0..n
  OBVIOUS
<1> QED
  BY <1>2 DEF Pieces, PieceIs

\* Parts of five cells each.
LEMMA PiecesOfFive ==
  ASSUME NEW C, NEW ss, NEW n \in Nat, NEW at, Pieces(ss, C, n, at),
         \A k \in 1..n : Len(ss[k]) = 5
  PROVE  \A k \in 0..n : at[k] = 5 * k
<1> DEFINE S == {k \in Nat : k <= n => at[k] = 5 * k}
<1>1. 0 \in S
  BY DEF Pieces
<1>2. ASSUME NEW k \in Nat, k \in S PROVE k + 1 \in S
  <2> SUFFICES ASSUME k + 1 <= n PROVE at[k + 1] = 5 * (k + 1)
    OBVIOUS
  <2>1. at[k] = 5 * k /\ k + 1 \in 1..n /\ (k + 1) - 1 = k
    BY <1>2
  <2>2. PieceIs(ss, at, k + 1)
    BY <2>1, PieceAt
  <2>3. at[k + 1] = at[k] + 5
    BY <2>1, <2>2 DEF PieceIs
  <2> QED
    BY <2>1, <2>3
<1> HIDE DEF S
<1>3. Nat \subseteq S
  BY <1>1, <1>2, SetInduction
<1> QED
  BY <1>3 DEF S

\* SetToSeq lists each member of a finite set once.
LEMMA SetToSeqLists ==
  ASSUME NEW S, IsFiniteSet(S)
  PROVE  \E n \in Nat :
           /\ SetToSeq(S) \in [1..n -> S]
           /\ \A j, k \in 1..n : SetToSeq(S)[j] = SetToSeq(S)[k] => j = k
           /\ \A x \in S : \E k \in 1..n : SetToSeq(S)[k] = x
<1> DEFINE n == Cardinality(S)
           f == SetToSeq(S)
<1>1. n \in Nat /\ \E g \in Bijection(1..n, S) : TRUE
  BY FS_CardinalityType DEF ExistsBijection
<1>2. \E g \in [1..n -> S] : IsInjective(g)
  BY <1>1 DEF Bijection, Injection
<1>3. f \in [1..n -> S] /\ IsInjective(f)
  BY <1>2 DEF SetToSeq
<1>4. f \in Injection(1..n, S)
  BY <1>3 DEF Injection
<1>5. Cardinality(1..n) = n
  BY <1>1, FS_Interval
<1>6. f \in Surjection(1..n, S)
  <2> HIDE DEF f
  <2> QED
    BY <1>4, <1>5, FS_Injection
<1> HIDE DEF f
<1>7. \A x \in S : \E k \in 1..n : f[k] = x
  BY <1>6 DEF Surjection
<1>8. \A j, k \in 1..n : f[j] = f[k] => j = k
  BY <1>3 DEF IsInjective
<1> QED
  BY <1>1, <1>3, <1>7, <1>8 DEF f

-----------------------------------------------------------------------------
(* PathName: the loop of normalize_path computes the normal form.          *)

\* A set of numbers has a least one, and a greatest one if it has a bound.
LEMMA MinIs ==
  ASSUME NEW S, S \subseteq Nat, S # {}
  PROVE  Min(S) \in S /\ \A y \in S : Min(S) <= y
<1>1. \E x \in S : \A y \in S : x <= y
  <2> SUFFICES ASSUME \A x \in S : \E y \in S : y < x PROVE FALSE
    OBVIOUS
  <2> DEFINE T == {n \in Nat : \A x \in S : n <= x}
  <2>1. 0 \in T
    OBVIOUS
  <2>2. ASSUME NEW n \in Nat, n \in T PROVE n + 1 \in T
    <3>1. n \notin S
      BY <2>2
    <3> QED
      BY <2>2, <3>1
  <2> HIDE DEF T
  <2>3. Nat \subseteq T
    BY <2>1, <2>2, SetInduction
  <2>4. PICK x \in S : TRUE
    OBVIOUS
  <2>5. x \in Nat /\ x + 1 \in T
    BY <2>3
  <2> QED
    BY <2>5 DEF T
<1> QED
  BY <1>1 DEF Min

LEMMA MaxIs ==
  ASSUME NEW S, S \subseteq Nat, S # {}, NEW n \in Nat, \A x \in S : x <= n
  PROVE  Max(S) \in S /\ \A y \in S : y <= Max(S)
<1> DEFINE T == {n - x : x \in S}
<1>1. T \subseteq Nat /\ T # {}
  <2>1. \A x \in S : x \in Nat /\ n - x \in Nat
    OBVIOUS
  <2>2. PICK x \in S : TRUE
    OBVIOUS
  <2>3. n - x \in T
    OBVIOUS
  <2> QED
    BY <2>1, <2>3
<1>2. Min(T) \in T /\ \A y \in T : Min(T) <= y
  <2> HIDE DEF T
  <2> QED
    BY <1>1, MinIs
<1>3. PICK x \in S : Min(T) = n - x
  BY <1>2
<1>4. ASSUME NEW y \in S PROVE y <= x
  <2>1. n - x <= n - y
    BY <1>2, <1>3
  <2> QED
    BY <2>1
<1> QED
  BY <1>4 DEF Max

\* The first c in s from i on is at j, which is after the end if there is none.
IsNext(s, i, c, j) ==
  /\ j \in i..(Len(s) + 1)
  /\ \A k \in i..(j - 1) : s[k] # c
  /\ j = Len(s) + 1 \/ s[j] = c

LEMMA FirstIs ==
  ASSUME NEW C, NEW s \in Seq(C), NEW i \in 1..(Len(s) + 1), NEW c, NEW j,
         j = LET n == SelectInSubSeq(s, i, Len(s), LAMBDA x : x = c)
             IN IF n = 0 THEN Len(s) + 1 ELSE n
  PROVE  IsNext(s, i, c, j)
<1> DEFINE I == {k \in i..Len(s) : s[k] = c}
<1>1. Len(s) \in Nat /\ I \subseteq Nat
  BY LenProperties
<1>2. SelectInSubSeq(s, i, Len(s), LAMBDA x : x = c) = IF I # {} THEN Min(I) ELSE 0
  BY DEF SelectInSubSeq
<1>3. CASE I = {}
  <2>1. j = Len(s) + 1
    BY <1>2, <1>3
  <2>2. j \in i..(Len(s) + 1)
    BY <1>1, <2>1
  <2>3. ASSUME NEW k \in i..(j - 1) PROVE s[k] # c
    <3>1. k \in i..Len(s)
      BY <1>1, <2>1
    <3> QED
      BY <1>3, <3>1
  <2> QED
    BY <2>1, <2>2, <2>3 DEF IsNext
<1>4. CASE I # {}
  <2>1. Min(I) \in I /\ \A y \in I : Min(I) <= y
    <3> HIDE DEF I
    <3> QED
      BY <1>1, <1>4, MinIs
  <2>2. Min(I) # 0
    BY <2>1
  <2>3. j = Min(I)
    BY <1>2, <1>4, <2>2
  <2>4. j \in i..Len(s) /\ s[j] = c /\ \A y \in i..Len(s) : s[y] = c => j <= y
    BY <2>1, <2>3
  <2>5. j \in i..(Len(s) + 1)
    BY <1>1, <2>4
  <2>6. ASSUME NEW k \in i..(j - 1) PROVE s[k] # c
    <3>1. k \in i..Len(s) /\ ~ j <= k
      BY <1>1, <2>4
    <3> QED
      BY <2>4, <3>1
  <2> QED
    BY <2>4, <2>5, <2>6 DEF IsNext
<1> QED
  BY <1>3, <1>4

LEMMA NextSlashIs ==
  ASSUME NEW C, NEW s \in Seq(C), NEW i \in 1..(Len(s) + 1)
  PROVE  IsNext(s, i, Slash, NextSlash(s, i))
BY FirstIs DEF NextSlash

\* A segment of s from a to b.
IsSegment(s, a, b) ==
  /\ a \in 1..Len(s) /\ b \in a..Len(s)
  /\ \A k \in a..b : s[k] # Slash
  /\ a = 1 \/ s[a - 1] = Slash
  /\ b = Len(s) \/ s[b + 1] = Slash

LEMMA SegmentEnds ==
  ASSUME NEW C, NEW s \in Seq(C), NEW a, NEW b, IsSegment(s, a, b)
  PROVE  a \in Begins(s) /\ End(s, a) = b /\ At(s, a) = SubSeq(s, a, b)
<1>1. Len(s) \in Nat
  BY LenProperties
<1>2. a \in Begins(s)
  BY <1>1 DEF IsSegment, Begins
<1>3. ASSUME NEW e \in a..Len(s), \A k \in a..e : s[k] # Slash, e = Len(s) \/ s[e + 1] = Slash
      PROVE  e = b
  <2>1. a \in Nat /\ b \in a..Len(s) /\ (\A k \in a..b : s[k] # Slash) /\ (b = Len(s) \/ s[b + 1] = Slash)
    BY DEF IsSegment
  <2>2. ~ e < b
    BY <1>1, <1>3, <2>1
  <2>3. ~ b < e
    BY <1>1, <1>3, <2>1
  <2> QED
    BY <1>1, <2>1, <2>2, <2>3
<1>4. End(s, a) = b
  BY <1>3 DEF IsSegment, End
<1> QED
  BY <1>2, <1>4 DEF At

\* Each segment begins and ends somewhere.
LEMMA BeginsEnd ==
  ASSUME NEW C, NEW s \in Seq(C), NEW a \in Begins(s)
  PROVE  IsSegment(s, a, End(s, a)) /\ End(s, a) = NextSlash(s, a) - 1
<1> DEFINE j == NextSlash(s, a)
<1>1. Len(s) \in Nat /\ a \in 1..Len(s) /\ s[a] # Slash /\ (a = 1 \/ s[a - 1] = Slash)
  BY LenProperties DEF Begins
<1>2. IsNext(s, a, Slash, j)
  BY <1>1, NextSlashIs
<1> HIDE DEF j
<1>3. IsSegment(s, a, j - 1)
  BY <1>1, <1>2 DEF IsNext, IsSegment
<1>4. End(s, a) = j - 1
  BY <1>3, SegmentEnds
<1> QED
  BY <1>3, <1>4 DEF j

-----------------------------------------------------------------------------
\* out is s at the places S, in their order, the k-th of them at e[k].
Picks(s, S, out, e) ==
  /\ e \in [1..Len(out) -> S]
  /\ \A x \in S : \E k \in 1..Len(out) : e[k] = x
  /\ \A k, l \in 1..Len(out) : k < l => e[k] < e[l]
  /\ \A k \in 1..Len(out) : out[k] = s[e[k]]

\* There is one way to pick the places of a set in their order.
LEMMA PicksNth ==
  ASSUME NEW C, NEW s, NEW S, S \subseteq Nat, NEW out \in Seq(C), NEW e, Picks(s, S, out, e)
  PROVE  out = [n \in 1..Cardinality(S) |-> s[Nth(S, n)]]
<1> DEFINE m == Len(out)
           Upto(x) == {y \in S : y <= x}
<1>1. m \in Nat /\ out = [n \in 1..m |-> out[n]]
  BY LenProperties
<1>2. /\ e \in [1..m -> S]
      /\ \A x \in S : \E k \in 1..m : e[k] = x
      /\ \A k, l \in 1..m : k < l => e[k] < e[l]
      /\ \A k \in 1..m : out[k] = s[e[k]]
  BY DEF Picks
<1> HIDE DEF m
<1>3. \A k, l \in 1..m : e[k] = e[l] => k = l
  <2>1. \A k \in 1..m : e[k] \in Nat
    BY <1>2
  <2> QED
    BY <1>1, <1>2, <2>1
<1>4. ASSUME NEW n \in 0..m, NEW T, T = {e[k] : k \in 1..n} PROVE Cardinality(T) = n
  <2> DEFINE f == [k \in 1..n |-> e[k]]
  <2>1. f \in Bijection(1..n, T)
    <3>1. 1..n \subseteq 1..m
      BY <1>1
    <3>2. f \in [1..n -> T] /\ (\A x \in T : \E k \in 1..n : f[k] = x)
      BY <1>4
    <3>3. \A k, l \in 1..n : f[k] = f[l] => k = l
      BY <1>3, <3>1
    <3> HIDE DEF f
    <3> QED
      BY <3>2, <3>3 DEF Bijection, Injection, Surjection, IsInjective
  <2>2. IsFiniteSet(1..n) /\ Cardinality(1..n) = n
    <3>1. 1 \in Int /\ n \in Int
      BY <1>1
    <3>2. IsFiniteSet(1..n) /\ Cardinality(1..n) = IF 1 > n THEN 0 ELSE n - 1 + 1
      BY <3>1, FS_Interval
    <3> QED
      BY <1>1, <3>2
  <2>3. ExistsBijection(1..n, T)
    BY <2>1 DEF ExistsBijection
  <2> QED
    BY <2>2, <2>3, FS_Bijection
<1>5. Cardinality(S) = m
  <2>1. S = {e[k] : k \in 1..m}
    BY <1>2
  <2> QED
    BY <1>1, <1>4, <2>1
<1>6. ASSUME NEW n \in 1..m PROVE Cardinality(Upto(e[n])) = n
  <2>1. \A k \in 1..m : e[k] \in Nat
    BY <1>2
  <2>2. \A k \in 1..m : e[k] <= e[n] <=> k \in 1..n
    <3> TAKE k \in 1..m
    <3>1. k < n => e[k] < e[n]
      BY <1>2
    <3>2. n < k => e[n] < e[k]
      BY <1>2
    <3> QED
      BY <2>1, <3>1, <3>2, <1>1
  <2>3. Upto(e[n]) = {e[k] : k \in 1..n}
    <3>1. 1..n \subseteq 1..m
      BY <1>1
    <3> QED
      BY <1>2, <2>2, <3>1
  <2>4. n \in 0..m
    BY <1>1
  <2> HIDE DEF Upto
  <2> QED
    BY <1>4, <2>3, <2>4
<1>7. ASSUME NEW n \in 1..m PROVE Nth(S, n) = e[n]
  <2>1. e[n] \in S /\ Cardinality(Upto(e[n])) = n
    BY <1>2, <1>6
  <2>2. ASSUME NEW x \in S, Cardinality(Upto(x)) = n PROVE x = e[n]
    <3>1. PICK k \in 1..m : e[k] = x
      BY <1>2
    <3>2. k = n
      BY <1>6, <2>2, <3>1
    <3> QED
      BY <3>1, <3>2
  <2> QED
    BY <2>1, <2>2 DEF Nth
<1> QED
  BY <1>1, <1>2, <1>5, <1>7

\* A name in normal form: no slash at an edge or beside another, no segment "." or "..".
Clean(c) ==
  /\ \A k \in 1..Len(c) : c[k] = Slash =>
       k > 1 /\ k < Len(c) /\ c[k - 1] # Slash /\ c[k + 1] # Slash
  /\ \A a \in 1..Len(c) : \A b \in a..Len(c) : IsSegment(c, a, b) =>
       /\ ~ (b = a /\ c[a] = Dot)
       /\ ~ (b = a + 1 /\ c[a] = Dot /\ c[b] = Dot)

Before(s, i) == {a \in Kept(s) : a < i}
PlacesBefore(s, i) == UNION {Start(Kept(s), a)..End(s, a) : a \in Before(s, i)}

\* What the loop of normalize_path has made of s before position i.
LoopInv(s, i, out) ==
  /\ i \in 1..(Len(s) + 2)
  /\ out \in Seq(ToSet(s) \union {Slash})
  /\ i = 1 \/ i = Len(s) + 2 \/ s[i - 1] = Slash
  /\ \A a \in Begins(s) : a < i => At(s, a) # <<Dot, Dot>>
  /\ \E e : Picks(s, PlacesBefore(s, i), out, e)
  /\ \A x \in PlacesBefore(s, i) : x < i - 1
  /\ out = <<>> <=> Before(s, i) = {}
  /\ Clean(out)

\* The segment between i and the next slash is the only one that begins there.
LEMMA OneSegment ==
  ASSUME NEW C, NEW s \in Seq(C), NEW i \in 1..Len(s), i = 1 \/ s[i - 1] = Slash,
         NEW j, j = NextSlash(s, i)
  PROVE  /\ j \in i..(Len(s) + 1)
         /\ j = i => i \notin Begins(s)
         /\ j > i => IsSegment(s, i, j - 1)
         /\ \A a \in Begins(s) : a < j + 1 <=> a < i \/ (a = i /\ j > i)
<1>1. Len(s) \in Nat /\ IsNext(s, i, Slash, j)
  BY LenProperties, NextSlashIs
<1>2. j \in i..(Len(s) + 1) /\ (\A k \in i..(j - 1) : s[k] # Slash) /\ (j = Len(s) + 1 \/ s[j] = Slash)
  BY <1>1 DEF IsNext
<1>3. j = i => i \notin Begins(s)
  BY <1>1, <1>2 DEF Begins
<1>4. j > i => IsSegment(s, i, j - 1)
  BY <1>1, <1>2 DEF IsSegment
<1>5. ASSUME NEW a \in Begins(s) PROVE a < j + 1 <=> a < i \/ (a = i /\ j > i)
  <2>1. a \in 1..Len(s) /\ s[a] # Slash /\ (a = 1 \/ s[a - 1] = Slash)
    BY DEF Begins
  <2>2. a # j
    BY <1>1, <1>2, <2>1
  <2>3. ~ (i < a /\ a < j)
    BY <1>1, <1>2, <2>1
  <2> QED
    BY <1>1, <1>2, <2>1, <2>2, <2>3
<1> QED
  BY <1>2, <1>3, <1>4, <1>5

\* Picking on: what is kept up to b, and the characters from a to b after it.
LEMMA PicksOn ==
  ASSUME NEW C, NEW s, NEW S, NEW T, NEW out \in Seq(C), NEW e, Picks(s, S, out, e),
         NEW a \in Nat, NEW b \in Nat, a <= b + 1,
         S \subseteq Nat, \A x \in S : x < a, T = S \cup (a..b),
         NEW u \in Seq(C), NEW t, t = [k \in 1..(b - a + 1) |-> s[a + k - 1]], Joins(u, out, t)
  PROVE  \E f : Picks(s, T, u, f)
<1> DEFINE m == Len(out)
           n == b - a + 1
           f == [k \in 1..(m + n) |-> IF k <= m THEN e[k] ELSE a + (k - m) - 1]
<1>1. m \in Nat /\ n \in Nat
  BY LenProperties
<1>2. Len(t) = n
  BY <1>1
<1>3. /\ Len(u) = m + n
      /\ \A k \in 1..m : u[k] = out[k]
      /\ \A k \in 1..n : u[m + k] = s[a + k - 1]
  BY <1>1, <1>2 DEF Joins
<1>4. /\ e \in [1..m -> S]
      /\ \A x \in S : \E k \in 1..m : e[k] = x
      /\ \A k, l \in 1..m : k < l => e[k] < e[l]
      /\ \A k \in 1..m : out[k] = s[e[k]]
  BY DEF Picks
<1> HIDE DEF m, n
<1>5. ASSUME NEW k \in 1..(m + n)
      PROVE  \/ k \in 1..m /\ f[k] = e[k] /\ f[k] \in S
             \/ k - m \in 1..n /\ f[k] = a + (k - m) - 1 /\ f[k] \in a..b
  BY <1>1, <1>4 DEF n
<1>6. f \in [1..(m + n) -> T]
  <2>1. \A k \in 1..(m + n) : f[k] \in T
    BY <1>5
  <2> QED
    BY <2>1
<1>7. ASSUME NEW x \in T PROVE \E k \in 1..(m + n) : f[k] = x
  <2>1. CASE x \in S
    <3>1. PICK k \in 1..m : e[k] = x
      BY <1>4, <2>1
    <3>2. k \in 1..(m + n) /\ f[k] = x
      BY <1>1, <3>1
    <3> QED
      BY <3>2
  <2>2. CASE x \in a..b
    <3> DEFINE k == m + (x - a) + 1
    <3>1. k \in 1..(m + n) /\ ~ k <= m /\ a + (k - m) - 1 = x
      BY <1>1, <2>2 DEF n
    <3>2. f[k] = x
      BY <3>1
    <3> QED
      BY <3>1, <3>2
  <2> QED
    BY <2>1, <2>2
<1>8. ASSUME NEW k \in 1..(m + n), NEW l \in 1..(m + n), k < l PROVE f[k] < f[l]
  <2> HIDE DEF f
  <2>1. CASE l \in 1..m
    <3>1. k \in 1..m /\ f[k] = e[k] /\ f[l] = e[l]
      BY <1>1, <1>5, <1>8, <2>1 DEF f
    <3> QED
      BY <1>4, <1>8, <2>1, <3>1
  <2>2. CASE l - m \in 1..n /\ f[l] = a + (l - m) - 1 /\ f[l] \in a..b
    <3>1. CASE f[k] \in S
      <4>1. f[k] < a /\ f[k] \in Nat
        BY <3>1
      <4> QED
        BY <2>2, <4>1
    <3>2. CASE k - m \in 1..n /\ f[k] = a + (k - m) - 1
      BY <1>1, <1>8, <2>2, <3>2
    <3> QED
      BY <1>5, <3>1, <3>2
  <2> QED
    BY <1>5, <2>1, <2>2
<1>9. ASSUME NEW k \in 1..(m + n) PROVE u[k] = s[f[k]]
  <2> HIDE DEF f
  <2>1. CASE k \in 1..m /\ f[k] = e[k]
    BY <1>3, <1>4, <2>1
  <2>2. CASE k - m \in 1..n /\ f[k] = a + (k - m) - 1
    <3>1. k = m + (k - m)
      BY <1>1
    <3>2. u[m + (k - m)] = s[a + (k - m) - 1]
      BY <1>3, <2>2
    <3> QED
      BY <2>2, <3>1, <3>2
  <2> QED
    BY <1>5, <2>1, <2>2
<1> HIDE DEF f
<1>10. Picks(s, T, u, f)
  BY <1>3, <1>6, <1>7, <1>8, <1>9 DEF Picks
<1> QED
  BY <1>10

\* A sequence, one value and another sequence.
Around(u, s, x, t) ==
  /\ Len(u) = Len(s) + 1 + Len(t)
  /\ \A k \in 1..Len(s) : u[k] = s[k]
  /\ u[Len(s) + 1] = x
  /\ \A k \in 1..Len(t) : u[Len(s) + 1 + k] = t[k]

LEMMA AroundIs ==
  ASSUME NEW C, NEW s \in Seq(C), NEW x \in C, NEW t \in Seq(C), NEW u, u = Cat(Cat(s, <<x>>), t)
  PROVE  u \in Seq(C) /\ Around(u, s, x, t)
<1> DEFINE l == <<x>>
           v == Cat(s, l)
<1>1. l \in Seq(C) /\ Len(l) = 1 /\ l[1] = x
  BY OneSeq
<1>2. Len(s) \in Nat /\ Len(t) \in Nat /\ u = Cat(v, t)
  BY LenProperties
<1> HIDE DEF l
<1>3. v \in Seq(C) /\ Joins(v, s, l)
  BY <1>1, CatSeq
<1> HIDE DEF v
<1>4. u \in Seq(C) /\ Joins(u, v, t)
  BY <1>2, <1>3, CatSeq
<1>5. Len(v) = Len(s) + 1 /\ (\A k \in 1..Len(s) : v[k] = s[k]) /\ v[Len(s) + 1] = x
  BY <1>1, <1>2, <1>3 DEF Joins
<1>6. Len(u) = Len(s) + 1 + Len(t) /\ \A k \in 1..(Len(s) + 1) : u[k] = v[k]
  BY <1>2, <1>4, <1>5 DEF Joins
<1>7. \A k \in 1..Len(t) : u[Len(s) + 1 + k] = t[k]
  BY <1>4, <1>5 DEF Joins
<1>8. (\A k \in 1..Len(s) : u[k] = s[k]) /\ u[Len(s) + 1] = x
  <2>1. ASSUME NEW k \in 1..Len(s) PROVE u[k] = s[k]
    <3>1. k \in 1..(Len(s) + 1)
      BY <1>2
    <3> QED
      BY <3>1, <1>5, <1>6
  <2>2. Len(s) + 1 \in 1..(Len(s) + 1)
    BY <1>2
  <2> QED
    BY <2>1, <2>2, <1>5, <1>6
<1> QED
  BY <1>4, <1>6, <1>7, <1>8 DEF Around

LEMMA JoinedIs ==
  ASSUME NEW C, NEW out \in Seq(C), NEW seg \in Seq(C), Slash \in C
  PROVE  /\ Joined(out, seg) \in Seq(C)
         /\ out # <<>> => Around(Joined(out, seg), out, Slash, seg)
<1>1. CASE out = <<>>
  BY <1>1 DEF Joined
<1>2. CASE out # <<>>
  <2>1. Joined(out, seg) = Cat(Cat(out, <<Slash>>), seg)
    BY <1>2 DEF Joined, Cat
  <2> DEFINE u == Joined(out, seg)
  <2> HIDE DEF u
  <2>2. u \in Seq(C) /\ Around(u, out, Slash, seg)
    BY <2>1, AroundIs DEF u
  <2> QED
    BY <2>2 DEF u
<1> QED
  BY <1>1, <1>2

\* One segment alone, with no slash in it, is clean.
LEMMA CleanSegment ==
  ASSUME NEW C, NEW seg \in Seq(C), seg # <<>>, \A k \in 1..Len(seg) : seg[k] # Slash,
         seg # <<Dot>>, seg # <<Dot, Dot>>
  PROVE  Clean(seg)
<1> DEFINE n == Len(seg)
<1>1. n \in Nat /\ seg = [k \in 1..n |-> seg[k]]
  BY LenProperties
<1>2. ~ (n = 1 /\ seg[1] = Dot)
  <2> SUFFICES ASSUME n = 1, seg[1] = Dot PROVE FALSE
    OBVIOUS
  <2> QED
    BY <1>1
<1>3. ~ (n = 2 /\ seg[1] = Dot /\ seg[2] = Dot)
  <2> SUFFICES ASSUME n = 2, seg[1] = Dot, seg[2] = Dot PROVE FALSE
    OBVIOUS
  <2> QED
    BY <1>1
<1>4. ASSUME NEW a \in 1..n, NEW b \in a..n, IsSegment(seg, a, b) PROVE a = 1 /\ b = n
  BY <1>1, <1>4 DEF IsSegment
<1> HIDE DEF n
<1>5. ASSUME NEW a \in 1..n, NEW b \in a..n, IsSegment(seg, a, b)
      PROVE  ~ (b = a /\ seg[a] = Dot) /\ ~ (b = a + 1 /\ seg[a] = Dot /\ seg[b] = Dot)
  BY <1>1, <1>2, <1>3, <1>4, <1>5
<1> QED
  BY <1>5 DEF Clean, n

\* A clean name stays clean when a slash and a segment follow it.
LEMMA CleanOn ==
  ASSUME NEW C, NEW out \in Seq(C), out # <<>>, Clean(out),
         NEW seg \in Seq(C), seg # <<>>, Clean(seg), \A k \in 1..Len(seg) : seg[k] # Slash,
         NEW u \in Seq(C), Around(u, out, Slash, seg)
  PROVE  Clean(u)
<1> DEFINE m == Len(out)
           n == Len(seg)
<1>1. m \in Nat /\ n \in Nat /\ m > 0 /\ n > 0
  BY LenProperties, EmptySeq
<1>2. /\ Len(u) = m + 1 + n
      /\ \A k \in 1..m : u[k] = out[k]
      /\ u[m + 1] = Slash
      /\ \A k \in 1..n : u[m + 1 + k] = seg[k]
  BY DEF Around
<1>3. \A k \in 1..m : out[k] = Slash =>
        k > 1 /\ k < m /\ out[k - 1] # Slash /\ out[k + 1] # Slash
  BY DEF Clean
<1>4. \A k \in (m + 2)..(m + 1 + n) : u[k] # Slash /\ u[k] = seg[k - m - 1]
  <2> TAKE k \in (m + 2)..(m + 1 + n)
  <2> DEFINE j == k - m - 1
  <2>1. j \in 1..n /\ m + 1 + j = k
    BY <1>1
  <2> HIDE DEF j
  <2>2. u[m + 1 + j] = seg[j] /\ seg[j] # Slash
    BY <1>2, <2>1
  <2> QED
    BY <2>1, <2>2 DEF j
<1> HIDE DEF m, n
<1>5. ASSUME NEW k \in 1..Len(u), u[k] = Slash
      PROVE  k > 1 /\ k < Len(u) /\ u[k - 1] # Slash /\ u[k + 1] # Slash
  <2>1. CASE k \in 1..m
    <3>1. k > 1 /\ k < m /\ out[k - 1] # Slash /\ out[k + 1] # Slash
      BY <1>2, <1>3, <1>5, <2>1
    <3>2. k - 1 \in 1..m /\ k + 1 \in 1..m /\ k < Len(u)
      BY <1>1, <1>2, <2>1, <3>1
    <3> QED
      BY <1>2, <3>1, <3>2
  <2>2. CASE k = m + 1
    <3>1. u[m] # Slash
      BY <1>1, <1>2, <1>3
    <3>2. u[m + 2] # Slash
      BY <1>1, <1>4
    <3> QED
      BY <1>1, <1>2, <2>2, <3>1, <3>2
  <2> QED
    BY <1>1, <1>2, <1>4, <1>5, <2>1, <2>2
<1>6. ASSUME NEW a \in 1..Len(u), NEW b \in a..Len(u), IsSegment(u, a, b)
      PROVE  ~ (b = a /\ u[a] = Dot) /\ ~ (b = a + 1 /\ u[a] = Dot /\ u[b] = Dot)
  <2>1. /\ \A k \in a..b : u[k] # Slash
        /\ a = 1 \/ u[a - 1] = Slash
        /\ b = Len(u) \/ u[b + 1] = Slash
    BY <1>6 DEF IsSegment
  <2>2. CASE b <= m
    <3>1. IsSegment(out, a, b)
      <4>1. a \in 1..m /\ b \in a..m
        BY <1>1, <1>2, <2>2
      <4>2. \A k \in a..b : out[k] # Slash
        BY <1>1, <1>2, <2>1, <4>1
      <4>3. a = 1 \/ out[a - 1] = Slash
        BY <1>1, <1>2, <2>1, <4>1
      <4>4. b = m \/ out[b + 1] = Slash
        BY <1>1, <1>2, <2>1, <4>1
      <4> QED
        BY <4>1, <4>2, <4>3, <4>4 DEF IsSegment, m
    <3>2. a \in 1..m /\ b \in a..m /\ u[a] = out[a] /\ u[b] = out[b]
      BY <1>1, <1>2, <2>2
    <3> QED
      BY <3>1, <3>2 DEF Clean, m
  <2>3. CASE a > m
    <3>1. a = m + 2
      BY <1>1, <1>2, <1>4, <2>1, <2>3
    <3>2. b = m + 1 + n
      BY <1>1, <1>2, <1>4, <2>1, <3>1
    <3>3. IsSegment(seg, 1, n)
      BY <1>1 DEF IsSegment, n
    <3>4. ~ (n = 1 /\ seg[1] = Dot) /\ ~ (n = 2 /\ seg[1] = Dot /\ seg[2] = Dot)
      <4>1. 1 \in 1..n /\ n \in 1..n
        BY <1>1
      <4> QED
        BY <3>3, <4>1 DEF Clean, n
    <3>5. u[a] = seg[1] /\ (n = 2 => u[b] = seg[2])
      BY <1>1, <1>2, <3>1, <3>2
    <3> QED
      BY <1>1, <3>1, <3>2, <3>4, <3>5
  <2>4. ~ (a <= m /\ b > m)
    BY <1>1, <1>2, <2>1
  <2> QED
    BY <1>1, <1>2, <2>2, <2>3, <2>4
<1> QED
  BY <1>5, <1>6 DEF Clean

\* t is the characters of s from a to b.
IsPart(t, s, a, b) ==
  /\ Len(t) \in Nat /\ Len(t) = b - a + 1 /\ t = [k \in 1..(b - a + 1) |-> s[a + k - 1]]
  /\ \A k \in 1..(b - a + 1) : t[k] = s[a + k - 1]

LEMMA SubSeqIs ==
  ASSUME NEW C, NEW s \in Seq(C), NEW a \in 1..(Len(s) + 1), NEW b \in (a - 1)..Len(s),
         NEW t, t = SubSeq(s, a, b)
  PROVE  IsPart(t, s, a, b)
<1>1. Len(s) \in Nat
  BY LenProperties
<1>2. t = [k \in 1..(b - a + 1) |-> s[a + k - 1]]
  BY <1>1
<1>3. b - a + 1 \in Nat
  BY <1>1
<1>4. Len(t) = b - a + 1 /\ \A k \in 1..(b - a + 1) : t[k] = s[a + k - 1]
  BY <1>2, <1>3
<1> QED
  BY <1>2, <1>3, <1>4 DEF IsPart

LEMMA LoopStep ==
  ASSUME NEW C, NEW s \in Seq(C), NEW i, NEW out, LoopInv(s, i, out), i <= Len(s),
         NEW j, j = NextSlash(s, i), NEW seg, IsPart(seg, s, i, j - 1), ~ Refused(seg)
  PROVE  LoopInv(s, Past(j), IF Dropped(seg) THEN out ELSE Joined(out, seg))
<1> DEFINE D == ToSet(s) \cup {Slash}
           kept == Kept(s)
<1>1. Len(s) \in Nat /\ i \in 1..Len(s) /\ (i = 1 \/ s[i - 1] = Slash) /\ out \in Seq(D)
  BY LenProperties DEF LoopInv
<1>2. /\ j \in i..(Len(s) + 1)
      /\ j = i => i \notin Begins(s)
      /\ j > i => IsSegment(s, i, j - 1)
      /\ \A a \in Begins(s) : a < j + 1 <=> a < i \/ (a = i /\ j > i)
  BY <1>1, OneSegment
<1>3. j = Len(s) + 1 \/ s[j] = Slash
  <2>1. IsNext(s, i, Slash, j)
    BY <1>1, NextSlashIs
  <2> QED
    BY <2>1 DEF IsNext
<1>4. Past(j) = j + 1 /\ j + 1 \in 1..(Len(s) + 2) /\ (j + 1 = Len(s) + 2 \/ s[(j + 1) - 1] = Slash)
  BY <1>1, <1>2, <1>3 DEF Past
<1>5. /\ \A a \in Begins(s) : a < i => At(s, a) # <<Dot, Dot>>
      /\ \E e : Picks(s, PlacesBefore(s, i), out, e)
      /\ \A x \in PlacesBefore(s, i) : x < i - 1
      /\ out = <<>> <=> Before(s, i) = {}
      /\ Clean(out)
  BY DEF LoopInv
<1>6. j > i => At(s, i) = seg /\ End(s, i) = j - 1 /\ i \in Begins(s)
  <2> SUFFICES ASSUME j > i PROVE At(s, i) = seg /\ End(s, i) = j - 1 /\ i \in Begins(s)
    OBVIOUS
  <2> DEFINE b == j - 1
             t == SubSeq(s, i, b)
  <2>1. IsSegment(s, i, b)
    BY <1>2
  <2>2. i \in Begins(s) /\ End(s, i) = b /\ At(s, i) = t
    BY <2>1, SegmentEnds
  <2>3. i \in 1..(Len(s) + 1) /\ b \in (i - 1)..Len(s)
    <3>1. j \in i..(Len(s) + 1)
      BY <1>2
    <3> HIDE DEF D
    <3> QED
      BY <1>1, <3>1
  <2>4. IsPart(seg, s, i, b)
    OBVIOUS
  <2> HIDE DEF b
  <2>5. IsPart(t, s, i, b)
    BY <2>3, SubSeqIs
  <2> HIDE DEF t
  <2>6. t = seg
    BY <2>4, <2>5 DEF IsPart
  <2> QED
    BY <2>2, <2>6 DEF b
<1>11. i \in Nat /\ j \in Nat /\ Len(s) \in Nat /\ 1 <= i /\ i <= Len(s) /\ i <= j /\ j <= Len(s) + 1
  <2>1. j \in i..(Len(s) + 1)
    BY <1>2
  <2>2. i \in 1..Len(s) /\ Len(s) \in Nat
    BY <1>1
  <2> QED
    BY <2>1, <2>2
<1>10. /\ Len(seg) \in Nat /\ Len(seg) = j - i /\ seg = [k \in 1..(j - i) |-> s[i + k - 1]]
       /\ \A k \in 1..(j - i) : seg[k] = s[i + k - 1]
  <2>1. (j - 1) - i + 1 = j - i
    BY <1>11
  <2> QED
    BY <2>1 DEF IsPart
<1>7. \A a \in Begins(s) : a < j + 1 => At(s, a) # <<Dot, Dot>>
  BY <1>2, <1>5, <1>6 DEF Refused
<1>8. CASE Dropped(seg)
  <2>1. j > i => i \notin Kept(s)
    <3> SUFFICES ASSUME j > i PROVE seg = <<Dot>>
      BY <1>6 DEF Kept
    <3>1. Len(seg) # 0
      BY <1>1, <1>2, <1>10
    <3> QED
      BY <1>8, <3>1 DEF Dropped
  <2>2. Before(s, j + 1) = Before(s, i)
    BY <1>2, <2>1 DEF Before, Kept
  <2>3. PlacesBefore(s, j + 1) = PlacesBefore(s, i)
    BY <2>2 DEF PlacesBefore
  <2>4. \A x \in PlacesBefore(s, i) : x < (j + 1) - 1
    <3>1. \A x \in PlacesBefore(s, i) : x \in Int
      <4>1. \A a \in Kept(s) : End(s, a) \in Int /\ Start(Kept(s), a) \in Int
        <5> TAKE a \in Kept(s)
        <5>1. a \in Begins(s) /\ a \in 1..Len(s)
          BY DEF Kept, Begins
        <5>2. IsSegment(s, a, End(s, a))
          BY <5>1, BeginsEnd
        <5> QED
          BY <1>1, <5>1, <5>2 DEF IsSegment, Start
      <4> QED
        BY <4>1 DEF PlacesBefore, Before
    <3> QED
      BY <1>1, <1>2, <1>5, <3>1
  <2> QED
    BY <1>1, <1>4, <1>5, <1>7, <1>8, <2>2, <2>3, <2>4 DEF LoopInv
<1>9. CASE ~ Dropped(seg)
  <2>1. Slash \in D /\ D # {}
    OBVIOUS
  <2>2. j > i /\ Len(seg) = j - i /\ seg # <<>>
    <3>1. seg # <<>>
      BY <1>9 DEF Dropped
    <3>2. j # i
      <4> SUFFICES ASSUME j = i PROVE seg = <<>>
        BY <3>1
      <4>1. seg = [k \in 1..0 |-> s[i + k - 1]]
        BY <1>1, <1>10
      <4> QED
        BY <4>1
    <3> QED
      BY <1>1, <1>2, <1>10, <3>1, <3>2
  <2>3. seg \in Seq(D) /\ seg = [k \in 1..(j - i) |-> s[i + k - 1]]
    <3>1. \A k \in 1..(j - i) : i + k - 1 \in DOMAIN s
      BY <1>1, <1>2
    <3>2. \A k \in 1..(j - i) : s[i + k - 1] \in D
      BY <3>1 DEF ToSet
    <3>3. seg \in [1..(j - i) -> D] /\ j - i \in Nat
      BY <1>1, <1>2, <1>10, <3>2
    <3> DEFINE n == j - i
    <3> HIDE DEF n, D
    <3>4. seg \in Seq(D)
      BY <3>3, FunctionSeq DEF n
    <3> QED
      BY <1>10, <3>4
  <2>4. \A k \in 1..Len(seg) : seg[k] # Slash
    <3>1. \A k \in i..(j - 1) : s[k] # Slash
      BY <1>2, <2>2 DEF IsSegment
    <3> QED
      BY <1>1, <1>2, <2>2, <2>3, <3>1
  <2>5. Clean(seg)
    BY <2>2, <2>3, <2>4, <1>9, CleanSegment DEF Dropped, Refused
  <2>19. Len(out) \in Nat
    BY <1>1, LenProperties
  <2>6. i \in Kept(s)
    BY <1>6, <1>9, <2>2 DEF Kept, Dropped
  <2>7. Before(s, j + 1) = Before(s, i) \cup {i}
    BY <1>2, <2>2, <2>6 DEF Before, Kept
  <2> DEFINE lo == Start(Kept(s), i)
             u == Joined(out, seg)
             t == [k \in 1..((j - 1) - lo + 1) |-> s[lo + k - 1]]
  <2>8. PlacesBefore(s, j + 1) = PlacesBefore(s, i) \cup (lo..(j - 1))
    BY <2>2, <2>7, <1>6 DEF PlacesBefore
  <2>9. lo = IF out = <<>> THEN i ELSE i - 1
    BY <1>5 DEF Start, Before
  <2>10. u \in Seq(D)
    BY <1>1, <2>1, <2>3, JoinedIs
  <2>11. lo \in Nat /\ lo >= i - 1 /\ lo <= i /\ (out # <<>> => i > 1)
    <3>1. ASSUME out # <<>> PROVE i > 1
      <4>1. PICK a \in Before(s, i) : TRUE
        BY <1>5, <3>1
      <4>2. a \in 1..Len(s) /\ a < i
        BY DEF Before, Kept, Begins
      <4> QED
        BY <1>1, <4>2
    <3> QED
      BY <1>1, <2>9, <3>1
  <2>12. Joins(u, out, t)
    <3>1. CASE out = <<>>
      <4>1. u = seg /\ lo = i
        BY <2>9, <3>1 DEF Joined
      <4>2. t = seg /\ Len(out) = 0
        <5>1. (j - 1) - lo + 1 = j - i
          BY <1>1, <1>2, <4>1
        <5> QED
          BY <2>3, <3>1, <4>1, <5>1
      <4> QED
        BY <2>2, <3>1, <4>1, <4>2, <1>1, <1>2 DEF Joins
    <3>2. CASE out # <<>>
      <4>1. lo = i - 1 /\ s[i - 1] = Slash /\ i > 1
        BY <1>1, <2>9, <2>11, <3>2
      <4>2. Around(u, out, Slash, seg)
        BY <1>1, <2>1, <2>3, <3>2, JoinedIs
      <4>5. Len(out) \in Nat /\ Len(seg) \in Nat
        BY <1>10, <2>19
      <4>8. (j - 1) - lo + 1 = Len(seg) + 1
        BY <1>1, <1>2, <2>2, <4>1
      <4>9. t = [k \in 1..(Len(seg) + 1) |-> s[lo + k - 1]]
        BY <4>8
      <4>3. Len(t) = Len(seg) + 1 /\ t[1] = Slash
        <5>1. 1 \in 1..(Len(seg) + 1) /\ lo + 1 - 1 = i - 1
          BY <1>11, <4>1, <4>5 DEF lo
        <5> HIDE DEF t
        <5>2. t[1] = s[lo + 1 - 1]
          BY <4>9, <5>1
        <5>3. Len(t) = Len(seg) + 1
          BY <4>5, <4>9
        <5> QED
          BY <4>1, <5>1, <5>2, <5>3
      <4>4. ASSUME NEW k \in 1..Len(seg) PROVE t[k + 1] = seg[k]
        <5>1. k + 1 \in 1..(Len(seg) + 1) /\ lo + (k + 1) - 1 = i + k - 1 /\ k \in 1..(j - i)
          BY <1>10, <1>11, <4>1, <4>5
        <5>2. t[k + 1] = s[lo + (k + 1) - 1] /\ seg[k] = s[i + k - 1]
          BY <1>10, <4>9, <5>1
        <5> QED
          BY <5>1, <5>2
      <4> HIDE DEF t, u, lo
      <4>6. Len(u) = Len(out) + Len(t) /\ \A k \in 1..Len(out) : u[k] = out[k]
        <5>1. Len(u) = Len(out) + 1 + Len(seg) /\ \A k \in 1..Len(out) : u[k] = out[k]
          BY <4>2 DEF Around
        <5>2. Len(out) + 1 + Len(seg) = Len(out) + Len(t)
          BY <4>3, <4>5
        <5> QED
          BY <5>1, <5>2
      <4>7. ASSUME NEW k \in 1..Len(t) PROVE u[Len(out) + k] = t[k]
        <5>1. CASE k = 1
          BY <4>2, <4>3, <5>1 DEF Around
        <5>2. CASE k > 1
          <6>1. k - 1 \in 1..Len(seg) /\ Len(out) + 1 + (k - 1) = Len(out) + k /\ (k - 1) + 1 = k
            <7> DEFINE n == Len(seg)
            <7>1. k \in 1..(n + 1) /\ n \in Nat
              BY <4>3, <4>5
            <7> HIDE DEF n
            <7> QED
              BY <4>5, <5>2, <7>1 DEF n
          <6>2. u[Len(out) + 1 + (k - 1)] = seg[k - 1] /\ t[(k - 1) + 1] = seg[k - 1]
            BY <4>2, <4>4, <6>1 DEF Around
          <6> QED
            BY <6>1, <6>2
        <5> QED
          BY <4>3, <4>5, <5>1, <5>2
      <4> QED
        BY <4>6, <4>7 DEF Joins
    <3> QED
      BY <3>1, <3>2
  <2>13. PlacesBefore(s, i) \subseteq Nat
    <3>1. \A a \in Kept(s) : End(s, a) \in Nat /\ Start(Kept(s), a) \in Nat
      <4> TAKE a \in Kept(s)
      <4>1. a \in Begins(s) /\ a \in 1..Len(s)
        BY DEF Kept, Begins
      <4>2. IsSegment(s, a, End(s, a))
        BY <4>1, BeginsEnd
      <4> QED
        BY <1>1, <4>1, <4>2 DEF IsSegment, Start
    <3> QED
      BY <3>1 DEF PlacesBefore, Before
  <2>14. \A x \in PlacesBefore(s, i) : x < lo
    BY <1>1, <1>5, <2>11, <2>13
  <2>15. \E f : Picks(s, PlacesBefore(s, j + 1), u, f)
    <3>1. PICK e : Picks(s, PlacesBefore(s, i), out, e)
      BY <1>5
    <3>2. j - 1 \in Nat /\ lo <= (j - 1) + 1
      BY <1>1, <1>2, <2>11
    <3> DEFINE S == PlacesBefore(s, i)
               T == PlacesBefore(s, j + 1)
               b == j - 1
    <3>3. Picks(s, S, out, e) /\ S \subseteq Nat /\ (\A x \in S : x < lo) /\ T = S \cup (lo..b)
      BY <3>1, <2>8, <2>13, <2>14
    <3>4. t = [k \in 1..(b - lo + 1) |-> s[lo + k - 1]] /\ Joins(u, out, t)
      BY <2>12
    <3>5. b \in Nat /\ lo <= b + 1
      BY <3>2
    <3>7. lo \in Nat /\ u \in Seq(D)
      BY <2>10, <2>11
    <3> HIDE DEF S, T, t, b, lo, u, D
    <3>6. \E f : Picks(s, T, u, f)
      BY <1>1, <3>3, <3>4, <3>5, <3>7, PicksOn
    <3> QED
      BY <3>6 DEF T
  <2>16. \A x \in PlacesBefore(s, j + 1) : x < (j + 1) - 1
    BY <1>1, <1>2, <2>8, <2>11, <2>13, <2>14
  <2>17. u # <<>> /\ Before(s, j + 1) # {}
    <3>1. u # <<>>
      <4>1. CASE out = <<>>
        BY <2>2, <4>1 DEF Joined
      <4>2. CASE out # <<>>
        <5>1. Around(u, out, Slash, seg)
          BY <1>1, <2>1, <2>3, <4>2, JoinedIs
        <5>2. Len(u) = Len(out) + 1 + Len(seg)
          BY <5>1 DEF Around
        <5>3. Len(u) # 0
          BY <5>2, <2>19, <1>10
        <5> HIDE DEF u
        <5> QED
          BY <5>3
      <4> QED
        BY <4>1, <4>2
    <3> QED
      BY <2>7, <3>1
  <2>18. Clean(u)
    <3>1. CASE out = <<>>
      BY <2>5, <3>1 DEF Joined
    <3>2. CASE out # <<>>
      <4>1. Around(u, out, Slash, seg)
        BY <1>1, <2>1, <2>3, <3>2, JoinedIs
      <4> HIDE DEF u
      <4> QED
        BY <1>1, <1>5, <2>2, <2>3, <2>4, <2>5, <2>10, <3>2, <4>1, CleanOn
    <3> QED
      BY <3>1, <3>2
  <2> QED
    BY <1>4, <1>7, <1>9, <2>10, <2>15, <2>16, <2>17, <2>18 DEF LoopInv
<1> QED
  BY <1>8, <1>9

-----------------------------------------------------------------------------
LoopStates(s) == [i : 1..(Len(s) + 2), out : Seq(ToSet(s) \cup {Slash})]

\* Where the loop goes on from st, after the segment seg that ends before j.
Onward(st, j, seg) ==
  [i |-> Past(j), out |-> IF Dropped(seg) THEN st.out ELSE Joined(st.out, seg)]

Value(s, g, st) ==
  LET j == NextSlash(s, st.i)
      seg == SubSeq(s, st.i, j - 1)
  IN IF st.i > Len(s) THEN st.out
     ELSE IF Refused(seg) THEN <<>>
     ELSE g[[i |-> Past(j), out |-> IF Dropped(seg) THEN st.out ELSE Joined(st.out, seg)]]

\* The loop goes on further on, in a state of its own.
LEMMA GoesOn ==
  ASSUME NEW C, NEW s \in Seq(C), NEW st \in LoopStates(s), st.i <= Len(s),
         NEW j, j = NextSlash(s, st.i), NEW seg, seg = SubSeq(s, st.i, j - 1)
  PROVE  Onward(st, j, seg) \in LoopStates(s) /\ Onward(st, j, seg).i > st.i
<1> DEFINE D == ToSet(s) \cup {Slash}
           i == st.i
           out == st.out
           b == j - 1
<1>1. Len(s) \in Nat /\ i \in 1..Len(s) /\ out \in Seq(D)
  BY LenProperties DEF LoopStates
<1>2. j \in i..(Len(s) + 1)
  <2>1. IsNext(s, i, Slash, j)
    BY <1>1, NextSlashIs
  <2> QED
    BY <2>1 DEF IsNext
<1>3. seg \in Seq(D)
  <2>1. i \in 1..(Len(s) + 1) /\ b \in (i - 1)..Len(s) /\ seg = SubSeq(s, i, b)
    <3>1. seg = SubSeq(s, i, b)
      OBVIOUS
    <3> HIDE DEF i, D
    <3>2. i \in 1..(Len(s) + 1) /\ b \in (i - 1)..Len(s)
      BY <1>1, <1>2
    <3> QED
      BY <3>1, <3>2
  <2>2. \A k \in 1..Len(s) : s[k] \in D
    BY DEF ToSet
  <2> HIDE DEF b, i, D
  <2>3. IsPart(seg, s, i, b)
    BY <2>1, SubSeqIs
  <2>4. \A k \in 1..(b - i + 1) : i + k - 1 \in 1..Len(s)
    BY <1>1, <2>1
  <2>5. b - i + 1 \in Nat
    BY <1>1, <2>1
  <2> DEFINE n == b - i + 1
  <2>6. seg \in [1..n -> D] /\ n \in Nat
    BY <2>2, <2>3, <2>4, <2>5 DEF IsPart
  <2> HIDE DEF n
  <2> QED
    BY <2>6, FunctionSeq
<1>4. Joined(out, seg) \in Seq(D)
  <2>1. Slash \in D
    OBVIOUS
  <2> HIDE DEF D, out
  <2> QED
    BY <1>1, <1>3, <2>1, JoinedIs
<1>5. Past(j) \in 1..(Len(s) + 2) /\ Past(j) > i
  <2> HIDE DEF i, D
  <2> QED
    BY <1>1, <1>2 DEF Past
<1> QED
  BY <1>1, <1>4, <1>5 DEF Onward, LoopStates

IsLoop(s, m, g) == g = [st \in {x \in LoopStates(s) : x.i >= m} |-> Value(s, g, st)]

LEMMA LoopExists ==
  ASSUME NEW C, NEW s \in Seq(C)
  PROVE  \E g : g = [st \in LoopStates(s) |-> Value(s, g, st)]
<1> DEFINE n == Len(s)
           T == {m \in Nat : m <= n + 1 => \E g : IsLoop(s, n + 2 - m, g)}
<1>1. n \in Nat
  BY LenProperties
<1>2. 0 \in T
  <2> DEFINE S == {x \in LoopStates(s) : x.i >= n + 2}
             g == [st \in S |-> st.out]
  <2>1. \A st \in S : st.i > Len(s)
    BY <1>1 DEF LoopStates
  <2>2. IsLoop(s, n + 2, g)
    BY <2>1 DEF IsLoop, Value
  <2> QED
    BY <1>1, <2>2
<1>3. ASSUME NEW m \in Nat, m \in T PROVE m + 1 \in T
  <2> SUFFICES ASSUME m + 1 <= n + 1 PROVE \E h : IsLoop(s, n + 2 - (m + 1), h)
    OBVIOUS
  <2> DEFINE i == n + 2 - m
             S == {x \in LoopStates(s) : x.i >= i}
             R == {x \in LoopStates(s) : x.i >= i - 1}
  <2>1. i \in Nat /\ i > 1 /\ n + 2 - (m + 1) = i - 1
    BY <1>1
  <2>2. PICK g : IsLoop(s, i, g)
    BY <1>1, <1>3
  <2> HIDE DEF i, n
  <2> DEFINE h == [st \in R |-> IF st \in S THEN g[st] ELSE Value(s, g, st)]
  <2>3. ASSUME NEW st \in R PROVE Value(s, g, st) = Value(s, h, st)
    <3>1. CASE st.i > Len(s)
      BY <3>1 DEF Value
    <3>2. CASE ~ st.i > Len(s)
      <4> DEFINE j == NextSlash(s, st.i)
                 seg == SubSeq(s, st.i, j - 1)
                 x == Onward(st, j, seg)
      <4>1. st \in LoopStates(s) /\ st.i \in Nat /\ st.i >= i - 1 /\ st.i <= Len(s)
        BY <1>1, <3>2 DEF LoopStates, n
      <4>2. x \in LoopStates(s) /\ x.i > st.i
        BY <4>1, GoesOn
      <4>3. x \in S
        <5>1. x.i \in Nat
          BY <4>2 DEF LoopStates
        <5> HIDE DEF x
        <5> QED
          BY <2>1, <4>1, <4>2, <5>1
      <4>4. x \in R
        <5>1. x.i \in Nat
          BY <4>2 DEF LoopStates
        <5> HIDE DEF x
        <5> QED
          BY <2>1, <4>3, <5>1
      <4>5. h[x] = g[x]
        <5> HIDE DEF x
        <5> QED
          BY <4>3, <4>4
      <4> HIDE DEF h, S, R
      <4> QED
        BY <4>5 DEF Value, Onward
    <3> QED
      BY <3>1, <3>2
  <2>4. ASSUME NEW st \in S PROVE g[st] = Value(s, g, st)
    BY <2>2 DEF IsLoop
  <2>5. h = [st \in R |-> Value(s, g, st)]
    BY <2>4
  <2> HIDE DEF h
  <2>6. h = [st \in R |-> Value(s, h, st)]
    BY <2>3, <2>5
  <2>7. IsLoop(s, i - 1, h)
    BY <2>6 DEF IsLoop
  <2> QED
    BY <2>1, <2>7
<1> HIDE DEF T
<1>4. Nat \subseteq T
  BY <1>2, <1>3, SetInduction
<1>5. n + 1 \in T
  BY <1>1, <1>4
<1>6. PICK g : IsLoop(s, 1, g)
  <2>1. n + 2 - (n + 1) = 1
    BY <1>1
  <2> HIDE DEF n
  <2> QED
    BY <1>1, <1>5, <2>1 DEF T
<1>7. {x \in LoopStates(s) : x.i >= 1} = LoopStates(s)
  <2>1. \A x \in LoopStates(s) : x.i \in 1..(n + 2)
    BY DEF LoopStates
  <2>2. \A x \in LoopStates(s) : x.i >= 1
    BY <1>1, <2>1
  <2> QED
    BY <2>2
<1> QED
  BY <1>6, <1>7 DEF IsLoop

LEMMA PlacesAreNumbers ==
  ASSUME NEW C, NEW s \in Seq(C)
  PROVE  Places(s) \subseteq Nat
<1>1. ASSUME NEW a \in Kept(s) PROVE End(s, a) \in Nat /\ Start(Kept(s), a) \in Nat
  <2>1. a \in Begins(s) /\ a \in 1..Len(s) /\ Len(s) \in Nat
    BY LenProperties DEF Kept, Begins
  <2>2. IsSegment(s, a, End(s, a))
    BY <2>1, BeginsEnd
  <2> QED
    BY <2>1, <2>2 DEF IsSegment, Start
<1> QED
  BY <1>1 DEF Places

\* After the end all that is kept of s is in out.
LEMMA LoopEnds ==
  ASSUME NEW C, NEW s \in Seq(C), NEW i, NEW out, LoopInv(s, i, out), i > Len(s)
  PROVE  out = Normal(s) /\ Clean(out)
<1>1. Len(s) \in Nat /\ i \in Nat /\ out \in Seq(ToSet(s) \cup {Slash}) /\ Clean(out)
  BY LenProperties DEF LoopInv
<1>2. \A a \in Begins(s) : a < i
  BY <1>1 DEF Begins
<1>3. Before(s, i) = Kept(s)
  BY <1>2 DEF Before, Kept
<1>4. PlacesBefore(s, i) = Places(s)
  BY <1>3 DEF PlacesBefore, Places
<1>5. PICK e : Picks(s, Places(s), out, e)
  BY <1>4 DEF LoopInv
<1>6. out = [n \in 1..Cardinality(Places(s)) |-> s[Nth(Places(s), n)]]
  BY <1>1, <1>5, PlacesAreNumbers, PicksNth
<1>7. \A a \in Begins(s) : At(s, a) # <<Dot, Dot>>
  BY <1>2 DEF LoopInv
<1> QED
  BY <1>1, <1>6, <1>7 DEF Normal

LEMMA SegmentLength ==
  ASSUME NEW C, NEW s \in Seq(C), NEW i \in 1..Len(s), NEW j \in i..(Len(s) + 1)
  PROVE  Len(SubSeq(s, i, j - 1)) = j - i
<1> DEFINE b == j - 1
           t == SubSeq(s, i, b)
<1>1. b \in (i - 1)..Len(s) /\ i \in 1..(Len(s) + 1) /\ j \in Nat /\ i \in Nat
  BY LenProperties
<1>2. b - i + 1 = j - i
  BY <1>1
<1> HIDE DEF b
<1>3. IsPart(t, s, i, b)
  BY <1>1, SubSeqIs
<1> HIDE DEF t
<1>4. Len(t) = j - i
  BY <1>2, <1>3 DEF IsPart
<1> QED
  BY <1>4 DEF t, b

LEMMA RefusedLength ==
  ASSUME NEW t, Refused(t)
  PROVE  Len(t) = 2
BY DEF Refused

LEMMA LoopRefuses ==
  ASSUME NEW C, NEW s \in Seq(C), NEW i, NEW out, LoopInv(s, i, out), i <= Len(s),
         NEW j, j = NextSlash(s, i), NEW seg, seg = SubSeq(s, i, j - 1), Refused(seg)
  PROVE  Normal(s) = <<>>
<1>1. Len(s) \in Nat /\ i \in 1..Len(s) /\ (i = 1 \/ s[i - 1] = Slash)
  BY LenProperties DEF LoopInv
<1>2. j \in i..(Len(s) + 1) /\ (j > i => IsSegment(s, i, j - 1))
  BY <1>1, OneSegment
<1>3. j # i
  <2>1. Len(seg) = 2
    BY RefusedLength
  <2> QED
    BY <1>1, <1>2, <2>1, SegmentLength
<1>4. IsSegment(s, i, j - 1)
  BY <1>1, <1>2, <1>3
<1>5. i \in Begins(s) /\ At(s, i) = seg
  BY <1>4, SegmentEnds
<1> QED
  BY <1>5 DEF Refused, Normal

\* The loop of normalize_path (src/src/index.cpp) computes the normal form of any
\* string, which is a clean name: no slash at an edge or beside another, and no
\* segment of one or two dots.
THEOREM NormalizeIsNormal ==
  ASSUME NEW C, NEW s \in Seq(C)
  PROVE  Normalize(s) = Normal(s) /\ Normalize(s) \in Seq(ToSet(s) \cup {Slash}) /\ Clean(Normalize(s))
<1> DEFINE first == [i |-> 1, out |-> <<>>]
           Eq(g) == g = [st \in LoopStates(s) |-> Value(s, g, st)]
           loop == CHOOSE g : Eq(g)
<1>1. Eq(loop)
  <2>1. \E g : Eq(g)
    BY LoopExists
  <2> HIDE DEF Eq
  <2> QED
    BY <2>1
<1>2. Normalize(s) = loop[first]
  BY DEF Normalize, Value, LoopStates
<1> HIDE DEF loop
<1> DEFINE n == Len(s)
           D == ToSet(s) \cup {Slash}
           Right(st) == /\ loop[st] = Normal(s) /\ loop[st] \in Seq(D) /\ Clean(loop[st])
           T == {m \in Nat : \A st \in LoopStates(s) :
                   LoopInv(s, st.i, st.out) /\ n + 2 - st.i <= m => Right(st)}
<1>3. n \in Nat /\ \A st \in LoopStates(s) : st.i \in 1..(n + 2) /\ st.out \in Seq(D)
  BY LenProperties DEF LoopStates
<1>4. ASSUME NEW st \in LoopStates(s), LoopInv(s, st.i, st.out), st.i > n PROVE Right(st)
  <2>1. loop[st] = st.out
    BY <1>1, <1>4 DEF Value
  <2>2. st.out = Normal(s) /\ Clean(st.out)
    BY <1>4, LoopEnds
  <2> QED
    BY <1>3, <2>1, <2>2
<1>5. 0 \in T
  <2> HIDE DEF Right, n, D
  <2>1. ASSUME NEW st \in LoopStates(s), LoopInv(s, st.i, st.out), n + 2 - st.i <= 0 PROVE Right(st)
    <3>1. st.i > n
      BY <1>3, <2>1
    <3> QED
      BY <1>4, <2>1, <3>1
  <2> QED
    BY <2>1
<1>6. ASSUME NEW m \in Nat, m \in T PROVE m + 1 \in T
  <2> SUFFICES ASSUME NEW st \in LoopStates(s), LoopInv(s, st.i, st.out), n + 2 - st.i <= m + 1
               PROVE  Right(st)
    OBVIOUS
  <2>1. CASE st.i > n
    BY <1>4, <2>1
  <2>2. CASE st.i <= n
    <3> DEFINE j == NextSlash(s, st.i)
               seg == SubSeq(s, st.i, j - 1)
               x == Onward(st, j, seg)
    <3>1. CASE Refused(seg)
      <4>1. Normal(s) = <<>>
        BY <2>2, <3>1, LoopRefuses
      <4>2. ~ st.i > Len(s)
        BY <1>3, <2>2
      <4>3. loop[st] = <<>>
        BY <1>1, <3>1, <4>2 DEF Value
      <4>4. Clean(<<>>)
        BY DEF Clean
      <4> QED
        BY <4>1, <4>3, <4>4
    <3>2. CASE ~ Refused(seg)
      <4>1. x \in LoopStates(s) /\ x.i > st.i
        BY <2>2, GoesOn
      <4>2. loop[st] = loop[x]
        <5>1. ~ st.i > Len(s)
          BY <1>3, <2>2
        <5> QED
          BY <1>1, <3>2, <5>1 DEF Value, Onward
      <4>3. LoopInv(s, x.i, x.out)
        <5>1. IsPart(seg, s, st.i, j - 1)
          <6>1. IsNext(s, st.i, Slash, j)
            BY <1>3, <2>2, NextSlashIs
          <6> DEFINE b == j - 1
                     i == st.i
          <6>2. i \in 1..(Len(s) + 1) /\ b \in (i - 1)..Len(s)
            <7>1. j \in i..(Len(s) + 1) /\ i \in 1..(n + 2)
              BY <1>3, <6>1 DEF IsNext
            <7> HIDE DEF i, j
            <7> QED
              BY <1>3, <2>2, <7>1 DEF i
          <6>3. seg = SubSeq(s, i, b)
            OBVIOUS
          <6> HIDE DEF b, i, seg
          <6>4. IsPart(seg, s, i, b)
            BY <6>2, <6>3, SubSeqIs
          <6> QED
            BY <6>4 DEF b, i
        <5>2. x.i = Past(j) /\ x.out = IF Dropped(seg) THEN st.out ELSE Joined(st.out, seg)
          BY DEF Onward
        <5>3. j = NextSlash(s, st.i)
          OBVIOUS
        <5> HIDE DEF x, seg, j
        <5>4. LoopInv(s, Past(j), IF Dropped(seg) THEN st.out ELSE Joined(st.out, seg))
          BY <2>2, <3>2, <5>1, <5>3, LoopStep
        <5> QED
          BY <5>2, <5>4
      <4>4. n + 2 - x.i <= m
        <5>1. x.i \in 1..(n + 2) /\ st.i \in 1..(n + 2)
          BY <1>3, <4>1
        <5> HIDE DEF x, n
        <5> QED
          BY <1>3, <4>1, <5>1
      <4> HIDE DEF x
      <4> QED
        BY <1>6, <4>1, <4>2, <4>3, <4>4
    <3> QED
      BY <3>1, <3>2
  <2> HIDE DEF n
  <2> QED
    BY <1>3, <2>1, <2>2
<1> HIDE DEF T
<1>7. Nat \subseteq T
  BY <1>5, <1>6, SetInduction
<1>8. first \in LoopStates(s)
  BY <1>3 DEF LoopStates
<1>9. LoopInv(s, 1, <<>>)
  <2>1. Before(s, 1) = {}
    BY <1>3 DEF Before, Kept, Begins
  <2>2. PlacesBefore(s, 1) = {}
    BY <2>1 DEF PlacesBefore
  <2>3. Picks(s, {}, <<>>, <<>>)
    BY DEF Picks
  <2>4. Clean(<<>>)
    BY DEF Clean
  <2>5. \A a \in Begins(s) : ~ a < 1
    BY <1>3 DEF Begins
  <2>6. 1 \in 1..(Len(s) + 2) /\ <<>> \in Seq(D)
    BY <1>3
  <2> QED
    BY <2>1, <2>2, <2>3, <2>4, <2>5, <2>6 DEF LoopInv
<1>10. Right(first)
  <2>1. n + 1 \in T
    BY <1>3, <1>7
  <2> QED
    BY <1>3, <1>8, <1>9, <2>1 DEF T
<1> QED
  BY <1>2, <1>10

-----------------------------------------------------------------------------
\* What is not a slash is in a segment.
LEMMA InSegment ==
  ASSUME NEW C, NEW s \in Seq(C), NEW x \in 1..Len(s), s[x] # Slash
  PROVE  \E a \in Begins(s) : a <= x /\ x <= End(s, a)
<1> DEFINE T == {n \in Nat : n + 1 <= Len(s) /\ s[n + 1] # Slash =>
                   \E a \in Begins(s) : a <= n + 1 /\ \A k \in a..(n + 1) : s[k] # Slash}
<1>1. Len(s) \in Nat
  BY LenProperties
<1>2. 0 \in T
  <2> SUFFICES ASSUME 1 <= Len(s), s[1] # Slash
               PROVE  \E a \in Begins(s) : a <= 1 /\ \A k \in a..1 : s[k] # Slash
    OBVIOUS
  <2>1. 1 \in Begins(s)
    BY <1>1 DEF Begins
  <2>2. \A k \in 1..1 : s[k] # Slash
    OBVIOUS
  <2> QED
    BY <2>1, <2>2
<1>3. ASSUME NEW n \in Nat, n \in T PROVE n + 1 \in T
  <2> SUFFICES ASSUME n + 2 <= Len(s), s[n + 2] # Slash
               PROVE  \E a \in Begins(s) : a <= n + 2 /\ \A k \in a..(n + 2) : s[k] # Slash
    OBVIOUS
  <2>1. CASE s[n + 1] = Slash
    <3>1. n + 2 \in Begins(s)
      BY <1>1, <2>1 DEF Begins
    <3>2. \A k \in (n + 2)..(n + 2) : s[k] # Slash
      OBVIOUS
    <3> QED
      BY <3>1, <3>2
  <2>2. CASE s[n + 1] # Slash
    <3>1. PICK a \in Begins(s) : a <= n + 1 /\ \A k \in a..(n + 1) : s[k] # Slash
      BY <1>1, <1>3, <2>2
    <3>2. a \in Nat
      BY DEF Begins
    <3>3. a <= n + 2 /\ \A k \in a..(n + 2) : s[k] # Slash
      BY <3>1, <3>2
    <3> QED
      BY <3>3
  <2> QED
    BY <2>1, <2>2
<1> HIDE DEF T
<1>4. x - 1 \in T
  <2>1. Nat \subseteq T
    BY <1>2, <1>3, SetInduction
  <2> QED
    BY <1>1, <2>1
<1>5. PICK a \in Begins(s) : a <= x /\ \A k \in a..x : s[k] # Slash
  <2>1. (x - 1) + 1 = x
    OBVIOUS
  <2> QED
    BY <1>1, <1>4, <2>1 DEF T
<1>6. IsSegment(s, a, End(s, a))
  BY BeginsEnd
<1>7. x <= End(s, a)
  <2>1. a \in Nat /\ End(s, a) \in a..Len(s) /\ (End(s, a) = Len(s) \/ s[End(s, a) + 1] = Slash)
    BY <1>6 DEF IsSegment
  <2> QED
    BY <1>1, <1>5, <2>1
<1> QED
  BY <1>5, <1>7

\* A clean name is its own normal form.
LEMMA CleanIsNormal ==
  ASSUME NEW C, NEW c \in Seq(C), Clean(c)
  PROVE  Normal(c) = c
<1> DEFINE n == Len(c)
           P == Places(c)
<1>1. n \in Nat /\ c = [k \in 1..n |-> c[k]]
  BY LenProperties
<1>2. ASSUME NEW a \in Begins(c)
      PROVE  IsSegment(c, a, End(c, a)) /\ At(c, a) # <<Dot>> /\ At(c, a) # <<Dot, Dot>>
  <2> DEFINE b == End(c, a)
             t == At(c, a)
  <2>1. IsSegment(c, a, b)
    BY BeginsEnd
  <2>2. a \in 1..n /\ b \in a..n
    BY <2>1 DEF IsSegment
  <2>3. ~ (b = a /\ c[a] = Dot) /\ ~ (b = a + 1 /\ c[a] = Dot /\ c[b] = Dot)
    BY <2>1, <2>2 DEF Clean
  <2>4. a \in 1..(n + 1) /\ b \in (a - 1)..n /\ t = SubSeq(c, a, b)
    <3>1. t = SubSeq(c, a, b)
      BY DEF At
    <3> HIDE DEF b, n
    <3>2. a \in 1..(n + 1) /\ b \in (a - 1)..n
      BY <1>1, <2>2
    <3> QED
      BY <3>1, <3>2
  <2> HIDE DEF b, t
  <2>5. IsPart(t, c, a, b)
    BY <2>4, SubSeqIs
  <2> HIDE DEF n
  <2>6. t # <<Dot>>
    <3> SUFFICES ASSUME t = <<Dot>> PROVE FALSE
      OBVIOUS
    <3>1. Len(t) = 1 /\ t[1] = Dot
      OBVIOUS
    <3>2. b = a /\ 1 \in 1..(b - a + 1)
      BY <1>1, <2>2, <2>5, <3>1 DEF IsPart
    <3>3. t[1] = c[a + 1 - 1]
      BY <2>5, <3>2 DEF IsPart
    <3>4. a + 1 - 1 = a
      BY <1>1, <2>2
    <3> QED
      BY <2>3, <3>1, <3>2, <3>3, <3>4
  <2>7. t # <<Dot, Dot>>
    <3> SUFFICES ASSUME t = <<Dot, Dot>> PROVE FALSE
      OBVIOUS
    <3>1. Len(t) = 2 /\ t[1] = Dot /\ t[2] = Dot
      OBVIOUS
    <3>2. b = a + 1 /\ 1 \in 1..(b - a + 1) /\ 2 \in 1..(b - a + 1)
      BY <1>1, <2>2, <2>5, <3>1 DEF IsPart
    <3>3. t[1] = c[a + 1 - 1] /\ t[2] = c[a + 2 - 1]
      BY <2>5, <3>2 DEF IsPart
    <3>4. a + 1 - 1 = a /\ a + 2 - 1 = b
      BY <1>1, <2>2, <3>2
    <3> QED
      BY <2>3, <3>1, <3>2, <3>3, <3>4
  <2> QED
    BY <2>1, <2>6, <2>7 DEF b, t
<1>3. Kept(c) = Begins(c)
  BY <1>2 DEF Kept
<1> HIDE DEF n
<1>4. ASSUME NEW x \in P PROVE x \in 1..n
  <2>1. PICK a \in Begins(c) : x \in Start(Kept(c), a)..End(c, a)
    BY <1>3, <1>4 DEF Places
  <2>2. a \in 1..n /\ End(c, a) \in a..n
    BY <1>2 DEF IsSegment, n
  <2>3. Start(Kept(c), a) \in 1..n
    <3>1. CASE \E b \in Kept(c) : b < a
      <4>1. a > 1
        <5>1. PICK b \in Kept(c) : b < a
          BY <3>1
        <5>2. b \in 1..n
          BY DEF Kept, Begins, n
        <5> QED
          BY <1>1, <2>2, <5>1, <5>2
      <4> QED
        BY <1>1, <2>2, <3>1, <4>1 DEF Start
    <3>2. CASE ~ \E b \in Kept(c) : b < a
      BY <2>2, <3>2 DEF Start
    <3> QED
      BY <3>1, <3>2
  <2> QED
    BY <1>1, <2>1, <2>2, <2>3
<1>5. ASSUME NEW x \in 1..n PROVE x \in P
  <2>1. CASE c[x] # Slash
    <3>1. PICK a \in Begins(c) : a <= x /\ x <= End(c, a)
      BY <2>1, InSegment DEF n
    <3>2. a \in 1..n /\ End(c, a) \in a..n /\ Start(Kept(c), a) \in {a - 1, a}
      BY <1>2 DEF IsSegment, Start, n
    <3>3. x \in Start(Kept(c), a)..End(c, a)
      BY <1>1, <3>1, <3>2
    <3> QED
      BY <1>3, <3>3 DEF Places
  <2>2. CASE c[x] = Slash
    <3>1. x > 1 /\ x < n /\ c[x - 1] # Slash /\ c[x + 1] # Slash
      BY <2>2 DEF Clean, n
    <3>2. x + 1 \in Begins(c)
      BY <1>1, <2>2, <3>1 DEF Begins, n
    <3>3. \E b \in Kept(c) : b < x + 1
      <4>1. x - 1 \in 1..n /\ c[x - 1] # Slash
        BY <1>1, <3>1
      <4>2. PICK b \in Begins(c) : b <= x - 1
        BY <4>1, InSegment DEF n
      <4>3. b \in 1..n
        BY DEF Begins, n
      <4>4. b < x + 1
        BY <1>1, <4>2, <4>3
      <4> QED
        BY <1>3, <4>4
    <3>4. Start(Kept(c), x + 1) = x
      BY <1>1, <3>3 DEF Start
    <3>5. End(c, x + 1) \in (x + 1)..n
      BY <1>2, <3>2 DEF IsSegment, n
    <3>6. x \in Start(Kept(c), x + 1)..End(c, x + 1)
      BY <1>1, <3>4, <3>5
    <3> QED
      BY <1>3, <3>2, <3>6 DEF Places
  <2> QED
    BY <2>1, <2>2
<1>6. P = 1..n
  BY <1>4, <1>5
<1> HIDE DEF P
<1>7. Picks(c, P, c, [k \in 1..n |-> k])
  BY <1>1, <1>6 DEF Picks, n
<1>8. c = [k \in 1..Cardinality(P) |-> c[Nth(P, k)]]
  <2>1. P \subseteq Nat
    BY <1>1, <1>6
  <2> QED
    BY <1>7, <2>1, PicksNth
<1>9. \A a \in Begins(c) : At(c, a) # <<Dot, Dot>>
  BY <1>2
<1> QED
  BY <1>8, <1>9 DEF Normal, P

\* A name that normalize_path gave is given back by it.
LEMMA NormalizeAgain ==
  ASSUME NEW C, NEW s \in Seq(C)
  PROVE  Normalize(Normalize(s)) = Normalize(s)
<1> DEFINE D == ToSet(s) \cup {Slash}
           c == Normalize(s)
<1>1. c \in Seq(D) /\ Clean(c)
  BY NormalizeIsNormal
<1> HIDE DEF D, c
<1>2. Normalize(c) = Normal(c) /\ Normal(c) = c
  BY <1>1, NormalizeIsNormal, CleanIsNormal
<1> QED
  BY <1>2 DEF c

-----------------------------------------------------------------------------
(* DeletionList: what the lines of a file name.                            *)

LEMMA CharsDiffer == Newline # Blank /\ Newline # Hash /\ Slash # Newline
BY DeletionListAssumption, SMT

LEMMA LineEndIs ==
  ASSUME NEW C, text \in Seq(C), start \in 1..(Len(text) + 1)
  PROVE  IsNext(text, start, Newline, LineEnd)
BY FirstIs DEF LineEnd

\* From the first to the last character that is not blank.
Core(line, a, b) ==
  /\ a \in 1..Len(line) /\ b \in a..Len(line)
  /\ line[a] # Blank /\ line[b] # Blank
  /\ \A c \in 1..(a - 1) : line[c] = Blank
  /\ \A c \in (b + 1)..Len(line) : line[c] = Blank

LEMMA TrimmedIs ==
  ASSUME NEW C, NEW line \in Seq(C)
  PROVE  \/ Trimmed(line) = <<>> /\ \A c \in 1..Len(line) : line[c] = Blank
         \/ \E a, b : Core(line, a, b) /\ Trimmed(line) = SubSeq(line, a, b)
<1> DEFINE I == {k \in 1..Len(line) : line[k] # Blank}
<1>1. Len(line) \in Nat /\ I \subseteq Nat
  BY LenProperties
<1>2. Trimmed(line) = IF (IF I # {} THEN Min(I) ELSE 0) = 0 THEN <<>>
                      ELSE SubSeq(line, IF I # {} THEN Min(I) ELSE 0, IF I # {} THEN Max(I) ELSE 0)
  BY DEF Trimmed, SelectInSeq, SelectLastInSeq
<1>3. CASE I = {}
  <2>1. Trimmed(line) = <<>>
    BY <1>2, <1>3
  <2> QED
    BY <1>3, <2>1
<1>4. CASE I # {}
  <2> DEFINE a == Min(I)
             b == Max(I)
  <2>1. a \in I /\ \A y \in I : a <= y
    BY <1>1, <1>4, MinIs
  <2>2. b \in I /\ \A y \in I : y <= b
    <3>1. \A x \in I : x <= Len(line)
      OBVIOUS
    <3> HIDE DEF I
    <3> QED
      BY <1>1, <1>4, <3>1, MaxIs
  <2>3. a # 0 /\ Trimmed(line) = SubSeq(line, a, b)
    <3>1. a # 0
      BY <2>1
    <3> HIDE DEF I
    <3> QED
      BY <1>2, <1>4, <3>1
  <2> HIDE DEF a, b
  <2>4. Core(line, a, b)
    <3>1. a \in 1..Len(line) /\ b \in 1..Len(line) /\ line[a] # Blank /\ line[b] # Blank /\ a <= b
      BY <2>1, <2>2
    <3>2. ASSUME NEW c \in 1..(a - 1) PROVE line[c] = Blank
      <4>1. c \in 1..Len(line) /\ ~ a <= c
        BY <1>1, <3>1
      <4> QED
        BY <2>1, <4>1
    <3>3. ASSUME NEW c \in (b + 1)..Len(line) PROVE line[c] = Blank
      <4>1. c \in 1..Len(line) /\ ~ c <= b
        BY <1>1, <3>1
      <4> QED
        BY <2>2, <4>1
    <3> HIDE DEF I
    <3> QED
      BY <1>1, <3>1, <3>2, <3>3 DEF Core
  <2> QED
    BY <2>3, <2>4
<1> QED
  BY <1>3, <1>4

\* A part of a part of s is a part of s.
LEMMA PartOfPart ==
  ASSUME NEW C, NEW s \in Seq(C), NEW x \in 1..(Len(s) + 1), NEW y \in (x - 1)..Len(s),
         NEW a \in 1..(y - x + 1), NEW b \in a..(y - x + 1)
  PROVE  SubSeq(SubSeq(s, x, y), a, b) = SubSeq(s, x + a - 1, x + b - 1)
<1> DEFINE n == b - a + 1
           t == SubSeq(s, x, y)
           u == SubSeq(t, a, b)
           x1 == x + a - 1
           y1 == x + b - 1
           v == SubSeq(s, x1, y1)
<1>1. Len(s) \in Nat /\ x \in Nat /\ y \in Int /\ a \in Nat /\ b \in Nat /\ n \in Nat
  BY LenProperties
<1>2. x1 \in 1..(Len(s) + 1) /\ y1 \in (x1 - 1)..Len(s) /\ y1 - x1 + 1 = n
  BY <1>1
<1>3. t \in Seq(C) /\ Len(t) = y - x + 1 /\ IsPart(t, s, x, y)
  <2>1. IsPart(t, s, x, y)
    BY SubSeqIs
  <2>2. t \in Seq(C)
    BY SubSeqProperties
  <2> HIDE DEF t
  <2> QED
    BY <2>1, <2>2 DEF IsPart
<1> HIDE DEF t
<1>4. IsPart(u, t, a, b)
  <2>1. a \in 1..(Len(t) + 1) /\ b \in (a - 1)..Len(t)
    BY <1>1, <1>3
  <2> QED
    BY <1>3, <2>1, SubSeqIs
<1> HIDE DEF u, x1, y1
<1>5. IsPart(v, s, x1, y1)
  BY <1>2, SubSeqIs
<1> HIDE DEF v, n
<1>6. u = [k \in 1..n |-> t[a + k - 1]] /\ v = [k \in 1..n |-> s[x1 + k - 1]]
  BY <1>2, <1>4, <1>5 DEF IsPart, n
<1>7. ASSUME NEW k \in 1..n PROVE t[a + k - 1] = s[x1 + k - 1]
  <2> DEFINE m == a + k - 1
  <2>1. m \in 1..(y - x + 1) /\ x + m - 1 = x1 + k - 1
    BY <1>1 DEF n, x1
  <2> HIDE DEF m
  <2>2. t[m] = s[x + m - 1]
    BY <1>3, <2>1 DEF IsPart
  <2> QED
    BY <2>1, <2>2 DEF m
<1>8. u = v
  BY <1>6, <1>7
<1> QED
  BY <1>8 DEF u, v, t, x1, y1

\* A line begins at start.
AtLine == /\ text \in Seq(Char) /\ start \in 1..(Len(text) + 1)
          /\ start = 1 \/ text[start - 1] = Newline

\* The core of the line that begins at start and ends before e is from a to b.
InLine(e, a, b) ==
  /\ a \in start..(e - 1) /\ b \in a..(e - 1)
  /\ text[a] # Blank /\ text[b] # Blank
  /\ \A c \in start..(a - 1) : text[c] = Blank
  /\ \A c \in (b + 1)..(e - 1) : text[c] = Blank

\* The entries that end in this line are its core.
LEMMA EntryInLine ==
  ASSUME AtLine, NEW e, IsNext(text, start, Newline, e),
         NEW a \in 1..Len(text), NEW b \in a..Len(text), b \in start..e, Entry(a, b)
  PROVE  InLine(e, a, b)
<1>1. Len(text) \in Nat /\ start \in Nat /\ start >= 1 /\ e \in start..(Len(text) + 1)
  BY LenProperties DEF AtLine, IsNext
<1>2. \A k \in start..(e - 1) : text[k] # Newline
  BY DEF IsNext
<1>3. e = Len(text) + 1 \/ text[e] = Newline
  BY DEF IsNext
<1>4. text[a] # Blank /\ text[b] # Blank /\ \A c \in a..b : text[c] # Newline
  BY DEF Entry
<1>5. b <= e - 1
  BY <1>1, <1>3, <1>4
<1>6. a >= start
  <2> SUFFICES ASSUME a < start PROVE FALSE
    BY <1>1
  <2>1. start - 1 \in a..b /\ start # 1
    BY <1>1
  <2> QED
    BY <1>4, <2>1 DEF AtLine
<1>7. ASSUME NEW c \in start..(a - 1) PROVE text[c] = Blank
  <2>1. PICK l \in 0..(a - 1) : (l = 0 \/ text[l] = Newline) /\ \A x \in (l + 1)..(a - 1) : text[x] = Blank
    BY DEF Entry
  <2>2. ~ (l >= start)
    BY <1>1, <1>2, <1>5, <2>1
  <2>3. c \in (l + 1)..(a - 1)
    BY <1>1, <2>2
  <2> QED
    BY <2>1, <2>3
<1>8. ASSUME NEW c \in (b + 1)..(e - 1) PROVE text[c] = Blank
  <2>1. PICK r \in (b + 1)..(Len(text) + 1) :
          (r = Len(text) + 1 \/ text[r] = Newline) /\ \A x \in (b + 1)..(r - 1) : text[x] = Blank
    BY DEF Entry
  <2>2. ~ (r <= e - 1)
    BY <1>1, <1>2, <1>6, <2>1
  <2>3. c \in (b + 1)..(r - 1)
    BY <1>1, <2>2
  <2> QED
    BY <2>1, <2>3
<1> QED
  BY <1>1, <1>4, <1>5, <1>6, <1>7, <1>8 DEF InLine

LEMMA LineHasEntry ==
  ASSUME AtLine, NEW e, IsNext(text, start, Newline, e), NEW a, NEW b, InLine(e, a, b)
  PROVE  a \in 1..Len(text) /\ b \in a..Len(text) /\ b \in start..e /\ Entry(a, b)
<1>1. Len(text) \in Nat /\ start \in Nat /\ start >= 1 /\ e \in start..(Len(text) + 1)
  BY LenProperties DEF AtLine, IsNext
<1>2. a \in start..(e - 1) /\ b \in a..(e - 1) /\ text[a] # Blank /\ text[b] # Blank
  BY DEF InLine
<1>3. a \in 1..Len(text) /\ b \in a..Len(text) /\ b \in start..e
  BY <1>1, <1>2
<1>4. ASSUME NEW c \in a..b PROVE text[c] # Newline
  <2>1. c \in start..(e - 1)
    BY <1>1, <1>2
  <2> QED
    BY <2>1 DEF IsNext
<1>5. \E l \in 0..(a - 1) : (l = 0 \/ text[l] = Newline) /\ \A c \in (l + 1)..(a - 1) : text[c] = Blank
  <2>1. start - 1 \in 0..(a - 1) /\ (start - 1) + 1 = start
    BY <1>1, <1>2
  <2>2. start - 1 = 0 \/ text[start - 1] = Newline
    BY <1>1 DEF AtLine
  <2> QED
    BY <2>1, <2>2 DEF InLine
<1>6. \E r \in (b + 1)..(Len(text) + 1) :
        (r = Len(text) + 1 \/ text[r] = Newline) /\ \A c \in (b + 1)..(r - 1) : text[c] = Blank
  <2>1. e \in (b + 1)..(Len(text) + 1)
    BY <1>1, <1>2
  <2> QED
    BY <2>1 DEF InLine, IsNext
<1> QED
  BY <1>2, <1>3, <1>4, <1>5, <1>6 DEF Entry

LEMMA OneCore ==
  ASSUME AtLine, NEW e \in Nat, NEW a, NEW b, InLine(e, a, b), NEW x, NEW y, InLine(e, x, y)
  PROVE  x = a /\ y = b
<1>1. start \in Nat
  BY LenProperties DEF AtLine
<1>2. a \in start..(e - 1) /\ b \in a..(e - 1) /\ x \in start..(e - 1) /\ y \in x..(e - 1)
  BY DEF InLine
<1>3. ~ a < x /\ ~ x < a
  <2>1. a < x => a \in start..(x - 1)
    BY <1>1, <1>2
  <2>2. x < a => x \in start..(a - 1)
    BY <1>1, <1>2
  <2> QED
    BY <2>1, <2>2 DEF InLine
<1>4. ~ b < y /\ ~ y < b
  <2>1. b < y => y \in (b + 1)..(e - 1)
    BY <1>1, <1>2
  <2>2. y < b => b \in (y + 1)..(e - 1)
    BY <1>1, <1>2
  <2> QED
    BY <2>1, <2>2 DEF InLine
<1> QED
  BY <1>1, <1>2, <1>3, <1>4

\* What is left of the line is its core.
LEMMA TrimmedLine ==
  ASSUME AtLine, NEW e, IsNext(text, start, Newline, e),
         NEW entry, entry = Trimmed(SubSeq(text, start, e - 1))
  PROVE  \/ entry = <<>> /\ \A a, b : ~ InLine(e, a, b)
         \/ \E a, b : /\ InLine(e, a, b) /\ entry = SubSeq(text, a, b)
                      /\ entry # <<>> /\ entry[1] = text[a]
<1> DEFINE y == e - 1
           line == SubSeq(text, start, y)
<1>1. Len(text) \in Nat /\ start \in Nat /\ start >= 1 /\ e \in start..(Len(text) + 1) /\ text \in Seq(Char)
  BY LenProperties DEF AtLine, IsNext
<1>2. y \in (start - 1)..Len(text) /\ start \in 1..(Len(text) + 1)
  BY <1>1
<1> HIDE DEF y
<1>3. IsPart(line, text, start, y) /\ line \in Seq(Char)
  <2>1. IsPart(line, text, start, y)
    BY <1>1, <1>2, SubSeqIs
  <2>2. line \in Seq(Char)
    BY <1>1, <1>2, SubSeqProperties
  <2> QED
    BY <2>1, <2>2
<1>4. entry = Trimmed(line)
  BY DEF y
<1> HIDE DEF line
<1>5. Len(line) = y - start + 1 /\ \A k \in 1..(y - start + 1) : line[k] = text[start + k - 1]
  BY <1>3 DEF IsPart
<1>6. ASSUME NEW c \in start..y PROVE (c - start + 1) \in 1..Len(line) /\ line[c - start + 1] = text[c]
  <2> DEFINE k == c - start + 1
  <2>1. k \in 1..(y - start + 1) /\ start + k - 1 = c
    BY <1>1, <1>2
  <2> HIDE DEF k
  <2>2. k \in 1..Len(line) /\ line[k] = text[c]
    BY <1>5, <2>1
  <2> QED
    BY <2>2 DEF k
<1>7. CASE Trimmed(line) = <<>> /\ \A c \in 1..Len(line) : line[c] = Blank
  <2>1. ASSUME NEW a, NEW b, InLine(e, a, b) PROVE FALSE
    <3>1. a \in start..y /\ text[a] # Blank
      BY <2>1 DEF InLine, y
    <3> QED
      BY <1>6, <1>7, <3>1
  <2> QED
    BY <1>4, <1>7, <2>1
<1>8. CASE \E a, b : Core(line, a, b) /\ Trimmed(line) = SubSeq(line, a, b)
  <2>1. PICK a, b : Core(line, a, b) /\ Trimmed(line) = SubSeq(line, a, b)
    BY <1>8
  <2> DEFINE a1 == start + a - 1
             b1 == start + b - 1
  <2>2. a \in 1..Len(line) /\ b \in a..Len(line) /\ line[a] # Blank /\ line[b] # Blank
    BY <2>1 DEF Core
  <2>3. a1 \in start..y /\ b1 \in a1..y /\ a1 - start + 1 = a /\ b1 - start + 1 = b /\ b1 \in start..y
    BY <1>1, <1>2, <1>5, <2>2
  <2> HIDE DEF a1, b1
  <2>4. text[a1] = line[a] /\ text[b1] = line[b]
    BY <1>6, <2>3
  <2>5. ASSUME NEW c \in start..(a1 - 1) PROVE text[c] = Blank
    <3>1. c \in start..y /\ (c - start + 1) \in 1..(a - 1)
      BY <1>1, <1>2, <2>2, <2>3
    <3>2. line[c - start + 1] = Blank
      BY <2>1, <3>1 DEF Core
    <3> QED
      BY <1>6, <3>1, <3>2
  <2>6. ASSUME NEW c \in (b1 + 1)..y PROVE text[c] = Blank
    <3>1. c \in start..y /\ (c - start + 1) \in (b + 1)..Len(line)
      BY <1>1, <1>2, <1>5, <2>2, <2>3
    <3>2. line[c - start + 1] = Blank
      BY <2>1, <3>1 DEF Core
    <3> QED
      BY <1>6, <3>1, <3>2
  <2>7. InLine(e, a1, b1)
    BY <2>2, <2>3, <2>4, <2>5, <2>6 DEF InLine, y
  <2>8. entry = SubSeq(text, a1, b1)
    <3>1. a \in 1..(y - start + 1) /\ b \in a..(y - start + 1)
      BY <1>5, <2>2
    <3>2. SubSeq(SubSeq(text, start, y), a, b) = SubSeq(text, start + a - 1, start + b - 1)
      BY <1>1, <1>2, <3>1, PartOfPart
    <3> QED
      BY <1>4, <2>1, <3>2 DEF line, a1, b1
  <2>9. IsPart(entry, text, a1, b1)
    <3>1. a1 \in 1..(Len(text) + 1) /\ b1 \in (a1 - 1)..Len(text)
      BY <1>1, <1>2, <2>3
    <3> QED
      BY <1>1, <2>8, <3>1, SubSeqIs
  <2>10. Len(entry) # 0 /\ entry[1] = text[a1]
    <3>1. 1 \in 1..(b1 - a1 + 1) /\ a1 + 1 - 1 = a1 /\ b1 - a1 + 1 # 0
      BY <1>1, <1>2, <2>3
    <3>2. entry[1] = text[a1 + 1 - 1] /\ Len(entry) = b1 - a1 + 1
      BY <2>9, <3>1 DEF IsPart
    <3> QED
      BY <3>1, <3>2
  <2>11. entry # <<>>
    BY <2>10
  <2> QED
    BY <2>7, <2>8, <2>10, <2>11
<1> QED
  BY <1>3, <1>7, <1>8, TrimmedIs

\* The paths of the entries that end before n.
Finds(n, z) ==
  /\ z # <<>>
  /\ \E a \in 1..Len(text) : \E b \in a..Len(text) :
       b < n /\ Entry(a, b) /\ text[a] # Hash /\ z = Normal(SubSeq(text, a, b))

\* The file is read line by line, and what a line names is found in it.
ListInv ==
  /\ text \in Seq(Char) /\ start \in 1..(Len(text) + 2)
  /\ start = 1 \/ start = Len(text) + 2 \/ text[start - 1] = Newline
  /\ \A z : z \in dels <=> Finds(start, z)

LEMMA LineFinds ==
  ASSUME AtLine, NEW e, IsNext(text, start, Newline, e),
         NEW entry, entry = Trimmed(SubSeq(text, start, e - 1)), NEW z
  PROVE  Finds(e + 1, z) <=>
           \/ Finds(start, z)
           \/ entry # <<>> /\ entry[1] # Hash /\ z = Normalize(entry) /\ z # <<>>
<1>1. Len(text) \in Nat /\ start \in Nat /\ start >= 1 /\ e \in start..(Len(text) + 1) /\ text \in Seq(Char)
  BY LenProperties DEF AtLine, IsNext
<1> DEFINE Here == \E a \in 1..Len(text) : \E b \in a..Len(text) :
                     b \in start..e /\ Entry(a, b) /\ text[a] # Hash /\ z = Normal(SubSeq(text, a, b))
<1>2. Finds(e + 1, z) <=> Finds(start, z) \/ (z # <<>> /\ Here)
  <2>1. \A a \in 1..Len(text) : \A b \in a..Len(text) : b < e + 1 <=> b < start \/ b \in start..e
    BY <1>1
  <2> QED
    BY <2>1 DEF Finds
<1>3. CASE entry = <<>> /\ \A a, b : ~ InLine(e, a, b)
  <2>1. ~ Here
    BY <1>3, EntryInLine
  <2> HIDE DEF Here
  <2> QED
    BY <1>2, <1>3, <2>1
<1>4. CASE \E a, b : InLine(e, a, b) /\ entry = SubSeq(text, a, b) /\ entry # <<>> /\ entry[1] = text[a]
  <2>1. PICK a, b : InLine(e, a, b) /\ entry = SubSeq(text, a, b) /\ entry # <<>> /\ entry[1] = text[a]
    BY <1>4
  <2>2. a \in 1..Len(text) /\ b \in a..Len(text) /\ b \in start..e /\ Entry(a, b)
    BY <2>1, LineHasEntry
  <2>3. Normalize(entry) = Normal(entry)
    <3>1. entry \in Seq(Char)
      <4>1. a \in 1..(Len(text) + 1) /\ b \in (a - 1)..Len(text)
        BY <1>1, <2>2
      <4>2. SubSeq(text, a, b) \in Seq(Char)
        BY <1>1, <4>1, SubSeqProperties
      <4> QED
        BY <2>1, <4>2
    <3> QED
      BY <3>1, NormalizeIsNormal
  <2>4. Here <=> entry[1] # Hash /\ z = Normalize(entry)
    <3>1. ASSUME Here PROVE entry[1] # Hash /\ z = Normalize(entry)
      <4>1. PICK x \in 1..Len(text) : \E y \in x..Len(text) :
              y \in start..e /\ Entry(x, y) /\ text[x] # Hash /\ z = Normal(SubSeq(text, x, y))
        BY <3>1
      <4>2. PICK y \in x..Len(text) :
              y \in start..e /\ Entry(x, y) /\ text[x] # Hash /\ z = Normal(SubSeq(text, x, y))
        BY <4>1
      <4> HIDE DEF Here
      <4>3. InLine(e, x, y)
        BY <4>2, EntryInLine
      <4>4. e \in Nat
        BY <1>1
      <4>5. x = a /\ y = b
        BY <2>1, <4>3, <4>4, OneCore
      <4> QED
        BY <2>1, <2>3, <4>2, <4>5
    <3>2. ASSUME entry[1] # Hash, z = Normalize(entry) PROVE Here
      <4>1. text[a] # Hash /\ z = Normal(SubSeq(text, a, b))
        BY <2>1, <2>3, <3>2
      <4> QED
        BY <2>2, <4>1
    <3> HIDE DEF Here
    <3> QED
      BY <3>1, <3>2
  <2> HIDE DEF Here
  <2> QED
    BY <1>2, <2>1, <2>4
<1> HIDE DEF Here
<1> QED
  BY <1>3, <1>4, TrimmedLine

LEMMA NamesAreSeqs ==
  ASSUME NEW n \in Name
  PROVE  n \in Seq(Char) /\ n # <<>> /\ Normalize(n) = n
<1>1. PICK s \in BoundedSeq(Char, MaxName) : n = Normalize(s) /\ n # <<>>
  BY DEF Name
<1>2. s \in Seq(Char)
  BY DeletionListAssumption DEF BoundedSeq, SeqOf
<1>3. n \in Seq(ToSet(s) \cup {Slash})
  BY <1>1, <1>2, NormalizeIsNormal
<1>4. Normalize(n) = n
  BY <1>1, <1>2, NormalizeAgain
<1>5. ToSet(s) \cup {Slash} \subseteq Char
  BY <1>2 DEF ToSet, Char
<1>6. n \in Seq(Char)
  BY <1>3, <1>5
<1> QED
  BY <1>1, <1>4, <1>6

\* What diff writes, a path and a newline each.
Lines(ns) == [k \in DOMAIN ns |-> Append(ns[k], Newline)]

LEMMA LinesAreSeqs ==
  ASSUME NEW n \in Nat, NEW ns \in [1..n -> Name]
  PROVE  /\ Lines(ns) \in [1..n -> Seq(Char)]
         /\ \A k \in 1..n : Len(Lines(ns)[k]) = Len(ns[k]) + 1
<1>1. ASSUME NEW k \in 1..n PROVE Append(ns[k], Newline) \in Seq(Char) /\ Len(Append(ns[k], Newline)) = Len(ns[k]) + 1
  <2>1. ns[k] \in Seq(Char)
    BY NamesAreSeqs
  <2>2. Newline \in Char
    BY DEF Char
  <2> QED
    BY <2>1, <2>2, AppendProperties
<1> QED
  BY <1>1 DEF Lines

LEMMA WrittenIsText ==
  ASSUME NEW n \in Nat, NEW ns \in [1..n -> Name]
  PROVE  Written(ns) \in Seq(Char)
<1>1. Lines(ns) \in [1..n -> Seq(Char)]
  BY LinesAreSeqs
<1>2. Written(ns) = FlattenSeq(Lines(ns))
  BY DEF Written, Lines
<1> QED
  BY <1>1, <1>2, FlattenPieces

LEMMA InitLists ==
  ASSUME ListInit
  PROVE  ListInv
<1>1. text \in Seq(Char)
  <2>1. CASE names \in BoundedSeq(Name, MaxNames) /\ text = Written(names)
    <3>1. PICK n \in 0..MaxNames : names \in [1..n -> Name]
      BY <2>1 DEF BoundedSeq, SeqOf
    <3> QED
      BY <2>1, <3>1, DeletionListAssumption, WrittenIsText
  <2>2. CASE text \in BoundedSeq(Char, MaxLen)
    BY <2>2, DeletionListAssumption DEF BoundedSeq, SeqOf
  <2> QED
    BY <2>1, <2>2 DEF ListInit
<1>2. start = 1 /\ dels = {} /\ Len(text) \in Nat
  BY <1>1, LenProperties DEF ListInit
<1>3. \A z : ~ Finds(start, z)
  BY <1>2 DEF Finds
<1> QED
  BY <1>1, <1>2, <1>3 DEF ListInv

LEMMA LineLists ==
  ASSUME ListInv, Line
  PROVE  ListInv'
<1>1. text' = text /\ start <= Len(text) + 1 /\ start' = LineEnd + 1
  BY DEF Line, More, NextLine
<1>2. AtLine /\ Len(text) \in Nat
  BY <1>1, LenProperties DEF ListInv, AtLine
<1> DEFINE e == LineEnd
           entry == Trimmed(SubSeq(text, start, e - 1))
<1>3. IsNext(text, start, Newline, e)
  BY <1>2, LineEndIs DEF AtLine
<1>4. dels' = IF entry = <<>> \/ entry[1] = Hash THEN dels ELSE dels \union ({Normalize(entry)} \ {<<>>})
  BY DEF Line
<1>5. \A z : Finds(e + 1, z) <=>
               \/ Finds(start, z)
               \/ entry # <<>> /\ entry[1] # Hash /\ z = Normalize(entry) /\ z # <<>>
  <2>1. entry = Trimmed(SubSeq(text, start, e - 1))
    OBVIOUS
  <2> HIDE DEF entry, e
  <2> QED
    BY <1>2, <1>3, <2>1, LineFinds
<1> HIDE DEF entry, e
<1>6. ASSUME NEW z PROVE z \in dels' <=> Finds(e + 1, z)
  <2>1. z \in dels <=> Finds(start, z)
    BY DEF ListInv
  <2>2. z \in dels' <=> z \in dels \/ (entry # <<>> /\ entry[1] # Hash /\ z = Normalize(entry) /\ z # <<>>)
    BY <1>4
  <2> QED
    BY <1>5, <2>1, <2>2
<1>7. \A z : Finds(start, z)' <=> Finds(e + 1, z)
  BY <1>1 DEF Finds, Entry, e
<1>8. start' \in 1..(Len(text) + 2) /\ (start' = Len(text) + 2 \/ text[start' - 1] = Newline)
  <2>1. start' = e + 1 /\ e \in start..(Len(text) + 1) /\ start \in Nat
    BY <1>1, <1>2, <1>3 DEF IsNext, AtLine, e
  <2>2. start' \in 1..(Len(text) + 2) /\ start' - 1 = e
    BY <1>2, <2>1
  <2>3. e = Len(text) + 1 => start' = Len(text) + 2
    BY <1>2, <2>1
  <2> QED
    BY <1>3, <2>2, <2>3 DEF IsNext
<1>9. (\A z : z \in dels <=> Finds(start, z))'
  BY <1>6, <1>7
<1> QED
  BY <1>1, <1>8, <1>9 DEF ListInv

LEMMA StutterLists ==
  ASSUME ListInv, UNCHANGED listVars
  PROVE  ListInv'
<1>1. text' = text /\ start' = start /\ dels' = dels
  BY DEF listVars
<1> QED
  BY <1>1 DEF ListInv, Finds, Entry

LEMMA ListsInv == ListSpec => []ListInv
<1>1. ListInv /\ [Line]_listVars => ListInv'
  BY LineLists, StutterLists
<1> QED
  BY <1>1, InitLists, PTL DEF ListSpec

\* A path that normalize_path (src/src/index.cpp) has normalized is taken back as it
\* is, by every call that is given it: add, get, del and the paths of a merge.
THEOREM NamesAreNormal == ListSpec => []NormalName
<1>1. ListInv => NormalName
  BY NormalizeIsNormal, NormalizeAgain DEF ListInv, NormalName
<1> QED
  BY <1>1, ListsInv, PTL

\* Whatever bytes a .spkdel has, Pack::merge deletes the paths that its lines name,
\* and no other: no line is skipped and no character of one is lost at its edge.
THEOREM ListsNameTheirEntries == ListSpec => []DelsAreTheEntries
<1>1. ASSUME ListInv, ~ More PROVE dels = {Normal(SubSeq(text, x[1], x[2])) : x \in
              {y \in (1..Len(text)) \X (1..Len(text)) :
                 y[1] <= y[2] /\ Entry(y[1], y[2]) /\ text[y[1]] # Hash}} \ {<<>>}
  <2>1. Len(text) \in Nat /\ start \in 1..(Len(text) + 2) /\ start > Len(text) + 1
    BY <1>1, LenProperties DEF ListInv, More
  <2> DEFINE P == {y \in (1..Len(text)) \X (1..Len(text)) :
                     y[1] <= y[2] /\ Entry(y[1], y[2]) /\ text[y[1]] # Hash}
  <2>2. ASSUME NEW z, Finds(start, z)
        PROVE  z \in {Normal(SubSeq(text, x[1], x[2])) : x \in P} \ {<<>>}
    <3>1. PICK a \in 1..Len(text) : \E b \in a..Len(text) :
            Entry(a, b) /\ text[a] # Hash /\ z = Normal(SubSeq(text, a, b)) /\ z # <<>>
      BY <2>2 DEF Finds
    <3>2. PICK b \in a..Len(text) :
            Entry(a, b) /\ text[a] # Hash /\ z = Normal(SubSeq(text, a, b)) /\ z # <<>>
      BY <3>1
    <3>3. b \in 1..Len(text) /\ a <= b
      BY <2>1
    <3>4. <<a, b>> \in P
      BY <3>2, <3>3
    <3> QED
      BY <3>2, <3>4
  <2>3. ASSUME NEW z \in {Normal(SubSeq(text, x[1], x[2])) : x \in P}, z # <<>>
        PROVE  Finds(start, z)
    <3>1. PICK x \in P : z = Normal(SubSeq(text, x[1], x[2]))
      BY <2>3
    <3>2. x[1] \in 1..Len(text) /\ x[2] \in 1..Len(text) /\ x[1] <= x[2] /\ Entry(x[1], x[2]) /\ text[x[1]] # Hash
      OBVIOUS
    <3>3. x[2] \in x[1]..Len(text) /\ x[2] < start
      BY <2>1, <3>2
    <3> QED
      BY <2>3, <3>1, <3>2, <3>3 DEF Finds
  <2> HIDE DEF P
  <2>4. \A z : z \in dels <=> Finds(start, z)
    BY <1>1 DEF ListInv
  <2>5. dels = {Normal(SubSeq(text, x[1], x[2])) : x \in P} \ {<<>>}
    BY <2>2, <2>3, <2>4 DEF Finds
  <2> QED
    BY <2>5 DEF P
<1>2. ListInv => DelsAreTheEntries
  BY <1>1 DEF DelsAreTheEntries
<1> QED
  BY <1>2, ListsInv, PTL

LEMMA PlainIsTrimmed ==
  ASSUME NEW n \in Name, Plain(n)
  PROVE  Trimmed(n) = n /\ n[1] # Hash
<1>1. n \in Seq(Char) /\ n # <<>> /\ Len(n) \in Nat /\ DOMAIN n = 1..Len(n)
  BY NamesAreSeqs, LenProperties
<1>2. Len(n) # 0
  BY <1>1, EmptySeq
<1>3. 1 \in 1..Len(n) /\ Len(n) \in 1..Len(n)
  BY <1>1, <1>2
<1>4. n[1] # Blank /\ n[1] # Hash /\ n[Len(n)] # Blank
  BY DEF Plain
<1>5. PICK a, b : Core(n, a, b) /\ Trimmed(n) = SubSeq(n, a, b)
  BY <1>1, <1>3, <1>4, TrimmedIs
<1>6. a \in 1..Len(n) /\ b \in a..Len(n)
  BY <1>5 DEF Core
<1>7. a = 1
  <2>1. a # 1 => 1 \in 1..(a - 1)
    BY <1>1, <1>6
  <2> QED
    BY <1>4, <1>5, <2>1 DEF Core
<1>8. b = Len(n)
  <2>1. b \in Nat /\ b <= Len(n)
    BY <1>1, <1>6
  <2> DEFINE last == Len(n)
  <2>2. last \in Nat /\ b <= last /\ n[last] # Blank
    BY <1>1, <1>4, <2>1
  <2>3. \A c \in (b + 1)..last : n[c] = Blank
    BY <1>5 DEF Core
  <2> HIDE DEF last
  <2>4. b # last => last \in (b + 1)..last
    BY <2>1, <2>2
  <2>5. b = last
    BY <2>2, <2>3, <2>4
  <2> QED
    BY <2>5 DEF last
<1> DEFINE y == Len(n)
           t == SubSeq(n, 1, y)
<1>9. IsPart(t, n, 1, y)
  <2>1. 1 \in 1..(Len(n) + 1) /\ y \in (1 - 1)..Len(n)
    BY <1>1
  <2> HIDE DEF y
  <2> QED
    BY <1>1, <2>1, SubSeqIs
<1>10. y - 1 + 1 = y /\ \A k \in 1..y : 1 + k - 1 = k
  BY <1>1
<1>11. n = [k \in 1..y |-> n[k]]
  BY <1>1
<1> HIDE DEF y, t
<1>12. t = [k \in 1..y |-> n[1 + k - 1]]
  BY <1>9, <1>10 DEF IsPart
<1>13. t = n
  BY <1>10, <1>11, <1>12
<1> QED
  BY <1>4, <1>5, <1>7, <1>8, <1>13 DEF t, y

\* The paths of the lines read so far, of the list ns whose lines end at at.
Stage(ns, n, at) ==
  /\ n \in Nat /\ ns \in [1..n -> Name] /\ \A k \in 1..n : Plain(ns[k])
  /\ text \in Seq(Char) /\ text = FlattenSeq(Lines(ns)) /\ Pieces(Lines(ns), Char, n, at)
  /\ \/ start = Len(text) + 2 /\ dels = {ns[k] : k \in 1..n}
     \/ \E m \in 0..n : start = at[m] + 1 /\ dels = {ns[k] : k \in 1..m}

PlainInv ==
  names # ByHand /\ (\A x \in ToSet(names) : Plain(x)) => \E n, at : Stage(names, n, at)

\* The lines of the list are its paths.
LEMMA LineIsName ==
  ASSUME NEW ns, NEW n, NEW at, Stage(ns, n, at), NEW m \in 0..(n - 1), start = at[m] + 1
  PROVE  /\ LineEnd = at[m + 1] /\ start <= Len(text) + 1
         /\ SubSeq(text, start, LineEnd - 1) = ns[m + 1]
<1> DEFINE q == m + 1
           x == ns[q]
           f == at[m]
           w == Len(x)
<1>1. n \in Nat /\ q \in 1..n /\ q - 1 = m
  BY DEF Stage
<1>2. x \in Name /\ Plain(x) /\ ns \in [1..n -> Name]
  BY <1>1 DEF Stage
<1>3. x \in Seq(Char) /\ w \in Nat /\ DOMAIN x = 1..w
  BY <1>2, NamesAreSeqs, LenProperties
<1>4. PieceIs(Lines(ns), at, q)
  BY <1>1, PieceAt DEF Stage
<1>5. Lines(ns)[q] = Append(x, Newline) /\ Len(Lines(ns)[q]) = w + 1
  <2>1. Lines(ns)[q] = Append(x, Newline)
    BY <1>1, <1>2 DEF Lines
  <2> QED
    BY <1>3, <2>1, AppendProperties
<1>6. f \in Nat /\ at[q] = f + (w + 1) /\ \A i \in 1..(w + 1) : text[f + i] = Append(x, Newline)[i]
  BY <1>1, <1>4, <1>5 DEF PieceIs, Stage
<1>7. at[q] <= Len(text) /\ Len(text) \in Nat /\ text \in Seq(Char)
  <2>1. q \in 0..n
    BY <1>1
  <2>2. text \in Seq(Char) /\ at[q] <= Len(text)
    BY <2>1 DEF Stage, Pieces
  <2> QED
    BY <2>2, LenProperties
<1>8. (\A i \in 1..w : Append(x, Newline)[i] = x[i]) /\ Append(x, Newline)[w + 1] = Newline
  BY <1>3, AppendProperties
<1>9. \A i \in 1..w : x[i] # Newline
  BY <1>2, <1>3 DEF Plain
<1> HIDE DEF q, x, f, w
<1>10. start = f + 1 /\ start \in 1..(Len(text) + 1)
  BY <1>3, <1>6, <1>7 DEF f
<1>11. IsNext(text, start, Newline, LineEnd)
  BY <1>7, <1>10, LineEndIs
<1> DEFINE e == LineEnd
<1> HIDE DEF e
<1>12. e \in start..(Len(text) + 1) /\ (\A k \in start..(e - 1) : text[k] # Newline) /\ (e = Len(text) + 1 \/ text[e] = Newline)
  BY <1>11 DEF IsNext, e
<1>13. text[f + (w + 1)] = Newline
  <2>1. w + 1 \in 1..(w + 1)
    BY <1>3
  <2> QED
    BY <1>6, <1>8, <2>1
<1>14. ASSUME NEW i \in 1..w PROVE text[f + i] = x[i]
  <2>1. i \in 1..(w + 1)
    BY <1>3
  <2> QED
    BY <1>6, <1>8, <2>1
<1>15. e = f + (w + 1)
  <2>1. ~ f + (w + 1) <= e - 1
    <3>1. f + (w + 1) <= e - 1 => f + (w + 1) \in start..(e - 1)
      BY <1>3, <1>6, <1>10, <1>12
    <3> QED
      BY <1>12, <1>13, <3>1
  <2>2. ~ e <= f + w
    <3> SUFFICES ASSUME e <= f + w PROVE FALSE
      OBVIOUS
    <3>1. e - f \in 1..w /\ f + (e - f) = e /\ e # Len(text) + 1
      BY <1>3, <1>6, <1>7, <1>10, <1>12
    <3>2. text[e] = x[e - f]
      BY <1>14, <3>1
    <3> QED
      BY <1>9, <1>12, <3>1, <3>2
  <2> QED
    BY <1>3, <1>6, <1>7, <1>12, <2>1, <2>2
<1> DEFINE y == e - 1
           t == SubSeq(text, start, y)
<1>16. start \in 1..(Len(text) + 1) /\ y \in (start - 1)..Len(text) /\ y - start + 1 = w
  BY <1>3, <1>6, <1>7, <1>10, <1>12, <1>15
<1> HIDE DEF y, t
<1>17. IsPart(t, text, start, y)
  BY <1>7, <1>16, SubSeqIs DEF t
<1>18. t = [k \in 1..w |-> text[start + k - 1]]
  BY <1>16, <1>17 DEF IsPart
<1>19. ASSUME NEW k \in 1..w PROVE text[start + k - 1] = x[k]
  <2>1. start + k - 1 = f + k
    BY <1>6, <1>10
  <2> QED
    BY <1>14, <2>1
<1>20. x = [k \in 1..w |-> x[k]]
  BY <1>3 DEF w
<1>21. t = x
  BY <1>18, <1>19, <1>20
<1> QED
  BY <1>6, <1>10, <1>15, <1>21 DEF t, y, e, x, q

LEMMA PlainLine ==
  ASSUME NEW ns, NEW n, NEW at, Stage(ns, n, at), Line
  PROVE  Stage(ns, n, at)'
<1>1. text' = text /\ start <= Len(text) + 1 /\ start' = LineEnd + 1
  BY DEF Line, More, NextLine
<1> DEFINE entry == Trimmed(SubSeq(text, start, LineEnd - 1))
<1>2. dels' = IF entry = <<>> \/ entry[1] = Hash THEN dels ELSE dels \union ({Normalize(entry)} \ {<<>>})
  BY DEF Line
<1>3. n \in Nat /\ Len(text) \in Nat /\ text \in Seq(Char) /\ ns \in [1..n -> Name]
  BY LenProperties DEF Stage
<1>4. start # Len(text) + 2
  BY <1>1, <1>3
<1>5. PICK m \in 0..n : start = at[m] + 1 /\ dels = {ns[k] : k \in 1..m}
  BY <1>4 DEF Stage
<1> HIDE DEF entry
<1>6. CASE m < n
  <2> DEFINE q == m + 1
  <2>1. q \in 1..n /\ q \in 0..n /\ m \in 0..(n - 1)
    BY <1>3, <1>6
  <2>7. 1..q = (1..m) \cup {q}
    <3>1. m \in Nat
      BY <1>3, <2>1
    <3> QED
      BY <3>1
  <2>2. LineEnd = at[q] /\ SubSeq(text, start, LineEnd - 1) = ns[q]
    BY <1>5, <2>1, LineIsName
  <2> HIDE DEF q
  <2>3. ns[q] \in Name /\ Plain(ns[q])
    BY <1>3, <2>1 DEF Stage
  <2>4. entry = ns[q] /\ ns[q] # <<>> /\ ns[q][1] # Hash /\ Normalize(ns[q]) = ns[q]
    BY <2>2, <2>3, PlainIsTrimmed, NamesAreSeqs DEF entry
  <2>5. dels' = dels \cup {ns[q]}
    BY <1>2, <2>4
  <2>6. start' = at[q] + 1 /\ dels' = {ns[k] : k \in 1..q}
    BY <1>1, <1>5, <2>7, <2>2, <2>5
  <2> QED
    BY <1>1, <2>1, <2>6 DEF Stage
<1>7. CASE m = n
  <2>1. start = Len(text) + 1
    BY <1>5, <1>7 DEF Stage, Pieces
  <2>2. IsNext(text, start, Newline, LineEnd)
    BY <1>3, <2>1, LineEndIs
  <2>3. LineEnd = Len(text) + 1
    BY <1>3, <2>1, <2>2 DEF IsNext
  <2>4. entry = <<>>
    <3> DEFINE t == SubSeq(text, start, LineEnd - 1)
    <3>1. start \in Int /\ LineEnd - 1 \in Int /\ LineEnd - 1 < start
      BY <1>3, <2>1, <2>3
    <3>2. t \in Seq(Char) /\ Len(t) = 0
      BY <3>1, SubSeqProperties
    <3> HIDE DEF t
    <3>3. \A a, b : ~ Core(t, a, b)
      BY <3>2 DEF Core
    <3>4. Trimmed(t) = <<>>
      BY <3>2, <3>3, TrimmedIs
    <3> QED
      BY <3>4 DEF entry, t
  <2>5. start' = Len(text) + 2 /\ dels' = {ns[k] : k \in 1..n}
    BY <1>1, <1>2, <1>3, <1>5, <1>7, <2>3, <2>4
  <2> QED
    BY <1>1, <2>5 DEF Stage
<1> QED
  BY <1>3, <1>6, <1>7

LEMMA InitPlain ==
  ASSUME ListInit
  PROVE  PlainInv
<1> SUFFICES ASSUME names # ByHand, \A x \in ToSet(names) : Plain(x)
             PROVE  \E n, at : Stage(names, n, at)
  BY DEF PlainInv
<1>1. names \in BoundedSeq(Name, MaxNames) /\ text = Written(names) /\ start = 1 /\ dels = {}
  BY DEF ListInit
<1>2. PICK n \in 0..MaxNames : names \in [1..n -> Name]
  BY <1>1 DEF BoundedSeq, SeqOf
<1>3. n \in Nat
  BY DeletionListAssumption
<1>4. Lines(names) \in [1..n -> Seq(Char)]
  BY <1>2, <1>3, LinesAreSeqs
<1>5. text = FlattenSeq(Lines(names)) /\ text \in Seq(Char)
  <2>1. text = FlattenSeq(Lines(names))
    BY <1>1 DEF Written, Lines
  <2> QED
    BY <1>3, <1>4, <2>1, FlattenPieces
<1>6. PICK at : Pieces(Lines(names), Char, n, at)
  BY <1>3, <1>4, FlattenPieces
<1>7. \A k \in 1..n : Plain(names[k])
  BY <1>2 DEF ToSet
<1>8. 0 \in 0..n /\ start = at[0] + 1 /\ dels = {names[k] : k \in 1..0}
  BY <1>1, <1>3, <1>6 DEF Pieces
<1> QED
  BY <1>2, <1>3, <1>5, <1>6, <1>7, <1>8 DEF Stage

\* Pack::merge deletes what diff found deleted, however many paths there are, if each
\* is plain: what DiffAndMerge of OverlayProofs assumes of one line is so of the list.
THEOREM ListsOfPlainNamesSurvive == ListSpec => []PlainNamesSurvive
<1>1. PlainInv /\ [Line]_listVars => PlainInv'
  <2> SUFFICES ASSUME PlainInv, [Line]_listVars, names' # ByHand, \A x \in ToSet(names') : Plain(x)
               PROVE  \E n, at : Stage(names, n, at)'
    BY DEF PlainInv, Stage
  <2>1. names' = names
    BY DEF Line, listVars
  <2>2. PICK n, at : Stage(names, n, at)
    BY <2>1 DEF PlainInv
  <2>3. CASE Line
    BY <2>1, <2>2, <2>3, PlainLine, SMTT(20) DEF Stage
  <2>4. CASE UNCHANGED listVars
    <3>1. text' = text /\ start' = start /\ dels' = dels
      BY <2>4 DEF listVars
    <3> QED
      BY <2>1, <2>2, <3>1 DEF Stage
  <2> QED
    BY <2>3, <2>4
<1>2. ListInv /\ PlainInv => PlainNamesSurvive
  <2> SUFFICES ASSUME ListInv, PlainInv, names # ByHand, ~ More, \A x \in ToSet(names) : Plain(x)
               PROVE  dels = ToSet(names)
    BY DEF PlainNamesSurvive
  <2>1. PICK n, at : Stage(names, n, at)
    BY DEF PlainInv
  <2>2. n \in Nat /\ Len(text) \in Nat /\ names \in [1..n -> Name]
    BY <2>1, LenProperties DEF Stage
  <2>3. ToSet(names) = {names[k] : k \in 1..n}
    BY <2>2 DEF ToSet
  <2>4. ASSUME NEW m \in 0..n, start = at[m] + 1 PROVE FALSE
    <3>1. at[m] \in Nat /\ at[m] <= Len(text)
      BY <2>1 DEF Stage, Pieces
    <3> QED
      BY <2>2, <2>4, <3>1 DEF More
  <2> QED
    BY <2>1, <2>3, <2>4 DEF Stage
<1> QED
  BY <1>1, <1>2, InitPlain, ListsInv, PTL DEF ListSpec

=============================================================================

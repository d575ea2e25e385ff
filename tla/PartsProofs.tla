----------------------------- MODULE PartsProofs -----------------------------
(***************************************************************************)
(* Theorems about Manifest, Transfer, KdfHeader, CApi and WebRekey, for     *)
(* indexes, buffers, byte counts, integer widths and numbers of handles,   *)
(* clients and passwords of any size.                                      *)
(***************************************************************************)
EXTENDS NameProofs, Manifest, Transfer, KdfHeader, CApi, WebRekey

-----------------------------------------------------------------------------
(* Manifest: where serialize puts what.                                    *)

Hashes(i) == SetToSeq(DOMAIN i.blobs)
Names(i) == SetToSeq(DOMAIN i.paths)
NumBlobs(i) == Len(Hashes(i))
NumPaths(i) == Len(Names(i))

\* The entry of path k begins after at[k - 1].
Layout(i, w, at) ==
  /\ w[1] = kIndexMagic
  /\ w[2] = NumBlobs(i)
  /\ \A k \in 1..NumBlobs(i) :
       /\ w[5 * k - 2] = Hashes(i)[k]
       /\ \A j \in 1..4 : w[5 * k - 2 + j] = i.blobs[Hashes(i)[k]][j]
  /\ w[5 * NumBlobs(i) + 3] = NumPaths(i)
  /\ at \in [0..NumPaths(i) -> Nat]
  /\ at[0] = 5 * NumBlobs(i) + 3 /\ at[NumPaths(i)] = Len(w)
  /\ \A k \in 0..NumPaths(i) : at[k] <= Len(w)
  /\ \A k \in 1..NumPaths(i) :
       /\ at[k] = at[k - 1] + Len(Names(i)[k]) + 3
       /\ w[at[k - 1] + 1] = Len(Names(i)[k])
       /\ \A j \in 1..Len(Names(i)[k]) : w[at[k - 1] + 1 + j] = Names(i)[k][j]
       /\ \A j \in 1..2 :
            w[at[k - 1] + 1 + Len(Names(i)[k]) + j] = i.paths[Names(i)[k]][j]

\* The parts of an index are sequences of numbers.
LEMMA IndexParts ==
  ASSUME NEW i, IsIndex(i), SizeMax \in Nat
  PROVE  /\ NumBlobs(i) \in Nat /\ NumPaths(i) \in Nat
         /\ Hashes(i) \in [1..NumBlobs(i) -> DOMAIN i.blobs]
         /\ Names(i) \in [1..NumPaths(i) -> DOMAIN i.paths]
         /\ \A j, k \in 1..NumBlobs(i) : Hashes(i)[j] = Hashes(i)[k] => j = k
         /\ \A j, k \in 1..NumPaths(i) : Names(i)[j] = Names(i)[k] => j = k
         /\ \A x \in DOMAIN i.blobs : \E k \in 1..NumBlobs(i) : Hashes(i)[k] = x
         /\ \A x \in DOMAIN i.paths : \E k \in 1..NumPaths(i) : Names(i)[k] = x
<1>1. PICK n \in Nat :
        /\ Hashes(i) \in [1..n -> DOMAIN i.blobs]
        /\ \A j, k \in 1..n : Hashes(i)[j] = Hashes(i)[k] => j = k
        /\ \A x \in DOMAIN i.blobs : \E k \in 1..n : Hashes(i)[k] = x
  BY SetToSeqLists DEF IsIndex, Hashes
<1>2. PICK m \in Nat :
        /\ Names(i) \in [1..m -> DOMAIN i.paths]
        /\ \A j, k \in 1..m : Names(i)[j] = Names(i)[k] => j = k
        /\ \A x \in DOMAIN i.paths : \E k \in 1..m : Names(i)[k] = x
  BY SetToSeqLists DEF IsIndex, Names
<1>3. NumBlobs(i) = n /\ NumPaths(i) = m
  BY <1>1, <1>2 DEF NumBlobs, NumPaths
<1> QED
  BY <1>1, <1>2, <1>3

\* The entry of a blob is five cells.
LEMMA BlobEntryCells ==
  ASSUME NEW h \in Nat, NEW b \in [1..4 -> Nat], NEW u, u = Cat(<<h>>, b)
  PROVE  /\ u \in Seq(Nat) /\ Len(u) = 5
         /\ u[1] = h
         /\ \A j \in 1..4 : u[1 + j] = b[j]
<1> DEFINE l == <<h>>
<1>1. b \in Seq(Nat) /\ Len(b) = 4
  BY FunctionSeq
<1>2. l \in Seq(Nat) /\ Len(l) = 1 /\ l[1] = h
  BY OneSeq
<1>3. u = Cat(l, b)
  OBVIOUS
<1> HIDE DEF l
<1>4. u \in Seq(Nat) /\ Joins(u, l, b)
  BY <1>1, <1>2, <1>3, CatSeq
<1>5. Len(u) = 5
  BY <1>1, <1>2, <1>4 DEF Joins
<1>6. u[1] = h
  BY <1>2, <1>4 DEF Joins
<1>7. \A j \in 1..4 : u[1 + j] = b[j]
  BY <1>1, <1>2, <1>4 DEF Joins
<1> QED
  BY <1>4, <1>5, <1>6, <1>7

\* The entry of a path is its length, the path and two more.
LEMMA PathEntryCells ==
  ASSUME NEW nm \in Seq(Nat), NEW b \in [1..2 -> Nat], NEW u, u = Cat(Cat(<<Len(nm)>>, nm), b)
  PROVE  /\ u \in Seq(Nat) /\ Len(nm) \in Nat /\ Len(u) = Len(nm) + 3
         /\ u[1] = Len(nm)
         /\ \A j \in 1..Len(nm) : u[1 + j] = nm[j]
         /\ \A j \in 1..2 : u[1 + Len(nm) + j] = b[j]
<1> DEFINE l == <<Len(nm)>>
           t == Cat(l, nm)
<1>1. b \in Seq(Nat) /\ Len(b) = 2
  BY FunctionSeq
<1>2. Len(nm) \in Nat
  BY LenProperties
<1>3. l \in Seq(Nat) /\ Len(l) = 1 /\ l[1] = Len(nm)
  BY <1>2, OneSeq
<1>4. u = Cat(t, b)
  OBVIOUS
<1> HIDE DEF l
<1>5. t \in Seq(Nat) /\ Joins(t, l, nm)
  BY <1>3, CatSeq
<1> HIDE DEF t
<1>6. u \in Seq(Nat) /\ Joins(u, t, b)
  BY <1>1, <1>4, <1>5, CatSeq
<1>7. Len(t) = 1 + Len(nm) /\ t[1] = Len(nm) /\ \A j \in 1..Len(nm) : t[1 + j] = nm[j]
  <2>1. Len(t) = 1 + Len(nm)
    BY <1>3, <1>5 DEF Joins
  <2>2. t[1] = Len(nm)
    BY <1>3, <1>5 DEF Joins
  <2>3. \A j \in 1..Len(nm) : t[1 + j] = nm[j]
    BY <1>3, <1>5 DEF Joins
  <2> QED
    BY <2>1, <2>2, <2>3
<1>8. Len(u) = Len(nm) + 3 /\ \A j \in 1..(1 + Len(nm)) : u[j] = t[j]
  <2>1. Len(u) = Len(nm) + 3
    BY <1>1, <1>2, <1>6, <1>7 DEF Joins
  <2>2. \A j \in 1..(1 + Len(nm)) : u[j] = t[j]
    BY <1>6, <1>7 DEF Joins
  <2> QED
    BY <2>1, <2>2
<1>9. \A j \in 1..2 : u[1 + Len(nm) + j] = b[j]
  BY <1>1, <1>6, <1>7 DEF Joins
<1>10. u[1] = Len(nm) /\ \A j \in 1..Len(nm) : u[1 + j] = nm[j]
  BY <1>2, <1>7, <1>8, SMTT(20)
<1> QED
  BY <1>2, <1>6, <1>8, <1>9, <1>10

BlobCells(i) == FlattenSeq([k \in 1..NumBlobs(i) |-> BlobEntry(i, Hashes(i)[k])])
PathCells(i) == FlattenSeq([k \in 1..NumPaths(i) |-> PathEntry(i, Names(i)[k])])

\* Where the entries are in the part of the blobs, and in the part of the paths.
BlobLayout(i, f) ==
  /\ Len(f) = 5 * NumBlobs(i)
  /\ \A k \in 1..NumBlobs(i) :
       /\ f[5 * k - 4] = Hashes(i)[k]
       /\ \A j \in 1..4 : f[5 * k - 4 + j] = i.blobs[Hashes(i)[k]][j]

PathLayout(i, f, at) ==
  /\ at \in [0..NumPaths(i) -> Nat]
  /\ at[0] = 0 /\ at[NumPaths(i)] = Len(f)
  /\ \A k \in 0..NumPaths(i) : at[k] <= Len(f)
  /\ \A k \in 1..NumPaths(i) :
       /\ Len(Names(i)[k]) \in Nat
       /\ at[k] = at[k - 1] + Len(Names(i)[k]) + 3
       /\ f[at[k - 1] + 1] = Len(Names(i)[k])
       /\ \A j \in 1..Len(Names(i)[k]) : f[at[k - 1] + 1 + j] = Names(i)[k][j]
       /\ \A j \in 1..2 :
            f[at[k - 1] + 1 + Len(Names(i)[k]) + j] = i.paths[Names(i)[k]][j]

LEMMA BlobPart ==
  ASSUME NEW i, IsIndex(i), SizeMax \in Nat
  PROVE  BlobCells(i) \in Seq(Nat) /\ BlobLayout(i, BlobCells(i))
<1> DEFINE n == NumBlobs(i)
           hs == Hashes(i)
           ss == [k \in 1..n |-> BlobEntry(i, hs[k])]
           f == FlattenSeq(ss)
<1>1. n \in Nat /\ hs \in [1..n -> DOMAIN i.blobs]
  BY IndexParts
<1>2. ASSUME NEW k \in 1..n
      PROVE  /\ ss[k] \in Seq(Nat) /\ Len(ss[k]) = 5 /\ ss[k][1] = hs[k]
             /\ \A j \in 1..4 : ss[k][1 + j] = i.blobs[hs[k]][j]
  <2>1. hs[k] \in Nat /\ i.blobs[hs[k]] \in [1..4 -> Nat]
    BY <1>1 DEF IsIndex, Cell
  <2>2. ss[k] = Cat(<<hs[k]>>, i.blobs[hs[k]])
    BY DEF BlobEntry, Cat
  <2> DEFINE h == hs[k]
             b == i.blobs[h]
             u == ss[k]
  <2>3. h \in Nat /\ b \in [1..4 -> Nat] /\ u = Cat(<<h>>, b)
    BY <2>1, <2>2
  <2> HIDE DEF h, b, u
  <2>4. u \in Seq(Nat) /\ Len(u) = 5 /\ u[1] = h /\ \A j \in 1..4 : u[1 + j] = b[j]
    BY <2>3, BlobEntryCells
  <2> QED
    BY <2>4 DEF h, b, u
<1>3. ss \in [1..n -> Seq(Nat)]
  <2>1. \A k \in 1..n : ss[k] \in Seq(Nat)
    BY <1>2
  <2> HIDE DEF hs, n
  <2> QED
    BY <2>1
<1>0. f = BlobCells(i)
  BY DEF BlobCells
<1> HIDE DEF ss
<1>4. f \in Seq(Nat) /\ \E at : Pieces(ss, Nat, n, at)
  BY <1>1, <1>3, FlattenPieces
<1>5. PICK at : Pieces(ss, Nat, n, at)
  BY <1>4
<1>9. \A k \in 0..n : at[k] = 5 * k
  <2>1. \A k \in 1..n : Len(ss[k]) = 5
    BY <1>2
  <2> HIDE DEF n, hs, f
  <2> QED
    BY <1>1, <2>1, <1>5, PiecesOfFive
<1>10. Len(f) = 5 * n
  BY <1>1, <1>5, <1>9 DEF Pieces
<1>11. ASSUME NEW k \in 1..n
       PROVE  /\ f[5 * k - 4] = hs[k]
              /\ \A j \in 1..4 : f[5 * k - 4 + j] = i.blobs[hs[k]][j]
  <2> HIDE DEF n, hs
  <2>1. at[k - 1] = 5 * k - 5
    BY <1>1, <1>9
  <2>6. PieceIs(ss, at, k)
    BY <1>1, <1>5, PieceAt
  <2>2. \A j \in 1..5 : f[at[k - 1] + j] = ss[k][j]
    BY <1>2, <2>6 DEF PieceIs
  <2> HIDE DEF f
  <2>3. f[5 * k - 4] = ss[k][1]
    <3>1. at[k - 1] + 1 = 5 * k - 4
      BY <2>1, <1>1
    <3> QED
      BY <2>2, <3>1
  <2>4. ASSUME NEW j \in 1..4 PROVE f[5 * k - 4 + j] = ss[k][1 + j]
    <3>1. at[k - 1] + (1 + j) = 5 * k - 4 + j /\ 1 + j \in 1..5
      BY <2>1, <1>1
    <3> QED
      BY <2>2, <3>1
  <2> QED
    BY <2>3, <2>4, <1>2
<1> QED
  BY <1>0, <1>4, <1>10, <1>11 DEF BlobLayout

LEMMA PathPart ==
  ASSUME NEW i, IsIndex(i), SizeMax \in Nat
  PROVE  PathCells(i) \in Seq(Nat) /\ \E at : PathLayout(i, PathCells(i), at)
<1> DEFINE n == NumPaths(i)
           ns == Names(i)
           ss == [k \in 1..n |-> PathEntry(i, ns[k])]
           f == FlattenSeq(ss)
<1>1. n \in Nat /\ ns \in [1..n -> DOMAIN i.paths]
  BY IndexParts
<1>2. ASSUME NEW k \in 1..n
      PROVE  /\ ss[k] \in Seq(Nat) /\ Len(ns[k]) \in Nat /\ Len(ss[k]) = Len(ns[k]) + 3
             /\ ss[k][1] = Len(ns[k])
             /\ \A j \in 1..Len(ns[k]) : ss[k][1 + j] = ns[k][j]
             /\ \A j \in 1..2 : ss[k][1 + Len(ns[k]) + j] = i.paths[ns[k]][j]
  <2>1. ns[k] \in Seq(Nat) /\ i.paths[ns[k]] \in [1..2 -> Nat]
    BY <1>1 DEF IsIndex, Cell
  <2>2. ss[k] = Cat(Cat(<<Len(ns[k])>>, ns[k]), i.paths[ns[k]])
    BY DEF PathEntry, Cat
  <2> DEFINE nm == ns[k]
             b == i.paths[nm]
             u == ss[k]
  <2>3. nm \in Seq(Nat) /\ b \in [1..2 -> Nat] /\ u = Cat(Cat(<<Len(nm)>>, nm), b)
    BY <2>1, <2>2
  <2> HIDE DEF nm, b, u
  <2>4. /\ u \in Seq(Nat) /\ Len(nm) \in Nat /\ Len(u) = Len(nm) + 3
        /\ u[1] = Len(nm)
        /\ \A j \in 1..Len(nm) : u[1 + j] = nm[j]
        /\ \A j \in 1..2 : u[1 + Len(nm) + j] = b[j]
    BY <2>3, PathEntryCells, SMTT(20)
  <2> QED
    BY <2>4 DEF nm, b, u
<1>3. ss \in [1..n -> Seq(Nat)]
  <2>1. \A k \in 1..n : ss[k] \in Seq(Nat)
    BY <1>2
  <2> HIDE DEF ns, n
  <2> QED
    BY <2>1
<1>0. f = PathCells(i)
  BY DEF PathCells
<1> HIDE DEF ss
<1>4. f \in Seq(Nat) /\ \E at : Pieces(ss, Nat, n, at)
  BY <1>1, <1>3, FlattenPieces
<1>5. PICK at : Pieces(ss, Nat, n, at)
  BY <1>4
<1>6. /\ at \in [0..n -> Nat] /\ at[0] = 0 /\ at[n] = Len(f)
      /\ \A k \in 0..n : at[k] <= Len(f)
  BY <1>5 DEF Pieces
<1>7. ASSUME NEW k \in 1..n
      PROVE  /\ at[k] = at[k - 1] + Len(ns[k]) + 3
             /\ f[at[k - 1] + 1] = Len(ns[k])
             /\ \A j \in 1..Len(ns[k]) : f[at[k - 1] + 1 + j] = ns[k][j]
             /\ \A j \in 1..2 : f[at[k - 1] + 1 + Len(ns[k]) + j] = i.paths[ns[k]][j]
  <2> HIDE DEF n, ns
  <2>7. PieceIs(ss, at, k)
    BY <1>1, <1>5, PieceAt
  <2>1. at[k] = at[k - 1] + Len(ss[k]) /\ at[k - 1] \in Nat
    BY <2>7 DEF PieceIs
  <2>2. \A j \in 1..Len(ss[k]) : f[at[k - 1] + j] = ss[k][j]
    BY <2>7 DEF PieceIs
  <2> HIDE DEF f
  <2>3. Len(ns[k]) \in Nat /\ Len(ss[k]) = Len(ns[k]) + 3
    BY <1>2
  <2>4. f[at[k - 1] + 1] = ss[k][1]
    BY <2>2, <2>3
  <2>5. ASSUME NEW j \in 1..Len(ns[k]) PROVE f[at[k - 1] + 1 + j] = ss[k][1 + j]
    <3>1. 1 + j \in 1..Len(ss[k]) /\ at[k - 1] + (1 + j) = at[k - 1] + 1 + j
      BY <2>1, <2>3, SMTT(20)
    <3> QED
      BY <2>2, <3>1
  <2>6. ASSUME NEW j \in 1..2
        PROVE  f[at[k - 1] + 1 + Len(ns[k]) + j] = ss[k][1 + Len(ns[k]) + j]
    <3> DEFINE len == Len(ns[k])
               before == at[k - 1]
    <3>1. len \in Nat /\ before \in Nat /\ Len(ss[k]) = len + 3
      BY <2>1, <2>3
    <3> HIDE DEF len, before
    <3>2. 1 + len + j \in 1..Len(ss[k]) /\ before + (1 + len + j) = before + 1 + len + j
      BY <3>1
    <3> QED
      BY <2>2, <3>2 DEF len, before
  <2>8. at[k] = at[k - 1] + Len(ns[k]) + 3
    BY <2>1, <2>3
  <2>9. /\ ss[k][1] = Len(ns[k])
        /\ \A j \in 1..Len(ns[k]) : ss[k][1 + j] = ns[k][j]
        /\ \A j \in 1..2 : ss[k][1 + Len(ns[k]) + j] = i.paths[ns[k]][j]
    BY <1>2
  <2>10. f[at[k - 1] + 1] = Len(ns[k])
    BY <2>4, <2>9
  <2>11. \A j \in 1..Len(ns[k]) : f[at[k - 1] + 1 + j] = ns[k][j]
    BY <2>5, <2>9
  <2>12. \A j \in 1..2 : f[at[k - 1] + 1 + Len(ns[k]) + j] = i.paths[ns[k]][j]
    BY <2>6, <2>9
  <2> QED
    BY <2>8, <2>10, <2>11, <2>12
<1>8. \A k \in 1..n : Len(ns[k]) \in Nat
  BY <1>2
<1> HIDE DEF f
<1>9. PathLayout(i, f, at)
  BY <1>6, <1>7, <1>8 DEF PathLayout
<1> QED
  BY <1>0, <1>4, <1>9 DEF f

\* Two counts with a part after each.
AreParts(w, a, b, f, c, g) ==
  /\ Len(w) = 3 + Len(f) + Len(g)
  /\ w[1] = a /\ w[2] = b /\ w[3 + Len(f)] = c
  /\ \A j \in 1..Len(f) : w[2 + j] = f[j]
  /\ \A j \in 1..Len(g) : w[3 + Len(f) + j] = g[j]

LEMMA FourParts ==
  ASSUME NEW a \in Nat, NEW b \in Nat, NEW c \in Nat, NEW f \in Seq(Nat), NEW g \in Seq(Nat),
         NEW w, w = Cat(Cat(Cat(<<a, b>>, f), <<c>>), g)
  PROVE  AreParts(w, a, b, f, c, g)
<1> DEFINE h == <<a, b>>
           m == <<c>>
           t == Cat(h, f)
           u == Cat(t, m)
<1>1. h \in Seq(Nat) /\ Len(h) = 2 /\ h[1] = a /\ h[2] = b
  OBVIOUS
<1>2. m \in Seq(Nat) /\ Len(m) = 1 /\ m[1] = c
  BY OneSeq
<1>3. w = Cat(u, g)
  OBVIOUS
<1>4. Len(f) \in Nat /\ Len(g) \in Nat
  BY LenProperties
<1> HIDE DEF h, m
<1>5. t \in Seq(Nat) /\ Joins(t, h, f)
  BY <1>1, CatSeq
<1> HIDE DEF t
<1>6. u \in Seq(Nat) /\ Joins(u, t, m)
  BY <1>2, <1>5, CatSeq
<1> HIDE DEF u
<1>7. w \in Seq(Nat) /\ Joins(w, u, g)
  BY <1>3, <1>6, CatSeq
<1>8. Len(t) = 2 + Len(f) /\ Len(u) = 3 + Len(f) /\ Len(w) = 3 + Len(f) + Len(g)
  <2>1. Len(t) = 2 + Len(f)
    BY <1>1, <1>5 DEF Joins
  <2>2. Len(u) = 3 + Len(f)
    BY <1>2, <1>4, <1>6, <2>1 DEF Joins
  <2>3. Len(w) = 3 + Len(f) + Len(g)
    BY <1>7, <2>2 DEF Joins
  <2> QED
    BY <2>1, <2>2, <2>3
<1>9. \A j \in 1..(2 + Len(f)) : w[j] = t[j]
  <2>1. \A j \in 1..(2 + Len(f)) : u[j] = t[j]
    BY <1>6, <1>8 DEF Joins
  <2>2. \A j \in 1..(3 + Len(f)) : w[j] = u[j]
    BY <1>7, <1>8 DEF Joins
  <2>3. ASSUME NEW j \in 1..(2 + Len(f)) PROVE j \in 1..(3 + Len(f))
    BY <1>4
  <2> QED
    BY <2>1, <2>2, <2>3
<1>10. w[1] = a /\ w[2] = b
  <2>1. t[1] = a /\ t[2] = b
    BY <1>1, <1>5 DEF Joins
  <2>2. 1 \in 1..(2 + Len(f)) /\ 2 \in 1..(2 + Len(f))
    BY <1>4
  <2> QED
    BY <2>1, <2>2, <1>9
<1>11. w[3 + Len(f)] = c
  <2>1. u[3 + Len(f)] = c
    <3>1. u[Len(t) + 1] = m[1]
      BY <1>2, <1>6 DEF Joins
    <3>2. Len(t) + 1 = 3 + Len(f)
      BY <1>4, <1>8
    <3> QED
      BY <1>2, <3>1, <3>2
  <2>2. w[3 + Len(f)] = u[3 + Len(f)]
    <3>1. 3 + Len(f) \in 1..Len(u)
      BY <1>4, <1>8
    <3> QED
      BY <1>7, <3>1 DEF Joins
  <2> QED
    BY <2>1, <2>2
<1>12. \A j \in 1..Len(f) : w[2 + j] = f[j]
  <2>1. \A j \in 1..Len(f) : t[2 + j] = f[j]
    BY <1>1, <1>5 DEF Joins
  <2>2. \A j \in 1..Len(f) : 2 + j \in 1..(2 + Len(f))
    BY <1>4
  <2> QED
    BY <2>1, <2>2, <1>9
<1>13. \A j \in 1..Len(g) : w[3 + Len(f) + j] = g[j]
  BY <1>7, <1>8 DEF Joins
<1> QED
  BY <1>8, <1>10, <1>11, <1>12, <1>13 DEF AreParts

LEMMA SerializedLayout ==
  ASSUME NEW i, IsIndex(i), SizeMax \in Nat
  PROVE  \E at : Layout(i, Serialized(i), at)
<1> DEFINE n == NumBlobs(i)
           m == NumPaths(i)
           f == BlobCells(i)
           g == PathCells(i)
           w == Serialized(i)
<1>1. n \in Nat /\ m \in Nat /\ kIndexMagic \in Nat
  BY IndexParts DEF kIndexMagic
<1>2. f \in Seq(Nat) /\ BlobLayout(i, f)
  BY BlobPart
<1>3. g \in Seq(Nat) /\ \E at : PathLayout(i, g, at)
  BY PathPart
<1>4. PICK pt : PathLayout(i, g, pt)
  BY <1>3
<1>5. w = Cat(Cat(Cat(<<kIndexMagic, n>>, f), <<m>>), g)
  BY DEF Serialized, Cat, BlobCells, PathCells, NumBlobs, NumPaths, Hashes, Names
<1>6. Len(f) = 5 * n /\ Len(g) \in Nat
  BY <1>2, <1>3, LenProperties DEF BlobLayout
<1> HIDE DEF w, f, g
<1>7. /\ Len(w) = 3 + Len(f) + Len(g)
      /\ w[1] = kIndexMagic /\ w[2] = n /\ w[3 + Len(f)] = m
      /\ \A j \in 1..Len(f) : w[2 + j] = f[j]
      /\ \A j \in 1..Len(g) : w[3 + Len(f) + j] = g[j]
  <2> HIDE DEF n, m
  <2> DEFINE magic == kIndexMagic
  <2>0. magic \in Nat
    BY <1>1
  <2>1. w = Cat(Cat(Cat(<<magic, n>>, f), <<m>>), g)
    BY <1>5
  <2> HIDE DEF magic
  <2>2. AreParts(w, magic, n, f, m, g)
    BY <2>0, <2>1, <1>1, <1>2, <1>3, FourParts
  <2> QED
    BY <2>2 DEF magic, AreParts
<1> DEFINE base == 5 * n + 3
           at == [k \in 0..m |-> base + pt[k]]
<1>8. base \in Nat /\ 3 + Len(f) = base /\ Len(w) = base + Len(g)
  BY <1>1, <1>6, <1>7
<1>9. ASSUME NEW k \in 1..n
      PROVE  /\ w[5 * k - 2] = Hashes(i)[k]
             /\ \A j \in 1..4 : w[5 * k - 2 + j] = i.blobs[Hashes(i)[k]][j]
  <2>1. /\ f[5 * k - 4] = Hashes(i)[k]
        /\ \A j \in 1..4 : f[5 * k - 4 + j] = i.blobs[Hashes(i)[k]][j]
    BY <1>2 DEF BlobLayout
  <2> HIDE DEF n
  <2>2. ASSUME NEW j \in 0..4 PROVE w[5 * k - 2 + j] = f[5 * k - 4 + j]
    <3>1. 5 * k - 4 + j \in 1..Len(f) /\ 2 + (5 * k - 4 + j) = 5 * k - 2 + j
      BY <1>1, <1>6
    <3> QED
      BY <1>7, <3>1
  <2>3. w[5 * k - 2] = f[5 * k - 4]
    <3>1. w[5 * k - 2 + 0] = f[5 * k - 4 + 0]
      BY <2>2
    <3> QED
      BY <3>1, <1>1
  <2> QED
    BY <2>1, <2>2, <2>3
<1>10. /\ pt \in [0..m -> Nat] /\ pt[0] = 0 /\ pt[m] = Len(g)
       /\ \A k \in 0..m : pt[k] <= Len(g)
  BY <1>4 DEF PathLayout
<1>11. /\ at \in [0..m -> Nat] /\ at[0] = base /\ at[m] = Len(w)
       /\ \A k \in 0..m : at[k] <= Len(w)
  <2> HIDE DEF m, base
  <2>1. at \in [0..m -> Nat]
    BY <1>1, <1>8, <1>10
  <2>2. at[0] = base /\ at[m] = Len(w)
    <3>1. 0 \in 0..m /\ m \in 0..m
      BY <1>1
    <3>2. at[0] = base + pt[0] /\ at[m] = base + pt[m]
      BY <3>1
    <3> HIDE DEF at
    <3> QED
      BY <3>2, <1>8, <1>10
  <2>3. ASSUME NEW k \in 0..m PROVE at[k] <= Len(w)
    <3>1. pt[k] \in Nat /\ pt[k] <= Len(g) /\ at[k] = base + pt[k]
      BY <1>10
    <3> HIDE DEF at
    <3> QED
      BY <3>1, <1>6, <1>8
  <2> HIDE DEF at
  <2> QED
    BY <2>1, <2>2, <2>3
<1>12. ASSUME NEW k \in 1..m
       PROVE  /\ at[k] = at[k - 1] + Len(Names(i)[k]) + 3
              /\ w[at[k - 1] + 1] = Len(Names(i)[k])
              /\ \A j \in 1..Len(Names(i)[k]) : w[at[k - 1] + 1 + j] = Names(i)[k][j]
              /\ \A j \in 1..2 :
                   w[at[k - 1] + 1 + Len(Names(i)[k]) + j] = i.paths[Names(i)[k]][j]
  <2> DEFINE len == Len(Names(i)[k])
             q == pt[k - 1]
  <2>1. /\ len \in Nat /\ pt[k] = q + len + 3
        /\ g[q + 1] = len
        /\ \A j \in 1..len : g[q + 1 + j] = Names(i)[k][j]
        /\ \A j \in 1..2 : g[q + 1 + len + j] = i.paths[Names(i)[k]][j]
    BY <1>4 DEF PathLayout
  <2> HIDE DEF m, base, len
  <2>2. q \in Nat /\ pt[k] \in Nat /\ pt[k] <= Len(g)
    BY <1>1, <1>10
  <2>3. at[k - 1] = base + q /\ at[k] = base + pt[k]
    BY <1>1
  <2> HIDE DEF q, at
  <2>4. ASSUME NEW j \in 1..(len + 3) PROVE w[at[k - 1] + j] = g[q + j]
    <3>1. q + j \in 1..Len(g) /\ 3 + Len(f) + (q + j) = at[k - 1] + j
      BY <1>6, <1>8, <2>1, <2>2, <2>3, SMTT(20)
    <3> QED
      BY <1>7, <3>1
  <2>5. len \in Nat /\ q \in Nat /\ pt[k] = q + len + 3
    BY <2>1, <2>2
  <2> DEFINE a == at[k - 1]
  <2>6. a \in Nat /\ at[k] = a + len + 3
    BY <1>8, <2>5, <2>3
  <2> HIDE DEF a
  <2>7. \A j \in 1..(len + 3) : w[a + j] = g[q + j]
    BY <2>4 DEF a
  <2>8. w[a + 1] = len
    BY <2>1, <2>5, <2>7
  <2>9. ASSUME NEW j \in 1..len PROVE w[a + 1 + j] = Names(i)[k][j]
    <3>1. 1 + j \in 1..(len + 3) /\ a + (1 + j) = a + 1 + j /\ q + (1 + j) = q + 1 + j
      BY <2>5, <2>6
    <3> QED
      BY <2>1, <2>7, <3>1
  <2>10. ASSUME NEW j \in 1..2 PROVE w[a + 1 + len + j] = i.paths[Names(i)[k]][j]
    <3>1. 1 + len + j \in 1..(len + 3)
      BY <2>5
    <3>2. a + (1 + len + j) = a + 1 + len + j /\ q + (1 + len + j) = q + 1 + len + j
      BY <2>5, <2>6
    <3> QED
      BY <2>1, <2>7, <3>1, <3>2
  <2> QED
    BY <2>6, <2>8, <2>9, <2>10 DEF len, a
<1>13. w[base] = m
  BY <1>7, <1>8
<1> HIDE DEF at
<1>14. Layout(i, w, at)
  BY <1>7, <1>9, <1>11, <1>12, <1>13 DEF Layout
<1> QED
  BY <1>14 DEF w

\* The position is in the buffer, which a size_t can count.
ReadInv ==
  /\ d \in Seq(Cell) /\ Len(d) <= SizeMax
  /\ p \in 0..size /\ reached \in 0..size

\* A position inside the buffer does not wrap.
LEMMA NoWrap ==
  ASSUME NEW x \in Nat, NEW m \in Nat, x <= m
  PROVE  x % (m + 1) = x
OBVIOUS

\* For a position that is in the buffer the difference does not wrap.
LEMMA FitsIsRoom ==
  ASSUME ReadInv, NEW q \in Nat, NEW len \in Nat, q <= size
  PROVE  Fits(q, len) <=> q + len <= size
<1>1. size \in Nat /\ size <= SizeMax
  BY DEF ReadInv, size
<1>2. size - q \in Nat /\ size - q <= SizeMax
  BY <1>1, ManifestAssumption
<1>3. (size - q) % (SizeMax + 1) = size - q
  BY <1>2, NoWrap, ManifestAssumption
<1> QED
  BY <1>1, <1>3 DEF Fits

\* What is read of a buffer, or past it, is a cell.
LEMMA CellIsNat ==
  ASSUME ReadInv, NEW q \in Nat
  PROVE  Cells(q, 1)[1] \in Nat
<1>1. Cells(q, 1)[1] = IF q + 1 <= size THEN d[q + 1] ELSE 0
  BY DEF Cells
<1>2. q + 1 <= size => d[q + 1] \in Cell
  BY DEF ReadInv, size
<1> QED
  BY <1>1, <1>2, ManifestAssumption DEF Cell

\* Cells that fit are taken without leaving the buffer.
LEMMA TakeStays ==
  ASSUME ReadInv, NEW len \in Nat, p + len <= size, Take(len)
  PROVE  ReadInv'
<1>1. d' = d
  BY DEF Take, buffer
<1>2. p \in Nat /\ size \in Nat /\ size <= SizeMax /\ p + len <= size /\ size' = size
  BY <1>1 DEF ReadInv, size
<1>3. p' = p + len
  BY <1>2, NoWrap, ManifestAssumption DEF Take
<1> QED
  BY <1>1, <1>2, <1>3 DEF Take, ReadInv

\* A step that fails or returns reads nothing.
LEMMA RestStays ==
  ASSUME ReadInv, UNCHANGED <<d, p, reached>>
  PROVE  ReadInv'
BY DEF ReadInv, size

LEMMA InitReads ==
  ASSUME ReadInit
  PROVE  ReadInv
<1> DEFINE whole == Serialized(source)
<1>1. whole \in Seq(Cell) /\ Len(whole) <= SizeMax /\ Len(whole) \in Nat
  BY ManifestAssumption DEF ReadInit
<1>2. d \in Seq(Cell) /\ Len(d) <= Len(whole)
  <2> HIDE DEF whole
  <2>1. CASE d = whole
    BY <2>1, <1>1
  <2>2. ASSUME NEW k \in 0..(Len(whole) - 1), d = SubSeq(whole, 1, k)
        PROVE  d \in Seq(Cell) /\ Len(d) <= Len(whole)
    BY <2>2, <1>1
  <2>3. ASSUME NEW k \in 1..Len(whole), NEW c \in Cell, d = [whole EXCEPT ![k] = c]
        PROVE  d \in Seq(Cell) /\ Len(d) <= Len(whole)
    BY <2>3, <1>1
  <2> QED
    BY <2>1, <2>2, <2>3 DEF ReadInit, whole
<1> QED
  BY <1>1, <1>2, ManifestAssumption DEF ReadInit, ReadInv, size

LEMMA NextReads ==
  ASSUME ReadInv, ReadNext
  PROVE  ReadInv'
<1>0. p \in Nat /\ size \in Nat /\ p <= size
  BY DEF ReadInv, size
<1>1. CASE Fail
  BY <1>1, RestStays DEF Fail, buffer
<1>2. ASSUME ReadMagic, ~ Fail PROVE ReadInv'
  BY <1>2, <1>0, FitsIsRoom, TakeStays DEF ReadMagic
<1>3. ASSUME NEW count, NEW entry, ReadCount(count, entry), ~ Fail PROVE ReadInv'
  BY <1>3, <1>0, FitsIsRoom, TakeStays DEF ReadCount
<1>4. ASSUME ReadBlob, ~ Fail PROVE ReadInv'
  BY <1>4, <1>0, FitsIsRoom, TakeStays DEF ReadBlob
<1>5. ASSUME ReadPath, ~ Fail PROVE ReadInv'
  <2>1. PICK len : /\ len = Cells(p, 1)[1]
                   /\ Fits(p, 1) /\ Fits(p + 1, len) /\ Fits(p + 1 + len, 2)
                   /\ Take(1 + len + 2)
    BY <1>5 DEF ReadPath
  <2>2. len \in Nat
    BY <2>1, <1>0, CellIsNat
  <2>3. p + 1 <= size
    BY <2>1, <1>0, FitsIsRoom
  <2>4. p + 1 + len <= size
    BY <2>1, <2>2, <2>3, <1>0, FitsIsRoom
  <2>5. p + (1 + len + 2) <= size
    <3> DEFINE q == p + 1 + len
    <3>1. q \in Nat /\ q <= size /\ Fits(q, 2)
      BY <2>1, <2>2, <2>4, <1>0
    <3>2. q + 2 <= size
      <4> HIDE DEF q
      <4> QED
        BY <3>1, FitsIsRoom
    <3> QED
      BY <3>2, <2>2, <1>0
  <2> QED
    BY <2>1, <2>2, <2>5, TakeStays
<1>6. CASE Return
  BY <1>6, RestStays DEF Return, buffer
<1> QED
  BY <1>1, <1>2, <1>3, <1>4, <1>5, <1>6 DEF ReadNext

\* Whatever counts and lengths a damaged manifest holds, no read leaves its buffer.
THEOREM BoundedReads == ReadSpec => []InBounds
<1>1. ReadInit => ReadInv
  BY InitReads
<1>2. ReadInv /\ [ReadNext]_readVars => ReadInv'
  BY NextReads, RestStays DEF readVars
<1>3. ReadInv => InBounds
  BY DEF ReadInv, InBounds, size
<1> QED
  BY <1>1, <1>2, <1>3, PTL DEF ReadSpec

-----------------------------------------------------------------------------
(* Manifest: what deserialize has read of a manifest.                      *)

SomeBlobs(i, n) == [h \in {Hashes(i)[k] : k \in 1..n} |-> i.blobs[h]]
SomePaths(i, n) == [nm \in {Names(i)[k] : k \in 1..n} |-> i.paths[nm]]

\* Of index i, the first n blobs and the first m paths.
UpTo(i, n, m) == [blobs |-> SomeBlobs(i, n), paths |-> SomePaths(i, m)]

LEMMA NothingRead ==
  ASSUME NEW i
  PROVE  UpTo(i, 0, 0) = EmptyIndex
BY DEF UpTo, SomeBlobs, SomePaths, EmptyIndex

LEMMA AllRead ==
  ASSUME NEW i, IsIndex(i), SizeMax \in Nat
  PROVE  UpTo(i, NumBlobs(i), NumPaths(i)) = i
<1>1. {Hashes(i)[k] : k \in 1..NumBlobs(i)} = DOMAIN i.blobs
  BY IndexParts
<1>2. {Names(i)[k] : k \in 1..NumPaths(i)} = DOMAIN i.paths
  BY IndexParts
<1>3. SomeBlobs(i, NumBlobs(i)) = i.blobs
  BY <1>1 DEF SomeBlobs, IsIndex
<1>4. SomePaths(i, NumPaths(i)) = i.paths
  BY <1>2 DEF SomePaths, IsIndex
<1> QED
  BY <1>3, <1>4 DEF UpTo, IsIndex

\* emplace finds a new key each time.
LEMMA OneMoreBlob ==
  ASSUME NEW i, IsIndex(i), SizeMax \in Nat, NEW k \in 1..NumBlobs(i)
  PROVE  Emplaced(SomeBlobs(i, k - 1), Hashes(i)[k], i.blobs[Hashes(i)[k]]) = SomeBlobs(i, k)
<1> DEFINE hs == Hashes(i)
           D == {hs[j] : j \in 1..(k - 1)}
           E == {hs[j] : j \in 1..k}
<1>1. E = D \cup {hs[k]}
  OBVIOUS
<1>2. SomeBlobs(i, k - 1) = [h \in D |-> i.blobs[h]] /\ SomeBlobs(i, k) = [h \in E |-> i.blobs[h]]
  BY DEF SomeBlobs
<1> HIDE DEF D, E, hs
<1> QED
  BY <1>1, <1>2 DEF Emplaced, hs

LEMMA OneMorePath ==
  ASSUME NEW i, IsIndex(i), SizeMax \in Nat, NEW k \in 1..NumPaths(i)
  PROVE  Emplaced(SomePaths(i, k - 1), Names(i)[k], i.paths[Names(i)[k]]) = SomePaths(i, k)
<1> DEFINE ns == Names(i)
           D == {ns[j] : j \in 1..(k - 1)}
           E == {ns[j] : j \in 1..k}
<1>1. E = D \cup {ns[k]}
  OBVIOUS
<1>2. SomePaths(i, k - 1) = [nm \in D |-> i.paths[nm]] /\ SomePaths(i, k) = [nm \in E |-> i.paths[nm]]
  BY DEF SomePaths
<1> HIDE DEF D, E, ns
<1> QED
  BY <1>1, <1>2 DEF Emplaced, ns

\* The buffer begins as w does.
Copied(w) ==
  /\ kind \in {"whole", "cut"}
  /\ Len(d) \in Nat /\ Len(w) \in Nat /\ Len(d) <= Len(w)
  /\ \A j \in 1..Len(d) : d[j] = w[j]
  /\ kind = "whole" <=> Len(d) = Len(w)

\* The position is where the next entry begins, and the entries before it are in idx.
Progress(i, w, at) ==
  /\ pc = "magic" => p = 0 /\ idx = UpTo(i, 0, 0)
  /\ pc = "nblobs" => p = 1 /\ idx = UpTo(i, 0, 0)
  /\ pc = "blob" => \E k \in 1..NumBlobs(i) :
       left = NumBlobs(i) - k + 1 /\ p = 5 * k - 3 /\ idx = UpTo(i, k - 1, 0)
  /\ pc = "npaths" => p = 5 * NumBlobs(i) + 2 /\ idx = UpTo(i, NumBlobs(i), 0)
  /\ pc = "path" => \E k \in 1..NumPaths(i) :
       left = NumPaths(i) - k + 1 /\ p = at[k - 1] /\ idx = UpTo(i, NumBlobs(i), k - 1)
  /\ pc \in {"end", "done"} => p = Len(w) /\ idx = UpTo(i, NumBlobs(i), NumPaths(i))
  /\ pc = "failed" => kind = "cut"
  /\ out = IF pc = "done" THEN i ELSE Nothing

Following(i, w, at) == Layout(i, w, at) /\ Copied(w) /\ Progress(i, w, at)

CopyInv ==
  /\ ReadInv /\ source \in Indexes
  /\ kind # "altered" => \E at : Following(source, Serialized(source), at)

\* What is read of the copy is what w has there.
LEMMA CopiedCells ==
  ASSUME NEW w, Copied(w), NEW q \in Nat, NEW len \in Nat, q + len <= Len(d)
  PROVE  Cells(q, len) = [k \in 1..len |-> w[q + k]]
<1>1. ASSUME NEW k \in 1..len PROVE q + k \in 1..Len(d) /\ q + k <= size
  BY DEF size, Copied
<1>2. \A k \in 1..len : d[q + k] = w[q + k]
  BY <1>1 DEF Copied
<1> QED
  BY <1>1, <1>2 DEF Cells

LEMMA CopiedCell ==
  ASSUME NEW w, Copied(w), NEW q \in Nat, q + 1 <= Len(d)
  PROVE  Cells(q, 1)[1] = w[q + 1]
<1>1. q + 1 \in 1..Len(d) /\ q + 1 <= size
  BY DEF size, Copied
<1> QED
  BY <1>1 DEF Cells, Copied

\* The whole manifest has room for whatever fits in it, so only a part of it fails.
LEMMA OnlyPartsFail ==
  ASSUME ReadInv, NEW w, Copied(w), NEW q \in Nat, NEW len \in Nat, q + len <= Len(w),
         ~ Fits(q, len)
  PROVE  kind = "cut"
<1>1. Len(d) # Len(w)
  <2> SUFFICES ASSUME Len(d) = Len(w)
               PROVE  FALSE
    OBVIOUS
  <2>1. q + len <= size /\ q <= size
    BY DEF size, Copied
  <2> QED
    BY <2>1, FitsIsRoom
<1> QED
  BY <1>1 DEF Copied

LEMMA FitsInside ==
  ASSUME ReadInv, NEW q \in Nat, NEW len \in Nat, q <= Len(d), Fits(q, len)
  PROVE  q + len <= Len(d)
BY FitsIsRoom DEF size

\* A position in the buffer is counted exactly.
LEMMA TakesOn ==
  ASSUME ReadInv, NEW len \in Nat, p + len <= Len(d), Take(len)
  PROVE  p' = p + len /\ UNCHANGED <<source, kind, d, out>>
<1>1. p \in Nat /\ Len(d) \in Nat /\ Len(d) <= SizeMax
  BY DEF ReadInv, size
<1>2. p + len \in Nat /\ p + len <= SizeMax
  BY <1>1, ManifestAssumption
<1> QED
  BY <1>2, NoWrap, ManifestAssumption DEF Take, buffer

\* What a step that does not alter the buffer must establish.
LEMMA CopyStays ==
  ASSUME NEW w, Copied(w), UNCHANGED <<source, kind, d>>
  PROVE  Copied(w)'
BY DEF Copied

\* What the reader relies on at each step.
Situation(i, w, at) ==
  /\ IsIndex(i) /\ Len(w) \in Nat
  /\ ReadInv /\ Following(i, w, at)

LEMMA Numbers ==
  ASSUME NEW i, NEW w, NEW at, Situation(i, w, at)
  PROVE  /\ NumBlobs(i) \in Nat /\ NumPaths(i) \in Nat /\ Len(w) \in Nat /\ Len(d) \in Nat
         /\ p \in Nat /\ p <= Len(d) /\ Len(d) <= Len(w)
         /\ 5 * NumBlobs(i) + 3 <= Len(w) /\ at[0] = 5 * NumBlobs(i) + 3
<1>1. NumBlobs(i) \in Nat /\ NumPaths(i) \in Nat
  BY IndexParts, ManifestAssumption DEF Situation
<1>2. Len(d) \in Nat /\ Len(d) <= Len(w) /\ p \in Nat /\ p <= Len(d)
  BY DEF Situation, Following, Copied, ReadInv, size
<1>3. at[0] = 5 * NumBlobs(i) + 3 /\ at[0] <= Len(w)
  BY <1>1 DEF Situation, Following, Layout
<1> QED
  BY <1>1, <1>2, <1>3 DEF Situation

\* Something fails only when the manifest was cut.
LEMMA FailsRightly ==
  ASSUME NEW i, NEW w, NEW at, Situation(i, w, at), pc # "done", kind = "cut", Fail
  PROVE  Progress(i, w, at)'
BY DEF Situation, Following, Progress, Fail, buffer

LEMMA MagicStep ==
  ASSUME NEW i, NEW w, NEW at, Situation(i, w, at), ReadMagic
  PROVE  Progress(i, w, at)'
<1>0. ReadInv
  BY DEF Situation
<1>1. pc = "magic" /\ p = 0 /\ idx = UpTo(i, 0, 0) /\ out = Nothing /\ Copied(w)
  BY DEF ReadMagic, Situation, Following, Progress
<1>2. 0 + 1 <= Len(w)
  BY Numbers
<1>3. CASE ~ Fits(0, 1)
  <2>1. kind = "cut" /\ Fail
    BY <1>0, <1>1, <1>2, <1>3, OnlyPartsFail DEF ReadMagic
  <2> QED
    BY <2>1, <1>1, FailsRightly
<1>4. CASE Fits(0, 1)
  <2>1. 0 + 1 <= Len(d)
    BY <1>0, <1>1, <1>4, Numbers, FitsInside
  <2>2. Cells(0, 1)[1] = w[0 + 1]
    BY <1>1, <2>1, CopiedCell
  <2>3. Cells(0, 1)[1] = kIndexMagic
    BY <2>2 DEF Situation, Following, Layout
  <2>4. Take(1) /\ pc' = "nblobs" /\ idx' = idx
    BY <1>1, <1>4, <2>3 DEF ReadMagic
  <2>5. p' = 0 + 1 /\ out' = out
    BY <1>1, <2>1, <2>4, TakesOn DEF Situation
  <2> QED
    BY <1>1, <2>4, <2>5 DEF Progress
<1> QED
  BY <1>3, <1>4

LEMMA BlobCountStep ==
  ASSUME NEW i, NEW w, NEW at, Situation(i, w, at), ReadCount("nblobs", "blob")
  PROVE  Progress(i, w, at)'
<1>0. ReadInv
  BY DEF Situation
<1>1. pc = "nblobs" /\ p = 1 /\ idx = UpTo(i, 0, 0) /\ out = Nothing /\ Copied(w)
  BY DEF ReadCount, Situation, Following, Progress
<1>2. 1 + 1 <= Len(w)
  BY Numbers
<1>3. CASE ~ Fits(1, 1)
  <2>1. kind = "cut" /\ Fail
    BY <1>0, <1>1, <1>2, <1>3, OnlyPartsFail DEF ReadCount
  <2> QED
    BY <2>1, <1>1, FailsRightly
<1>4. CASE Fits(1, 1)
  <2>1. 1 + 1 <= Len(d)
    BY <1>0, <1>1, <1>4, Numbers, FitsInside
  <2>2. Cells(1, 1)[1] = w[1 + 1]
    BY <1>1, <2>1, CopiedCell
  <2>3. Cells(1, 1)[1] = NumBlobs(i)
    BY <2>2 DEF Situation, Following, Layout
  <2>4. Take(1) /\ left' = NumBlobs(i) /\ pc' = After("blob", left') /\ idx' = idx
    BY <1>1, <1>4, <2>3 DEF ReadCount
  <2>5. p' = 1 + 1 /\ out' = out
    BY <1>1, <2>1, <2>4, TakesOn DEF Situation
  <2>6. NumBlobs(i) \in Nat
    BY Numbers
  <2>7. CASE NumBlobs(i) > 0
    <3>1. pc' = "blob"
      BY <2>4, <2>7 DEF After
    <3>2. /\ 1 \in 1..NumBlobs(i) /\ left' = NumBlobs(i) - 1 + 1 /\ p' = 5 * 1 - 3
          /\ idx' = UpTo(i, 1 - 1, 0)
      BY <1>1, <2>4, <2>5, <2>6, <2>7
    <3> QED
      BY <1>1, <2>5, <3>1, <3>2 DEF Progress
  <2>8. CASE NumBlobs(i) = 0
    <3>1. pc' = "npaths"
      BY <2>4, <2>8 DEF After
    <3> QED
      BY <1>1, <2>4, <2>5, <2>8, <3>1 DEF Progress
  <2> QED
    BY <2>6, <2>7, <2>8
<1> QED
  BY <1>3, <1>4

LEMMA BlobStep ==
  ASSUME NEW i, NEW w, NEW at, Situation(i, w, at), ReadBlob
  PROVE  Progress(i, w, at)'
<1> DEFINE n == NumBlobs(i)
<1>0. ReadInv
  BY DEF Situation
<1>1. pc = "blob" /\ out = Nothing /\ Copied(w)
  BY DEF ReadBlob, Situation, Following, Progress
<1>2. PICK k \in 1..n : left = n - k + 1 /\ p = 5 * k - 3 /\ idx = UpTo(i, k - 1, 0)
  BY <1>1 DEF Situation, Following, Progress
<1>3. n \in Nat /\ p \in Nat /\ p <= Len(d) /\ 5 * n + 3 <= Len(w) /\ Len(w) \in Nat /\ Len(d) \in Nat
  BY Numbers
<1>4. p + 5 <= Len(w)
  BY <1>2, <1>3
<1>5. CASE ~ Fits(p, 5)
  <2>1. kind = "cut" /\ Fail
    BY <1>0, <1>1, <1>3, <1>4, <1>5, OnlyPartsFail DEF ReadBlob
  <2> QED
    BY <2>1, <1>1, FailsRightly
<1>6. CASE Fits(p, 5)
  <2> DEFINE h == Hashes(i)[k]
  <2>1. p + 5 <= Len(d)
    BY <1>0, <1>1, <1>3, <1>6, FitsInside
  <2>2. Cells(p, 1)[1] = w[p + 1] /\ Cells(p + 1, 4) = [j \in 1..4 |-> w[(p + 1) + j]]
    <3> DEFINE q == p + 1
    <3>1. p + 1 <= Len(d) /\ q + 4 <= Len(d) /\ q \in Nat
      BY <1>3, <2>1
    <3> HIDE DEF q
    <3>2. Cells(p, 1)[1] = w[p + 1]
      BY <1>1, <1>3, <3>1, CopiedCell
    <3>3. Cells(q, 4) = [j \in 1..4 |-> w[q + j]]
      <4> DEFINE four == 4
      <4>1. four \in Nat /\ q + four <= Len(d)
        BY <3>1
      <4> HIDE DEF four
      <4>2. Cells(q, four) = [j \in 1..four |-> w[q + j]]
        BY <1>1, <3>1, <4>1, CopiedCells
      <4> QED
        BY <4>2 DEF four
    <3> QED
      BY <3>2, <3>3 DEF q
  <2>3. w[5 * k - 2] = h /\ \A j \in 1..4 : w[5 * k - 2 + j] = i.blobs[h][j]
    BY <1>2 DEF Situation, Following, Layout
  <2>4. p + 1 = 5 * k - 2
    BY <1>2, <1>3
  <2>5. Cells(p, 1)[1] = h
    BY <2>2, <2>3, <2>4
  <2>6. i.blobs[h] \in [1..4 -> Cell]
    <3>1. h \in DOMAIN i.blobs
      BY <1>2, IndexParts, ManifestAssumption DEF Situation
    <3> QED
      BY <3>1 DEF Situation, IsIndex
  <2>7. Cells(p + 1, 4) = i.blobs[h]
    <3>1. \A j \in 1..4 : w[(p + 1) + j] = i.blobs[h][j]
      BY <2>3, <2>4
    <3> QED
      BY <2>2, <2>6, <3>1
  <2>8. /\ Take(5) /\ left' = left - 1 /\ pc' = After("blob", left')
        /\ idx' = [idx EXCEPT !.blobs = Emplaced(@, h, i.blobs[h])]
    BY <1>6, <2>5, <2>7 DEF ReadBlob
  <2>9. p' = p + 5 /\ out' = out
    BY <2>1, <2>8, TakesOn DEF Situation
  <2>10. idx' = UpTo(i, k, 0)
    <3>1. Emplaced(SomeBlobs(i, k - 1), h, i.blobs[h]) = SomeBlobs(i, k)
      BY <1>2, OneMoreBlob, ManifestAssumption DEF Situation
    <3> QED
      BY <1>2, <2>8, <3>1 DEF UpTo
  <2> HIDE DEF n, h
  <2>11. left' = n - k
    BY <1>2, <1>3, <2>8
  <2>12. CASE k < n
    <3>1. pc' = "blob"
      BY <1>3, <2>8, <2>11, <2>12 DEF After
    <3>2. /\ k + 1 \in 1..n /\ left' = n - (k + 1) + 1 /\ p' = 5 * (k + 1) - 3
          /\ idx' = UpTo(i, (k + 1) - 1, 0)
      BY <1>2, <1>3, <2>9, <2>10, <2>11, <2>12
    <3> QED
      BY <1>1, <2>9, <3>1, <3>2 DEF Progress, n
  <2>13. CASE k = n
    <3>1. pc' = "npaths"
      BY <1>3, <2>8, <2>11, <2>13 DEF After
    <3>2. p' = 5 * n + 2 /\ idx' = UpTo(i, n, 0)
      BY <1>2, <1>3, <2>9, <2>10, <2>13
    <3> QED
      BY <1>1, <2>9, <3>1, <3>2 DEF Progress, n
  <2> QED
    BY <1>3, <2>12, <2>13
<1> QED
  BY <1>5, <1>6

LEMMA PathCountStep ==
  ASSUME NEW i, NEW w, NEW at, Situation(i, w, at), ReadCount("npaths", "path")
  PROVE  Progress(i, w, at)'
<1> DEFINE n == NumBlobs(i)
           m == NumPaths(i)
<1>0. ReadInv
  BY DEF Situation
<1>1. pc = "npaths" /\ p = 5 * n + 2 /\ idx = UpTo(i, n, 0) /\ out = Nothing /\ Copied(w)
  BY DEF ReadCount, Situation, Following, Progress
<1>2. /\ n \in Nat /\ m \in Nat /\ p \in Nat /\ p <= Len(d) /\ Len(w) \in Nat /\ Len(d) \in Nat
      /\ 5 * n + 3 <= Len(w) /\ at[0] = 5 * n + 3
  BY Numbers
<1>3. p + 1 <= Len(w) /\ p + 1 = 5 * n + 3
  BY <1>1, <1>2
<1>4. CASE ~ Fits(p, 1)
  <2>1. kind = "cut" /\ Fail
    BY <1>0, <1>1, <1>2, <1>3, <1>4, OnlyPartsFail DEF ReadCount
  <2> QED
    BY <2>1, <1>1, FailsRightly
<1>5. CASE Fits(p, 1)
  <2>1. p + 1 <= Len(d)
    BY <1>0, <1>1, <1>2, <1>5, FitsInside
  <2>2. Cells(p, 1)[1] = w[p + 1]
    BY <1>1, <1>2, <2>1, CopiedCell
  <2>3. Cells(p, 1)[1] = m
    BY <2>2, <1>3 DEF Situation, Following, Layout
  <2>4. Take(1) /\ left' = m /\ pc' = After("path", left') /\ idx' = idx
    BY <1>1, <1>5, <2>3 DEF ReadCount
  <2>5. p' = p + 1 /\ out' = out
    BY <2>1, <2>4, TakesOn DEF Situation
  <2>6. p' = at[0]
    BY <1>2, <1>3, <2>5
  <2> HIDE DEF n, m
  <2>7. CASE m > 0
    <3>1. pc' = "path"
      BY <2>4, <2>7 DEF After
    <3>2. 1 \in 1..m /\ left' = m - 1 + 1 /\ p' = at[1 - 1] /\ idx' = UpTo(i, n, 1 - 1)
      BY <1>1, <1>2, <2>4, <2>6, <2>7
    <3> QED
      BY <1>1, <2>5, <3>1, <3>2 DEF Progress, n, m
  <2>8. CASE m = 0
    <3>1. pc' = "end"
      BY <2>4, <2>8 DEF After
    <3>2. p' = Len(w)
      BY <2>6, <2>8 DEF Situation, Following, Layout, m
    <3> QED
      BY <1>1, <2>4, <2>5, <2>8, <3>1, <3>2 DEF Progress, n, m
  <2> QED
    BY <1>2, <2>7, <2>8
<1> QED
  BY <1>4, <1>5

LEMMA PathStep ==
  ASSUME NEW i, NEW w, NEW at, Situation(i, w, at), ReadPath
  PROVE  Progress(i, w, at)'
<1> DEFINE n == NumBlobs(i)
           m == NumPaths(i)
<1>0. ReadInv
  BY DEF Situation
<1>1. pc = "path" /\ out = Nothing /\ Copied(w)
  BY DEF ReadPath, Situation, Following, Progress
<1>2. PICK k \in 1..m : left = m - k + 1 /\ p = at[k - 1] /\ idx = UpTo(i, n, k - 1)
  BY <1>1 DEF Situation, Following, Progress
<1> DEFINE nm == Names(i)[k]
           len == Len(nm)
<1>3. n \in Nat /\ m \in Nat /\ p \in Nat /\ p <= Len(d) /\ Len(w) \in Nat /\ Len(d) \in Nat
  BY Numbers
<1>4. nm \in DOMAIN i.paths /\ nm \in Seq(Cell) /\ len \in Nat /\ i.paths[nm] \in [1..2 -> Cell]
  <2>1. nm \in DOMAIN i.paths
    BY <1>2, IndexParts, ManifestAssumption DEF Situation
  <2>2. nm \in Seq(Cell) /\ i.paths[nm] \in [1..2 -> Cell]
    BY <2>1 DEF Situation, IsIndex
  <2> QED
    BY <2>1, <2>2, LenProperties
<1>5. /\ at[k] = p + len + 3 /\ at[k] <= Len(w)
      /\ w[p + 1] = len
      /\ \A j \in 1..len : w[p + 1 + j] = nm[j]
      /\ \A j \in 1..2 : w[p + 1 + len + j] = i.paths[nm][j]
  <2>1. k \in 0..m
    BY <1>2, <1>3
  <2> QED
    BY <1>2, <2>1 DEF Situation, Following, Layout
<1>6. p + len + 3 <= Len(w)
  BY <1>5
<1> HIDE DEF len, nm, n, m
<1> DEFINE q == p + 1
           r == p + 1 + len
<1>7. q \in Nat /\ r \in Nat /\ p + 1 <= Len(w) /\ q + len <= Len(w) /\ r + 2 <= Len(w)
  BY <1>3, <1>4, <1>6
<1>8. CASE ~ Fits(p, 1)
  <2>1. kind = "cut"
    BY <1>0, <1>1, <1>3, <1>7, <1>8, OnlyPartsFail
  <2>2. Fail
    BY <1>8 DEF ReadPath
  <2> QED
    BY <2>1, <2>2, <1>1, FailsRightly
<1>9. CASE Fits(p, 1)
  <2>1. p + 1 <= Len(d)
    BY <1>0, <1>1, <1>3, <1>9, FitsInside
  <2>2. Cells(p, 1)[1] = len
    <3>1. Cells(p, 1)[1] = w[p + 1]
      BY <1>1, <1>3, <2>1, CopiedCell
    <3> QED
      BY <3>1, <1>5
  <2>3. CASE ~ (Fits(q, len) /\ Fits(r, 2))
    <3>1. kind = "cut"
      <4> HIDE DEF q, r
      <4> QED
        BY <1>0, <1>1, <1>4, <1>7, <2>3, OnlyPartsFail
    <3>2. Fail
      BY <2>2, <2>3 DEF ReadPath
    <3> QED
      BY <3>1, <3>2, <1>1, FailsRightly
  <2>4. CASE Fits(q, len) /\ Fits(r, 2)
    <3>1. q + len <= Len(d) /\ r + 2 <= Len(d)
      <4>1. q + len <= Len(d)
        BY <1>0, <1>1, <1>4, <1>7, <2>1, <2>4, FitsInside
      <4>2. r <= Len(d)
        BY <4>1, <1>3, <1>4
      <4> HIDE DEF q, r
      <4> QED
        BY <1>0, <1>1, <1>7, <2>4, <4>1, <4>2, FitsInside
    <3>2. Cells(q, len) = nm
      <4>1. Cells(q, len) = [j \in 1..len |-> w[q + j]]
        <5>1. Copied(w) /\ q \in Nat /\ len \in Nat /\ q + len <= Len(d)
          BY <1>1, <1>4, <1>7, <3>1
        <5> HIDE DEF q, r
        <5> QED
          BY <5>1, CopiedCells
      <4>2. nm = [j \in 1..len |-> nm[j]]
        BY <1>4 DEF len
      <4>3. \A j \in 1..len : w[q + j] = nm[j]
        BY <1>5
      <4> QED
        BY <4>1, <4>2, <4>3
    <3>3. Cells(r, 2) = i.paths[nm]
      <4>1. Cells(r, 2) = [j \in 1..2 |-> w[r + j]]
        <5> HIDE DEF q, r
        <5> DEFINE two == 2
        <5>1. two \in Nat /\ r + two <= Len(d)
          BY <3>1
        <5> HIDE DEF two
        <5>2. Cells(r, two) = [j \in 1..two |-> w[r + j]]
          BY <1>1, <1>7, <5>1, CopiedCells
        <5> QED
          BY <5>2 DEF two
      <4>2. \A j \in 1..2 : w[r + j] = i.paths[nm][j]
        BY <1>5
      <4> QED
        BY <4>1, <4>2, <1>4
    <3>4. /\ Take(1 + len + 2) /\ left' = left - 1 /\ pc' = After("path", left')
          /\ idx' = [idx EXCEPT !.paths = Emplaced(@, nm, i.paths[nm])]
      BY <1>9, <2>2, <2>4, <3>2, <3>3 DEF ReadPath
    <3>5. p' = p + (1 + len + 2) /\ out' = out
      <4>1. p + (1 + len + 2) <= Len(d) /\ 1 + len + 2 \in Nat
        BY <3>1, <1>3, <1>4
      <4> QED
        BY <4>1, <3>4, TakesOn DEF Situation
    <3>6. p' = at[k]
      BY <3>5, <1>3, <1>4, <1>5
    <3>7. idx' = UpTo(i, n, k)
      <4>1. Emplaced(SomePaths(i, k - 1), nm, i.paths[nm]) = SomePaths(i, k)
        BY <1>2, OneMorePath, ManifestAssumption DEF Situation, nm, m
      <4> QED
        BY <1>2, <3>4, <4>1 DEF UpTo
    <3>8. left' = m - k
      BY <1>2, <1>3, <3>4
    <3>9. CASE k < m
      <4>1. pc' = "path"
        BY <1>3, <3>4, <3>8, <3>9 DEF After
      <4>2. k + 1 \in 1..m /\ (k + 1) - 1 = k /\ left' = m - (k + 1) + 1
        BY <1>2, <1>3, <3>8, <3>9
      <4>3. p' = at[(k + 1) - 1] /\ idx' = UpTo(i, n, (k + 1) - 1)
        BY <3>6, <3>7, <4>2
      <4> QED
        BY <1>1, <3>5, <4>1, <4>2, <4>3 DEF Progress, n, m
    <3>10. CASE k = m
      <4>1. pc' = "end"
        BY <1>3, <3>4, <3>8, <3>10 DEF After
      <4>2. p' = Len(w)
        BY <3>6, <3>10 DEF Situation, Following, Layout, m
      <4> QED
        BY <1>1, <3>5, <3>7, <3>10, <4>1, <4>2 DEF Progress, n, m
    <3> QED
      BY <1>2, <1>3, <3>9, <3>10
  <2> QED
    BY <2>3, <2>4
<1> QED
  BY <1>8, <1>9

LEMMA ReturnStep ==
  ASSUME NEW i, NEW w, NEW at, Situation(i, w, at), Return
  PROVE  Progress(i, w, at)'
<1>1. pc = "end" /\ p = Len(w) /\ idx = UpTo(i, NumBlobs(i), NumPaths(i))
  BY DEF Return, Situation, Following, Progress
<1>2. idx = i
  BY <1>1, AllRead, ManifestAssumption DEF Situation
<1> QED
  BY <1>1, <1>2 DEF Return, Progress

LEMMA InitCopies ==
  ASSUME ReadInit
  PROVE  CopyInv
<1>1. ReadInv /\ source \in Indexes
  BY InitReads DEF ReadInit
<1>2. ASSUME kind # "altered" PROVE \E at : Following(source, Serialized(source), at)
  <2> DEFINE w == Serialized(source)
  <2>1. IsIndex(source) /\ Len(w) \in Nat /\ w \in Seq(Cell) /\ SizeMax \in Nat
    BY <1>1, ManifestAssumption
  <2>2. PICK at : Layout(source, w, at)
    BY <2>1, SerializedLayout
  <2>3. UpTo(source, 0, 0) = idx
    BY NothingRead DEF ReadInit
  <2>4. Progress(source, w, at)
    BY <2>3 DEF ReadInit, Progress
  <2>5. \/ kind = "whole" /\ d = w
        \/ kind = "cut" /\ \E k \in 0..(Len(w) - 1) : d = SubSeq(w, 1, k)
    BY <1>2 DEF ReadInit
  <2> HIDE DEF w
  <2>6. Copied(w)
    <3>1. CASE kind = "whole" /\ d = w
      BY <2>1, <3>1 DEF Copied
    <3>2. CASE kind = "cut" /\ \E k \in 0..(Len(w) - 1) : d = SubSeq(w, 1, k)
      <4>1. PICK k \in 0..(Len(w) - 1) : d = SubSeq(w, 1, k)
        BY <3>2
      <4>2. Len(d) = k /\ \A j \in 1..k : d[j] = w[j]
        BY <2>1, <4>1
      <4> QED
        BY <2>1, <3>2, <4>2 DEF Copied
    <3> QED
      BY <2>5, <3>1, <3>2
  <2> QED
    BY <2>2, <2>4, <2>6 DEF Following, w
<1> QED
  BY <1>1, <1>2 DEF CopyInv

LEMMA NextCopies ==
  ASSUME CopyInv, ReadNext
  PROVE  CopyInv'
<1>1. ReadInv'
  BY NextReads DEF CopyInv
<1>2. UNCHANGED <<source, kind, d>>
  BY DEF ReadNext, ReadMagic, ReadCount, ReadBlob, ReadPath, Return, Take, Fail, buffer
<1>3. ASSUME kind # "altered" PROVE \E at : Following(source, Serialized(source), at)'
  <2>1. PICK i : i = source
    OBVIOUS
  <2>2. PICK w : w = Serialized(source)
    OBVIOUS
  <2>3. PICK at : Following(i, w, at)
    BY <1>3, <2>1, <2>2 DEF CopyInv
  <2>4. Situation(i, w, at)
    BY <2>1, <2>2, <2>3, ManifestAssumption DEF CopyInv, Situation
  <2>5. Progress(i, w, at)'
    BY <2>4, MagicStep, BlobCountStep, BlobStep, PathCountStep, PathStep, ReturnStep DEF ReadNext
  <2>6. Copied(w)'
    BY <1>2, <2>3, CopyStays DEF Following
  <2>7. Following(i, w, at)'
    BY <2>3, <2>5, <2>6 DEF Following
  <2> QED
    BY <1>2, <2>1, <2>2, <2>7
<1> QED
  BY <1>1, <1>2, <1>3 DEF CopyInv

LEMMA StutterCopies ==
  ASSUME CopyInv, UNCHANGED readVars
  PROVE  CopyInv'
BY SMTT(20) DEF CopyInv, readVars, ReadInv, size, Following, Layout, Copied, Progress

\* What the invariant says of a manifest that has been read.
LEMMA CopyRead ==
  ASSUME CopyInv
  PROVE  RoundTrip /\ TruncationFails
<1>1. CASE kind = "altered"
  BY <1>1 DEF RoundTrip, TruncationFails
<1>2. CASE kind # "altered"
  <2> DEFINE w == Serialized(source)
  <2>1. PICK at : Following(source, w, at)
    BY <1>2 DEF CopyInv
  <2>2. RoundTrip
    BY <2>1 DEF Following, Progress, RoundTrip
  <2>3. ASSUME kind = "cut" PROVE pc # "done"
    <3>1. Len(d) \in Nat /\ Len(w) \in Nat /\ Len(d) < Len(w) /\ p <= Len(d)
      BY <2>1, <2>3 DEF Following, Copied, CopyInv, ReadInv, size
    <3> QED
      BY <2>1, <3>1 DEF Following, Progress
  <2>4. TruncationFails
    BY <2>1, <2>3 DEF Following, Progress, TruncationFails
  <2> QED
    BY <2>2, <2>4
<1> QED
  BY <1>1, <1>2

\* Any index is read back from its own manifest, whatever it holds and in whatever order
\* its entries were written.
THEOREM WholeManifestsAreRead == ReadSpec => []RoundTrip
<1>1. ReadInit => CopyInv
  BY InitCopies
<1>2. CopyInv /\ [ReadNext]_readVars => CopyInv'
  BY NextCopies, StutterCopies
<1>3. CopyInv => RoundTrip
  BY CopyRead
<1> QED
  BY <1>1, <1>2, <1>3, PTL DEF ReadSpec

\* No part of a manifest, cut anywhere, is taken for one.
THEOREM PartsOfManifestsFail == ReadSpec => []TruncationFails
<1>1. ReadInit => CopyInv
  BY InitCopies
<1>2. CopyInv /\ [ReadNext]_readVars => CopyInv'
  BY NextCopies, StutterCopies
<1>3. CopyInv => TruncationFails
  BY CopyRead
<1> QED
  BY <1>1, <1>2, <1>3, PTL DEF ReadSpec

-----------------------------------------------------------------------------
(* Transfer.                                                               *)

\* What is behind done has been moved, and nothing past the end or to a wrong place.
TransferInv ==
  /\ job \in Job /\ done \in 0..job.n
  /\ from \in Source /\ (job.loop = "random_bytes" <=> from # "file")
  /\ 0..(done - 1) \subseteq DOMAIN moved /\ DOMAIN moved \subseteq 0..(job.n - 1)
  /\ \A i \in DOMAIN moved : Right(i)
  /\ result = "true" => done = job.n

\* The two words of an OVERLAPPED are the offset.
LEMMA OffsetSurvives ==
  ASSUME NEW x \in Nat
  PROVE  Addressed(x) = x
<1>1. WordSize \in Nat \ {0}
  BY TransferAssumption
<1>2. x = WordSize * (x \div WordSize) + (x % WordSize)
  BY <1>1
<1>3. (x \div WordSize) * WordSize = WordSize * (x \div WordSize)
  BY <1>1
<1> QED
  BY <1>2, <1>3 DEF Addressed, Position, Overlapped

\* A byte goes to its own place, or is one of a generator's.
LEMMA PlaceIsRight ==
  ASSUME TransferInv, NEW i \in Int, i >= done
  PROVE  Place(i) = IF job.loop = "random_bytes" THEN from ELSE job.off + i
<1>1. job.off \in Nat /\ done \in Nat /\ NextAt = job.off + done
  BY TransferAssumption DEF TransferInv, Job, NextAt
<1>2. Addressed(NextAt) = NextAt
  BY <1>1, OffsetSurvives
<1> QED
  BY <1>1, <1>2 DEF Place

LEMMA MovesStays ==
  ASSUME TransferInv, NEW k \in 1..MaxBytes, k <= Asked, Moves(k)
  PROVE  TransferInv'
<1>1. /\ job.n \in Nat /\ done \in Nat /\ done < job.n /\ k \in Nat
      /\ done' = done + k /\ job' = job /\ from' = from
  BY TransferAssumption DEF TransferInv, Job, Moves, Looping, Advanced
<1>2. k <= job.n - done
  BY <1>1, TransferAssumption DEF Asked
<1>3. moved' = [i \in DOMAIN moved \union done..(done + k - 1) |->
                  IF i >= done /\ i < done + k THEN Place(i) ELSE moved[i]]
  BY DEF Moves
<1>4. DOMAIN moved' = DOMAIN moved \union done..(done + k - 1)
  BY <1>3
<1>5. 0..(done' - 1) \subseteq DOMAIN moved'
  BY <1>1, <1>4 DEF TransferInv
<1>6. DOMAIN moved' \subseteq 0..(job.n - 1)
  BY <1>1, <1>2, <1>4 DEF TransferInv
<1>7. ASSUME NEW i \in DOMAIN moved'
      PROVE  Right(i)'
  <2>1. i \in Int
    BY <1>6
  <2>2. CASE i >= done /\ i < done + k
    <3>1. moved'[i] = Place(i)
      BY <1>3, <1>4, <1>7, <2>2
    <3> QED
      BY <3>1, <2>1, <2>2, <1>1, PlaceIsRight DEF Right, TransferInv
  <2>3. CASE ~ (i >= done /\ i < done + k)
    <3>1. i \in DOMAIN moved /\ moved'[i] = moved[i]
      BY <1>1, <1>3, <1>4, <1>7, <2>1, <2>3
    <3> QED
      BY <3>1, <1>1 DEF Right, TransferInv
  <2> QED
    BY <2>2, <2>3
<1> QED
  BY <1>1, <1>2, <1>5, <1>6, <1>7 DEF TransferInv, Moves, Looping, Running

LEMMA NextTransfers ==
  ASSUME TransferInv, TransferNext
  PROVE  TransferInv'
<1>1. ASSUME NEW k \in 1..MaxBytes, k <= Asked, Moves(k)
      PROVE  TransferInv'
  BY <1>1, MovesStays
<1>2. CASE Interrupted
  BY <1>2 DEF Interrupted, TransferInv, Right
<1>3. CASE Fails
  BY <1>3, TransferAssumption DEF Fails, Looping, Running, TransferInv, Right, Source, Job
<1>4. CASE NoDevice
  BY <1>4 DEF NoDevice, TransferInv, Right
<1>5. CASE TransferReturns
  BY <1>5, TransferAssumption DEF TransferReturns, Looping, Running, TransferInv, Right, Job
<1> QED
  BY <1>1, <1>2, <1>3, <1>4, <1>5 DEF TransferNext

\* A read or write that returns true has moved every byte, each to its own place, and
\* random_bytes has filled its buffer; and nothing beside was touched, however the
\* system cuts the calls up, for any number of bytes, offset and width of words.
THEOREM TransferIsExact == TransferSpec => []ExactlyMoved
<1>1. TransferInit => TransferInv
  BY TransferAssumption DEF TransferInit, TransferInv, Job, Source, Right
<1>2. TransferInv /\ [TransferNext]_transferVars => TransferInv'
  <2>1. CASE UNCHANGED transferVars
    BY <2>1 DEF transferVars, TransferInv, Right
  <2> QED
    BY <2>1, NextTransfers
<1>3. TransferInv => ExactlyMoved
  <2> SUFFICES ASSUME TransferInv
               PROVE  ExactlyMoved
    OBVIOUS
  <2>1. job.n \in Nat /\ done \in 0..job.n
    BY TransferAssumption DEF TransferInv, Job
  <2>2. DOMAIN moved \subseteq 0..(job.n - 1) /\ \A i \in DOMAIN moved : Right(i)
    BY DEF TransferInv
  <2>3. result = "true" => DOMAIN moved = 0..(job.n - 1)
    BY <2>1, <2>2 DEF TransferInv
  <2> QED
    BY <2>1, <2>2, <2>3 DEF ExactlyMoved
<1> QED
  BY <1>1, <1>2, <1>3, PTL DEF TransferSpec

-----------------------------------------------------------------------------
(* KdfHeader.                                                              *)

\* Past the check the parameters are in range, and so is the work area.
KdfInv ==
  /\ header \in Header
  /\ stage \in {"derive_key", "crypto_argon2"} => Accepts(header.kdf)
  /\ stage = "crypto_argon2" => work_size = WorkSize(header.kdf)

\* Of the products that the limits allow only the largest can wrap, to nothing.
LEMMA OnlyTheLargestProductWraps ==
  ASSUME NEW k \in Kdf, Accepts(k)
  PROVE  /\ (BlocksPerLane * k.nb_lanes) % Uint32Size = BlocksPerLane * k.nb_lanes
         /\ \/ WorkSize(k) = k.nb_blocks * BlockBytes
            \/ k.nb_blocks = kMaxKdfBlocks /\ kMaxKdfBlocks * BlockBytes = SizeTSize
<1>1. /\ k.nb_lanes \in Nat /\ k.nb_blocks \in Nat
      /\ k.nb_lanes <= kMaxKdfLanes /\ k.nb_blocks <= kMaxKdfBlocks
      /\ BlocksPerLane \in Nat /\ BlockBytes \in Nat \ {0} /\ kMaxKdfLanes \in Nat /\ kMaxKdfBlocks \in Nat
  BY KdfHeaderAssumption DEF Accepts, LanesInRange, UnderCeiling, Kdf, Uint32
<1>2. ASSUME NEW a \in Nat, NEW b \in Nat, NEW c \in Nat, b <= c
      PROVE  a * b \in Nat /\ a * b <= a * c
  BY <1>2
<1>3. ASSUME NEW a \in Nat \ {0}, NEW b \in Nat, NEW c \in Nat, b < c
      PROVE  b * a \in Nat /\ b * a < c * a
  BY <1>3
<1>4. ASSUME NEW x \in Nat, NEW m \in Nat, x < m
      PROVE  x % m = x
  BY <1>4
<1>5. (BlocksPerLane * k.nb_lanes) % Uint32Size = BlocksPerLane * k.nb_lanes
  <2>1. BlocksPerLane * k.nb_lanes \in Nat /\ BlocksPerLane * k.nb_lanes < Uint32Size
    BY <1>1, <1>2, KdfHeaderAssumption
  <2> QED
    BY <1>4, <2>1, KdfHeaderAssumption
<1>6. CASE k.nb_blocks < kMaxKdfBlocks
  <2>1. k.nb_blocks * BlockBytes \in Nat /\ k.nb_blocks * BlockBytes < SizeTSize
    BY <1>1, <1>3, <1>6, KdfHeaderAssumption
  <2>2. WorkSize(k) = k.nb_blocks * BlockBytes
    BY <1>4, <2>1, KdfHeaderAssumption DEF WorkSize
  <2> QED
    BY <1>5, <2>2
<1>7. CASE k.nb_blocks = kMaxKdfBlocks /\ kMaxKdfBlocks * BlockBytes < SizeTSize
  <2>1. kMaxKdfBlocks * BlockBytes \in Nat
    BY <1>1
  <2>2. WorkSize(k) = k.nb_blocks * BlockBytes
    BY <1>4, <1>7, <2>1, KdfHeaderAssumption DEF WorkSize
  <2> QED
    BY <1>5, <2>2
<1>8. CASE k.nb_blocks = kMaxKdfBlocks /\ kMaxKdfBlocks * BlockBytes = SizeTSize
  BY <1>5, <1>8
<1>9. kMaxKdfBlocks * BlockBytes \in Nat /\ SizeTSize \in Nat
  BY <1>1, KdfHeaderAssumption
<1> QED
  BY <1>1, <1>6, <1>7, <1>8, <1>9, KdfHeaderAssumption

LEMMA KdfInvariant == KdfSpec => []KdfInv
<1>1. KdfInit => KdfInv
  BY DEF KdfInit, KdfInv
<1>2. KdfInv /\ [KdfNext]_kdfVars => KdfInv'
  BY DEF KdfInv, KdfNext, ReadHeaderKdf, DeriveKey, kdfVars
<1> QED
  BY <1>1, <1>2, PTL DEF KdfSpec

\* Argon2 never runs with parameters that it is not defined for, nor with less memory
\* than they ask for, whatever the header says and in a size_t of 32 bits as in one
\* of 64, except for a header that asks for as many bytes as a size_t has values.
THEOREM BelowTheCeiling == KdfSpec => []OnlyTheCeilingWraps
<1>1. KdfInv => OnlyTheCeilingWraps
  <2> SUFFICES ASSUME KdfInv, stage = "crypto_argon2"
               PROVE  OnlyTheCeilingWraps
    BY DEF OnlyTheCeilingWraps
  <2>1. header.kdf \in Kdf /\ Accepts(header.kdf)
    BY DEF KdfInv, Header
  <2>2. header.kdf.nb_lanes \in Nat /\ header.kdf.nb_passes \in Nat
    BY <2>1 DEF Kdf, Uint32
  <2>3. Defined(header.kdf)
    BY <2>1, <2>2, OnlyTheLargestProductWraps, KdfHeaderAssumption
    DEF Defined, Accepts, LanesInRange, EnoughBlocks
  <2> QED
    BY <2>1, <2>3, OnlyTheLargestProductWraps DEF OnlyTheCeilingWraps, KdfInv
<1> QED
  BY <1>1, KdfInvariant, PTL

\* Where a size_t holds the bytes of the largest work area, as one of 64 bits does,
\* no header is excepted.
COROLLARY WholeInAWideSizeT ==
  ASSUME kMaxKdfBlocks * BlockBytes # SizeTSize
  PROVE  KdfSpec => []WorkAreaIsWhole
<1>1. OnlyTheCeilingWraps => WorkAreaIsWhole
  BY DEF OnlyTheCeilingWraps, WorkAreaIsWhole
<1> QED
  BY <1>1, BelowTheCeiling, PTL

-----------------------------------------------------------------------------
(* CApi.                                                                   *)

ApiInv ==
  given \subseteq cached /\ cached \subseteq String

\* The strings that the header lets a caller read are those of caches that were not
\* emptied, for any number of handles.
THEOREM LiveEntries == ApiSpec => []EntriesLive
<1>1. ApiInit => ApiInv
  BY DEF ApiInit, ApiInv
<1>2. ASSUME ApiInv, ApiNext
      PROVE  ApiInv'
  <2>1. ASSUME NEW t \in Thread, NEW code, ReturnsNull(t, code)
        PROVE  ApiInv'
    BY <1>2, <2>1 DEF ReturnsNull, ApiInv
  <2>2. ASSUME NEW t \in Thread, NEW h \in SpHandle, ReturnsHandle(t, h)
        PROVE  ApiInv'
    BY <1>2, <2>2 DEF ReturnsHandle, ApiInv
  <2>3. ASSUME NEW h \in SpHandle, SpClose(h)
        PROVE  ApiInv'
    BY <1>2, <2>3 DEF SpClose, ApiInv
  <2>4. ASSUME NEW h \in SpHandle, Mutate(h)
        PROVE  ApiInv'
    BY <1>2, <2>4 DEF Mutate, ApiInv
  <2>5. ASSUME NEW h \in SpHandle, SpList(h)
        PROVE  ApiInv'
    BY <1>2, <2>5 DEF SpList, Fill, Overwritten, StringsOf, String, ApiInv
  <2>6. ASSUME NEW h \in SpHandle, SpStat(h)
        PROVE  ApiInv'
    BY <1>2, <2>6 DEF SpStat, Fill, Overwritten, StringsOf, String, ApiInv
  <2> QED
    BY <1>2, <2>1, <2>2, <2>3, <2>4, <2>5, <2>6 DEF ApiNext
<1>3. ApiInv /\ [ApiNext]_apiVars => ApiInv'
  BY <1>2 DEF apiVars, ApiInv
<1>4. ApiInv => EntriesLive
  BY DEF ApiInv, EntriesLive
<1> QED
  BY <1>1, <1>3, <1>4, PTL DEF ApiSpec

-----------------------------------------------------------------------------
(* WebRekey.                                                               *)

\* What a handler knows: it has the handle to itself, so the password that it has
\* verified is still the slot's, and then its own is.
RekeyInv ==
  /\ request \in [Client -> RekeyRequest]
  /\ \A c, k \in Client : request[c].at \in Handling /\ request[k].at \in Handling => c = k
  /\ \A c \in Client :
       /\ request[c].at = "verified" => request[c].old = slot
       /\ request[c].at = "written" => request[c].new = slot
  /\ OkOpens

\* A step that changes one request, which does not enter its handler's part under the
\* mutex, leaves the others where they are.
LEMMA OneAnswer ==
  ASSUME RekeyInv, NEW c \in Client, NEW r \in RekeyRequest,
         request' = [request EXCEPT ![c] = r], r.at \notin Handling,
         request[c].at # "written", UNCHANGED <<slot, onDisk, agreed, attempted>>
  PROVE  RekeyInv'
<1>1. \A k \in Client : request'[k] = IF k = c THEN r ELSE request[k]
  BY DEF RekeyInv
<1>2. request' \in [Client -> RekeyRequest]
  BY DEF RekeyInv
<1>3. {k \in Client : request'[k].at = "written"} = {k \in Client : request[k].at = "written"}
  BY <1>1 DEF Handling
<1>4. \A k \in Client : request'[k].at = "written" => request'[k].new = request[k].new
  BY <1>1 DEF Handling
<1>5. {request'[k].new : k \in {j \in Client : request'[j].at = "written"}} =
      {request[k].new : k \in {j \in Client : request[j].at = "written"}}
  BY <1>3, <1>4
<1>6. OkOpens'
  BY <1>5 DEF RekeyInv, OkOpens
<1> QED
  BY <1>1, <1>2, <1>6 DEF RekeyInv, Handling

LEMMA RekeyInitHolds ==
  ASSUME RekeyInit
  PROVE  RekeyInv
BY DEF RekeyInit, RekeyInv, RekeyRequest, Unasked, Handling, OkOpens

LEMMA RekeyVerifies ==
  ASSUME RekeyInv, NEW c \in Client, VerifyPassword(c)
  PROVE  RekeyInv'
<1>1. CASE Answered(c)
  BY <1>1, OneAnswer DEF Answered, VerifyPassword, Unasked, Handling, RekeyRequest
<1>2. CASE request[c].old = slot /\ request' = [request EXCEPT ![c].at = "verified"]
  <2>1. request[c] \in RekeyRequest /\ request[c].at = "asked"
    BY DEF RekeyInv, VerifyPassword
  <2>2. [request[c] EXCEPT !.at = "verified"] \in RekeyRequest
    BY <2>1 DEF RekeyRequest, Unasked, Handling
  <2>3. request' \in [Client -> RekeyRequest]
    BY <1>2, <2>2 DEF RekeyInv
  <2>4. \A k \in Client : k # c => request'[k] = request[k]
    BY <1>2 DEF RekeyInv
  <2>5. request'[c].at = "verified" /\ request'[c].old = slot
    BY <1>2, <2>1 DEF RekeyInv, RekeyRequest, Unasked
  <2>6. \A k \in Client : request[k].at \notin Handling
    BY DEF VerifyPassword, MutexFree
  <2>7. {slot} \union onDisk \subseteq {agreed} \union attempted
    BY <2>6 DEF RekeyInv, OkOpens, Handling
  <2>8. UNCHANGED <<slot, onDisk, agreed, attempted>>
    BY DEF VerifyPassword
  <2>9. OkOpens'
    BY <2>7, <2>8 DEF OkOpens
  <2> QED
    BY <2>3, <2>4, <2>5, <2>6, <2>8, <2>9 DEF RekeyInv, Handling
<1> QED
  BY <1>1, <1>2 DEF VerifyPassword

LEMMA RekeyWrites ==
  ASSUME RekeyInv, NEW c \in Client, WriteNew(c)
  PROVE  RekeyInv'
<1>1. CASE Answered(c) /\ UNCHANGED <<slot, onDisk>>
  BY <1>1, OneAnswer DEF Answered, WriteNew, Unasked, Handling, RekeyRequest
<1>2. CASE /\ slot' = request[c].new
           /\ onDisk' = onDisk \union {request[c].new}
           /\ request' = [request EXCEPT ![c].at = "written"]
  <2>1. request[c] \in RekeyRequest /\ request[c].at = "verified"
    BY DEF RekeyInv, WriteNew
  <2>2. [request[c] EXCEPT !.at = "written"] \in RekeyRequest
    BY <2>1 DEF RekeyRequest, Unasked, Handling
  <2>3. request' \in [Client -> RekeyRequest]
    BY <1>2, <2>2 DEF RekeyInv
  <2>4. \A k \in Client : k # c => request'[k] = request[k] /\ request'[k].at \notin Handling
    BY <1>2, <2>1 DEF RekeyInv, Handling
  <2>5. request'[c].at = "written" /\ request'[c].new = request[c].new
    BY <1>2, <2>1 DEF RekeyInv, RekeyRequest, Unasked
  <2>6. {slot} \union onDisk \subseteq {agreed} \union attempted
    BY <2>1 DEF RekeyInv, OkOpens, Handling
  <2>7. UNCHANGED <<agreed, attempted>>
    BY DEF WriteNew
  <2>8. OkOpens'
    BY <1>2, <2>5, <2>6, <2>7 DEF OkOpens
  <2> QED
    BY <1>2, <2>3, <2>4, <2>5, <2>8 DEF RekeyInv, Handling
<1> QED
  BY <1>1, <1>2 DEF WriteNew

LEMMA RekeySyncs ==
  ASSUME RekeyInv, NEW c \in Client, SyncNew(c)
  PROVE  RekeyInv'
<1>1. request[c].at = "written" /\ request[c].new = slot
  BY DEF RekeyInv, SyncNew
<1>2. request' = [request EXCEPT ![c] = Unasked] /\ slot' = slot
  BY DEF SyncNew, Answered
<1>3. Unasked \in RekeyRequest /\ Unasked.at \notin Handling
  BY DEF Unasked, RekeyRequest, Handling
<1>4. request' \in [Client -> RekeyRequest]
  BY <1>2, <1>3 DEF RekeyInv
<1>5. \A k \in Client : request'[k].at \notin Handling
  BY <1>1, <1>2, <1>3 DEF RekeyInv, Handling
<1>6. {slot} \union onDisk \subseteq {agreed} \union attempted \union {slot}
  <2>1. \A k \in Client : request[k].at = "written" => request[k].new = slot
    BY DEF RekeyInv
  <2> QED
    BY <2>1 DEF RekeyInv, OkOpens
<1>7. PICK synced \in BOOLEAN :
        /\ onDisk' = IF synced THEN {slot} ELSE onDisk
        /\ IF synced THEN agreed' = slot /\ attempted' = {}
           ELSE attempted' = attempted \union {slot} /\ UNCHANGED agreed
  BY <1>1 DEF SyncNew, Rekeyed
<1>8. {slot'} \union onDisk' \subseteq {agreed'} \union attempted'
  BY <1>2, <1>6, <1>7
<1>9. OkOpens'
  BY <1>8 DEF OkOpens
<1> QED
  BY <1>4, <1>5, <1>9 DEF RekeyInv, Handling

LEMMA RekeyIsCutOff ==
  ASSUME RekeyInv, CutOff, slot' \in {slot} \union onDisk, onDisk' \in {onDisk, {slot'}}
  PROVE  RekeyInv'
<1>1. request' = [c \in Client |-> Unasked] /\ agreed' = agreed
  BY DEF CutOff
<1>2. Unasked \in RekeyRequest /\ Unasked.at \notin Handling
  BY DEF Unasked, RekeyRequest, Handling
<1>3. {slot} \union onDisk \subseteq {agreed'} \union attempted'
  BY DEF RekeyInv, OkOpens, CutOff
<1>4. OkOpens'
  BY <1>3 DEF OkOpens
<1> QED
  BY <1>1, <1>2, <1>4 DEF RekeyInv, Handling

LEMMA RekeyStep ==
  ASSUME RekeyInv, RekeyNext
  PROVE  RekeyInv'
<1>1. ASSUME NEW c \in Client, NEW o \in Password, NEW a \in Password, NEW b \in Password,
             NEW authed \in BOOLEAN, DoRekey(c, o, a, b, authed)
      PROVE  RekeyInv'
  <2> DEFINE r == [at |-> "asked", old |-> o, new |-> a, authed |-> authed]
  <2>1. r \in RekeyRequest /\ r.at \notin Handling
    BY DEF RekeyRequest, Handling
  <2>2. request' = [request EXCEPT ![c] = r] /\ request[c].at # "written"
    BY <1>1 DEF DoRekey, Unasked
  <2>3. UNCHANGED <<slot, onDisk, agreed, attempted>>
    BY <1>1 DEF DoRekey
  <2> QED
    <3> HIDE DEF r
    <3> QED
      BY <2>1, <2>2, <2>3, OneAnswer
<1>2. ASSUME NEW c \in Client, RefuseToken(c) PROVE RekeyInv'
  BY <1>2, OneAnswer DEF RefuseToken, Answered, Unasked, Handling, RekeyRequest
<1>3. ASSUME NEW c \in Client, VerifyPassword(c) PROVE RekeyInv'
  BY <1>3, RekeyVerifies
<1>4. ASSUME NEW c \in Client, WriteNew(c) PROVE RekeyInv'
  BY <1>4, RekeyWrites
<1>5. ASSUME NEW c \in Client, SyncNew(c) PROVE RekeyInv'
  BY <1>5, RekeySyncs
<1>6. CASE OtherCommit
  BY <1>6 DEF OtherCommit, RekeyInv, OkOpens
<1>7. CASE ServerStops
  BY <1>7, RekeyIsCutOff DEF ServerStops
<1>8. CASE ServerLosesPower
  BY <1>8, RekeyIsCutOff DEF ServerLosesPower
<1>9. CASE ServerStarts
  BY <1>9 DEF ServerStarts, RekeyInv, OkOpens
<1> QED
  BY <1>1, <1>2, <1>3, <1>4, <1>5, <1>6, <1>7, <1>8, <1>9 DEF RekeyNext

\* The password that a change answered with ok named opens the pack until a later
\* change, for any number of tabs and passwords.
THEOREM AgreedPassword == RekeySpec => []OkOpens
<1>1. RekeyInit => RekeyInv
  BY RekeyInitHolds
<1>2. RekeyInv /\ [RekeyNext]_rekeyVars => RekeyInv'
  BY RekeyStep DEF rekeyVars, RekeyInv, OkOpens
<1>3. RekeyInv => OkOpens
  BY DEF RekeyInv
<1> QED
  BY <1>1, <1>2, <1>3, PTL DEF RekeySpec

\* A running server changes the password only for a request that named the password
\* which is replaced: between the comparison and the write no other change gets in.
THEOREM OldMustBeKnown == RekeySpec => ChangedByWhoKnows
<1>1. RekeyInit => RekeyInv
  BY RekeyInitHolds
<1>2. RekeyInv /\ [RekeyNext]_rekeyVars => RekeyInv'
  BY RekeyStep DEF rekeyVars, RekeyInv, OkOpens
<1>3. RekeyInv /\ [RekeyNext]_rekeyVars =>
        [(serving' /\ slot' # slot) =>
           \E c \in Client : request[c].at = "verified" /\ request[c].old = slot /\ slot' = request[c].new]_rekeyVars
  BY DEF RekeyInv, RekeyNext, rekeyVars, DoRekey, RefuseToken, VerifyPassword, WriteNew, SyncNew,
         OtherCommit, ServerStops, ServerLosesPower, ServerStarts, CutOff
<1> QED
  BY <1>1, <1>2, <1>3, PTL DEF RekeySpec, ChangedByWhoKnows
=============================================================================

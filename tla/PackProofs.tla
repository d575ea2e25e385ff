------------------------------ MODULE PackProofs ------------------------------
(***************************************************************************)
(* The index of a pack proved right for any finite set of paths, any set   *)
(* of contents and a file of any length: reference counts are exact, no    *)
(* blob dangles, and the handle implements FileMap.                        *)
(***************************************************************************)
EXTENDS Pack, TLAPS, FiniteSetTheorems, SequenceTheorems

-----------------------------------------------------------------------------
(* Indexes and reference counts.                                           *)

\* The empty index of a fresh pack.
LEMMA EmptyIndexIsGood ==
  /\ EmptyIndex \in Index /\ Exact(EmptyIndex)
  /\ \A last : StoredUpTo(EmptyIndex, last)
<1>1. EmptyIndex \in Index
  BY DEF EmptyIndex, Index
<1>2. \A c \in Content : EmptyIndex.blobs[c] = None /\ Holders(EmptyIndex.paths, c) = {}
  BY PackAssumption DEF EmptyIndex, Holders
<1> QED
  BY <1>1, <1>2 DEF Exact, StoredUpTo

\* The holders of a content are finitely many.
LEMMA HoldersFinite ==
  ASSUME NEW paths, NEW c
  PROVE  IsFiniteSet(Holders(paths, c)) /\ Cardinality(Holders(paths, c)) \in Nat
BY PackAssumption, FS_Subset, FS_CardinalityType DEF Holders

\* In a good index the content some path holds has a blob, with a positive count.
LEMMA HeldContentHasBlob ==
  ASSUME NEW idx \in Index, Exact(idx), NEW p \in Path, idx.paths[p] # None
  PROVE  LET c == idx.paths[p]
         IN  c \in Content /\ idx.blobs[c] \in BlobRef /\ idx.blobs[c] # None
             /\ idx.blobs[c].refcount > 0
<1> DEFINE c == idx.paths[p]
<1>1. c \in Content /\ p \in Holders(idx.paths, c)
  BY DEF Index, Holders
<1>2. idx.blobs[c] # None /\ idx.blobs[c].refcount = Cardinality(Holders(idx.paths, c))
  BY <1>1 DEF Exact
<1>3. Cardinality(Holders(idx.paths, c)) # 0 /\ Cardinality(Holders(idx.paths, c)) \in Nat
  BY <1>1, HoldersFinite, FS_EmptySet
<1> QED
  BY <1>1, <1>2, <1>3 DEF Index

\* Giving up one path: Release keeps the counts exact for the paths without it.
LEMMA ReleaseIsExact ==
  ASSUME NEW idx \in Index, Exact(idx), NEW p \in Path
  PROVE  LET new == [blobs |-> Release(idx.blobs, idx.paths[p]), paths |-> [idx.paths EXCEPT ![p] = None]]
         IN  /\ new \in Index /\ Exact(new)
             /\ \A c \in Content : /\ new.blobs[c] = None <=> idx.blobs[c] = None
                                   /\ new.blobs[c] # None => new.blobs[c].offset = idx.blobs[c].offset
<1> DEFINE old == idx.paths[p]
           paths == [idx.paths EXCEPT ![p] = None]
           blobs == Release(idx.blobs, old)
<1>1. idx.paths \in [Path -> Content \union {None}] /\ idx.blobs \in [Content -> BlobRef \union {None}]
      /\ paths \in [Path -> Content \union {None}]
  BY DEF Index
<1>2. CASE old = None
  <2>1. paths = idx.paths /\ blobs = idx.blobs
    BY <1>1, <1>2 DEF Release
  <2>2. [blobs |-> blobs, paths |-> paths] = idx
    BY <2>1 DEF Index
  <2> QED
    BY <2>2
<1>3. CASE old # None
  <2>1. old \in Content /\ idx.blobs[old] \in BlobRef /\ idx.blobs[old] # None
        /\ idx.blobs[old].refcount > 0
    BY <1>3, HeldContentHasBlob
  <2>2. blobs = [idx.blobs EXCEPT ![old].refcount = @ - 1]
    BY <1>3, <2>1 DEF Release
  <2>3. /\ blobs[old] = [offset |-> idx.blobs[old].offset, refcount |-> idx.blobs[old].refcount - 1]
        /\ blobs[old] \in BlobRef
    BY <1>1, <2>1, <2>2 DEF BlobRef
  <2>4. blobs \in [Content -> BlobRef \union {None}] /\ \A c \in Content : c # old => blobs[c] = idx.blobs[c]
    BY <1>1, <2>1, <2>2, <2>3
  <2>5. blobs[old] # None
    BY <2>3, PackAssumption DEF BlobRef
  <2>6. Holders(paths, old) = Holders(idx.paths, old) \ {p} /\ p \in Holders(idx.paths, old)
    BY <1>1, <1>3 DEF Holders
  <2>7. \A c \in Content : c # old => Holders(paths, c) = Holders(idx.paths, c)
    BY <1>1, PackAssumption DEF Holders
  <2>8. Cardinality(Holders(paths, old)) = Cardinality(Holders(idx.paths, old)) - 1
    BY <2>6, HoldersFinite, FS_RemoveElement
  <2>9. idx.blobs[old].refcount = Cardinality(Holders(idx.paths, old))
    BY <2>1 DEF Exact
  <2> DEFINE new == [blobs |-> blobs, paths |-> paths]
  <2>10. new \in Index
    BY <1>1, <2>4 DEF Index
  <2>11. Exact(new)
    BY <2>3, <2>4, <2>5, <2>7, <2>8, <2>9 DEF Exact
  <2> QED
    BY <2>1, <2>3, <2>4, <2>5, <2>10, <2>11
<1> QED
  BY <1>2, <1>3

\* Taking up one path that holds nothing: Retain keeps the counts exact.
LEMMA RetainIsExact ==
  ASSUME NEW idx \in Index, Exact(idx), NEW p \in Path, idx.paths[p] = None,
         NEW c \in Content, idx.blobs[c] # None
  PROVE  LET new == [blobs |-> Retain(idx.blobs, c), paths |-> [idx.paths EXCEPT ![p] = c]]
         IN  /\ new \in Index /\ Exact(new)
             /\ \A d \in Content : /\ new.blobs[d] = None <=> idx.blobs[d] = None
                                   /\ new.blobs[d] # None => new.blobs[d].offset = idx.blobs[d].offset
<1> DEFINE paths == [idx.paths EXCEPT ![p] = c]
           blobs == Retain(idx.blobs, c)
           new == [blobs |-> blobs, paths |-> paths]
<1>1. idx.paths \in [Path -> Content \union {None}] /\ idx.blobs \in [Content -> BlobRef \union {None}]
      /\ paths \in [Path -> Content \union {None}] /\ idx.blobs[c] \in BlobRef
  BY DEF Index
<1>2. /\ blobs[c] = [offset |-> idx.blobs[c].offset, refcount |-> idx.blobs[c].refcount + 1]
      /\ blobs[c] \in BlobRef
  BY <1>1 DEF BlobRef, Retain
<1>3. blobs \in [Content -> BlobRef \union {None}] /\ \A d \in Content : d # c => blobs[d] = idx.blobs[d]
  BY <1>1, <1>2 DEF Retain
<1>4. blobs[c] # None
  BY <1>2, PackAssumption DEF BlobRef
<1>5. Holders(paths, c) = Holders(idx.paths, c) \union {p} /\ p \notin Holders(idx.paths, c)
  BY <1>1, PackAssumption DEF Holders
<1>6. \A d \in Content : d # c => Holders(paths, d) = Holders(idx.paths, d)
  BY <1>1, PackAssumption DEF Holders
<1>7. Cardinality(Holders(paths, c)) = Cardinality(Holders(idx.paths, c)) + 1
  BY <1>5, HoldersFinite, FS_AddElement
<1>8. idx.blobs[c].refcount = Cardinality(Holders(idx.paths, c))
  BY DEF Exact
<1>9. new \in Index
  BY <1>1, <1>3 DEF Index
<1>10. Exact(new)
  BY <1>2, <1>3, <1>4, <1>6, <1>7, <1>8 DEF Exact
<1> QED
  BY <1>2, <1>3, <1>4, <1>9, <1>10

\* Pack::put over an index in which the content has a blob.
LEMMA PutIsExact ==
  ASSUME NEW idx \in Index, Exact(idx), NEW p \in Path, NEW c \in Content, idx.blobs[c] # None
  PROVE  LET new == [blobs |-> Retain(Release(idx.blobs, idx.paths[p]), c),
                     paths |-> [idx.paths EXCEPT ![p] = c]]
         IN  /\ new \in Index /\ Exact(new)
             /\ \A d \in Content : /\ new.blobs[d] = None <=> idx.blobs[d] = None
                                   /\ new.blobs[d] # None => new.blobs[d].offset = idx.blobs[d].offset
<1> PICK mid : mid = [blobs |-> Release(idx.blobs, idx.paths[p]), paths |-> [idx.paths EXCEPT ![p] = None]]
  OBVIOUS
<1>1. /\ mid \in Index /\ Exact(mid)
      /\ \A d \in Content : /\ mid.blobs[d] = None <=> idx.blobs[d] = None
                            /\ mid.blobs[d] # None => mid.blobs[d].offset = idx.blobs[d].offset
  BY ReleaseIsExact
<1>2. /\ mid.paths[p] = None /\ [mid.paths EXCEPT ![p] = c] = [idx.paths EXCEPT ![p] = c]
      /\ mid.blobs[c] # None
  BY <1>1 DEF Index
<1>3. PICK new :
        /\ new = [blobs |-> Retain(mid.blobs, c), paths |-> [mid.paths EXCEPT ![p] = c]]
        /\ new \in Index /\ Exact(new)
        /\ \A d \in Content : /\ new.blobs[d] = None <=> mid.blobs[d] = None
                              /\ new.blobs[d] # None => new.blobs[d].offset = mid.blobs[d].offset
  <2>1. mid.paths[p] = None /\ mid.blobs[c] # None /\ mid \in Index /\ Exact(mid)
    BY <1>1, <1>2
  <2>2. LET n == [blobs |-> Retain(mid.blobs, c), paths |-> [mid.paths EXCEPT ![p] = c]]
        IN  /\ n \in Index /\ Exact(n)
            /\ \A d \in Content : /\ n.blobs[d] = None <=> mid.blobs[d] = None
                                  /\ n.blobs[d] # None => n.blobs[d].offset = mid.blobs[d].offset
    BY ONLY <2>1, RetainIsExact, p \in Path, c \in Content
  <2> QED
    BY <2>2
<1>4. new = [blobs |-> Retain(Release(idx.blobs, idx.paths[p]), c), paths |-> [idx.paths EXCEPT ![p] = c]]
  BY <1>2, <1>3
<1>5. \A d \in Content : /\ new.blobs[d] = None <=> idx.blobs[d] = None
                         /\ new.blobs[d] # None => new.blobs[d].offset = idx.blobs[d].offset
  BY <1>1, <1>3
<1> QED
  BY <1>3, <1>4, <1>5

\* A content that is new to the index gets a blob no path holds yet.
LEMMA StoredIsExact ==
  ASSUME NEW idx \in Index, Exact(idx), NEW c \in Content, idx.blobs[c] = None, Len(log) \in Nat
  PROVE  LET new == [blobs |-> Stored(idx.blobs, c), paths |-> idx.paths]
         IN  /\ new \in Index /\ Exact(new)
             /\ new.blobs[c] # None /\ new.blobs[c].offset = Len(log) + 1
             /\ \A d \in Content : d # c => new.blobs[d] = idx.blobs[d]
<1> DEFINE blobs == Stored(idx.blobs, c)
           new == [blobs |-> blobs, paths |-> idx.paths]
<1>1. idx.paths \in [Path -> Content \union {None}] /\ idx.blobs \in [Content -> BlobRef \union {None}]
  BY DEF Index
<1>2. blobs[c] = [offset |-> Len(log) + 1, refcount |-> 0] /\ blobs[c] \in BlobRef
  BY <1>1 DEF BlobRef, Stored
<1>3. blobs \in [Content -> BlobRef \union {None}] /\ \A d \in Content : d # c => blobs[d] = idx.blobs[d]
  BY <1>1, <1>2 DEF Stored
<1>4. blobs[c] # None
  BY <1>2, PackAssumption DEF BlobRef
<1>5. Holders(idx.paths, c) = {}
  BY DEF Exact
<1>6. Cardinality(Holders(idx.paths, c)) = 0
  BY <1>5, FS_EmptySet
<1>7. Exact(new)
  BY <1>2, <1>3, <1>4, <1>6 DEF Exact
<1> QED
  BY <1>1, <1>2, <1>3, <1>4, <1>7 DEF Index

-----------------------------------------------------------------------------
(* Manifests in the log.                                                   *)

\* The manifest at a root that may be found is exact and names records before it.
ManifestOk(root) ==
  /\ Exact(Manifest(root))
  /\ root # 0 => Manifest(root) \in Index /\ StoredUpTo(Manifest(root), root - 1)

\* The invariant with its parts arranged by index.
LEMMA InvByIndex ==
  PackInv <=> /\ TypeOK
              /\ Exact(index) /\ (store = "open" => StoredUpTo(index, Len(log)))
              /\ \A root \in Promise!Findable : ManifestOk(root)
BY DEF PackInv, RefcountsExact, NothingDangles, ManifestOk

\* Roots that may be found lie in the log.
LEMMA FindableInLog ==
  TypeOK => Len(log) \in Nat /\ Promise!Findable \subseteq 0..Len(log)
BY LenProperties DEF TypeOK, Promise!Findable

\* What a change of the log leaves alone, if it leaves its first n records.
LEMMA PrefixKeeps ==
  ASSUME NEW n \in Nat, \A i \in 1..n : log'[i] = log[i]
  PROVE  /\ \A idx, last : last \in 0..n /\ StoredUpTo(idx, last) => StoredUpTo(idx, last)'
         /\ \A root \in 0..n : Manifest(root)' = Manifest(root)
         /\ \A root \in 0..n : ManifestOk(root) => ManifestOk(root)'
<1>1. \A idx, last : last \in 0..n /\ StoredUpTo(idx, last) => StoredUpTo(idx, last)'
  BY DEF StoredUpTo
<1>2. \A root \in 0..n : Manifest(root)' = Manifest(root)
  BY DEF Manifest
<1>3. ASSUME NEW root \in 0..n, ManifestOk(root) PROVE ManifestOk(root)'
  <2>1. Manifest(root)' = Manifest(root)
    BY <1>2
  <2>2. root # 0 => StoredUpTo(Manifest(root), root - 1)'
    <3> SUFFICES ASSUME root # 0 PROVE StoredUpTo(Manifest(root), root - 1)'
      OBVIOUS
    <3>1. PICK m : m = Manifest(root) /\ StoredUpTo(m, root - 1)
      BY <1>3 DEF ManifestOk
    <3>2. StoredUpTo(m, root - 1)'
      BY <1>1, <3>1
    <3> QED
      BY <2>1, <3>1, <3>2 DEF StoredUpTo
  <2> QED
    BY <1>3, <2>1, <2>2 DEF ManifestOk, Exact
<1> QED
  BY <1>1, <1>2, <1>3

\* A record appended to the log leaves all that was there.
LEMMA AppendKeepsLog ==
  ASSUME TypeOK, NEW x \in Content \union Index, log' = Append(log, x)
  PROVE  /\ log' \in Seq(Content \union Index) /\ Len(log') = Len(log) + 1 /\ log'[Len(log) + 1] = x
         /\ \A i \in 1..Len(log) : log'[i] = log[i]
BY AppendProperties, LenProperties DEF TypeOK

-----------------------------------------------------------------------------
(* Each action preserves the invariant.                                    *)

\* A change of the index only.
LEMMA EditPreserves ==
  ASSUME PackInv, UNCHANGED <<log, promised, doubt, store>>, index' \in Index, Exact(index'),
         \A c \in Content : index'.blobs[c] # None =>
            index.blobs[c] # None /\ index'.blobs[c].offset = index.blobs[c].offset
  PROVE  PackInv'
<1>1. TypeOK' /\ Exact(index)'
  BY DEF PackInv, TypeOK, Exact, Holders
<1>2. store' = "open" => StoredUpTo(index, Len(log))'
  BY DEF PackInv, NothingDangles, StoredUpTo
<1>3. \A root \in Promise!Findable' : ManifestOk(root)'
  BY InvByIndex DEF ManifestOk, Manifest, Exact, Holders, StoredUpTo, Promise!Findable
<1> QED
  BY <1>1, <1>2, <1>3 DEF PackInv, RefcountsExact, NothingDangles, ManifestOk

\* Pack::put
LEMMA PutPreserves ==
  ASSUME PackInv, NEW p \in Path, NEW c \in Content, Put(p, c)
  PROVE  PackInv'
<1>1. TypeOK /\ index \in Index /\ Exact(index) /\ Len(log) \in Nat
      /\ \A root \in Promise!Findable : ManifestOk(root) /\ root \in 0..Len(log)
  BY InvByIndex, FindableInLog DEF PackInv, TypeOK
<1> PICK idx \in Index : idx = index
  BY <1>1
<1>2. CASE /\ index.blobs[c] # None
           /\ Edit(Retain(Release(index.blobs, index.paths[p]), c), [index.paths EXCEPT ![p] = c])
           /\ UNCHANGED log
  <2>1. LET new == [blobs |-> Retain(Release(idx.blobs, idx.paths[p]), c),
                     paths |-> [idx.paths EXCEPT ![p] = c]]
         IN  /\ new \in Index /\ Exact(new)
             /\ \A d \in Content : /\ new.blobs[d] = None <=> idx.blobs[d] = None
                                   /\ new.blobs[d] # None => new.blobs[d].offset = idx.blobs[d].offset
    BY <1>1, <1>2, PutIsExact
  <2>2. /\ index' \in Index /\ Exact(index')
        /\ \A d \in Content : index'.blobs[d] # None =>
              index.blobs[d] # None /\ index'.blobs[d].offset = index.blobs[d].offset
    BY <1>2, <2>1 DEF Edit
  <2> QED
    BY <1>2, <2>2, EditPreserves DEF Edit
<1>3. CASE /\ index.blobs[c] = None /\ store = "open"
           /\ log' = Append(log, c)
           /\ Edit(Retain(Release(Stored(index.blobs, c), index.paths[p]), c),
                   [index.paths EXCEPT ![p] = c])
  <2>1. PICK mid : mid = [blobs |-> Stored(idx.blobs, c), paths |-> idx.paths]
    OBVIOUS
  <2>2. /\ mid \in Index /\ Exact(mid) /\ mid.paths = idx.paths
        /\ mid.blobs[c] # None /\ mid.blobs[c].offset = Len(log) + 1
        /\ \A d \in Content : d # c => mid.blobs[d] = idx.blobs[d]
    BY <1>1, <1>3, <2>1, StoredIsExact
  <2>3. LET new == [blobs |-> Retain(Release(mid.blobs, mid.paths[p]), c),
                     paths |-> [mid.paths EXCEPT ![p] = c]]
         IN  /\ new \in Index /\ Exact(new)
             /\ \A d \in Content : /\ new.blobs[d] = None <=> mid.blobs[d] = None
                                   /\ new.blobs[d] # None => new.blobs[d].offset = mid.blobs[d].offset
    BY ONLY <2>2, PutIsExact, p \in Path, c \in Content
  <2>4. index' = [blobs |-> Retain(Release(mid.blobs, mid.paths[p]), c),
                  paths |-> [mid.paths EXCEPT ![p] = c]]
    BY <1>3, <2>1 DEF Edit
  <2>5. /\ index' \in Index /\ Exact(index')
        /\ \A d \in Content : /\ index'.blobs[d] = None <=> mid.blobs[d] = None
                              /\ index'.blobs[d] # None => index'.blobs[d].offset = mid.blobs[d].offset
    BY ONLY <2>3, <2>4
  <2>6. /\ log' \in Seq(Content \union Index) /\ Len(log') = Len(log) + 1 /\ log'[Len(log) + 1] = c
        /\ \A i \in 1..Len(log) : log'[i] = log[i]
    BY <1>1, <1>3, AppendKeepsLog
  <2>7. UNCHANGED <<promised, doubt, store>>
    BY <1>3 DEF Edit
  <2>8. TypeOK'
    BY <1>1, <2>5, <2>6, <2>7 DEF TypeOK
  <2>9. StoredUpTo(index, Len(log))'
    <3>1. StoredUpTo(index, Len(log))
      BY <1>3 DEF PackInv, NothingDangles
    <3> SUFFICES ASSUME NEW d \in Content, index'.blobs[d] # None
                 PROVE  index'.blobs[d].offset \in 1..Len(log') /\ log'[index'.blobs[d].offset] = d
      BY DEF StoredUpTo
    <3>2. CASE d = c
      BY <1>1, <2>2, <2>5, <2>6, <3>2
    <3>3. CASE d # c
      BY <1>1, <2>2, <2>5, <2>6, <3>1, <3>3 DEF StoredUpTo
    <3> QED
      BY <3>2, <3>3
  <2>10. \A root \in Promise!Findable' : ManifestOk(root)'
    <3>1. \A root \in 0..Len(log) : ManifestOk(root) => ManifestOk(root)'
      BY <1>1, <2>6, PrefixKeeps
    <3> QED
      BY <1>1, <2>7, <3>1 DEF Promise!Findable
  <2>11. Exact(index)'
    BY <2>5 DEF Exact, Holders
  <2> QED
    BY <2>8, <2>9, <2>10, <2>11 DEF PackInv, RefcountsExact, NothingDangles, ManifestOk
<1> QED
  BY <1>2, <1>3 DEF Put

\* Pack::del
LEMMA DelPreserves ==
  ASSUME PackInv, NEW p \in Path, Del(p)
  PROVE  PackInv'
<1>1. index \in Index /\ Exact(index)
  BY InvByIndex DEF PackInv, TypeOK
<1> PICK idx \in Index : idx = index
  BY <1>1
<1>2. LET new == [blobs |-> Release(idx.blobs, idx.paths[p]), paths |-> [idx.paths EXCEPT ![p] = None]]
      IN  /\ new \in Index /\ Exact(new)
          /\ \A c \in Content : /\ new.blobs[c] = None <=> idx.blobs[c] = None
                                /\ new.blobs[c] # None => new.blobs[c].offset = idx.blobs[c].offset
  BY <1>1, ReleaseIsExact
<1>3. /\ index' \in Index /\ Exact(index')
      /\ \A d \in Content : index'.blobs[d] # None =>
            index.blobs[d] # None /\ index'.blobs[d].offset = index.blobs[d].offset
  BY <1>2 DEF Del, Edit
<1> QED
  BY <1>3, EditPreserves DEF Del, Edit

\* Pack::copy
LEMMA CopyPreserves ==
  ASSUME PackInv, NEW f \in Path, NEW t \in Path, Copy(f, t)
  PROVE  PackInv'
<1>1. index \in Index /\ Exact(index)
  BY InvByIndex DEF PackInv, TypeOK
<1> PICK idx \in Index : idx = index
  BY <1>1
<1> PICK c \in Content : c = idx.paths[f]
  BY DEF Copy, Index
<1>2. idx.paths[t] = None /\ idx.blobs[c] # None /\ Exact(idx)
  BY <1>1 DEF Copy
<1>3. LET new == [blobs |-> Retain(idx.blobs, c), paths |-> [idx.paths EXCEPT ![t] = c]]
      IN  /\ new \in Index /\ Exact(new)
          /\ \A d \in Content : /\ new.blobs[d] = None <=> idx.blobs[d] = None
                                /\ new.blobs[d] # None => new.blobs[d].offset = idx.blobs[d].offset
  BY <1>2, RetainIsExact
<1>4. /\ index' \in Index /\ Exact(index')
      /\ \A d \in Content : index'.blobs[d] # None =>
            index.blobs[d] # None /\ index'.blobs[d].offset = index.blobs[d].offset
  BY <1>3 DEF Copy, Edit
<1> QED
  BY <1>4, EditPreserves DEF Copy, Edit

\* Pack::move: the number of holders of the content stays the same.
LEMMA MovePreserves ==
  ASSUME PackInv, NEW f \in Path, NEW t \in Path, Move(f, t)
  PROVE  PackInv'
<1>1. index \in Index /\ Exact(index)
  BY InvByIndex DEF PackInv, TypeOK
<1> PICK idx \in Index : idx = index
  BY <1>1
<1>2. idx.paths \in [Path -> Content \union {None}] /\ idx.paths[f] # None /\ idx.paths[t] = None /\ f # t
  BY DEF Index, Move
<1> DEFINE paths == [idx.paths EXCEPT ![t] = idx.paths[f], ![f] = None]
<1>3. paths \in [Path -> Content \union {None}]
  BY <1>2
<1>4. \A c \in Content : Cardinality(Holders(paths, c)) = Cardinality(Holders(idx.paths, c))
  <2> SUFFICES ASSUME NEW c \in Content
               PROVE  Cardinality(Holders(paths, c)) = Cardinality(Holders(idx.paths, c))
    OBVIOUS
  <2>1. CASE c = idx.paths[f]
    <3>1. Holders(paths, c) = (Holders(idx.paths, c) \ {f}) \union {t}
      BY <1>2, <2>1, PackAssumption DEF Holders
    <3>2. f \in Holders(idx.paths, c) /\ t \notin Holders(idx.paths, c) \ {f}
      BY <1>2, <2>1, PackAssumption DEF Holders
    <3>3. Cardinality(Holders(idx.paths, c) \ {f}) = Cardinality(Holders(idx.paths, c)) - 1
          /\ IsFiniteSet(Holders(idx.paths, c) \ {f})
      BY <3>2, HoldersFinite, FS_RemoveElement
    <3>4. Cardinality(Holders(paths, c)) = Cardinality(Holders(idx.paths, c) \ {f}) + 1
      BY <3>1, <3>2, <3>3, FS_AddElement
    <3> QED
      BY <3>3, <3>4, HoldersFinite
  <2>2. CASE c # idx.paths[f]
    <3>1. Holders(paths, c) = Holders(idx.paths, c)
      BY <1>2, <2>2, PackAssumption DEF Holders
    <3> QED
      BY <3>1
  <2> QED
    BY <2>1, <2>2
<1>5. \A c \in Content : Holders(idx.paths, c) = {} => Holders(paths, c) = {}
  BY <1>2, PackAssumption DEF Holders
<1>6. index' = [blobs |-> idx.blobs, paths |-> paths]
  BY DEF Move, Edit
<1> HIDE DEF paths
<1>7. index' \in Index
  BY <1>3, <1>6 DEF Index
<1>8. Exact(index')
  BY <1>1, <1>4, <1>5, <1>6 DEF Exact
<1>9. \A d \in Content : index'.blobs[d] # None =>
            index.blobs[d] # None /\ index'.blobs[d].offset = index.blobs[d].offset
  BY <1>6
<1> QED
  BY <1>7, <1>8, <1>9, EditPreserves DEF Move, Edit

\* What every way of appending a manifest preserves.
LEMMA ManifestAppended ==
  ASSUME PackInv, store = "open", log' = Append(log, index), UNCHANGED <<store, index>>,
         Promise!Findable' \subseteq Promise!Findable \union {Len(log')},
         promised' \in {promised, Len(log')}, doubt' \subseteq doubt \union {Len(log')}
  PROVE  PackInv'
<1>1. TypeOK /\ index \in Index /\ Exact(index) /\ StoredUpTo(index, Len(log)) /\ Len(log) \in Nat
      /\ \A root \in Promise!Findable : ManifestOk(root) /\ root \in 0..Len(log)
  BY InvByIndex, FindableInLog DEF PackInv, TypeOK
<1>2. /\ log' \in Seq(Content \union Index) /\ Len(log') = Len(log) + 1 /\ log'[Len(log) + 1] = index
      /\ \A i \in 1..Len(log) : log'[i] = log[i]
  BY <1>1, AppendKeepsLog
<1>3. TypeOK'
  BY <1>1, <1>2 DEF TypeOK
<1> PICK idx \in Index, n \in Nat : idx = index /\ n = Len(log)
  BY <1>1
<1>4. StoredUpTo(idx, n)'
  BY <1>1, <1>2, PrefixKeeps
<1>5. ManifestOk(n + 1)'
  <2>1. Manifest(n + 1)' = idx
    BY <1>1, <1>2 DEF Manifest
  <2>2. StoredUpTo(Manifest(n + 1), n)'
    BY <1>4, <2>1 DEF StoredUpTo
  <2>3. Exact(Manifest(n + 1))' /\ Manifest(n + 1)' \in Index
    BY <1>1, <2>1 DEF Exact, Holders
  <2> QED
    BY <2>2, <2>3 DEF ManifestOk
<1>6. \A root \in Promise!Findable' : ManifestOk(root)'
  <2>1. \A root \in 0..n : ManifestOk(root) => ManifestOk(root)'
    BY <1>2, PrefixKeeps
  <2> QED
    BY <1>1, <1>2, <1>5, <2>1
<1>7. StoredUpTo(index, Len(log))' /\ Exact(index)'
  <2>1. index' = index /\ Len(log') = n + 1
    BY <1>2
  <2> QED
    BY <1>1, <1>4, <2>1 DEF StoredUpTo, Exact, Holders
<1> QED
  BY <1>3, <1>6, <1>7 DEF PackInv, RefcountsExact, NothingDangles, ManifestOk

\* Pack::commit, whatever it returned.
LEMMA CommitPreserves ==
  ASSUME PackInv, Commit \/ CommitFails
  PROVE  PackInv'
BY ManifestAppended DEF Commit, CommitFails, Promise!Findable

\* What compact() carries over is what some path holds.
LEMMA KeptIsHeld ==
  ASSUME NEW idx \in Index, Exact(idx)
  PROVE  /\ Kept(idx.blobs) = {idx.paths[p] : p \in Path} \ {None}
         /\ IsFiniteSet(Kept(idx.blobs)) /\ Cardinality(Kept(idx.blobs)) \in Nat
<1> DEFINE held == {idx.paths[p] : p \in Path} \ {None}
           holding == {p \in Path : idx.paths[p] # None}
           f == [p \in holding |-> idx.paths[p]]
<1>1. held \subseteq Kept(idx.blobs)
  BY HeldContentHasBlob DEF Kept, BlobRef
<1>2. ASSUME NEW c \in Kept(idx.blobs) PROVE c \in held
  <2>1. c \in Content /\ Cardinality(Holders(idx.paths, c)) # 0
    BY <1>2, HoldersFinite DEF Kept, Exact
  <2>2. Holders(idx.paths, c) # {}
    BY <2>1, FS_EmptySet
  <2>3. c # None
    BY <2>1, PackAssumption
  <2> QED
    BY <2>2, <2>3 DEF Holders
<1>3. f \in Surjection(holding, held)
  BY DEF Surjection
<1>4. IsFiniteSet(holding)
  BY PackAssumption, FS_Subset
<1>5. IsFiniteSet(held)
  <2> HIDE DEF f, holding, held
  <2> QED
    BY <1>3, <1>4, FS_Surjection
<1> QED
  BY <1>1, <1>2, <1>5, FS_CardinalityType

\* The index compact() builds lists the same paths, and names the new places.
LEMMA CompactedIsGood ==
  ASSUME index \in Index, Exact(index), NEW order \in Orders(Kept(index.blobs))
  PROVE  LET new == CompactedIndex(order)
         IN  /\ new \in Index /\ Exact(new) /\ new.paths = index.paths
             /\ \A c \in Content : new.blobs[c] # None =>
                  new.blobs[c].offset \in DOMAIN order /\ order[new.blobs[c].offset] = c
<1> DEFINE kept == Kept(index.blobs)
           At(c) == CHOOSE i \in DOMAIN order : order[i] = c
           blobs == [c \in Content |-> IF c \in kept THEN Rebased(index.blobs, At(c), c) ELSE None]
           paths == [p \in Path |-> IF index.paths[p] \in kept THEN index.paths[p] ELSE None]
           new == [blobs |-> blobs, paths |-> paths]
<1>1. CompactedIndex(order) = new
  BY DEF CompactedIndex
<1>2. kept = {index.paths[p] : p \in Path} \ {None} /\ kept \subseteq Content
  BY KeptIsHeld DEF Kept
<1>3. paths = index.paths
  BY <1>2 DEF Index
<1>4. ASSUME NEW c \in kept
      PROVE  /\ blobs[c] \in BlobRef /\ blobs[c] # None
             /\ blobs[c].offset \in DOMAIN order /\ order[blobs[c].offset] = c
             /\ blobs[c].refcount = index.blobs[c].refcount
             /\ index.blobs[c] # None
  <2>1. At(c) \in DOMAIN order /\ order[At(c)] = c /\ DOMAIN order \subseteq Nat
    BY DEF Orders
  <2>2. c \in Content /\ index.blobs[c] \in BlobRef /\ index.blobs[c] # None
    BY DEF Kept, Index
  <2>3. blobs[c] = [offset |-> At(c), refcount |-> index.blobs[c].refcount]
    BY <2>2 DEF Rebased, BlobRef
  <2>4. blobs[c] \in BlobRef
    BY <2>1, <2>2, <2>3 DEF BlobRef
  <2>5. blobs[c] # None
    BY <2>4, PackAssumption DEF BlobRef
  <2> QED
    BY <2>1, <2>2, <2>3, <2>4, <2>5
<1>5. \A c \in Content : c \notin kept => blobs[c] = None /\ Holders(paths, c) = {}
  BY <1>2, <1>3, PackAssumption DEF Holders
<1> HIDE DEF blobs
<1>6. blobs \in [Content -> BlobRef \union {None}]
  <2>1. \A c \in Content : blobs[c] \in BlobRef \union {None}
    BY <1>4, <1>5
  <2> QED
    BY <2>1 DEF blobs
<1>7. new \in Index
  BY <1>3, <1>6 DEF Index
<1>8. Exact(new)
  <2> SUFFICES ASSUME NEW c \in Content
               PROVE  IF blobs[c] = None THEN Holders(paths, c) = {}
                      ELSE blobs[c].refcount = Cardinality(Holders(paths, c))
    BY DEF Exact
  <2>1. CASE c \in kept
    BY <1>3, <1>4, <2>1 DEF Exact
  <2>2. CASE c \notin kept
    BY <1>5, <2>2
  <2> QED
    BY <2>1, <2>2
<1>9. \A c \in Content : blobs[c] # None =>
        blobs[c].offset \in DOMAIN order /\ order[blobs[c].offset] = c
  BY <1>4, <1>5
<1> QED
  BY <1>1, <1>3, <1>7, <1>8, <1>9

\* The file compact() puts in place of the old one.
LEMMA ReplacedIsGood ==
  ASSUME PackInv, NEW order \in Orders(Kept(index.blobs)), Replaced(order)
  PROVE  /\ log' \in Seq(Content \union Index) /\ promised' \in 0..Len(log') /\ doubt' \subseteq 1..Len(log')
         /\ \A root \in Promise!Findable' : ManifestOk(root)'
         /\ \A idx : idx = CompactedIndex(order) => StoredUpTo(idx, Len(log))'
         /\ Len(log') = Cardinality(Kept(index.blobs)) + 1
         /\ Promise!Findable' = {promised'} /\ log'[promised'] = CompactedIndex(order) /\ promised' # 0
<1>1. index \in Index /\ Exact(index)
  BY InvByIndex DEF PackInv, TypeOK
<1> PICK n, new : n \in Nat /\ n = Cardinality(Kept(index.blobs)) /\ new = CompactedIndex(order)
  BY <1>1, KeptIsHeld
<1>2. /\ new \in Index /\ Exact(new)
      /\ \A c \in Content : new.blobs[c] # None =>
           new.blobs[c].offset \in DOMAIN order /\ order[new.blobs[c].offset] = c
  BY <1>1, CompactedIsGood
<1>3. order \in [1..n -> Content \union Index]
  BY DEF Orders, Kept
<1>4. order \in Seq(Content \union Index) /\ Len(order) = n
  BY <1>3, SeqDef, LenProperties
<1>5. /\ log' \in Seq(Content \union Index) /\ Len(log') = n + 1 /\ log'[n + 1] = new
      /\ \A i \in 1..n : log'[i] = order[i]
  BY <1>2, <1>4, AppendProperties DEF Replaced
<1>6. promised' = n + 1 /\ doubt' = {} /\ Promise!Findable' = {n + 1}
  BY <1>5 DEF Replaced, Promise!Findable
<1>7. StoredUpTo(new, n)' /\ StoredUpTo(new, n + 1)'
  BY <1>2, <1>3, <1>5 DEF StoredUpTo
<1>8. Manifest(n + 1)' = new
  BY <1>5 DEF Manifest
<1>9. ManifestOk(n + 1)'
  <2>1. StoredUpTo(Manifest(n + 1), n)'
    BY <1>7, <1>8 DEF StoredUpTo
  <2>2. Exact(Manifest(n + 1))' /\ Manifest(n + 1)' \in Index
    BY <1>2, <1>8 DEF Exact, Holders
  <2> QED
    BY <2>1, <2>2 DEF ManifestOk
<1>10. StoredUpTo(new, Len(log))'
  BY <1>5, <1>7 DEF StoredUpTo
<1> QED
  BY <1>5, <1>6, <1>9, <1>10

\* Pack::compact returned true.
LEMMA CompactPreserves ==
  ASSUME PackInv, Compact
  PROVE  PackInv'
<1>1. PICK order \in Orders(Kept(index.blobs)) : Replaced(order) /\ index' = CompactedIndex(order)
  BY DEF Compact
<1> PICK new : new = CompactedIndex(order)
  OBVIOUS
<1>2. new \in Index /\ Exact(new)
  BY CompactedIsGood, InvByIndex DEF PackInv, TypeOK
<1>3. /\ log' \in Seq(Content \union Index) /\ promised' \in 0..Len(log') /\ doubt' \subseteq 1..Len(log')
      /\ \A root \in Promise!Findable' : ManifestOk(root)'
      /\ StoredUpTo(new, Len(log))'
  BY <1>1, ReplacedIsGood
<1>4. TypeOK' /\ index' = new
  BY <1>1, <1>2, <1>3 DEF PackInv, TypeOK, Compact
<1>5. StoredUpTo(index, Len(log))' /\ Exact(index)'
  BY <1>2, <1>3, <1>4 DEF StoredUpTo, Exact, Holders
<1> QED
  BY <1>3, <1>4, <1>5 DEF PackInv, RefcountsExact, NothingDangles, ManifestOk

\* Pack::compact lost its store.
LEMMA CompactFailsPreserves ==
  ASSUME PackInv, CompactFails
  PROVE  PackInv'
<1>1. Exact(index)' /\ store' = "null" /\ index' = index /\ index \in Index
  BY InvByIndex DEF CompactFails, PackInv, TypeOK, Exact, Holders
<1>2. CASE UNCHANGED <<log, promised, doubt>>
  <2>1. TypeOK'
    BY <1>1, <1>2 DEF PackInv, TypeOK
  <2>2. \A root \in Promise!Findable' : ManifestOk(root)'
    BY <1>2, InvByIndex DEF ManifestOk, Manifest, Exact, Holders, StoredUpTo, Promise!Findable
  <2> QED
    BY <1>1, <2>1, <2>2 DEF PackInv, RefcountsExact, NothingDangles, ManifestOk
<1>3. ASSUME NEW order \in Orders(Kept(index.blobs)), Replaced(order) PROVE PackInv'
  <2>1. /\ log' \in Seq(Content \union Index) /\ promised' \in 0..Len(log') /\ doubt' \subseteq 1..Len(log')
        /\ \A root \in Promise!Findable' : ManifestOk(root)'
    BY <1>3, ReplacedIsGood
  <2>2. TypeOK'
    BY <1>1, <2>1 DEF TypeOK
  <2> QED
    BY <1>1, <2>1, <2>2 DEF PackInv, RefcountsExact, NothingDangles, ManifestOk
<1> QED
  BY <1>2, <1>3 DEF CompactFails

\* Pack::open
LEMMA OpenPreserves ==
  ASSUME PackInv, Open
  PROVE  PackInv'
<1>1. PICK root \in Promise!Findable : index' = Manifest(root)
  BY DEF Open
<1>2. ManifestOk(root) /\ root \in 0..Len(log) /\ Len(log) \in Nat
  BY InvByIndex, FindableInLog
<1>3. index' \in Index /\ Exact(index') /\ StoredUpTo(index', Len(log))
  <2>1. CASE root = 0
    BY <1>1, <2>1, EmptyIndexIsGood DEF Manifest
  <2>2. CASE root # 0
    BY <1>1, <1>2, <2>2 DEF ManifestOk, StoredUpTo
  <2> QED
    BY <2>1, <2>2
<1>4. UNCHANGED <<log, promised, doubt>> /\ store' = "open"
  BY DEF Open
<1>5. TypeOK' /\ Exact(index)' /\ StoredUpTo(index, Len(log))'
  BY <1>3, <1>4 DEF PackInv, TypeOK, Exact, Holders, StoredUpTo
<1>6. \A r \in Promise!Findable' : ManifestOk(r)'
  BY <1>4, InvByIndex DEF ManifestOk, Manifest, Exact, Holders, StoredUpTo, Promise!Findable
<1> QED
  BY <1>5, <1>6 DEF PackInv, RefcountsExact, NothingDangles, ManifestOk

\* The handle is closed.
LEMMA ClosePreserves ==
  ASSUME PackInv, Close
  PROVE  PackInv'
<1>1. UNCHANGED <<log, promised, doubt>> /\ store' = "gone" /\ index' = EmptyIndex
  BY DEF Close
<1>2. TypeOK' /\ Exact(index)'
  BY <1>1, EmptyIndexIsGood DEF PackInv, TypeOK, Exact, Holders
<1>3. \A r \in Promise!Findable' : ManifestOk(r)'
  BY <1>1, InvByIndex DEF ManifestOk, Manifest, Exact, Holders, StoredUpTo, Promise!Findable
<1> QED
  BY <1>1, <1>2, <1>3 DEF PackInv, RefcountsExact, NothingDangles, ManifestOk

\* The power fails: the log is cut behind a manifest that may be found.
LEMMA PowerLossPreserves ==
  ASSUME PackInv, PowerLoss
  PROVE  PackInv'
<1>1. Len(log) \in Nat /\ Promise!Findable \subseteq 0..Len(log) /\ log \in Seq(Content \union Index)
  BY FindableInLog DEF PackInv, TypeOK
<1>20. PICK root \in Promise!Findable :
         Promise!Lose(root) /\ \E end \in root..Len(log) : log' = SubSeq(log, 1, end)
  BY DEF PowerLoss
<1>2. PICK end \in root..Len(log) : log' = SubSeq(log, 1, end)
  BY <1>20
<1>3. root \in Nat /\ end \in Nat /\ root <= end /\ end <= Len(log)
  BY <1>1
<1>4. /\ log' \in Seq(Content \union Index) /\ Len(log') = end
      /\ \A i \in 1..end : log'[i] = log[i]
  BY <1>1, <1>2, <1>3, SubSeqProperties
<1>5. promised' = root /\ doubt' = {} /\ Promise!Findable' = {root}
      /\ store' = "gone" /\ index' = EmptyIndex
  BY <1>20 DEF PowerLoss, Promise!Lose, Promise!Findable
<1>6. TypeOK' /\ Exact(index)'
  <2>1. TypeOK'
    BY <1>3, <1>4, <1>5, EmptyIndexIsGood DEF TypeOK
  <2>2. Exact(index)'
    BY <1>5, EmptyIndexIsGood DEF Exact, Holders
  <2> QED
    BY <2>1, <2>2
<1>7. ManifestOk(root)'
  <2>1. ManifestOk(root)
    BY InvByIndex
  <2>2. \A r \in 0..root : ManifestOk(r) => ManifestOk(r)'
    BY <1>3, <1>4, PrefixKeeps
  <2> QED
    BY <1>3, <2>1, <2>2
<1> QED
  BY <1>5, <1>6, <1>7 DEF PackInv, RefcountsExact, NothingDangles, ManifestOk

-----------------------------------------------------------------------------
(* The invariant.                                                          *)

LEMMA InitEstablishes == Init => PackInv
<1> SUFFICES ASSUME Init PROVE PackInv
  OBVIOUS
<1>1. log = <<>> /\ promised = 0 /\ doubt = {} /\ store = "open" /\ index = EmptyIndex
  BY DEF Init, Promise!Init
<1>2. Promise!Findable = {0} /\ Manifest(0) = EmptyIndex
  BY <1>1 DEF Promise!Findable, Manifest
<1>3. TypeOK
  BY <1>1, EmptyIndexIsGood DEF TypeOK
<1> QED
  BY <1>1, <1>2, <1>3, EmptyIndexIsGood DEF PackInv, RefcountsExact, NothingDangles

LEMMA NextPreserves == PackInv /\ [Next]_vars => PackInv'
<1> SUFFICES ASSUME PackInv, [Next]_vars PROVE PackInv'
  OBVIOUS
<1>1. ASSUME NEW p \in Path, NEW c \in Content, Put(p, c) PROVE PackInv'
  BY <1>1, PutPreserves
<1>2. ASSUME NEW p \in Path, Del(p) PROVE PackInv'
  BY <1>2, DelPreserves
<1>3. ASSUME NEW f \in Path, NEW t \in Path, Move(f, t) PROVE PackInv'
  BY <1>3, MovePreserves
<1>4. ASSUME NEW f \in Path, NEW t \in Path, Copy(f, t) PROVE PackInv'
  BY <1>4, CopyPreserves
<1>5. CASE Commit \/ CommitFails
  BY <1>5, CommitPreserves
<1>6. CASE Compact \/ CompactFails
  BY <1>6, CompactPreserves, CompactFailsPreserves
<1>7. CASE Open \/ Close \/ PowerLoss
  BY <1>7, OpenPreserves, ClosePreserves, PowerLossPreserves
<1>8. CASE UNCHANGED vars
  <2>1. UNCHANGED <<log, promised, doubt, store, index>> /\ index \in Index /\ Exact(index)
    BY <1>8, InvByIndex DEF vars, PackInv, TypeOK
  <2> QED
    BY <2>1, EditPreserves
<1> QED
  BY <1>1, <1>2, <1>3, <1>4, <1>5, <1>6, <1>7, <1>8 DEF Next

\* Every reachable state of the handle and its file satisfies the invariant,
\* whatever the paths, the contents, the bound on the file and the failures.
THEOREM PackInvariant == Spec => []PackInv
BY InitEstablishes, NextPreserves, PTL DEF Spec

\* Every state of a pack has the types that the code gives it.
THEOREM PackTypes == Spec => []TypeOK
<1>1. PackInv => TypeOK
  BY DEF PackInv
<1> QED
  BY <1>1, PackInvariant, PTL

\* Pack's reference counts are exact in the handle and in every manifest that
\* may be found.
THEOREM ExactCounts == Spec => []RefcountsExact
<1>1. PackInv => RefcountsExact
  BY DEF PackInv
<1> QED
  BY <1>1, PackInvariant, PTL

\* No blob of a handle or of a manifest that may be found dangles.
THEOREM NoDanglingBlob == Spec => []NothingDangles
<1>1. PackInv => NothingDangles
  BY DEF PackInv
<1> QED
  BY <1>1, PackInvariant, PTL

-----------------------------------------------------------------------------
(* Compaction keeps nothing that no path holds.                            *)

\* The file a compaction leaves holds what some path holds, and one manifest.
THEOREM TightCompaction == Spec => CompactIsTight
<1>1. ASSUME PackInv, Compact
      PROVE  Len(log') = 1 + Cardinality({index.paths[p] : p \in Path} \ {None})
  <2>1. PICK order \in Orders(Kept(index.blobs)) : Replaced(order)
    BY <1>1 DEF Compact
  <2>2. Len(log') = Cardinality(Kept(index.blobs)) + 1
    BY <1>1, <2>1, ReplacedIsGood
  <2>3. /\ Kept(index.blobs) = {index.paths[p] : p \in Path} \ {None}
        /\ Cardinality(Kept(index.blobs)) \in Nat
    BY <1>1, KeptIsHeld, InvByIndex DEF PackInv, TypeOK
  <2> QED
    BY <2>2, <2>3
<1>2. PackInv /\ [Next]_vars =>
        [Compact => Len(log') = 1 + Cardinality({index.paths[p] : p \in Path} \ {None})]_vars
  BY <1>1
<1> QED
  BY <1>2, PackInvariant, PTL DEF Spec, CompactIsTight

-----------------------------------------------------------------------------
(* The handle implements FileMap.                                          *)

\* Reading a path whose blob does not dangle gives what the index lists.
LEMMA ReadsWhatIsListed ==
  ASSUME NEW idx \in Index, Exact(idx), NEW last, StoredUpTo(idx, last)
  PROVE  Reads(idx) = idx.paths
<1>1. ASSUME NEW p \in Path PROVE Lookup(idx, p) = idx.paths[p]
  BY HeldContentHasBlob DEF Lookup, BlobAt, StoredUpTo
<1> QED
  BY <1>1 DEF Reads, Index

\* The abstract maps are what the indexes list.
LEMMA MapsAreListed ==
  PackInv => /\ ShownMap = IF store = "gone" THEN Closed ELSE index.paths
             /\ SavedMap = Manifest(promised).paths
             /\ DoubtfulMaps = {Manifest(root).paths : root \in doubt}
<1> SUFFICES ASSUME PackInv
             PROVE  /\ ShownMap = IF store = "gone" THEN Closed ELSE index.paths
                    /\ SavedMap = Manifest(promised).paths
                    /\ DoubtfulMaps = {Manifest(root).paths : root \in doubt}
  OBVIOUS
<1>1. store = "open" => Reads(index) = index.paths
  BY ReadsWhatIsListed, InvByIndex DEF PackInv, TypeOK
<1>2. ASSUME NEW root \in Promise!Findable PROVE Reads(Manifest(root)) = Manifest(root).paths
  <2>1. CASE root = 0
    BY <2>1, EmptyIndexIsGood, ReadsWhatIsListed DEF Manifest
  <2>2. CASE root # 0
    BY <2>2, InvByIndex, ReadsWhatIsListed DEF ManifestOk
  <2> QED
    BY <2>1, <2>2
<1>3. promised \in Promise!Findable /\ doubt \subseteq Promise!Findable
  BY DEF Promise!Findable
<1> QED
  BY <1>1, <1>2, <1>3 DEF ShownMap, SavedMap, DoubtfulMaps

LEMMA MapsAreListedNext ==
  ( PackInv => /\ ShownMap = IF store = "gone" THEN Closed ELSE index.paths
               /\ SavedMap = Manifest(promised).paths
               /\ DoubtfulMaps = {Manifest(root).paths : root \in doubt} )'
BY MapsAreListed, PTL

\* The maps of the files do not change while the records they rest on do not.
LEMMA FilesUnchanged ==
  ASSUME PackInv, PackInv', promised' = promised, doubt' = doubt,
         \A i \in 1..Len(log) : log'[i] = log[i]
  PROVE  SavedMap' = SavedMap /\ DoubtfulMaps' = DoubtfulMaps
<1>1. TypeOK /\ Len(log) \in Nat /\ promised \in 0..Len(log) /\ doubt \subseteq 0..Len(log)
  BY FindableInLog DEF PackInv, TypeOK
<1>2. \A root \in 0..Len(log) : Manifest(root)' = Manifest(root)
  BY <1>1, PrefixKeeps
<1>3. Manifest(promised)' = Manifest(promised)
  BY <1>1, <1>2 DEF Manifest
<1>4. {Manifest(root)'.paths : root \in doubt'} = {Manifest(root).paths : root \in doubt}
  BY <1>1, <1>2
<1> QED
  BY <1>3, <1>4, MapsAreListed, MapsAreListedNext

\* What an open handle shows is a map, and never the mark of a closed one.
LEMMA ShownIsAMap ==
  ASSUME PackInv, Alive
  PROVE  /\ ShownMap = index.paths /\ ShownMap # Closed
         /\ index.paths \in [Path -> Content \union {None}]
BY MapsAreListed, PackAssumption DEF Alive, PackInv, TypeOK, Index

\* A change of the index, its step of the log included.
LEMMA EditImplements ==
  ASSUME PackInv, PackInv', Alive, UNCHANGED <<promised, doubt, store>>,
         \A i \in 1..Len(log) : log'[i] = log[i]
  PROVE  FM!Change(index'.paths) /\ ShownMap = index.paths /\ ShownMap # Closed
<1>1. ShownMap' = index'.paths
  BY MapsAreListedNext DEF Alive
<1> QED
  BY <1>1, FilesUnchanged, ShownIsAMap DEF FM!Change

\* A manifest made the root of the file saves what is shown.
LEMMA SaveImplements ==
  ASSUME PackInv, PackInv', Alive, index'.paths = index.paths, store' # "gone",
         Manifest(promised)'.paths = index.paths, doubt' = {}
  PROVE  FM!Save
<1>1. ShownMap' = ShownMap /\ SavedMap' = ShownMap /\ DoubtfulMaps' = {}
  BY MapsAreListedNext, ShownIsAMap
<1> QED
  BY <1>1, ShownIsAMap DEF FM!Save

\* The initial state, and every step, as the abstract map sees them.
LEMMA InitImplements == Init => FM!Init
<1> SUFFICES ASSUME Init PROVE FM!Init
  OBVIOUS
<1>1. promised = 0 /\ doubt = {} /\ store = "open" /\ index = EmptyIndex
  BY DEF Init, Promise!Init
<1>2. ShownMap = EmptyIndex.paths /\ SavedMap = EmptyIndex.paths /\ DoubtfulMaps = {}
  BY <1>1, InitEstablishes, MapsAreListed DEF Manifest
<1> QED
  BY <1>2 DEF FM!Init, EmptyIndex

LEMMA StepImplements ==
  ASSUME PackInv, PackInv', [Next]_vars
  PROVE  [FM!Next]_(FM!mapVars)
<1> USE DEF FM!mapVars
<1>1. ASSUME NEW p \in Path, NEW c \in Content, Put(p, c) PROVE FM!Put(p, c)
  <2>1. \A i \in 1..Len(log) : log'[i] = log[i]
    BY <1>1, AppendKeepsLog DEF Put, PackInv
  <2>2. Alive /\ UNCHANGED <<promised, doubt, store>> /\ index'.paths = [index.paths EXCEPT ![p] = c]
    BY <1>1 DEF Put, Edit
  <2> QED
    BY <2>1, <2>2, EditImplements DEF FM!Put
<1>2. ASSUME NEW p \in Path, Del(p) PROVE FM!Del(p)
  BY <1>2, EditImplements DEF Del, Edit, FM!Del
<1>3. ASSUME NEW f \in Path, NEW t \in Path, Move(f, t) PROVE FM!Move(f, t)
  BY <1>3, EditImplements DEF Move, Edit, FM!Move
<1>4. ASSUME NEW f \in Path, NEW t \in Path, Copy(f, t) PROVE FM!Copy(f, t)
  BY <1>4, EditImplements DEF Copy, Edit, FM!Copy
<1>5. CASE Commit
  <2>1. log'[Len(log')] = index /\ promised' = Len(log') /\ Len(log') # 0
    BY <1>5, AppendKeepsLog, FindableInLog DEF Commit, PackInv, TypeOK
  <2>2. Manifest(promised)' = index
    BY <2>1 DEF Manifest
  <2> QED
    BY <1>5, <2>2, SaveImplements DEF Commit, Alive, FM!Next
<1>6. CASE CommitFails
  <2>1. /\ Len(log') = Len(log) + 1 /\ log'[Len(log')] = index /\ Len(log) \in Nat
        /\ \A i \in 1..Len(log) : log'[i] = log[i]
    BY <1>6, AppendKeepsLog, FindableInLog DEF CommitFails, PackInv, TypeOK
  <2>2. \A root \in 0..Len(log) : Manifest(root)' = Manifest(root)
    BY <2>1, PrefixKeeps
  <2>3. promised' = promised /\ promised \in 0..Len(log) /\ doubt \subseteq 0..Len(log)
    BY <1>6, FindableInLog DEF CommitFails, PackInv, TypeOK
  <2>4. Manifest(promised)' = Manifest(promised)
    BY <2>2, <2>3 DEF Manifest
  <2>5. SavedMap' = SavedMap
    BY <2>4, MapsAreListed, MapsAreListedNext
  <2>6. ShownMap' = ShownMap /\ ShownMap = index.paths /\ ShownMap # Closed
    BY <1>6, ShownIsAMap, MapsAreListedNext DEF CommitFails, Alive
  <2>7. CASE doubt' = doubt
    BY <2>1, <2>3, <2>6, <2>7, FilesUnchanged
  <2>8. CASE doubt' = doubt \union {Len(log')}
    <3> PICK n \in Nat : n = Len(log)
      BY <2>1
    <3>1. Manifest(n + 1)' = index
      BY <2>1 DEF Manifest
    <3>2. {Manifest(root)'.paths : root \in doubt'} = {Manifest(root).paths : root \in doubt} \union {index.paths}
      <4>1. doubt' = doubt \union {n + 1}
        BY <2>1, <2>8
      <4> QED
        BY <2>2, <2>3, <3>1, <4>1
    <3>3. DoubtfulMaps' = DoubtfulMaps \union {ShownMap}
      BY <2>6, <3>2, MapsAreListed, MapsAreListedNext
    <3> QED
      BY <2>5, <2>6, <3>3 DEF FM!SaveFails, FM!Next
  <2> QED
    BY <1>6, <2>7, <2>8 DEF CommitFails
<1>7. ASSUME NEW order \in Orders(Kept(index.blobs)), Replaced(order), Alive,
             store' # "gone", index' \in {index, CompactedIndex(order)}
      PROVE  FM!Save
  <2>1. CompactedIndex(order).paths = index.paths
    BY CompactedIsGood, InvByIndex DEF PackInv, TypeOK
  <2>2. log'[promised'] = CompactedIndex(order) /\ promised' # 0
    BY <1>7, ReplacedIsGood
  <2>3. Manifest(promised)' = CompactedIndex(order)
    BY <2>2 DEF Manifest
  <2> QED
    BY <1>7, <2>1, <2>3, SaveImplements DEF Replaced
<1>8. CASE Compact
  BY <1>7, <1>8 DEF Compact, Alive, FM!Next
<1>9. CASE CompactFails
  <2>1. CASE UNCHANGED <<log, promised, doubt>>
    BY <1>9, <2>1, FilesUnchanged, MapsAreListed, MapsAreListedNext DEF CompactFails
  <2>2. CASE \E order \in Orders(Kept(index.blobs)) : Replaced(order)
    BY <1>7, <1>9, <2>2 DEF CompactFails, Alive, FM!Next
  <2> QED
    BY <1>9, <2>1, <2>2 DEF CompactFails
<1>10. CASE Open
  <2>1. PICK root \in Promise!Findable : index' = Manifest(root)
    BY <1>10 DEF Open
  <2>2. SavedMap' = SavedMap /\ DoubtfulMaps' = DoubtfulMaps
    BY <1>10, FilesUnchanged DEF Open
  <2>3. ShownMap = Closed /\ ShownMap' = Manifest(root).paths
    BY <1>10, <2>1, MapsAreListed, MapsAreListedNext DEF Open
  <2>4. Manifest(root).paths \in {SavedMap} \union DoubtfulMaps
    BY MapsAreListed DEF Promise!Findable
  <2> QED
    BY <2>2, <2>3, <2>4 DEF FM!Open, FM!Next
<1>11. CASE Close
  BY <1>11, ShownIsAMap, FilesUnchanged, MapsAreListedNext DEF Close, FM!Close, FM!Next
<1>12. CASE PowerLoss
  <2>1. PICK root \in Promise!Findable :
          Promise!Lose(root) /\ \E end \in root..Len(log) : log' = SubSeq(log, 1, end)
    BY <1>12 DEF PowerLoss
  <2>2. root \in 0..Len(log) /\ Len(log) \in Nat
    BY FindableInLog DEF PackInv
  <2>3. \A i \in 1..root : log'[i] = log[i]
    BY <2>1, <2>2, SubSeqProperties DEF PackInv, TypeOK
  <2>4. promised' = root /\ doubt' = {}
    BY <2>1 DEF Promise!Lose
  <2>5. Manifest(promised)' = Manifest(root)
    BY <2>2, <2>3, <2>4 DEF Manifest
  <2>6. ShownMap' = Closed /\ SavedMap' = Manifest(root).paths /\ DoubtfulMaps' = {}
    BY <1>12, <2>4, <2>5, MapsAreListedNext DEF PowerLoss
  <2>7. Manifest(root).paths \in {SavedMap} \union DoubtfulMaps
    BY MapsAreListed DEF Promise!Findable
  <2> QED
    BY <2>6, <2>7 DEF FM!PowerLoss, FM!Next
<1>13. CASE UNCHANGED vars
  BY <1>13, FilesUnchanged, MapsAreListed, MapsAreListedNext DEF vars
<1> QED
  BY <1>1, <1>2, <1>3, <1>4, <1>5, <1>6, <1>8, <1>9, <1>10, <1>11, <1>12, <1>13 DEF Next, FM!Next

\* Whatever the paths, the contents and the failures, a handle over its file
\* behaves as the map that FileMap promises.
THEOREM Refinement == Spec => ImplementsFileMap
<1>1. PackInv /\ PackInv' /\ [Next]_vars => [FM!Next]_(FM!mapVars)
  BY StepImplements
<1> QED
  BY <1>1, InitImplements, PackInvariant, PTL DEF Spec, ImplementsFileMap, FM!Spec
=============================================================================

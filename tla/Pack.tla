--------------------------------- MODULE Pack ---------------------------------
(***************************************************************************)
(* src/src/pack.cpp and the index of src/src/index.hpp: paths over content- *)
(* addressed blobs with reference counts, buffered in the handle and saved *)
(* as a manifest that one commit of the store makes the root of the file.  *)
(*                                                                         *)
(* The store is taken as Store implements it: an append-only log of        *)
(* records, of which the root named by the superblocks is AtomicRoot's     *)
(* promised or one of doubt.  A record is a content or an index.           *)
(* mtimes, encryption and the spelling of paths are left out.              *)
(***************************************************************************)
EXTENDS Integers, Sequences, FiniteSets

CONSTANTS
  Path,            \* normalized, non-empty logical paths
  Content,         \* contents, which stand for their BLAKE2b hashes too
  None,            \* no entry in a map
  Closed,          \* what is shown when no process has the pack open
  LogBound,        \* BOUND: records the file may hold
  ReopenErrors     \* may Store::open fail inside compact()?

ASSUME PackAssumption ==
  /\ None \notin Content
  /\ None \notin [offset : Nat, refcount : Nat]
  /\ Closed \notin [Path -> Content \union {None}]
  /\ IsFiniteSet(Path)
  /\ LogBound \in Nat
  /\ ReopenErrors \in BOOLEAN

VARIABLES
  log,       \* the records of the file at im.path, log[i] the one at offset i
  promised,  \* the offset of the newest manifest reported durable, 0 if none
  doubt,     \* the offsets of manifests whose commit failed since
  store,     \* Impl::store: "open", "null", or "gone" when no process has it
  index      \* Impl::index: the handle's paths and blobs

vars == <<log, promised, doubt, store, index>>

BlobRef == [offset : Nat, refcount : Nat]
Index == [blobs : [Content -> BlobRef \union {None}], paths : [Path -> Content \union {None}]]
EmptyIndex == [blobs |-> [c \in Content |-> None], paths |-> [p \in Path |-> None]]

Promise == INSTANCE AtomicRoot WITH Root <- Nat

-----------------------------------------------------------------------------
(* Reading.                                                                *)

\* load_manifest
Manifest(root) == IF root = 0 THEN EmptyIndex ELSE log[root]

\* read_decrypt
BlobAt(ref) == log[ref.offset]

\* Pack::get of path p through index idx, and of every path.
Lookup(idx, p) == IF idx.paths[p] = None THEN None ELSE BlobAt(idx.blobs[idx.paths[p]])
Reads(idx) == [p \in Path |-> Lookup(idx, p)]

\* The paths that hold content c.
Holders(paths, c) == {p \in Path : paths[p] = c}

-----------------------------------------------------------------------------
(* Changing the index.                                                     *)

\* Faulty variants, each a bug one could write.
ReleaseNothing(blobs, c) == blobs
ReleaseTwice(blobs, c) ==
  IF c # None /\ blobs[c] # None THEN [blobs EXCEPT ![c].refcount = @ - 2] ELSE blobs
RetainNothing(blobs, c) == blobs
KeptTooFew(blobs) == {c \in Content : blobs[c] # None /\ blobs[c].refcount > 1}
KeptAll(blobs) == {c \in Content : blobs[c] # None}
StoredAtEnd(blobs, c) == [blobs EXCEPT ![c] = [offset |-> Len(log), refcount |-> 0]]
RebasedNot(blobs, offset, c) == blobs[c]

\* put and del: a path no longer holds c.
Release(blobs, c) ==
  IF c # None /\ blobs[c] # None /\ blobs[c].refcount > 0
  THEN [blobs EXCEPT ![c].refcount = @ - 1]
  ELSE blobs

\* put and copy: one more path holds c.
Retain(blobs, c) == [blobs EXCEPT ![c].refcount = @ + 1]

\* put: the reference to a content just appended.
Stored(blobs, c) == [blobs EXCEPT ![c] = [offset |-> Len(log) + 1, refcount |-> 0]]

\* compact: the blobs that are carried over, and a reference to the new place.
Kept(blobs) == {c \in Content : blobs[c] # None /\ blobs[c].refcount > 0}
Rebased(blobs, offset, c) == [blobs[c] EXCEPT !.offset = offset]

Alive == store # "gone"
Edit(blobs, paths) ==
  /\ index' = [blobs |-> blobs, paths |-> paths]
  /\ UNCHANGED <<promised, doubt, store>>

\* Pack::put returned true.  (When the append fails it changes nothing.)
Put(p, c) ==
  LET Held(blobs) == Retain(Release(blobs, index.paths[p]), c)
      paths == [index.paths EXCEPT ![p] = c]
  IN  /\ Alive
      /\ \/ /\ index.blobs[c] # None
            /\ Edit(Held(index.blobs), paths)
            /\ UNCHANGED log
         \/ /\ index.blobs[c] = None
            /\ store = "open" /\ Len(log) < LogBound
            /\ log' = Append(log, c)
            /\ Edit(Held(Stored(index.blobs, c)), paths)

\* Pack::del returned true.
Del(p) ==
  /\ Alive /\ index.paths[p] # None
  /\ Edit(Release(index.blobs, index.paths[p]), [index.paths EXCEPT ![p] = None])
  /\ UNCHANGED log

\* Pack::move returned true.
Move(f, t) ==
  /\ Alive /\ index.paths[f] # None /\ index.paths[t] = None
  /\ Edit(index.blobs, [index.paths EXCEPT ![t] = index.paths[f], ![f] = None])
  /\ UNCHANGED log

\* Pack::copy returned true.
Copy(f, t) ==
  /\ Alive /\ index.paths[f] # None /\ index.paths[t] = None
  /\ index.blobs[index.paths[f]] # None
  /\ Edit(Retain(index.blobs, index.paths[f]), [index.paths EXCEPT ![t] = index.paths[f]])
  /\ UNCHANGED log

-----------------------------------------------------------------------------
(* Saving.                                                                 *)

\* Pack::commit returned true.
Commit ==
  /\ store = "open" /\ Len(log) < LogBound
  /\ log' = Append(log, index)
  /\ promised' = Len(log')
  /\ doubt' = {}
  /\ UNCHANGED <<store, index>>

\* Pack::commit returned false, or the process died within it: the manifest
\* may have been appended, and a superblock may name it.
CommitFails ==
  /\ store = "open" /\ Len(log) < LogBound
  /\ log' = Append(log, index)
  /\ doubt' \in {doubt, doubt \union {Len(log')}}
  /\ UNCHANGED <<promised, store, index>>

\* The contents of the file compact() writes: each of them once, in the order
\* of their hashes, which may be any.
Orders(S) == {f \in [1..Cardinality(S) -> S] : \A c \in S : \E i \in DOMAIN f : f[i] = c}

\* The index compact() builds for that file.
CompactedIndex(order) ==
  LET kept == Kept(index.blobs)
      At(c) == CHOOSE i \in DOMAIN order : order[i] = c
  IN  [blobs |-> [c \in Content |-> IF c \in kept THEN Rebased(index.blobs, At(c), c) ELSE None],
       paths |-> [p \in Path |-> IF index.paths[p] \in kept THEN index.paths[p] ELSE None]]

\* Pack::compact has put the new file in place of the old.
Replaced(order) ==
  /\ log' = Append(order, CompactedIndex(order))
  /\ promised' = Len(log')
  /\ doubt' = {}

\* Pack::compact returned true.
Compact ==
  /\ store = "open" /\ Cardinality(Kept(index.blobs)) < LogBound
  /\ \E order \in Orders(Kept(index.blobs)) :
       Replaced(order) /\ index' = CompactedIndex(order)
  /\ UNCHANGED store

\* Pack::compact returned false with the store reset and not reopened: after a
\* rename that failed, or after one that did not.  A call that needs the store
\* then dereferences null; put of a known content, del, move and copy do not.
CompactFails ==
  /\ ReopenErrors
  /\ store = "open" /\ Cardinality(Kept(index.blobs)) < LogBound
  /\ \/ UNCHANGED <<log, promised, doubt>>
     \/ \E order \in Orders(Kept(index.blobs)) : Replaced(order)
  /\ store' = "null"
  /\ UNCHANGED index

-----------------------------------------------------------------------------
(* Opening, closing, failing.                                              *)

\* Pack::open
Open ==
  /\ store = "gone"
  /\ store' = "open"
  /\ \E root \in Promise!Findable : index' = Manifest(root)
  /\ UNCHANGED <<log, promised, doubt>>

\* The handle is closed or its process dies: nothing is saved.
Close ==
  /\ Alive
  /\ store' = "gone"
  /\ index' = EmptyIndex
  /\ UNCHANGED <<log, promised, doubt>>

\* Power fails: a root that may be found is, and the log up to it is intact.
PowerLoss ==
  /\ \E root \in Promise!Findable :
       /\ Promise!Lose(root)
       /\ \E end \in root..Len(log) : log' = SubSeq(log, 1, end)
  /\ store' = "gone"
  /\ index' = EmptyIndex

\* Pack::create returned the handle.
Init ==
  /\ log = <<>>
  /\ Promise!Init
  /\ store = "open"
  /\ index = EmptyIndex

Next ==
  \/ \E p \in Path, c \in Content : Put(p, c)
  \/ \E p \in Path : Del(p)
  \/ \E f, t \in Path : Move(f, t) \/ Copy(f, t)
  \/ Commit \/ CommitFails
  \/ Compact \/ CompactFails
  \/ Open \/ Close \/ PowerLoss

Spec == Init /\ [][Next]_vars

-----------------------------------------------------------------------------
(* Properties.                                                             *)

TypeOK ==
  /\ log \in Seq(Content \union Index)
  /\ promised \in 0..Len(log)
  /\ doubt \subseteq 1..Len(log)
  /\ store \in {"open", "null", "gone"}
  /\ index \in Index

\* A blob's reference count is the number of paths that hold it.
Exact(idx) ==
  \A c \in Content :
    IF idx.blobs[c] = None THEN Holders(idx.paths, c) = {}
    ELSE idx.blobs[c].refcount = Cardinality(Holders(idx.paths, c))

\* Reference counts are exact in the handle's index and in every manifest that
\* may be found, over any order of put, del, copy and move, and over commits,
\* reopenings and compactions: compact() drops what no path holds, and nothing
\* else.
RefcountsExact ==
  /\ Exact(index)
  /\ \A root \in Promise!Findable : Exact(Manifest(root))

\* Where an index says a blob is, the file up to record last holds its bytes.
StoredUpTo(idx, last) ==
  \A c \in Content : idx.blobs[c] # None =>
    idx.blobs[c].offset \in 1..last /\ log[idx.blobs[c].offset] = c

\* Every blob of an open handle's index can be read, one that no path holds
\* included (put may take it up again), and every manifest that may be found
\* names only blobs that were appended before it.
NothingDangles ==
  /\ store = "open" => StoredUpTo(index, Len(log))
  /\ \A root \in Promise!Findable \ {0} :
       Manifest(root) \in Index /\ StoredUpTo(Manifest(root), root - 1)

\* The three together are preserved by every step.
PackInv == TypeOK /\ RefcountsExact /\ NothingDangles

\* A path never holds two contents, a content never two blobs: the file a
\* compaction leaves is as long as the contents some path holds, and one more.
CompactIsTight ==
  [][Compact => Len(log') = 1 + Cardinality({index.paths[p] : p \in Path} \ {None})]_vars

\* The handle is the map FileMap describes.  With the store lost in compact()
\* the index still lists what it did, but nothing can be read.
ShownMap ==
  IF store = "gone" THEN Closed ELSE IF store = "open" THEN Reads(index) ELSE index.paths

\* What the next handle would read, and what it may read instead.
SavedMap == Reads(Manifest(promised))
DoubtfulMaps == {Reads(Manifest(root)) : root \in doubt}

FM == INSTANCE FileMap WITH view <- ShownMap, saved <- SavedMap, doubt <- DoubtfulMaps

\* Put, del, move, copy, commit, compact, open, close and power loss do to the
\* stored map what the abstract map promises; compaction changes no content.
ImplementsFileMap == FM!Spec

\* include/sealpack.h: a put is "Buffered in memory -- becomes durable only at
\* sealpack_commit".
DurableOnlyAtCommit ==
  [][SavedMap' # SavedMap => Commit \/ PowerLoss]_vars
=============================================================================

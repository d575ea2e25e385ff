-------------------------------- MODULE Store --------------------------------
(***************************************************************************)
(* src/src/store.cpp over src/src/os_posix.cpp: one pack file, the handle a *)
(* process holds on it, and the double-superblock commit, against failing  *)
(* writes and syncs, a process that dies, and loss of power.               *)
(*                                                                         *)
(* The file is an array of blocks: the two superblocks, then the data      *)
(* region, one block for each appended record.  A block's cache value is   *)
(* what a read returns; its disk value is what stable storage holds.  The  *)
(* two differ only while the block is dirty, unless a failed sync made the *)
(* kernel forget that it was (FailedSyncDropsPages).  The header and the   *)
(* key slots are PackFile's; Init is what Store::create leaves.            *)
(***************************************************************************)
EXTENDS Integers

CONSTANTS
  Record,                 \* encrypted records (blobs and manifests), opaque here
  Torn,                   \* bytes that fail their MAC: a write cut short
  Absent,                 \* no bytes: past the end of the file, or a hole in it
  NoHandle,               \* the value of handle when no process has the file open
  LastBlock,              \* BOUND: the last block the file may grow to
  FailedSyncDropsPages,   \* does a failed fdatasync mark the dirty pages clean?
  ReadErrors              \* may the read of a superblock fail for lack of I/O?

SbA == 0                  \* kSbAOff
SbB == 1                  \* kSbBOff
DataStart == 2            \* kDataStart

Slot == {SbA, SbB}
DataBlock == DataStart..LastBlock
Block == Slot \union DataBlock
Root == {0} \union DataBlock            \* 0: the empty pack (Root::len = 0)
SuperBlock == [seq : Nat, root : Root]  \* the authenticated 24 bytes

ASSUME StoreAssumption ==
  /\ LastBlock \in Nat /\ LastBlock >= DataStart
  /\ FailedSyncDropsPages \in BOOLEAN
  /\ ReadErrors \in BOOLEAN
  /\ Torn \notin SuperBlock /\ Absent \notin SuperBlock
  /\ Torn \notin Record /\ Absent \notin Record /\ Torn # Absent
  /\ NoHandle \notin [seq : Nat, active : Slot, root : Root, size : Int]

VARIABLES
  cache,     \* cache[b]: the bytes of block b a read returns
  disk,      \* disk[b]: the bytes of block b on stable storage
  dirty,     \* the blocks whose cached bytes the kernel still has to write
  eof,       \* os::file_size: the first block past the end of the file
  diskEof,   \* the file size on stable storage
  handle,    \* Store::Impl, or NoHandle
  call,      \* where Store::commit is, and the root it commits
  promised,  \* history: the root of the newest commit reported durable
  doubt      \* history: roots of the commits begun since and not so reported

file == <<cache, disk, dirty, eof, diskEof>>
vars == <<file, handle, call, promised, doubt>>

Handle == [seq : Nat, active : Slot, root : Root, size : DataStart..(LastBlock + 1)]
Idle == [pc |-> "idle", root |-> 0]
Call == [pc : {"idle", "syncData", "writeSb", "syncSb"}, root : Root]

Larger(m, n) == IF m >= n THEN m ELSE n

\* What the file promises, as AtomicRoot states it.
Promise == INSTANCE AtomicRoot

-----------------------------------------------------------------------------
(* The operating system.                                                   *)

\* os::pwrite_all returned true.
Write(b, v) ==
  /\ cache' = [cache EXCEPT ![b] = v]
  /\ dirty' = dirty \union {b}
  /\ eof' = Larger(eof, b + 1)
  /\ UNCHANGED <<disk, diskEof>>

\* os::pwrite_all returned false: it wrote nothing, or some of the bytes.
WriteFails(b) == UNCHANGED file \/ Write(b, Torn)

\* os::sync_file returned true.
Sync ==
  /\ disk' = [b \in Block |-> IF b \in dirty THEN cache[b] ELSE disk[b]]
  /\ dirty' = {}
  /\ diskEof' = eof
  /\ UNCHANGED <<cache, eof>>

\* os::sync_file returned false.
SyncFails ==
  /\ dirty' = IF FailedSyncDropsPages THEN {} ELSE dirty
  /\ UNCHANGED <<cache, disk, eof, diskEof>>

\* The kernel writes back a dirty block of its own accord.
WriteBack(b) ==
  /\ b \in dirty
  /\ disk' = [disk EXCEPT ![b] = cache[b]]
  /\ dirty' = dirty \ {b}
  /\ UNCHANGED <<cache, eof, diskEof, handle, call, promised, doubt>>

-----------------------------------------------------------------------------
(* Store.                                                                  *)

\* Faulty variants of the definitions below, each a bug one could write.
SpareSlotActive(h) == h.active
SpareSlotNext(h) == h.active + 1
NextSeqSame(h) == h.seq
BeatsAlways(v, w) == TRUE
SyncSkipped == UNCHANGED file
SizeAtRoot(root) == IF root = 0 THEN DataStart ELSE root

\* Store::commit: the superblock that is not the active one, and its seq.
SpareSlot(h) == 1 - h.active
NextSeq(h) == h.seq + 1

\* Store::open prefers A at an equal seq.
Beats(v, w) == v.seq >= w.seq

\* Store::open: the superblock chosen among those that could be read and
\* authenticated, given the two as read.
Chosen(a, b) == IF a # Torn /\ (b = Torn \/ Beats(a, b)) THEN SbA ELSE SbB

\* Store::open: where the next record goes, given the root just loaded.
AppendAt(root) == Larger(eof, DataStart)

\* Store::commit's first barrier.
DataBarrier == Sync

\* Store::append returned an offset.
Append(r) ==
  /\ handle # NoHandle /\ call = Idle
  /\ handle.size <= LastBlock
  /\ Write(handle.size, r)
  /\ handle' = [handle EXCEPT !.size = @ + 1]
  /\ UNCHANGED <<call, promised, doubt>>

\* Store::append returned 0.
AppendFails ==
  /\ handle # NoHandle /\ call = Idle
  /\ handle.size <= LastBlock
  /\ WriteFails(handle.size)
  /\ UNCHANGED <<handle, call, promised, doubt>>

\* flush_manifest appends the manifest and calls Store::commit on it.
BeginCommit(m) ==
  /\ handle # NoHandle /\ call = Idle
  /\ handle.size <= LastBlock
  /\ Write(handle.size, m)
  /\ handle' = [handle EXCEPT !.size = @ + 1]
  /\ call' = [pc |-> "syncData", root |-> handle.size]
  /\ UNCHANGED <<promised, doubt>>

\* commit: the data is made durable before any superblock names it.
CommitSyncData ==
  /\ call.pc = "syncData"
  /\ \/ DataBarrier /\ call' = [call EXCEPT !.pc = "writeSb"]
     \/ SyncFails /\ call' = Idle
  /\ UNCHANGED <<handle, promised, doubt>>

\* commit: write_sb of the spare superblock.
CommitWriteSb ==
  /\ call.pc = "writeSb"
  /\ \/ /\ Write(SpareSlot(handle), [seq |-> NextSeq(handle), root |-> call.root])
        /\ call' = [call EXCEPT !.pc = "syncSb"]
        /\ doubt' = doubt \union {call.root}
     \/ /\ WriteFails(SpareSlot(handle))
        /\ call' = Idle
        /\ UNCHANGED doubt
  /\ UNCHANGED <<handle, promised>>

\* commit: the commit point.
CommitSyncSb ==
  /\ call.pc = "syncSb"
  /\ call' = Idle
  /\ \/ /\ Sync
        /\ handle' = [handle EXCEPT !.seq = NextSeq(handle),
                                    !.active = SpareSlot(handle),
                                    !.root = call.root]
        /\ promised' = call.root
        /\ doubt' = {}
     \/ SyncFails /\ UNCHANGED <<handle, promised, doubt>>

\* Store::open.  unread: the superblocks whose read fails, which read_sb does
\* not tell from a torn one.
Open ==
  /\ handle = NoHandle
  /\ \E unread \in IF ReadErrors THEN SUBSET Slot ELSE {{}} :
       LET sb == [s \in Slot |-> IF s \in unread THEN Torn ELSE cache[s]]
           chosen == Chosen(sb[SbA], sb[SbB])
       IN  /\ sb[SbA] # Torn \/ sb[SbB] # Torn
           /\ handle' = [seq |-> sb[chosen].seq, active |-> chosen,
                         root |-> sb[chosen].root, size |-> AppendAt(sb[chosen].root)]
  /\ UNCHANGED <<file, call, promised, doubt>>

\* Store::write_slot: of the slot's own bytes PackFile tells; its sync makes
\* everything the handle wrote before it durable, a failed commit included.
WriteSlot ==
  /\ handle # NoHandle /\ call = Idle
  /\ Sync \/ SyncFails
  /\ UNCHANGED <<handle, call, promised, doubt>>

\* The process ends, in whatever call it is; the kernel keeps the cache.
Exit ==
  /\ handle # NoHandle
  /\ handle' = NoHandle
  /\ call' = Idle
  /\ UNCHANGED <<file, promised, doubt>>

\* The blocks as they may be after a power loss: a dirty block was being
\* written or not, and bytes past the surviving end of the file are gone.
Survivors(torn, end) ==
  [b \in Block |-> IF b \in DataBlock /\ b >= end THEN Absent
                   ELSE IF b \in torn THEN Torn
                   ELSE disk[b]]

\* The root Store::open would find in blocks c.
RootIn(c) == c[Chosen(c[SbA], c[SbB])].root

\* Power fails.  The history variables record what the file now holds.
PowerLoss ==
  /\ \E torn \in SUBSET dirty, end \in diskEof..eof :
       LET left == Survivors(torn, end)
       IN  /\ cache' = left
           /\ disk' = left
           /\ eof' = end
           /\ diskEof' = end
           /\ promised' = IF left[SbA] = Torn /\ left[SbB] = Torn THEN 0 ELSE RootIn(left)
  /\ dirty' = {}
  /\ handle' = NoHandle
  /\ call' = Idle
  /\ doubt' = {}

-----------------------------------------------------------------------------
\* Store::create returned the handle: A is active with seq 1, B has seq 0.
Init ==
  /\ cache = [b \in Block |-> IF b = SbA THEN [seq |-> 1, root |-> 0]
                              ELSE IF b = SbB THEN [seq |-> 0, root |-> 0]
                              ELSE Absent]
  /\ disk = cache
  /\ dirty = {}
  /\ eof = DataStart /\ diskEof = DataStart
  /\ handle = [seq |-> 1, active |-> SbA, root |-> 0, size |-> DataStart]
  /\ call = Idle
  /\ promised = 0
  /\ doubt = {}

Next ==
  \/ \E r \in Record : Append(r) \/ BeginCommit(r)
  \/ AppendFails
  \/ CommitSyncData
  \/ CommitWriteSb
  \/ CommitSyncSb
  \/ Open
  \/ WriteSlot
  \/ Exit
  \/ \E b \in Block : WriteBack(b)
  \/ PowerLoss

Spec == Init /\ [][Next]_vars

-----------------------------------------------------------------------------
(* Properties.                                                             *)

TypeOK ==
  /\ cache \in [Block -> SuperBlock \union Record \union {Torn, Absent}]
  /\ disk \in [Block -> SuperBlock \union Record \union {Torn, Absent}]
  /\ \A s \in Slot : {cache[s], disk[s]} \subseteq SuperBlock \union {Torn}
  /\ dirty \subseteq Block
  /\ eof \in DataStart..(LastBlock + 1)
  /\ diskEof \in DataStart..eof
  /\ handle \in Handle \union {NoHandle}
  /\ call \in Call
  /\ handle = NoHandle => call = Idle
  /\ promised \in Root
  /\ doubt \subseteq Root

\* What block b may hold if the power fails now.
Possible(b) == IF b \in dirty THEN {disk[b], cache[b], Torn} ELSE {disk[b]}

\* The superblock beside s.
Other(s) == 1 - s

\* Whatever a power loss does to the superblocks, one of them authenticates,
\* and the one Store::open would choose names a state reported durable or in
\* doubt: a committed state is always there to be opened, and never an older
\* one than the newest reported (README "Crash safety").
AlwaysRecoverable ==
  \A a \in Possible(SbA), b \in Possible(SbB) :
    /\ a # Torn \/ b # Torn
    /\ RootIn([s \in Slot |-> IF s = SbA THEN a ELSE b]) \in Promise!Findable

\* The roots that a superblock may name after a power loss, the superblock
\* that Store::open would not choose included.
PossibleRoot ==
  {v.root : v \in (Possible(SbA) \union Possible(SbB)) \ {Torn}}

\* Every root that is promised, in doubt, or in some superblock.
NamedRoot == Promise!Findable \union PossibleRoot

\* Root r is on stable storage, whole, with every record before it.
Backed(r) ==
  /\ r < diskEof
  /\ \A b \in DataStart..r : b \notin dirty /\ disk[b] = cache[b]
  /\ r # 0 => disk[r] \in Record

\* Whatever state a superblock may ever name is wholly on stable storage:
\* commit's first barrier holds against failed writes, failed syncs, retries
\* and blocks the kernel writes early (Store::commit, "data before the SB").
RootsAreBacked == \A r \in PossibleRoot : Backed(r)

\* A reader of the open handle sees the newest state reported durable, or one
\* in doubt; reopening never goes back to an older commit (Store::open).
HandleIsCurrent == handle # NoHandle => handle.root \in Promise!Findable

\* The bytes up to the newest state in the file are never written again, by
\* any append, retry or reopening after a crash that left the file longer or
\* shorter than the last commit (DESIGN section 5, append-only).
CommittedBytesFrozen ==
  [][\A r \in Promise!Findable : \A b \in DataStart..r :
        cache'[b] = cache[b]]_vars

\* Commits are atomic and durable, as AtomicRoot states it.
ImplementsAtomicRoot == Promise!Spec

-----------------------------------------------------------------------------
(* The inductive invariant.                                                *)

\* A block that is not dirty is the same in the cache and on disk.
CleanIsStable == \A b \in Block \ dirty : disk[b] = cache[b]

\* The superblock v does not stand in the way of one with number seq: it is
\* older, or newer and of a state that may be found.  Never of the same age.
Yields(v, seq) ==
  \/ v = Torn
  \/ v.seq < seq
  \/ v.seq > seq /\ v.root \in Promise!Findable

\* Superblock s cannot be lost, and nothing beside it leads to a wrong state.
Anchored(s) ==
  /\ s \notin dirty
  /\ cache[s] # Torn
  /\ cache[s].root \in Promise!Findable
  /\ \A v \in Possible(Other(s)) : Yields(v, cache[s].seq)

\* What the handle appends next is behind every named root.
AppendsBehind ==
  handle # NoHandle => handle.size <= eof /\ \A r \in NamedRoot : r < handle.size

\* What commit is about to name is written, and on stable storage by the first barrier.
RootIsWritten ==
  /\ call.pc # "idle" =>
       /\ call.root \in DataBlock
       /\ call.root < handle.size
       /\ cache[call.root] \in Record
  /\ call.pc \in {"writeSb", "syncSb"} => Backed(call.root)

\* What holds of the data even if a superblock cannot be read for lack of I/O.
DataInv ==
  /\ TypeOK
  /\ CleanIsStable
  /\ \A r \in NamedRoot : Backed(r)
  /\ AppendsBehind
  /\ RootIsWritten

\* The handle agrees with the superblock it was read from.
HandleMatches ==
  handle # NoHandle =>
    /\ cache[handle.active] = [seq |-> handle.seq, root |-> handle.root]
    /\ handle.root \in Promise!Findable
    /\ Yields(cache[Other(handle.active)], handle.seq)

\* What commit knows of the superblocks at each of its steps.
CommitProgress ==
  /\ call.pc \in {"syncData", "writeSb"} => \A r \in Promise!Findable : r < call.root
  /\ call.pc \in {"writeSb", "syncSb"} => Anchored(handle.active)
  /\ call.pc = "syncSb" =>
       /\ call.root \in doubt
       /\ cache[Other(handle.active)] = [seq |-> handle.seq + 1, root |-> call.root]

\* Holds in every state, is preserved by every step, and implies the safety
\* properties above: at every moment one superblock is out of harm's way.
StoreInv ==
  /\ DataInv
  /\ \E s \in Slot : Anchored(s)
  /\ HandleMatches
  /\ CommitProgress
=============================================================================

----------------------------- MODULE StoreProofs -----------------------------
(***************************************************************************)
(* The double-superblock commit proved for a file of any length and any    *)
(* set of records: StoreInv is inductive, so that a committed state is     *)
(* always recoverable and the store implements AtomicRoot.                 *)
(* What does not rest on the choice of a superblock is DataInv.            *)
(***************************************************************************)
EXTENDS Store, TLAPS

\* The faults under which the claims hold: a failed sync leaves its pages
\* dirty, and reading a superblock does not fail for lack of I/O.
Faultless == ~FailedSyncDropsPages /\ ~ReadErrors

-----------------------------------------------------------------------------
(* Facts about one state.                                                  *)

\* The constants of the layout.
LEMMA Layout ==
  /\ Slot = {0, 1} /\ DataStart = 2
  /\ Slot \subseteq Block /\ DataBlock \subseteq Block
  /\ \A s \in Slot : Other(s) \in Slot /\ Other(s) # s /\ Other(Other(s)) = s
  /\ \A s \in Slot, b \in DataBlock : s # b
  /\ DataBlock \subseteq Nat /\ Root \subseteq Nat
BY StoreAssumption DEF Slot, SbA, SbB, DataStart, Block, DataBlock, Other, Root

\* A handle is not the null handle.
LEMMA HandleIsNotNull == NoHandle \notin Handle
<1> SUFFICES ASSUME NEW h \in Handle PROVE h \in [seq : Nat, active : Slot, root : Root, size : Int]
  BY StoreAssumption
<1> QED
  BY StoreAssumption DEF Handle, DataStart

\* What the cache and the disk hold are both possible after a power loss, and
\* nothing else but a torn block is.
LEMMA PossibleValues ==
  ASSUME TypeOK, CleanIsStable, NEW s \in Slot
  PROVE  /\ cache[s] \in Possible(s) /\ disk[s] \in Possible(s)
         /\ \A v \in Possible(s) : v = Torn \/ v \in SuperBlock
         /\ s \notin dirty => Possible(s) = {cache[s]}
BY Layout DEF TypeOK, CleanIsStable, Possible

\* Named roots are offsets.
LEMMA NamedRootsAreRoots ==
  DataInv => NamedRoot \subseteq Root /\ NamedRoot \subseteq Nat
<1> SUFFICES ASSUME DataInv PROVE NamedRoot \subseteq Root
  BY Layout
<1>1. Promise!Findable \subseteq Root
  BY DEF Promise!Findable, DataInv, TypeOK
<1>2. SbA \in Slot /\ SbB \in Slot
  BY DEF Slot
<1>3. PossibleRoot \subseteq Root
  BY <1>2, PossibleValues DEF PossibleRoot, DataInv, SuperBlock
<1> QED
  BY <1>1, <1>3 DEF NamedRoot

\* A superblock chosen by Store::open names a root that may be found.
LEMMA ChosenIsFindable ==
  ASSUME NEW c, NEW s \in Slot,
         \A t \in Slot : c[t] = Torn \/ c[t] \in SuperBlock,
         c[s] # Torn, c[s].root \in Promise!Findable,
         Yields(c[Other(s)], c[s].seq)
  PROVE  LET w == Chosen(c[SbA], c[SbB])
         IN  /\ w \in Slot /\ c[w] # Torn /\ c[w] \in SuperBlock
             /\ c[w].root \in Promise!Findable
             /\ c[Other(w)] = Torn \/ c[Other(w)].seq < c[w].seq
<1> DEFINE w == Chosen(c[SbA], c[SbB])
<1>1. \A t \in Slot : c[t] # Torn => c[t].seq \in Nat
  BY DEF SuperBlock
<1>2. s = SbA \/ s = SbB
  BY DEF Slot
<1>3. CASE s = SbA
  <2>1. Other(s) = SbB /\ Other(SbB) = SbA /\ SbA \in Slot /\ SbB \in Slot
    BY <1>3 DEF Other, SbA, SbB, Slot
  <2> QED
    BY <1>1, <1>3, <2>1 DEF Chosen, Beats, Yields, SbA, SbB
<1>4. CASE s = SbB
  <2>1. Other(s) = SbA /\ Other(SbA) = SbB /\ SbA \in Slot /\ SbB \in Slot
    BY <1>4 DEF Other, SbA, SbB, Slot
  <2> QED
    BY <1>1, <1>4, <2>1 DEF Chosen, Beats, Yields, SbA, SbB
<1> QED
  BY <1>2, <1>3, <1>4

\* A committed state can be recovered from any superblocks left by a failure.
LEMMA InvImpliesRecoverable == StoreInv => AlwaysRecoverable
<1> SUFFICES ASSUME StoreInv, NEW a \in Possible(SbA), NEW b \in Possible(SbB)
             PROVE  /\ a # Torn \/ b # Torn
                    /\ RootIn([s \in Slot |-> IF s = SbA THEN a ELSE b]) \in Promise!Findable
  BY DEF AlwaysRecoverable
<1> DEFINE c == [s \in Slot |-> IF s = SbA THEN a ELSE b]
<1>1. /\ SbA \in Slot /\ SbB \in Slot /\ c[SbA] = a /\ c[SbB] = b
      /\ \A t \in Slot : c[t] \in Possible(t)
  BY DEF Slot, SbA, SbB
<1>2. PICK s \in Slot : Anchored(s)
  BY DEF StoreInv
<1>3. \A t \in Slot : c[t] = Torn \/ c[t] \in SuperBlock
  BY <1>1, PossibleValues DEF StoreInv, DataInv
<1>4. c[s] = cache[s]
  BY <1>1, <1>2, PossibleValues DEF StoreInv, DataInv, Anchored
<1>5. c[s] # Torn /\ c[s].root \in Promise!Findable /\ Yields(c[Other(s)], c[s].seq)
  BY <1>1, <1>2, <1>4, Layout DEF Anchored
<1> HIDE DEF c
<1>6. LET w == Chosen(c[SbA], c[SbB])
      IN  c[w] # Torn /\ c[w].root \in Promise!Findable /\ w \in Slot
  BY <1>3, <1>5, ChosenIsFindable
<1>7. a # Torn \/ b # Torn
  BY <1>1, <1>5 DEF Slot
<1> QED
  BY <1>6, <1>7 DEF RootIn, c

-----------------------------------------------------------------------------
(* Types: whatever fails, every step keeps them.                           *)

\* The file's part of TypeOK.
FileTypes ==
  /\ cache \in [Block -> SuperBlock \union Record \union {Torn, Absent}]
  /\ disk \in [Block -> SuperBlock \union Record \union {Torn, Absent}]
  /\ \A s \in Slot : {cache[s], disk[s]} \subseteq SuperBlock \union {Torn}
  /\ dirty \subseteq Block
  /\ eof \in DataStart..(LastBlock + 1)
  /\ diskEof \in DataStart..eof

LEMMA WriteTypes ==
  ASSUME TypeOK, NEW b \in Block, NEW v, Write(b, v),
         b \in Slot => v \in SuperBlock \union {Torn},
         b \in DataBlock => v \in Record \union {Torn}
  PROVE  FileTypes' /\ eof <= eof'
<1>1. /\ cache' = [cache EXCEPT ![b] = v] /\ dirty' = dirty \union {b}
      /\ eof' = Larger(eof, b + 1) /\ disk' = disk /\ diskEof' = diskEof
  BY DEF Write
<1>2. v \in SuperBlock \union Record \union {Torn, Absent}
  BY DEF Block
<1>3. cache' \in [Block -> SuperBlock \union Record \union {Torn, Absent}]
      /\ \A d \in Block : cache'[d] = IF d = b THEN v ELSE cache[d]
  BY <1>1, <1>2 DEF TypeOK
<1>4. \A s \in Slot : {cache'[s], disk'[s]} \subseteq SuperBlock \union {Torn}
  BY <1>1, <1>3, Layout DEF TypeOK
<1>5. b + 1 \in DataStart..(LastBlock + 1) \/ b + 1 \in 1..DataStart
  BY StoreAssumption DEF Block, Slot, SbA, SbB, DataBlock, DataStart
<1>6. eof' \in DataStart..(LastBlock + 1) /\ eof <= eof' /\ diskEof' \in DataStart..eof'
  BY <1>1, <1>5, StoreAssumption DEF Larger, TypeOK, DataStart
<1> QED
  BY <1>1, <1>3, <1>4, <1>6 DEF FileTypes, TypeOK

LEMMA WriteFailsTypes ==
  ASSUME TypeOK, NEW b \in Block, WriteFails(b)
  PROVE  FileTypes' /\ eof <= eof'
<1>1. CASE UNCHANGED file
  BY <1>1, StoreAssumption DEF file, FileTypes, TypeOK, DataStart
<1>2. CASE Write(b, Torn)
  BY <1>2, WriteTypes
<1> QED
  BY <1>1, <1>2 DEF WriteFails

LEMMA SyncTypes ==
  ASSUME TypeOK, Sync \/ SyncFails
  PROVE  FileTypes' /\ eof' = eof
<1>1. eof \in DataStart..(LastBlock + 1) /\ eof \in DataStart..eof
  BY StoreAssumption DEF TypeOK, DataStart
<1>2. CASE Sync
  <2>1. \A b \in Block : disk'[b] = IF b \in dirty THEN cache[b] ELSE disk[b]
    BY <1>2 DEF Sync
  <2>2. disk' \in [Block -> SuperBlock \union Record \union {Torn, Absent}]
    BY <1>2 DEF Sync, TypeOK
  <2>3. \A s \in Slot : {cache'[s], disk'[s]} \subseteq SuperBlock \union {Torn}
    BY <1>2, <2>1, Layout DEF Sync, TypeOK
  <2> QED
    BY <1>1, <1>2, <2>2, <2>3 DEF Sync, FileTypes, TypeOK
<1>3. CASE SyncFails
  BY <1>3 DEF SyncFails, FileTypes, TypeOK
<1> QED
  BY <1>2, <1>3

\* The superblock that a reader chooses is one that it could read.
LEMMA ChosenIsWhole ==
  ASSUME NEW c, \A s \in Slot : c[s] = Torn \/ c[s] \in SuperBlock, c[SbA] # Torn \/ c[SbB] # Torn
  PROVE  LET w == Chosen(c[SbA], c[SbB]) IN w \in Slot /\ c[w] # Torn /\ c[w] \in SuperBlock
BY DEF Chosen, Slot, SbA, SbB

LEMMA OpenTypes ==
  ASSUME TypeOK, Open
  PROVE  handle' \in Handle /\ handle' # NoHandle /\ handle'.size = eof
         /\ UNCHANGED <<file, call, promised, doubt>>
<1>1. PICK unread \in SUBSET Slot :
        LET sb == [s \in Slot |-> IF s \in unread THEN Torn ELSE cache[s]]
            chosen == Chosen(sb[SbA], sb[SbB])
        IN  /\ sb[SbA] # Torn \/ sb[SbB] # Torn
            /\ handle' = [seq |-> sb[chosen].seq, active |-> chosen,
                          root |-> sb[chosen].root, size |-> AppendAt(sb[chosen].root)]
  BY DEF Open
<1> DEFINE sb == [s \in Slot |-> IF s \in unread THEN Torn ELSE cache[s]]
           w == Chosen(sb[SbA], sb[SbB])
<1>2. \A s \in Slot : sb[s] = Torn \/ sb[s] \in SuperBlock
  BY DEF TypeOK
<1>3. sb[SbA] # Torn \/ sb[SbB] # Torn
  BY <1>1
<1>4. handle' = [seq |-> sb[w].seq, active |-> w, root |-> sb[w].root, size |-> AppendAt(sb[w].root)]
  BY <1>1
<1> HIDE DEF sb
<1>5. w \in Slot /\ sb[w] \in SuperBlock
  BY <1>2, <1>3, ChosenIsWhole
<1> HIDE DEF w
<1>6. AppendAt(sb[w].root) = eof /\ eof \in DataStart..(LastBlock + 1)
  BY StoreAssumption DEF AppendAt, Larger, TypeOK, DataStart
<1>7. sb[w].seq \in Nat /\ sb[w].root \in Root
  BY <1>5 DEF SuperBlock
<1>8. handle' \in Handle
  BY <1>4, <1>5, <1>6, <1>7 DEF Handle
<1>9. handle'.size = eof
  BY <1>4, <1>6
<1> QED
  BY <1>8, <1>9, HandleIsNotNull DEF Open

LEMMA PowerLossTypes ==
  ASSUME TypeOK, PowerLoss
  PROVE  TypeOK'
<1>1. PICK torn \in SUBSET dirty, end \in diskEof..eof :
        LET left == Survivors(torn, end)
        IN  /\ cache' = left /\ disk' = left /\ eof' = end /\ diskEof' = end
            /\ promised' = IF left[SbA] = Torn /\ left[SbB] = Torn THEN 0 ELSE RootIn(left)
  BY DEF PowerLoss
<1> DEFINE left == Survivors(torn, end)
<1>2. /\ cache' = left /\ disk' = left /\ eof' = end /\ diskEof' = end
      /\ promised' = IF left[SbA] = Torn /\ left[SbB] = Torn THEN 0 ELSE RootIn(left)
  BY <1>1
<1>3. left \in [Block -> SuperBlock \union Record \union {Torn, Absent}]
  BY DEF Survivors, TypeOK
<1>4. \A s \in Slot : left[s] = Torn \/ left[s] \in SuperBlock
  BY Layout DEF Survivors, TypeOK
<1> HIDE DEF left
<1>5. promised' \in Root
  <2>1. CASE left[SbA] = Torn /\ left[SbB] = Torn
    BY <1>2, <2>1 DEF Root
  <2>2. CASE left[SbA] # Torn \/ left[SbB] # Torn
    <3>1. PICK w \in Slot : w = Chosen(left[SbA], left[SbB]) /\ left[w] \in SuperBlock
      BY <1>4, <2>2, ChosenIsWhole
    <3>2. promised' = left[w].root
      BY <1>2, <2>2, <3>1 DEF RootIn
    <3> QED
      BY <3>1, <3>2 DEF SuperBlock
  <2> QED
    BY <2>1, <2>2
<1>6. eof' \in DataStart..(LastBlock + 1) /\ diskEof' \in DataStart..eof'
  BY <1>2, StoreAssumption DEF TypeOK, DataStart
<1>7. dirty' = {} /\ handle' = NoHandle /\ call' = Idle /\ doubt' = {} /\ call' \in Call
  BY DEF PowerLoss, Idle, Call, Root
<1>8. \A s \in Slot : {cache'[s], disk'[s]} \subseteq SuperBlock \union {Torn}
  BY <1>2, <1>4
<1> QED
  BY <1>2, <1>3, <1>5, <1>6, <1>7, <1>8 DEF TypeOK

LEMMA AppendTypes ==
  ASSUME TypeOK, NEW v \in Record \union {Torn}, Write(handle.size, v),
         handle # NoHandle, handle.size <= LastBlock
  PROVE  /\ FileTypes' /\ eof <= eof'
         /\ [handle EXCEPT !.size = handle.size + 1] \in Handle
         /\ [handle EXCEPT !.size = handle.size + 1] # NoHandle
         /\ handle.size \in DataBlock
<1>1. handle \in Handle /\ handle.size \in DataBlock
  BY StoreAssumption DEF TypeOK, Handle, DataBlock, DataStart
<1>2. handle.size + 1 \in DataStart..(LastBlock + 1)
  BY <1>1, StoreAssumption DEF DataBlock, DataStart
<1>3. [handle EXCEPT !.size = handle.size + 1] \in Handle
  BY <1>1, <1>2 DEF Handle
<1>4. handle.size \in Block /\ handle.size \notin Slot
  BY <1>1, Layout
<1> QED
  BY <1>1, <1>3, <1>4, WriteTypes, HandleIsNotNull

LEMMA TypesStay == TypeOK /\ [Next]_vars => TypeOK'
<1> SUFFICES ASSUME TypeOK, [Next]_vars PROVE TypeOK'
  OBVIOUS
<1>1. CASE UNCHANGED vars
  BY <1>1 DEF vars, file, TypeOK
<1>2. ASSUME NEW r \in Record, Append(r) PROVE TypeOK'
  BY <1>2, AppendTypes DEF Append, TypeOK, FileTypes
<1>3. CASE AppendFails
  <2>1. handle \in Handle /\ handle.size \in DataBlock
    BY <1>3, StoreAssumption DEF AppendFails, TypeOK, Handle, DataBlock, DataStart
  <2>2. FileTypes'
    BY <1>3, <2>1, Layout, WriteFailsTypes DEF AppendFails
  <2> QED
    BY <1>3, <2>2 DEF AppendFails, TypeOK, FileTypes
<1>4. ASSUME NEW r \in Record, BeginCommit(r) PROVE TypeOK'
  <2>1. FileTypes' /\ handle' \in Handle /\ handle' # NoHandle /\ handle.size \in DataBlock
    BY <1>4, AppendTypes DEF BeginCommit
  <2>2. call' \in Call
    BY <1>4, <2>1 DEF BeginCommit, Call, Root
  <2> QED
    BY <1>4, <2>1, <2>2 DEF BeginCommit, TypeOK, FileTypes
<1>5. CASE CommitSyncData
  <2>1. FileTypes'
    BY <1>5, SyncTypes DEF CommitSyncData, DataBarrier
  <2>2. call' \in Call /\ handle # NoHandle
    BY <1>5 DEF CommitSyncData, TypeOK, Idle, Call, Root
  <2> QED
    BY <1>5, <2>1, <2>2 DEF CommitSyncData, TypeOK, FileTypes
<1>6. CASE CommitWriteSb
  <2>1. handle \in Handle /\ handle # NoHandle /\ call \in Call
    BY <1>6 DEF CommitWriteSb, TypeOK, Idle
  <2>2. SpareSlot(handle) \in Slot /\ SpareSlot(handle) \in Block /\ SpareSlot(handle) \notin DataBlock
    BY <2>1, Layout DEF SpareSlot, Handle
  <2>3. [seq |-> NextSeq(handle), root |-> call.root] \in SuperBlock /\ call.root \in Root
    BY <2>1 DEF SuperBlock, Handle, Call, NextSeq
  <2>4. FileTypes'
    BY <1>6, <2>2, <2>3, WriteTypes, WriteFailsTypes DEF CommitWriteSb
  <2>5. call' \in Call
    BY <1>6, <2>1 DEF CommitWriteSb, Idle, Call, Root
  <2>6. doubt' \subseteq Root
    BY <1>6, <2>3 DEF CommitWriteSb, TypeOK
  <2> QED
    BY <1>6, <2>1, <2>4, <2>5, <2>6 DEF CommitWriteSb, TypeOK, FileTypes
<1>7. CASE CommitSyncSb
  <2>1. handle \in Handle /\ handle # NoHandle /\ call \in Call
    BY <1>7 DEF CommitSyncSb, TypeOK, Idle
  <2>2. FileTypes'
    BY <1>7, SyncTypes DEF CommitSyncSb
  <2>3. call.root \in Root /\ NextSeq(handle) \in Nat /\ SpareSlot(handle) \in Slot
    BY <2>1, Layout DEF SpareSlot, NextSeq, Handle, Call
  <2>4. handle' \in Handle /\ promised' \in Root /\ doubt' \subseteq Root
    BY <1>7, <2>1, <2>3 DEF CommitSyncSb, Handle, TypeOK
  <2>5. call' \in Call
    BY <1>7 DEF CommitSyncSb, Idle, Call, Root
  <2> QED
    BY <2>2, <2>4, <2>5, HandleIsNotNull DEF TypeOK, FileTypes
<1>8. CASE Open
  BY <1>8, OpenTypes DEF TypeOK, file
<1>9. CASE WriteSlot
  BY <1>9, SyncTypes DEF WriteSlot, TypeOK, FileTypes
<1>10. CASE Exit
  BY <1>10 DEF Exit, TypeOK, file, Idle, Call, Root
<1>11. ASSUME NEW b \in Block, WriteBack(b) PROVE TypeOK'
  <2>1. /\ disk' \in [Block -> SuperBlock \union Record \union {Torn, Absent}]
        /\ \A d \in Block : disk'[d] = IF d = b THEN cache[b] ELSE disk[d]
    BY <1>11 DEF WriteBack, TypeOK
  <2>2. \A s \in Slot : {cache'[s], disk'[s]} \subseteq SuperBlock \union {Torn}
    BY <1>11, <2>1, Layout DEF WriteBack, TypeOK
  <2> QED
    BY <1>11, <2>1, <2>2 DEF WriteBack, TypeOK
<1>12. CASE PowerLoss
  BY <1>12, PowerLossTypes
<1> QED
  BY <1>1, <1>2, <1>3, <1>4, <1>5, <1>6, <1>7, <1>8, <1>9, <1>10, <1>11, <1>12 DEF Next

LEMMA InitTypes == Init => TypeOK
<1> SUFFICES ASSUME Init PROVE TypeOK
  OBVIOUS
<1>1. cache[SbA] = [seq |-> 1, root |-> 0] /\ cache[SbB] = [seq |-> 0, root |-> 0]
  BY DEF Init, Slot, SbA, SbB, Block
<1>2. 0 \in Root /\ [seq |-> 1, root |-> 0] \in SuperBlock /\ [seq |-> 0, root |-> 0] \in SuperBlock
  BY DEF Root, SuperBlock
<1>3. cache \in [Block -> SuperBlock \union Record \union {Torn, Absent}] /\ disk = cache
  BY <1>2 DEF Init
<1>4. \A s \in Slot : {cache[s], disk[s]} \subseteq SuperBlock \union {Torn}
  BY <1>1, <1>2, <1>3 DEF Slot
<1>5. handle \in Handle /\ call \in Call
  BY <1>2, StoreAssumption DEF Init, Handle, Call, Idle, Slot, DataStart
<1>6. eof \in DataStart..(LastBlock + 1) /\ diskEof \in DataStart..eof
  BY StoreAssumption DEF Init, DataStart
<1> QED
  BY <1>2, <1>3, <1>4, <1>5, <1>6, HandleIsNotNull DEF Init, TypeOK

-----------------------------------------------------------------------------
(* The data: what a superblock may name is whole, if a failed sync leaves  *)
(* its pages dirty.                                                        *)

\* A write behind every named root leaves what the invariant says of the file.
LEMMA DataWriteKeepsFile ==
  ASSUME DataInv, NEW b \in DataBlock, NEW v \in Record \union {Torn}, Write(b, v),
         \A r \in NamedRoot : r < b, UNCHANGED <<promised, doubt>>
  PROVE  /\ \A d \in Block : d # b => cache'[d] = cache[d]
         /\ cache'[b] = v /\ CleanIsStable'
         /\ \A s \in Slot : Possible(s)' = Possible(s)
         /\ NamedRoot' = NamedRoot /\ Promise!Findable' = Promise!Findable
         /\ \A r \in NamedRoot : Backed(r)'
<1>1. /\ cache' = [cache EXCEPT ![b] = v] /\ dirty' = dirty \union {b}
      /\ disk' = disk /\ diskEof' = diskEof
      /\ promised' = promised /\ doubt' = doubt
  BY DEF Write
<1>2. cache \in [Block -> SuperBlock \union Record \union {Torn, Absent}] /\ dirty \subseteq Block
  BY DEF DataInv, TypeOK
<1>3. cache'[b] = v /\ \A d \in Block : d # b => cache'[d] = cache[d]
  BY <1>1, <1>2, Layout
<1>4. CleanIsStable'
  BY <1>1, <1>2 DEF DataInv, CleanIsStable
<1>5. Promise!Findable' = Promise!Findable
  BY <1>1 DEF Promise!Findable
<1>6. \A s \in Slot : Possible(s)' = Possible(s)
  BY <1>1, <1>3, Layout DEF Possible
<1>7. NamedRoot' = NamedRoot
  BY <1>5, <1>6 DEF NamedRoot, PossibleRoot, Slot, SbA, SbB
<1>8. \A r \in NamedRoot : Backed(r)'
  <2> SUFFICES ASSUME NEW r \in NamedRoot PROVE Backed(r)'
    OBVIOUS
  <2>1. Backed(r) /\ r < b
    BY DEF DataInv
  <2>2. r \in Nat /\ diskEof \in Nat /\ diskEof <= LastBlock + 1
    <3>1. diskEof \in Nat /\ diskEof <= LastBlock + 1
      BY StoreAssumption DEF DataInv, TypeOK, DataStart
    <3> QED
      BY <3>1, NamedRootsAreRoots
  <2>3. \A d \in DataStart..r : d \in Block /\ d # b
    BY <2>1, <2>2, StoreAssumption DEF Backed, Block, DataBlock, DataStart
  <2> QED
    BY <1>1, <1>3, <2>1, <2>3 DEF Backed
<1> QED
  BY <1>3, <1>4, <1>5, <1>6, <1>7, <1>8

\* What a sync that returned true has made of the file.
LEMMA SyncKeepsFile ==
  ASSUME DataInv, Sync
  PROVE  /\ dirty' = {} /\ cache' = cache /\ eof' = eof /\ diskEof' = eof
         /\ \A b \in Block : disk'[b] = cache[b]
         /\ \A s \in Slot : Possible(s)' = {cache[s]} /\ cache[s] \in Possible(s)
         /\ PossibleRoot' \subseteq PossibleRoot
         /\ \A r \in Root : Backed(r) => Backed(r)'
<1>1. /\ disk' = [b \in Block |-> IF b \in dirty THEN cache[b] ELSE disk[b]]
      /\ dirty' = {} /\ diskEof' = eof /\ cache' = cache /\ eof' = eof
  BY DEF Sync
<1>2. \A b \in Block : disk'[b] = cache[b]
  BY <1>1 DEF DataInv, CleanIsStable
<1>3. \A s \in Slot : Possible(s)' = {cache[s]}
  BY <1>1, <1>2, Layout DEF Possible
<1>4. \A s \in Slot : cache[s] \in Possible(s)
  BY PossibleValues DEF DataInv
<1>5. PossibleRoot' \subseteq PossibleRoot
  BY <1>3, <1>4 DEF PossibleRoot, Slot
<1>6. ASSUME NEW r \in Root, Backed(r) PROVE Backed(r)'
  <2>1. diskEof <= eof /\ diskEof \in Nat /\ eof \in Nat /\ eof <= LastBlock + 1 /\ r \in Nat
    BY StoreAssumption, Layout DEF DataInv, TypeOK, DataStart
  <2>2. r < diskEof' /\ \A d \in DataStart..r : d \in Block
    BY <1>1, <1>6, <2>1, StoreAssumption DEF Backed, Block, DataBlock, DataStart
  <2>3. r # 0 => r \in DataStart..r /\ r \in Block
    BY Layout, <2>1 DEF Root, DataBlock
  <2>4. r # 0 => disk'[r] \in Record
    BY <1>2, <1>6, <2>3 DEF Backed
  <2> QED
    BY <1>1, <1>2, <2>2, <2>4 DEF Backed
<1> QED
  BY <1>1, <1>2, <1>3, <1>4, <1>5, <1>6

\* A step that leaves the file and what is said of it as they were.
LEMMA DataStutter ==
  ASSUME DataInv, TypeOK', UNCHANGED <<file, promised, doubt>>,
         handle' \in {handle, NoHandle}, call' \in {call, Idle},
         handle' = NoHandle => call' = Idle
  PROVE  DataInv'
<1>1. CleanIsStable' /\ NamedRoot' = NamedRoot /\ \A r : Backed(r)' = Backed(r)
  BY DEF DataInv, CleanIsStable, NamedRoot, PossibleRoot, Possible, Promise!Findable, Backed, file
<1>2. AppendsBehind'
  BY <1>1 DEF AppendsBehind, DataInv, file
<1>3. RootIsWritten'
  <2>1. CASE call' = Idle
    BY <2>1 DEF RootIsWritten, Idle
  <2>2. CASE call' = call /\ handle' = handle
    BY <1>1, <2>2 DEF RootIsWritten, DataInv, file
  <2> QED
    BY <2>1, <2>2
<1> QED
  BY <1>1, <1>2, <1>3 DEF DataInv

\* What a sync leaves of the data while the handle keeps its place.
LEMMA DataSync ==
  ASSUME DataInv, TypeOK', Sync, handle # NoHandle, handle' # NoHandle, handle'.size = handle.size,
         Promise!Findable' \subseteq Promise!Findable \union {call.root},
         call.root \in Promise!Findable' => Backed(call.root) /\ call.root < handle.size
  PROVE  CleanIsStable' /\ AppendsBehind' /\ \A r \in NamedRoot' : Backed(r)'
<1>1. /\ dirty' = {} /\ cache' = cache /\ eof' = eof /\ diskEof' = eof
      /\ \A b \in Block : disk'[b] = cache[b]
      /\ PossibleRoot' \subseteq PossibleRoot
      /\ \A r \in Root : Backed(r) => Backed(r)'
  BY SyncKeepsFile
<1>2. CleanIsStable'
  BY <1>1 DEF CleanIsStable
<1>3. NamedRoot' \subseteq NamedRoot \union {call.root}
      /\ (call.root \in NamedRoot' => Backed(call.root) /\ call.root < handle.size)
  BY <1>1 DEF NamedRoot, DataInv, AppendsBehind
<1>4. call.root \in Root
  BY DEF DataInv, TypeOK, Call
<1>5. AppendsBehind'
  BY <1>1, <1>3 DEF AppendsBehind, DataInv
<1>6. \A r \in NamedRoot' : Backed(r)'
  BY <1>1, <1>3, <1>4, NamedRootsAreRoots DEF DataInv
<1> QED
  BY <1>2, <1>5, <1>6

LEMMA AppendKeepsData ==
  ASSUME DataInv, TypeOK', AppendFails \/ \E r \in Record : Append(r)
  PROVE  DataInv'
<1>1. CASE UNCHANGED vars
  BY <1>1, DataStutter DEF vars, DataInv, TypeOK
<1>2. CASE ~UNCHANGED vars
  <2>1. PICK v \in Record \union {Torn} :
          /\ handle # NoHandle /\ call = Idle /\ handle.size <= LastBlock
          /\ Write(handle.size, v)
          /\ handle' \in {handle, [handle EXCEPT !.size = handle.size + 1]}
          /\ UNCHANGED <<call, promised, doubt>>
    BY <1>2 DEF Append, AppendFails, WriteFails, vars
  <2>2. /\ eof \in Nat /\ handle.size \in DataBlock /\ handle.size \in Nat
        /\ handle.size <= eof /\ \A r \in NamedRoot : r < handle.size /\ r \in Nat
    BY <2>1, AppendTypes, NamedRootsAreRoots, StoreAssumption, Layout
       DEF DataInv, TypeOK, AppendsBehind, DataStart
  <2>3. /\ CleanIsStable' /\ NamedRoot' = NamedRoot /\ \A r \in NamedRoot : Backed(r)'
    BY <2>1, <2>2, DataWriteKeepsFile
  <2>4. handle.size <= handle'.size /\ handle'.size <= handle.size + 1 /\ handle'.size \in Nat
    <3>1. handle \in Handle
      BY <2>1 DEF DataInv, TypeOK
    <3> QED
      BY <2>1, <2>2, <3>1 DEF Handle
  <2>5. handle'.size <= eof'
    BY <2>1, <2>2, <2>4 DEF Write, Larger
  <2>6. AppendsBehind'
    BY <2>2, <2>3, <2>4, <2>5 DEF AppendsBehind
  <2>7. RootIsWritten'
    BY <2>1 DEF RootIsWritten, Idle
  <2> QED
    BY <2>3, <2>6, <2>7 DEF DataInv
<1> QED
  BY <1>1, <1>2

LEMMA BeginCommitKeepsData ==
  ASSUME DataInv, TypeOK', NEW m \in Record, BeginCommit(m)
  PROVE  DataInv'
<1>1. /\ handle # NoHandle /\ handle.size <= LastBlock
      /\ Write(handle.size, m)
      /\ handle' = [handle EXCEPT !.size = handle.size + 1]
      /\ call' = [pc |-> "syncData", root |-> handle.size]
      /\ UNCHANGED <<promised, doubt>>
  BY DEF BeginCommit
<1>2. /\ handle.size \in DataBlock /\ handle.size \in Nat /\ eof \in Nat
      /\ \A r \in NamedRoot : r < handle.size /\ r \in Nat
  BY <1>1, AppendTypes, NamedRootsAreRoots, StoreAssumption, Layout
     DEF DataInv, TypeOK, AppendsBehind, DataStart
<1>3. /\ CleanIsStable' /\ NamedRoot' = NamedRoot /\ \A r \in NamedRoot : Backed(r)'
      /\ cache'[handle.size] = m
  BY <1>1, <1>2, DataWriteKeepsFile
<1>4. handle'.size = handle.size + 1
  <2>1. handle \in Handle
    BY <1>1 DEF DataInv, TypeOK
  <2> QED
    BY <1>1, <2>1 DEF Handle
<1>5. handle'.size <= eof'
  BY <1>1, <1>2, <1>4 DEF Write, Larger
<1>6. AppendsBehind'
  BY <1>2, <1>3, <1>4, <1>5 DEF AppendsBehind
<1>7. RootIsWritten'
  BY <1>1, <1>2, <1>3, <1>4 DEF RootIsWritten
<1> QED
  BY <1>3, <1>6, <1>7 DEF DataInv

\* The first barrier makes the root that commit is given a whole state.
LEMMA CommitSyncDataKeepsData ==
  ASSUME DataInv, TypeOK', CommitSyncData, ~FailedSyncDropsPages
  PROVE  DataInv'
<1>1. CASE SyncFails /\ call' = Idle
  BY <1>1, DataStutter DEF SyncFails, CommitSyncData, file
<1>2. CASE Sync /\ call' = [call EXCEPT !.pc = "writeSb"]
  <2>1. call.pc = "syncData" /\ call \in Call /\ UNCHANGED <<handle, promised, doubt>>
    BY DEF CommitSyncData, DataInv, TypeOK
  <2>2. handle # NoHandle
    BY <2>1 DEF DataInv, TypeOK, Idle
  <2>3. call'.root = call.root /\ call'.pc = "writeSb"
    BY <1>2, <2>1 DEF Call
  <2>4. call.root \in DataBlock /\ call.root < handle.size /\ cache[call.root] \in Record
    BY <2>1 DEF DataInv, RootIsWritten
  <2>5. /\ dirty' = {} /\ cache' = cache /\ eof' = eof /\ diskEof' = eof
        /\ \A b \in Block : disk'[b] = cache[b]
        /\ PossibleRoot' \subseteq PossibleRoot
        /\ \A r \in Root : Backed(r) => Backed(r)'
    BY <1>2, SyncKeepsFile
  <2>6. call.root < eof
    BY <2>2, <2>4, StoreAssumption, Layout DEF DataInv, TypeOK, AppendsBehind, Handle, DataBlock, DataStart
  <2>7. Backed(call.root)'
    <3>1. \A d \in DataStart..call.root : d \in Block
      BY <2>4, StoreAssumption DEF Block, DataBlock, DataStart
    <3>2. call.root \in Block
      BY <2>4, Layout
    <3> QED
      BY <2>3, <2>4, <2>5, <2>6, <3>1, <3>2 DEF Backed
  <2>8. NamedRoot' \subseteq NamedRoot
    BY <2>1, <2>5 DEF NamedRoot, Promise!Findable
  <2>9. (\A r \in NamedRoot : Backed(r))' /\ CleanIsStable'
    BY <2>5, <2>8, NamedRootsAreRoots DEF DataInv, CleanIsStable
  <2>10. AppendsBehind'
    BY <2>1, <2>5, <2>8 DEF AppendsBehind, DataInv
  <2>11. RootIsWritten'
    BY <2>1, <2>3, <2>4, <2>5, <2>7 DEF RootIsWritten
  <2> QED
    BY <2>9, <2>10, <2>11 DEF DataInv
<1> QED
  BY <1>1, <1>2 DEF CommitSyncData, DataBarrier

\* What a write to a superblock leaves of the data, when it names a whole state.
LEMMA SuperBlockWriteKeepsData ==
  ASSUME DataInv, TypeOK', handle # NoHandle, NEW t \in Slot,
         NEW v \in SuperBlock \union {Torn}, Write(t, v),
         UNCHANGED <<handle, promised>>,
         call.root \in DataBlock, Backed(call.root), call.root < handle.size,
         doubt' \subseteq doubt \union {call.root},
         v # Torn => v.root = call.root
  PROVE  /\ CleanIsStable' /\ AppendsBehind' /\ \A r \in NamedRoot' : Backed(r)'
         /\ \A r \in Nat : Backed(r) => Backed(r)'
         /\ cache'[t] = v /\ \A b \in Block : b # t => cache'[b] = cache[b]
         /\ Possible(t)' \subseteq Possible(t) \union {v, Torn}
         /\ \A s \in Slot : s # t => Possible(s)' = Possible(s)
<1>1. /\ cache' = [cache EXCEPT ![t] = v] /\ dirty' = dirty \union {t}
      /\ eof' = eof /\ disk' = disk /\ diskEof' = diskEof
  BY StoreAssumption, Layout DEF Write, Larger, DataInv, TypeOK, DataStart
<1>2. cache \in [Block -> SuperBlock \union Record \union {Torn, Absent}] /\ t \in Block
  BY Layout DEF DataInv, TypeOK
<1>3. cache'[t] = v /\ \A b \in Block : b # t => cache'[b] = cache[b]
  BY <1>1, <1>2
<1>4. CleanIsStable'
  BY <1>1, <1>3 DEF DataInv, CleanIsStable
<1>5. /\ Possible(t)' \subseteq Possible(t) \union {v, Torn}
      /\ \A s \in Slot : s # t => Possible(s)' = Possible(s)
  BY <1>1, <1>3, Layout DEF Possible
<1>6. PossibleRoot' \subseteq PossibleRoot \union {call.root}
  <2>1. \A u \in Slot : Possible(u)' \subseteq Possible(u) \union {v, Torn}
    BY <1>5
  <2> QED
    BY <2>1 DEF PossibleRoot, Slot
<1>7. NamedRoot' \subseteq NamedRoot \union {call.root}
  BY <1>6 DEF NamedRoot, Promise!Findable
<1>8. \A r \in Nat : Backed(r) => Backed(r)'
  BY <1>1, <1>3, Layout DEF Backed
<1>9. \A r \in NamedRoot' : Backed(r)'
  BY <1>7, <1>8, NamedRootsAreRoots, Layout DEF DataInv
<1>10. AppendsBehind'
  BY <1>1, <1>7 DEF AppendsBehind, DataInv
<1> QED
  BY <1>3, <1>4, <1>5, <1>8, <1>9, <1>10

LEMMA CommitWriteSbKeepsData ==
  ASSUME DataInv, TypeOK', CommitWriteSb
  PROVE  DataInv'
<1>1. call.pc = "writeSb" /\ UNCHANGED <<handle, promised>>
  BY DEF CommitWriteSb
<1>2. handle # NoHandle /\ handle \in Handle /\ call \in Call
  BY <1>1 DEF DataInv, TypeOK, Idle
<1>3. /\ call.root \in DataBlock /\ call.root < handle.size /\ cache[call.root] \in Record
      /\ Backed(call.root)
  BY <1>1 DEF DataInv, RootIsWritten
<1>4. PICK t \in Slot : t = SpareSlot(handle)
  BY <1>2, Layout DEF Handle, SpareSlot
<1>5. CASE /\ Write(t, [seq |-> NextSeq(handle), root |-> call.root])
           /\ call' = [call EXCEPT !.pc = "syncSb"]
           /\ doubt' = doubt \union {call.root}
  <2>1. PICK v \in SuperBlock : v = [seq |-> NextSeq(handle), root |-> call.root]
    <3>1. NextSeq(handle) \in Nat /\ call.root \in Root
      BY <1>2 DEF Handle, Call, NextSeq
    <3> QED
      BY <3>1 DEF SuperBlock
  <2>2. call'.root = call.root
    BY <1>2, <1>5 DEF Call
  <2>3. v.root = call.root
    BY <2>1
  <2>4. /\ CleanIsStable' /\ AppendsBehind' /\ \A r \in NamedRoot' : Backed(r)'
        /\ \A r \in Nat : Backed(r) => Backed(r)'
        /\ \A b \in Block : b # t => cache'[b] = cache[b]
    BY <1>1, <1>2, <1>3, <1>5, <2>1, <2>3, SuperBlockWriteKeepsData
  <2>5. Backed(call.root)' /\ cache'[call.root] = cache[call.root]
    <3>1. PICK r \in Nat : r = call.root /\ r = call'.root /\ Backed(r) /\ r \in Block /\ r # t
      BY <1>3, <2>2, Layout
    <3> QED
      BY <2>4, <3>1 DEF Backed
  <2>6. RootIsWritten'
    BY <1>1, <1>3, <2>2, <2>5 DEF RootIsWritten
  <2> QED
    BY <2>4, <2>6 DEF DataInv
<1>6. CASE WriteFails(t) /\ call' = Idle /\ UNCHANGED doubt
  <2>1. CASE UNCHANGED file
    BY <1>1, <1>6, <2>1, DataStutter DEF DataInv, TypeOK
  <2>2. CASE Write(t, Torn)
    <3>1. CleanIsStable' /\ AppendsBehind' /\ \A r \in NamedRoot' : Backed(r)'
      BY <1>1, <1>2, <1>3, <1>6, <2>2, SuperBlockWriteKeepsData
    <3>2. RootIsWritten'
      BY <1>6 DEF RootIsWritten, Idle
    <3> QED
      BY <3>1, <3>2 DEF DataInv
  <2> QED
    BY <1>6, <2>1, <2>2 DEF WriteFails
<1> QED
  BY <1>4, <1>5, <1>6 DEF CommitWriteSb

LEMMA CommitSyncSbKeepsData ==
  ASSUME DataInv, TypeOK', CommitSyncSb, ~FailedSyncDropsPages
  PROVE  DataInv'
<1>1. call.pc = "syncSb" /\ call' = Idle
  BY DEF CommitSyncSb
<1>2. handle # NoHandle /\ handle \in Handle
  BY <1>1 DEF DataInv, TypeOK, Idle
<1>3. RootIsWritten'
  BY <1>1 DEF RootIsWritten, Idle
<1>4. CASE SyncFails /\ UNCHANGED <<handle, promised, doubt>>
  BY <1>1, <1>4, DataStutter DEF SyncFails, file
<1>5. CASE /\ Sync
           /\ handle' = [handle EXCEPT !.seq = NextSeq(handle), !.active = SpareSlot(handle),
                                       !.root = call.root]
           /\ promised' = call.root /\ doubt' = {}
  <2>1. Backed(call.root) /\ call.root < handle.size
    BY <1>1 DEF DataInv, RootIsWritten
  <2>2. handle'.size = handle.size
    BY <1>2, <1>5 DEF Handle
  <2>3. handle' # NoHandle
    <3>1. call.root \in Root /\ NextSeq(handle) \in Nat /\ SpareSlot(handle) \in Slot
      BY <1>2, Layout DEF SpareSlot, NextSeq, Handle, DataInv, TypeOK, Call
    <3>2. handle' \in Handle
      BY <1>2, <1>5, <3>1 DEF Handle
    <3> QED
      BY <3>2, HandleIsNotNull
  <2>4. Promise!Findable' = {call.root}
    BY <1>5 DEF Promise!Findable
  <2> QED
    BY <1>2, <1>3, <1>5, <2>1, <2>2, <2>3, <2>4, DataSync DEF DataInv
<1> QED
  BY <1>4, <1>5 DEF CommitSyncSb

\* Whichever superblock open could read, it appends behind every root of either.
LEMMA OpenKeepsData ==
  ASSUME DataInv, TypeOK', Open
  PROVE  DataInv'
<1>1. handle' # NoHandle /\ handle'.size = eof /\ UNCHANGED <<file, call, promised, doubt>>
  BY OpenTypes DEF DataInv
<1>2. call = Idle
  BY DEF Open, DataInv, TypeOK
<1>3. CleanIsStable' /\ NamedRoot' = NamedRoot /\ \A r : Backed(r)' = Backed(r)
  BY <1>1 DEF DataInv, CleanIsStable, NamedRoot, PossibleRoot, Possible, Promise!Findable, Backed, file
<1>4. \A r \in NamedRoot : r < eof
  <2> SUFFICES ASSUME NEW r \in NamedRoot PROVE r < eof
    OBVIOUS
  <2>1. r \in Nat /\ r < diskEof
    BY NamedRootsAreRoots DEF DataInv, Backed
  <2> QED
    BY <2>1, StoreAssumption DEF DataInv, TypeOK, DataStart
<1>5. eof \in Nat /\ eof' = eof
  BY <1>1, StoreAssumption DEF DataInv, TypeOK, DataStart, file
<1>6. AppendsBehind'
  BY <1>1, <1>3, <1>4, <1>5 DEF AppendsBehind
<1>7. RootIsWritten'
  BY <1>1, <1>2 DEF RootIsWritten, Idle
<1> QED
  BY <1>3, <1>6, <1>7 DEF DataInv

LEMMA WriteSlotKeepsData ==
  ASSUME DataInv, TypeOK', WriteSlot, ~FailedSyncDropsPages
  PROVE  DataInv'
<1>1. CASE SyncFails
  BY <1>1, DataStutter DEF SyncFails, WriteSlot, file, DataInv, TypeOK
<1>2. CASE Sync
  <2>1. handle # NoHandle /\ call' = Idle /\ UNCHANGED <<handle, promised, doubt>>
    BY DEF WriteSlot
  <2>2. RootIsWritten'
    BY <2>1 DEF RootIsWritten, Idle
  <2>3. Promise!Findable' = Promise!Findable
    BY <2>1 DEF Promise!Findable
  <2>4. call.root \in Promise!Findable => Backed(call.root) /\ call.root < handle.size
    BY <2>1 DEF DataInv, AppendsBehind, NamedRoot
  <2> QED
    BY <1>2, <2>1, <2>2, <2>3, <2>4, DataSync DEF DataInv
<1> QED
  BY <1>1, <1>2 DEF WriteSlot

LEMMA WriteBackKeepsFile ==
  ASSUME DataInv, NEW b \in Block, WriteBack(b)
  PROVE  /\ CleanIsStable' /\ NamedRoot' \subseteq NamedRoot
         /\ \A s \in Slot : Possible(s)' \subseteq Possible(s)
         /\ \A r \in Root : Backed(r) => Backed(r)'
<1>1. /\ b \in dirty /\ disk' = [disk EXCEPT ![b] = cache[b]] /\ dirty' = dirty \ {b}
      /\ UNCHANGED <<cache, eof, diskEof, handle, call, promised, doubt>>
  BY DEF WriteBack
<1>2. disk'[b] = cache[b] /\ \A d \in Block : d # b => disk'[d] = disk[d]
  BY <1>1 DEF DataInv, TypeOK
<1>3. CleanIsStable'
  BY <1>1, <1>2 DEF DataInv, CleanIsStable
<1>4. \A s \in Slot : Possible(s)' \subseteq Possible(s)
  BY <1>1, <1>2, Layout DEF Possible
<1>5. NamedRoot' \subseteq NamedRoot
  BY <1>1, <1>4 DEF NamedRoot, PossibleRoot, Promise!Findable, Slot
<1>6. ASSUME NEW r \in Root, Backed(r) PROVE Backed(r)'
  <2>1. \A d \in DataStart..r : d # b
    BY <1>1, <1>6 DEF Backed
  <2>2. r # 0 => r \in DataStart..r
    BY Layout DEF Root, DataBlock
  <2>3. \A d \in DataStart..r : d \in Block
    BY StoreAssumption DEF Root, Block, DataBlock, DataStart
  <2> QED
    BY <1>1, <1>2, <1>6, <2>1, <2>2, <2>3 DEF Backed
<1> QED
  BY <1>3, <1>4, <1>5, <1>6

LEMMA WriteBackKeepsData ==
  ASSUME DataInv, TypeOK', NEW b \in Block, WriteBack(b)
  PROVE  DataInv'
<1>1. /\ CleanIsStable' /\ NamedRoot' \subseteq NamedRoot
      /\ \A r \in Root : Backed(r) => Backed(r)'
  BY WriteBackKeepsFile
<1>2. UNCHANGED <<cache, eof, diskEof, handle, call>>
  BY DEF WriteBack
<1>3. AppendsBehind'
  BY <1>1, <1>2 DEF AppendsBehind, DataInv
<1>4. RootIsWritten'
  <2>1. PICK r \in Root : r = call.root /\ r = call'.root
    BY <1>2 DEF DataInv, TypeOK, Call
  <2>2. Backed(call.root) => Backed(call.root)'
    BY <1>1, <2>1 DEF Backed
  <2> QED
    BY <1>2, <2>2 DEF RootIsWritten, DataInv
<1> QED
  BY <1>1, <1>3, <1>4, NamedRootsAreRoots DEF DataInv

\* After a power loss every superblock names what it did before, or nothing.
LEMMA PowerLossKeepsData ==
  ASSUME DataInv, TypeOK', PowerLoss
  PROVE  DataInv' 
<1>1. PICK torn \in SUBSET dirty, end \in diskEof..eof :
        LET left == Survivors(torn, end)
        IN  /\ cache' = left /\ disk' = left /\ eof' = end /\ diskEof' = end
            /\ promised' = IF left[SbA] = Torn /\ left[SbB] = Torn THEN 0 ELSE RootIn(left)
  BY DEF PowerLoss
<1>2. dirty' = {} /\ handle' = NoHandle /\ call' = Idle /\ doubt' = {} /\ disk' = cache'
      /\ diskEof' = end
  BY <1>1 DEF PowerLoss
<1> DEFINE left == Survivors(torn, end)
<1>3. /\ cache' = left
      /\ promised' = IF left[SbA] = Torn /\ left[SbB] = Torn THEN 0 ELSE RootIn(left)
  BY <1>1
<1>4. \A b \in Block : left[b] = IF b \in DataBlock /\ b >= end THEN Absent
                                 ELSE IF b \in torn THEN Torn ELSE disk[b]
  BY DEF Survivors
<1> HIDE DEF left
<1>5. \A s \in Slot : left[s] \in Possible(s)
  BY <1>4, Layout DEF Possible
<1>6. \A s \in Slot : left[s] = Torn \/ left[s] \in SuperBlock
  BY <1>5, PossibleValues DEF DataInv
<1>7. PossibleRoot' \subseteq PossibleRoot
  <2>1. \A t \in Slot : Possible(t)' = {left[t]}
    BY <1>2, <1>3 DEF Possible
  <2> QED
    BY <1>5, <2>1 DEF PossibleRoot, Slot
<1>8. promised' \in PossibleRoot \union {0}
  <2>1. CASE left[SbA] = Torn /\ left[SbB] = Torn
    BY <1>3, <2>1
  <2>2. CASE left[SbA] # Torn \/ left[SbB] # Torn
    <3>1. PICK w \in Slot : w = Chosen(left[SbA], left[SbB]) /\ left[w] # Torn
      BY <1>6, <2>2, ChosenIsWhole
    <3>2. promised' = left[w].root
      BY <1>3, <2>2, <3>1 DEF RootIn
    <3> QED
      BY <1>5, <3>1, <3>2 DEF PossibleRoot, Slot
  <2> QED
    BY <2>1, <2>2
<1>9. NamedRoot' \subseteq NamedRoot \union {0}
  BY <1>2, <1>7, <1>8 DEF NamedRoot, Promise!Findable
<1>10. end \in Nat /\ diskEof <= end /\ diskEof \in Nat /\ diskEof >= DataStart
  BY StoreAssumption DEF DataInv, TypeOK, DataStart
<1>11. ASSUME NEW r \in Root, Backed(r) PROVE Backed(r)'
  <2>1. r < end /\ r \in Nat
    BY <1>10, <1>11, Layout DEF Backed
  <2>2. \A d \in DataStart..r : d \in Block /\ ~(d >= end) /\ d \notin torn
    BY <1>10, <1>11, <2>1, StoreAssumption DEF Root, Block, DataBlock, DataStart, Backed
  <2>3. r # 0 => r \in DataStart..r
    BY <2>1, Layout DEF Root, DataBlock
  <2> QED
    BY <1>2, <1>3, <1>4, <1>11, <2>1, <2>2, <2>3 DEF Backed
<1>12. Backed(0)
  BY <1>10 DEF Backed, DataStart
<1>13. \A r \in NamedRoot' : Backed(r)'
  BY <1>9, <1>11, <1>12, NamedRootsAreRoots DEF DataInv, Root
<1>14. CleanIsStable' /\ AppendsBehind' /\ RootIsWritten'
  BY <1>2 DEF CleanIsStable, AppendsBehind, RootIsWritten, Idle
<1> QED
  BY <1>13, <1>14 DEF DataInv

LEMMA InitData == Init => DataInv
<1> SUFFICES ASSUME Init PROVE DataInv
  OBVIOUS
<1>1. cache[SbA] = [seq |-> 1, root |-> 0] /\ cache[SbB] = [seq |-> 0, root |-> 0]
  BY DEF Init, Slot, SbA, SbB, Block
<1>2. /\ Possible(SbA) = {[seq |-> 1, root |-> 0]} /\ Possible(SbB) = {[seq |-> 0, root |-> 0]}
      /\ Promise!Findable = {0}
  BY <1>1 DEF Init, Possible, Promise!Findable
<1>3. NamedRoot \subseteq {0}
  BY <1>2 DEF NamedRoot, PossibleRoot
<1>4. Backed(0)
  BY DEF Init, Backed, DataStart
<1>5. CleanIsStable /\ AppendsBehind /\ RootIsWritten
  BY <1>3 DEF Init, CleanIsStable, AppendsBehind, RootIsWritten, Idle, DataStart
<1> QED
  BY <1>3, <1>4, <1>5, InitTypes DEF DataInv

LEMMA NextKeepsData == ~FailedSyncDropsPages /\ DataInv /\ [Next]_vars => DataInv'
<1> SUFFICES ASSUME ~FailedSyncDropsPages, DataInv, [Next]_vars PROVE DataInv'
  OBVIOUS
<1>1. TypeOK'
  BY TypesStay DEF DataInv
<1>2. CASE UNCHANGED vars
  BY <1>1, <1>2, DataStutter DEF vars, DataInv, TypeOK
<1>3. CASE AppendFails \/ \E r \in Record : Append(r)
  BY <1>1, <1>3, AppendKeepsData
<1>4. CASE \E r \in Record : BeginCommit(r)
  BY <1>1, <1>4, BeginCommitKeepsData
<1>5. CASE CommitSyncData
  BY <1>1, <1>5, CommitSyncDataKeepsData
<1>6. CASE CommitWriteSb
  BY <1>1, <1>6, CommitWriteSbKeepsData
<1>7. CASE CommitSyncSb
  BY <1>1, <1>7, CommitSyncSbKeepsData
<1>8. CASE Open
  BY <1>1, <1>8, OpenKeepsData
<1>9. CASE WriteSlot
  BY <1>1, <1>9, WriteSlotKeepsData
<1>10. CASE Exit
  BY <1>1, <1>10, DataStutter DEF Exit
<1>11. CASE \E b \in Block : WriteBack(b)
  BY <1>1, <1>11, WriteBackKeepsData
<1>12. CASE PowerLoss
  BY <1>1, <1>12, PowerLossKeepsData
<1> QED
  BY <1>2, <1>3, <1>4, <1>5, <1>6, <1>7, <1>8, <1>9, <1>10, <1>11, <1>12 DEF Next

-----------------------------------------------------------------------------
(* The superblocks: one is anchored at every step, if they can be read.    *)

\* A step that writes no superblock keeps the anchors and the handle's own.
LEMMA AnchorsStay ==
  ASSUME StoreInv, UNCHANGED <<promised, doubt>>,
         \A s \in Slot : /\ cache'[s] = cache[s] /\ Possible(s)' \subseteq Possible(s)
                         /\ s \in dirty' => s \in dirty,
         handle' # NoHandle => /\ handle # NoHandle
                               /\ handle'.seq = handle.seq /\ handle'.active = handle.active
                               /\ handle'.root = handle.root
  PROVE  /\ \A s \in Slot : Anchored(s) => Anchored(s)'
         /\ (\E s \in Slot : Anchored(s))' /\ HandleMatches'
<1>1. Promise!Findable' = Promise!Findable
  BY DEF Promise!Findable
<1>2. ASSUME NEW s \in Slot, Anchored(s) PROVE Anchored(s)'
  <2>1. Other(s) \in Slot
    BY Layout
  <2>2. \A v \in Possible(Other(s))' : Yields(v, cache[s].seq)
    BY <1>2, <2>1 DEF Anchored
  <2> QED
    BY <1>1, <1>2, <2>1, <2>2 DEF Anchored, Yields
<1>3. HandleMatches'
  <2> SUFFICES ASSUME handle' # NoHandle PROVE HandleMatches'
    BY DEF HandleMatches
  <2>1. handle.active \in Slot /\ Other(handle.active) \in Slot
    BY Layout DEF StoreInv, DataInv, TypeOK, Handle
  <2> QED
    BY <1>1, <2>1 DEF StoreInv, HandleMatches, Yields
<1> QED
  BY <1>2, <1>3 DEF StoreInv

\* What commit knows is still so while nothing but a block's write-back changes.
LEMMA ProgressStays ==
  ASSUME StoreInv, UNCHANGED <<cache, handle, promised, doubt>>, call' \in {call, Idle},
         \A s \in Slot : Possible(s)' \subseteq Possible(s) /\ (s \in dirty' => s \in dirty)
  PROVE  (\E s \in Slot : Anchored(s))' /\ HandleMatches' /\ CommitProgress'
<1>1. /\ \A s \in Slot : Anchored(s) => Anchored(s)'
      /\ (\E s \in Slot : Anchored(s))' /\ HandleMatches'
  BY AnchorsStay
<1>2. CASE call' = Idle
  BY <1>1, <1>2 DEF CommitProgress, Idle
<1>3. CASE call' = call
  <2>1. call.pc \in {"writeSb", "syncSb"} => Anchored(handle.active)'
    <3> SUFFICES ASSUME call.pc \in {"writeSb", "syncSb"} PROVE Anchored(handle.active)'
      OBVIOUS
    <3>1. PICK s \in Slot : s = handle.active /\ s = handle'.active
      BY DEF StoreInv, DataInv, TypeOK, Idle, Handle
    <3>2. Anchored(s)'
      BY <1>1, <3>1 DEF StoreInv, CommitProgress
    <3> QED
      BY <3>1, <3>2 DEF Anchored
  <2> QED
    BY <1>1, <1>3, <2>1 DEF StoreInv, CommitProgress, Promise!Findable
<1> QED
  BY <1>1, <1>2, <1>3

\* A step that changes neither the file nor the handle.
LEMMA StutterPreserves ==
  ASSUME StoreInv, DataInv', UNCHANGED <<file, handle, promised, doubt>>, call' \in {call, Idle}
  PROVE  StoreInv'
BY ProgressStays DEF StoreInv, file, Possible

\* A record is appended, wholly or in part.
LEMMA AppendPreserves ==
  ASSUME StoreInv, DataInv', AppendFails \/ \E r \in Record : Append(r)
  PROVE  StoreInv'
<1>1. CASE UNCHANGED vars
  BY <1>1, StutterPreserves DEF vars
<1>2. CASE ~UNCHANGED vars
  <2>1. PICK v \in Record \union {Torn} :
          /\ handle # NoHandle /\ call = Idle /\ handle.size <= LastBlock
          /\ Write(handle.size, v)
          /\ handle' \in {handle, [handle EXCEPT !.size = handle.size + 1]}
          /\ UNCHANGED <<call, promised, doubt>>
    BY <1>2 DEF Append, AppendFails, WriteFails, vars
  <2>2. handle \in Handle /\ handle.size \in DataBlock /\ \A r \in NamedRoot : r < handle.size
    BY <2>1, AppendTypes DEF StoreInv, DataInv, TypeOK, AppendsBehind
  <2>3. \A s \in Slot : cache'[s] = cache[s] /\ Possible(s)' = Possible(s) /\ (s \in dirty' => s \in dirty)
    <3>1. /\ \A d \in Block : d # handle.size => cache'[d] = cache[d]
          /\ \A s \in Slot : Possible(s)' = Possible(s)
      BY <2>1, <2>2, DataWriteKeepsFile DEF StoreInv
    <3>2. dirty' = dirty \union {handle.size}
      BY <2>1 DEF Write
    <3> QED
      BY <2>2, <3>1, <3>2, Layout
  <2>4. handle'.seq = handle.seq /\ handle'.active = handle.active /\ handle'.root = handle.root
    BY <2>1, <2>2 DEF Handle
  <2>5. (\E s \in Slot : Anchored(s))' /\ HandleMatches'
    BY <2>1, <2>3, <2>4, AnchorsStay
  <2>6. CommitProgress'
    BY <2>1 DEF CommitProgress, Idle
  <2> QED
    BY <2>5, <2>6 DEF StoreInv
<1> QED
  BY <1>1, <1>2

\* The manifest is appended and commit called.
LEMMA BeginCommitPreserves ==
  ASSUME StoreInv, DataInv', NEW m \in Record, BeginCommit(m)
  PROVE  StoreInv'
<1>1. /\ handle # NoHandle /\ handle.size <= LastBlock
      /\ Write(handle.size, m)
      /\ handle' = [handle EXCEPT !.size = handle.size + 1]
      /\ call' = [pc |-> "syncData", root |-> handle.size]
      /\ UNCHANGED <<promised, doubt>>
  BY DEF BeginCommit
<1>2. handle \in Handle /\ handle.size \in DataBlock /\ \A r \in NamedRoot : r < handle.size
  BY <1>1, AppendTypes DEF StoreInv, DataInv, TypeOK, AppendsBehind
<1>3. \A s \in Slot : cache'[s] = cache[s] /\ Possible(s)' = Possible(s) /\ (s \in dirty' => s \in dirty)
  <2>1. /\ \A d \in Block : d # handle.size => cache'[d] = cache[d]
        /\ \A s \in Slot : Possible(s)' = Possible(s)
    BY <1>1, <1>2, DataWriteKeepsFile DEF StoreInv
  <2>2. dirty' = dirty \union {handle.size}
    BY <1>1 DEF Write
  <2> QED
    BY <1>2, <2>1, <2>2, Layout
<1>4. handle'.seq = handle.seq /\ handle'.active = handle.active /\ handle'.root = handle.root
  BY <1>1, <1>2 DEF Handle
<1>5. (\E s \in Slot : Anchored(s))' /\ HandleMatches'
  BY <1>1, <1>3, <1>4, AnchorsStay
<1>6. \A r \in Promise!Findable' : r < handle.size
  BY <1>1, <1>2 DEF Promise!Findable, NamedRoot
<1>7. CommitProgress'
  BY <1>1, <1>6 DEF CommitProgress
<1> QED
  BY <1>5, <1>7 DEF StoreInv

\* A sync that returned true makes the handle's superblock the anchor: what the
\* handle was opened on cannot be lost any more.
LEMMA SyncAnchorsHandle ==
  ASSUME StoreInv, handle # NoHandle, Sync, UNCHANGED <<handle, promised, doubt>>
  PROVE  Anchored(handle.active)' /\ (\E s \in Slot : Anchored(s))' /\ HandleMatches'
<1>1. PICK s \in Slot : s = handle.active /\ s = handle'.active /\ Other(s) \in Slot
  BY Layout DEF StoreInv, DataInv, TypeOK, Handle
<1>2. /\ cache[s] = [seq |-> handle.seq, root |-> handle.root]
      /\ handle.root \in Promise!Findable /\ Yields(cache[Other(s)], handle.seq)
  BY <1>1 DEF StoreInv, HandleMatches
<1>3. cache[s] # Torn
  <2>1. handle \in Handle
    BY DEF StoreInv, DataInv, TypeOK
  <2>2. cache[s] \in SuperBlock
    BY <1>2, <2>1 DEF Handle, SuperBlock
  <2> QED
    BY <2>2, StoreAssumption
<1>4. /\ dirty' = {} /\ cache' = cache
      /\ \A t \in Slot : Possible(t)' = {cache[t]} /\ cache[t] \in Possible(t)
      /\ Promise!Findable' = Promise!Findable
  BY SyncKeepsFile DEF StoreInv, Promise!Findable
<1>5. Anchored(s)'
  BY <1>1, <1>2, <1>3, <1>4 DEF Anchored, Yields
<1>6. HandleMatches'
  BY <1>1, <1>2, <1>4 DEF HandleMatches, Yields
<1> QED
  BY <1>1, <1>5, <1>6 DEF Anchored

\* Commit's first barrier.
LEMMA CommitSyncDataPreserves ==
  ASSUME StoreInv, DataInv', CommitSyncData, Faultless
  PROVE  StoreInv'
<1>1. CASE SyncFails /\ call' = Idle
  BY <1>1, StutterPreserves DEF SyncFails, CommitSyncData, Faultless, file
<1>2. CASE Sync /\ call' = [call EXCEPT !.pc = "writeSb"]
  <2>1. /\ call.pc = "syncData" /\ call \in Call /\ UNCHANGED <<handle, promised, doubt>>
        /\ handle # NoHandle
    BY DEF CommitSyncData, StoreInv, DataInv, TypeOK, Idle
  <2>2. call'.root = call.root /\ call'.pc = "writeSb"
    BY <1>2, <2>1 DEF Call
  <2>3. Anchored(handle.active)' /\ (\E s \in Slot : Anchored(s))' /\ HandleMatches'
    BY <1>2, <2>1, SyncAnchorsHandle
  <2>4. \A r \in Promise!Findable : r < call.root
    BY <2>1 DEF StoreInv, CommitProgress
  <2>5. CommitProgress'
    BY <2>1, <2>2, <2>3, <2>4 DEF CommitProgress, Promise!Findable
  <2> QED
    BY <2>3, <2>5 DEF StoreInv
<1> QED
  BY <1>1, <1>2 DEF CommitSyncData, DataBarrier

\* The sync of Store::write_slot.
LEMMA WriteSlotPreserves ==
  ASSUME StoreInv, DataInv', WriteSlot, Faultless
  PROVE  StoreInv'
<1>1. CASE SyncFails
  BY <1>1, StutterPreserves DEF SyncFails, WriteSlot, Faultless, file
<1>2. CASE Sync
  <2>1. (\E s \in Slot : Anchored(s))' /\ HandleMatches'
    BY <1>2, SyncAnchorsHandle DEF WriteSlot
  <2>2. CommitProgress'
    BY DEF WriteSlot, CommitProgress, Idle
  <2> QED
    BY <2>1, <2>2 DEF StoreInv
<1> QED
  BY <1>1, <1>2 DEF WriteSlot

\* The kernel writes a block.
LEMMA WriteBackPreserves ==
  ASSUME StoreInv, DataInv', NEW b \in Block, WriteBack(b)
  PROVE  StoreInv'
<1>1. UNCHANGED <<cache, handle, call, promised, doubt>> /\ dirty' = dirty \ {b}
  BY DEF WriteBack
<1>2. \A s \in Slot : Possible(s)' \subseteq Possible(s)
  BY WriteBackKeepsFile DEF StoreInv
<1> QED
  BY <1>1, <1>2, ProgressStays DEF StoreInv

\* The process ends.
LEMMA ExitPreserves ==
  ASSUME StoreInv, DataInv', Exit
  PROVE  StoreInv'
<1>1. (\E s \in Slot : Anchored(s))' /\ HandleMatches'
  BY AnchorsStay DEF Exit, file, Possible
<1>2. CommitProgress'
  BY DEF Exit, CommitProgress, Idle
<1> QED
  BY <1>1, <1>2 DEF StoreInv

\* What a write to the superblock beside the anchor preserves: v is the new
\* superblock, or what is left of it when the write is cut short.
LEMMA SuperBlockWriteKeeps ==
  ASSUME StoreInv, DataInv', call.pc = "writeSb", NEW t, t = Other(handle.active),
         NEW v \in SuperBlock \union {Torn}, Write(t, v),
         UNCHANGED <<handle, promised>>,
         doubt \subseteq doubt', doubt' \subseteq doubt \union {call.root},
         v # Torn => /\ v = [seq |-> handle.seq + 1, root |-> call.root]
                     /\ call.root \in doubt'
  PROVE  /\ HandleMatches' /\ Anchored(handle.active)' /\ (\E s \in Slot : Anchored(s))'
         /\ cache'[t] = v
<1> DEFINE s == handle.active
<1>1. handle # NoHandle /\ handle \in Handle /\ call \in Call
  BY DEF StoreInv, DataInv, TypeOK, Idle
<1>2. s \in Slot /\ t \in Slot /\ t # s /\ Other(t) = s /\ Other(s) = t /\ s \in Block
  BY <1>1, Layout DEF Handle
<1>3. /\ call.root \in DataBlock /\ call.root < handle.size /\ Backed(call.root) /\ Anchored(s)
  BY DEF StoreInv, CommitProgress, DataInv, RootIsWritten
<1>4. v # Torn => v.root = call.root
  OBVIOUS
<1>5. /\ cache'[t] = v /\ cache'[s] = cache[s]
      /\ Possible(t)' \subseteq Possible(t) \union {v, Torn} /\ Possible(s)' = Possible(s)
  BY <1>1, <1>2, <1>3, <1>4, SuperBlockWriteKeepsData DEF StoreInv, DataInv
<1>6. dirty' = dirty \union {t}
  BY DEF Write
<1>7. cache[s] = [seq |-> handle.seq, root |-> handle.root]
      /\ handle.root \in Promise!Findable
  BY <1>1 DEF StoreInv, HandleMatches
<1>8. Promise!Findable \subseteq Promise!Findable'
  BY DEF Promise!Findable
<1>9. Yields(v, handle.seq)'
  BY <1>1 DEF Yields, Promise!Findable, Handle
<1>10. Anchored(s)'
  <2>1. \A w \in Possible(t)' : Yields(w, cache[s].seq)'
    <3>1. \A w \in Possible(t) : Yields(w, cache[s].seq)'
      BY <1>2, <1>3, <1>5, <1>8 DEF Anchored, Yields
    <3>2. Yields(v, cache[s].seq)'
      BY <1>5, <1>7, <1>9 DEF Yields
    <3>3. Yields(Torn, cache[s].seq)'
      BY DEF Yields
    <3> QED
      BY <1>5, <3>1, <3>2, <3>3
  <2> QED
    BY <1>2, <1>3, <1>5, <1>6, <1>8, <2>1 DEF Anchored, Yields, Possible, Other
<1>11. HandleMatches'
  BY <1>2, <1>5, <1>7, <1>8, <1>9 DEF HandleMatches, Yields
<1> QED
  BY <1>2, <1>5, <1>10, <1>11

\* The new superblock is written over the spare one.
LEMMA CommitWriteSbPreserves ==
  ASSUME StoreInv, DataInv', CommitWriteSb
  PROVE  StoreInv'
<1> DEFINE t == Other(handle.active)
<1>1. /\ call.pc = "writeSb" /\ UNCHANGED <<handle, promised>>
      /\ SpareSlot(handle) = t /\ NextSeq(handle) = handle.seq + 1
  BY DEF CommitWriteSb, SpareSlot, NextSeq, Other
<1>2. handle # NoHandle /\ handle \in Handle /\ call \in Call
  BY <1>1 DEF StoreInv, DataInv, TypeOK, Idle
<1>3. CASE /\ Write(t, [seq |-> handle.seq + 1, root |-> call.root])
           /\ call' = [call EXCEPT !.pc = "syncSb"]
           /\ doubt' = doubt \union {call.root}
  <2> DEFINE v == [seq |-> handle.seq + 1, root |-> call.root]
  <2>1. v \in SuperBlock
    BY <1>2 DEF SuperBlock, Handle, Call
  <2>2. call'.pc = "syncSb" /\ call'.root = call.root
    BY <1>2, <1>3 DEF Call
  <2>3. /\ HandleMatches' /\ Anchored(handle.active)' /\ (\E s \in Slot : Anchored(s))'
        /\ cache'[t] = v
    <3> HIDE DEF v
    <3> QED
      BY <1>1, <1>3, <2>1, SuperBlockWriteKeeps DEF v
  <2>4. CommitProgress'
    BY <1>1, <1>3, <2>2, <2>3 DEF CommitProgress, Other
  <2> QED
    BY <2>3, <2>4 DEF StoreInv
<1>4. CASE WriteFails(t) /\ call' = Idle /\ UNCHANGED doubt
  <2>1. CommitProgress'
    BY <1>4 DEF Idle, CommitProgress
  <2>2. CASE UNCHANGED file
    BY <1>1, <1>4, <2>2, StutterPreserves
  <2>3. CASE Write(t, Torn)
    BY <1>1, <1>4, <2>1, <2>3, SuperBlockWriteKeeps DEF StoreInv
  <2> QED
    BY <1>4, <2>2, <2>3 DEF WriteFails
<1> QED
  BY <1>1, <1>3, <1>4 DEF CommitWriteSb

\* The commit point.
LEMMA CommitSyncSbPreserves ==
  ASSUME StoreInv, DataInv', CommitSyncSb, Faultless
  PROVE  StoreInv'
<1>1. call.pc = "syncSb" /\ call' = Idle
  BY DEF CommitSyncSb
<1>2. handle # NoHandle /\ handle \in Handle /\ call \in Call
  BY <1>1 DEF StoreInv, DataInv, TypeOK, Idle
<1> PICK s \in Slot, t \in Slot :
      /\ s = handle.active /\ t = Other(handle.active)
      /\ SpareSlot(handle) = t /\ NextSeq(handle) = handle.seq + 1
  BY <1>2, Layout DEF Handle, SpareSlot, NextSeq, Other
<1>3. CommitProgress'
  BY <1>1 DEF Idle, CommitProgress
<1>4. CASE SyncFails /\ UNCHANGED <<handle, promised, doubt>>
  BY <1>1, <1>4, StutterPreserves DEF Faultless, SyncFails, file
<1>5. CASE /\ Sync
           /\ handle' = [handle EXCEPT !.seq = handle.seq + 1, !.active = t, !.root = call.root]
           /\ promised' = call.root /\ doubt' = {}
  <2>1. s \in Slot /\ t \in Slot /\ Other(t) = s /\ s # t
    BY <1>2, Layout DEF Handle
  <2>2. /\ dirty' = {} /\ cache' = cache
        /\ \A u \in Slot : Possible(u)' = {cache[u]} /\ cache[u] \in Possible(u)
    BY <1>5, SyncKeepsFile DEF StoreInv
  <2>3. cache[t] = [seq |-> handle.seq + 1, root |-> call.root]
    BY <1>1 DEF StoreInv, CommitProgress
  <2>4. handle'.seq = handle.seq + 1 /\ handle'.active = t /\ handle'.root = call.root
    BY <1>2, <1>5 DEF Handle
  <2>5. Promise!Findable' = {call.root}
    BY <1>5 DEF Promise!Findable
  <2>6. cache[s].seq = handle.seq /\ handle.seq \in Nat
    BY <1>2 DEF StoreInv, HandleMatches, Handle
  <2>7. cache[t] # Torn
    <3>1. cache[t] \in SuperBlock
      BY <1>2, <2>3 DEF SuperBlock, Handle, Call
    <3> QED
      BY <3>1, StoreAssumption
  <2>8. Anchored(t)'
    BY <2>1, <2>2, <2>3, <2>5, <2>6, <2>7 DEF Anchored, Yields
  <2>9. HandleMatches'
    BY <2>1, <2>2, <2>3, <2>4, <2>5, <2>6 DEF HandleMatches, Yields
  <2> QED
    BY <1>3, <2>1, <2>8, <2>9 DEF StoreInv
<1> QED
  BY <1>1, <1>4, <1>5 DEF CommitSyncSb

\* The file is opened: the superblock chosen is one that may be found.
LEMMA OpenPreserves ==
  ASSUME StoreInv, DataInv', Open, Faultless
  PROVE  StoreInv'
<1> PICK sb : sb = [s \in Slot |-> cache[s]]
  OBVIOUS
<1>1. /\ UNCHANGED <<file, call, promised, doubt>> /\ call = Idle
      /\ LET w == Chosen(sb[SbA], sb[SbB])
         IN  handle' = [seq |-> sb[w].seq, active |-> w, root |-> sb[w].root,
                        size |-> AppendAt(sb[w].root)]
  <2>1. PICK unread \in {{}} :
          handle' = LET a == [s \in Slot |-> IF s \in unread THEN Torn ELSE cache[s]]
                        c == Chosen(a[SbA], a[SbB])
                    IN  [seq |-> a[c].seq, active |-> c, root |-> a[c].root,
                         size |-> AppendAt(a[c].root)]
    BY DEF Open, Faultless
  <2>2. [s \in Slot |-> IF s \in unread THEN Torn ELSE cache[s]] = sb
    OBVIOUS
  <2>3. UNCHANGED <<file, call, promised, doubt>> /\ call = Idle
    BY DEF Open, StoreInv, DataInv, TypeOK
  <2> QED
    BY <2>1, <2>2, <2>3
<1>2. PICK s \in Slot : Anchored(s)
  BY DEF StoreInv
<1>3. \A t \in Slot : sb[t] = cache[t] /\ sb[t] \in Possible(t) /\ (sb[t] = Torn \/ sb[t] \in SuperBlock)
  BY PossibleValues DEF StoreInv, DataInv
<1>4. sb[s] # Torn /\ sb[s].root \in Promise!Findable /\ Yields(sb[Other(s)], sb[s].seq)
  BY <1>2, <1>3, Layout DEF Anchored
<1>5. PICK w \in Slot :
      /\ w = Chosen(sb[SbA], sb[SbB]) /\ sb[w] # Torn /\ sb[w] \in SuperBlock
      /\ sb[w].root \in Promise!Findable
      /\ sb[Other(w)] = Torn \/ sb[Other(w)].seq < sb[w].seq
  BY <1>3, <1>4, ChosenIsFindable
<1>6. cache[w] = sb[w] /\ Other(w) \in Slot /\ cache[Other(w)] = sb[Other(w)]
  BY <1>3, <1>5, Layout
<1>7. handle'.active = w /\ handle'.seq = cache[w].seq /\ handle'.root = cache[w].root
  BY <1>1, <1>5, <1>6
<1>8. /\ (\E t \in Slot : Anchored(t))' /\ cache' = cache /\ Promise!Findable' = Promise!Findable
  BY <1>1 DEF file, StoreInv, Anchored, Yields, Possible, Promise!Findable
<1>9. CommitProgress'
  BY <1>1 DEF CommitProgress, Idle
<1>10. HandleMatches'
  <2>1. cache[w] = [seq |-> handle'.seq, root |-> handle'.root]
    BY <1>5, <1>6, <1>7 DEF SuperBlock
  <2>2. Yields(cache[Other(w)], handle.seq)'
    BY <1>5, <1>6, <1>7, <1>8 DEF Yields
  <2> QED
    BY <1>5, <1>6, <1>7, <1>8, <2>1, <2>2 DEF HandleMatches, Yields
<1> QED
  BY <1>8, <1>9, <1>10 DEF StoreInv

\* The power fails: the anchor survives, and with it all it names.
LEMMA PowerLossPreserves ==
  ASSUME StoreInv, DataInv', PowerLoss
  PROVE  StoreInv' /\ promised' \in Promise!Findable /\ doubt' = {}
<1>1. PICK torn \in SUBSET dirty, end \in diskEof..eof :
        LET left == Survivors(torn, end)
        IN  /\ cache' = left /\ disk' = left
            /\ promised' = IF left[SbA] = Torn /\ left[SbB] = Torn THEN 0 ELSE RootIn(left)
  BY DEF PowerLoss
<1>2. dirty' = {} /\ handle' = NoHandle /\ call' = Idle /\ doubt' = {} /\ disk' = cache'
  BY <1>1 DEF PowerLoss
<1> DEFINE left == Survivors(torn, end)
<1>3. /\ cache' = left
      /\ promised' = IF left[SbA] = Torn /\ left[SbB] = Torn THEN 0 ELSE RootIn(left)
  BY <1>1
<1>4. \A s \in Slot : left[s] \in Possible(s)
  BY Layout DEF Survivors, Possible
<1> HIDE DEF left
<1>5. \A s \in Slot : left[s] = Torn \/ left[s] \in SuperBlock
  BY <1>4, PossibleValues DEF StoreInv, DataInv
<1>6. PICK s \in Slot : Anchored(s)
  BY DEF StoreInv
<1>7. left[s] = cache[s]
  BY <1>4, <1>6, PossibleValues DEF StoreInv, DataInv, Anchored
<1>8. left[s] # Torn /\ left[s].root \in Promise!Findable /\ Yields(left[Other(s)], left[s].seq)
  BY <1>4, <1>6, <1>7, Layout DEF Anchored
<1>9. PICK w \in Slot :
       /\ w = Chosen(left[SbA], left[SbB]) /\ left[w] # Torn /\ left[w] \in SuperBlock
       /\ left[w].root \in Promise!Findable
       /\ left[Other(w)] = Torn \/ left[Other(w)].seq < left[w].seq
  BY <1>5, <1>8, ChosenIsFindable
<1>10. promised' = left[w].root
  BY <1>3, <1>8, <1>9 DEF RootIn, Slot
<1>11. promised' \in Promise!Findable /\ Promise!Findable' = {left[w].root}
  BY <1>2, <1>9, <1>10 DEF Promise!Findable
<1>12. \A t \in Slot : Possible(t)' = {left[t]}
  BY <1>2, <1>3 DEF Possible
<1>13. HandleMatches' /\ CommitProgress'
  BY <1>2 DEF HandleMatches, CommitProgress, Idle
<1>14. Anchored(w)'
  BY <1>2, <1>3, <1>9, <1>11, <1>12, Layout DEF Anchored, Yields
<1> QED
  BY <1>2, <1>9, <1>11, <1>13, <1>14 DEF StoreInv

-----------------------------------------------------------------------------
(* The theorems.                                                           *)

\* Store::create leaves a file that satisfies the invariant.
LEMMA InitEstablishes == Init => StoreInv
<1> SUFFICES ASSUME Init PROVE StoreInv
  OBVIOUS
<1>1. cache[SbA] = [seq |-> 1, root |-> 0] /\ cache[SbB] = [seq |-> 0, root |-> 0]
  BY DEF Init, Slot, SbA, SbB, Block
<1>2. [seq |-> 1, root |-> 0] \in SuperBlock
  BY DEF Root, SuperBlock
<1>3. Other(SbA) = SbB /\ SbA \in Slot
  BY DEF Other, SbA, SbB, Slot
<1>4. /\ Possible(SbA) = {[seq |-> 1, root |-> 0]} /\ Possible(SbB) = {[seq |-> 0, root |-> 0]}
      /\ Promise!Findable = {0}
  BY <1>1 DEF Init, Possible, Promise!Findable
<1>5. Anchored(SbA)
  BY <1>1, <1>2, <1>3, <1>4, StoreAssumption DEF Init, Anchored, Yields
<1>6. HandleMatches /\ CommitProgress
  BY <1>1, <1>3, <1>4 DEF Init, HandleMatches, Yields, CommitProgress, Idle
<1> QED
  BY <1>3, <1>5, <1>6, InitData DEF StoreInv

\* Every step preserves the invariant.
LEMMA NextPreserves == Faultless /\ StoreInv /\ [Next]_vars => StoreInv'
<1> SUFFICES ASSUME Faultless, StoreInv, [Next]_vars PROVE StoreInv'
  OBVIOUS
<1>1. DataInv'
  BY NextKeepsData DEF Faultless, StoreInv
<1>2. CASE UNCHANGED vars
  BY <1>1, <1>2, StutterPreserves DEF vars
<1>3. CASE AppendFails \/ \E r \in Record : Append(r)
  BY <1>1, <1>3, AppendPreserves
<1>4. CASE \E r \in Record : BeginCommit(r)
  BY <1>1, <1>4, BeginCommitPreserves
<1>5. CASE CommitSyncData
  BY <1>1, <1>5, CommitSyncDataPreserves
<1>6. CASE CommitWriteSb
  BY <1>1, <1>6, CommitWriteSbPreserves
<1>7. CASE CommitSyncSb
  BY <1>1, <1>7, CommitSyncSbPreserves
<1>8. CASE Open
  BY <1>1, <1>8, OpenPreserves
<1>9. CASE WriteSlot
  BY <1>1, <1>9, WriteSlotPreserves
<1>10. CASE Exit
  BY <1>1, <1>10, ExitPreserves
<1>11. CASE \E b \in Block : WriteBack(b)
  BY <1>1, <1>11, WriteBackPreserves
<1>12. CASE PowerLoss
  BY <1>1, <1>12, PowerLossPreserves
<1> QED
  BY <1>2, <1>3, <1>4, <1>5, <1>6, <1>7, <1>8, <1>9, <1>10, <1>11, <1>12 DEF Next

\* Every state of a file and its handle has the types that the code gives it,
\* whatever the system below does to the file.
THEOREM StoreTypes == Spec => []TypeOK
<1>1. TypeOK /\ [Next]_vars => TypeOK'
  BY TypesStay
<1> QED
  BY <1>1, InitTypes, PTL DEF Spec

\* What commit and append (src/src/store.cpp) do to the data holds together whether
\* open could read both superblocks or only an older one.
THEOREM DataStays ==
  ASSUME ~FailedSyncDropsPages
  PROVE  Spec => []DataInv
<1>1. DataInv /\ [Next]_vars => DataInv'
  BY NextKeepsData
<1> QED
  BY <1>1, InitData, PTL DEF Spec

\* What any superblock names is wholly on stable storage, with all before it: the
\* first barrier of Store::commit.
THEOREM NamedStatesAreWhole ==
  ASSUME ~FailedSyncDropsPages
  PROVE  Spec => []RootsAreBacked
<1>1. DataInv => RootsAreBacked
  BY DEF DataInv, RootsAreBacked, NamedRoot
<1> QED
  BY <1>1, DataStays, PTL

\* No step writes over the bytes of a state that was committed or is in doubt.
LEMMA StepKeepsCommittedBytes ==
  ASSUME DataInv, [Next]_vars,
         NEW r \in Promise!Findable, NEW b \in DataStart..r
  PROVE  cache'[b] = cache[b]
<1>1. /\ r \in Root /\ r \in Nat /\ b \in DataBlock /\ b \in Block
      /\ b \notin dirty /\ disk[b] = cache[b] /\ r < diskEof
  <2>1. r \in Root /\ r \in Nat /\ Backed(r)
    BY NamedRootsAreRoots DEF NamedRoot, DataInv
  <2> QED
    BY <2>1, StoreAssumption, Layout DEF Backed, Root, DataBlock, DataStart
<1>2. cache \in [Block -> SuperBlock \union Record \union {Torn, Absent}]
  BY DEF DataInv, TypeOK
<1>3. \A d, v : Write(d, v) /\ d # b => cache'[b] = cache[b]
  BY <1>1, <1>2 DEF Write
<1>4. handle # NoHandle => handle.size # b /\ SpareSlot(handle) # b
  <2> SUFFICES ASSUME handle # NoHandle PROVE handle.size # b /\ SpareSlot(handle) # b
    OBVIOUS
  <2>1. handle \in Handle /\ r < handle.size
    BY DEF DataInv, TypeOK, AppendsBehind, NamedRoot
  <2>2. SpareSlot(handle) \in Slot
    BY <2>1 DEF SpareSlot, Handle, Slot, SbA, SbB
  <2> QED
    BY <1>1, <2>1, <2>2, StoreAssumption, Layout DEF Handle, DataBlock, DataStart
<1>5. CASE PowerLoss
  <2>1. PICK torn \in SUBSET dirty, end \in diskEof..eof : cache' = Survivors(torn, end)
    BY <1>5 DEF PowerLoss
  <2>2. b \notin torn /\ ~(b >= end)
    BY <1>1, StoreAssumption DEF DataInv, TypeOK, DataStart, DataBlock
  <2> QED
    BY <1>1, <2>1, <2>2 DEF Survivors
<1>6. CASE AppendFails \/ \E m \in Record : Append(m) \/ BeginCommit(m)
  BY <1>3, <1>4, <1>6 DEF AppendFails, WriteFails, Append, BeginCommit, file
<1>7. CASE CommitWriteSb
  <2>1. handle # NoHandle
    BY <1>7 DEF CommitWriteSb, DataInv, TypeOK, Idle
  <2> QED
    BY <1>3, <1>4, <1>7, <2>1 DEF CommitWriteSb, WriteFails, file
<1> QED
  BY <1>5, <1>6, <1>7 DEF Next, vars, file, CommitSyncData, DataBarrier, CommitSyncSb, Sync,
     SyncFails, Open, WriteSlot, Exit, WriteBack

\* The file is append-only as far as anything committed reaches, even for a handle
\* that was opened on an older state because the newer superblock was not read.
THEOREM AppendOnly ==
  ASSUME ~FailedSyncDropsPages
  PROVE  Spec => CommittedBytesFrozen
<1>1. DataInv /\ [Next]_vars
        => [\A r \in Promise!Findable : \A b \in DataStart..r : cache'[b] = cache[b]]_vars
  BY StepKeepsCommittedBytes
<1> QED
  BY <1>1, DataStays, PTL DEF Spec, CommittedBytesFrozen

\* The invariant holds throughout every behaviour of a store whose failed
\* syncs keep their pages and whose superblocks can be read.
THEOREM StoreInvariant ==
  ASSUME Faultless
  PROVE  Spec => []StoreInv
<1>1. Init => StoreInv
  BY InitEstablishes
<1>2. StoreInv /\ [Next]_vars => StoreInv'
  BY NextPreserves
<1> QED
  BY <1>1, <1>2, PTL DEF Spec

\* A committed state is always there to be opened, never an older one than the
\* newest reported durable (Store::open after any failure of Store::commit).
THEOREM Recoverability ==
  ASSUME Faultless
  PROVE  Spec => []AlwaysRecoverable
<1>1. StoreInv => AlwaysRecoverable
  BY InvImpliesRecoverable
<1> QED
  BY <1>1, StoreInvariant, PTL

\* An open handle shows the newest state reported durable or one in doubt, its own
\* failed commits among them.
THEOREM CurrentHandle ==
  ASSUME Faultless
  PROVE  Spec => []HandleIsCurrent
<1>1. StoreInv => HandleIsCurrent
  BY DEF StoreInv, HandleIsCurrent, HandleMatches
<1> QED
  BY <1>1, StoreInvariant, PTL

\* Store::create starts, and every step of the store is, what AtomicRoot
\* allows: the begin of a commit, its success, a power loss, or nothing.
LEMMA StepRefines ==
  ASSUME Faultless, StoreInv, [Next]_vars
  PROVE  [Promise!Next]_(Promise!rootVars)
<1> USE DEF Promise!rootVars
<1>1. CASE UNCHANGED <<promised, doubt>>
  BY <1>1
<1>2. CASE CommitWriteSb
  <2>1. CASE UNCHANGED doubt
    BY <1>1, <1>2, <2>1 DEF CommitWriteSb
  <2>2. CASE doubt' = doubt \union {call.root}
    <3>1. call.root \in Root /\ \A q \in Promise!Findable : q < call.root
      BY <1>2 DEF CommitWriteSb, StoreInv, CommitProgress, DataInv, RootIsWritten, Root
    <3>2. Promise!Attempt(call.root)
      BY <1>2, <2>2, <3>1 DEF CommitWriteSb, Promise!Attempt
    <3> QED
      BY <3>1, <3>2 DEF Promise!Next
  <2> QED
    BY <1>2, <2>1, <2>2 DEF CommitWriteSb
<1>3. CASE CommitSyncSb
  <2>1. CASE promised' = call.root /\ doubt' = {}
    <3>1. call.root \in Root /\ call.root \in doubt
      BY <1>3 DEF CommitSyncSb, StoreInv, CommitProgress, DataInv, RootIsWritten, Root
    <3> QED
      BY <2>1, <3>1 DEF Promise!Next, Promise!Succeed
  <2> QED
    BY <1>1, <1>3, <2>1 DEF CommitSyncSb
<1>4. CASE PowerLoss
  <2>1. DataInv'
    BY NextKeepsData DEF Faultless, StoreInv
  <2>2. promised' \in Promise!Findable /\ doubt' = {} /\ promised' \in Root
    BY <1>4, <2>1, PowerLossPreserves DEF DataInv, TypeOK
  <2> QED
    BY <2>2 DEF Promise!Next, Promise!Lose
<1> QED
  BY <1>1, <1>2, <1>3, <1>4 DEF Next, vars, Append, AppendFails, BeginCommit, CommitSyncData,
     Open, WriteSlot, Exit, WriteBack

\* The double superblock implements the atomic, durable commit.
THEOREM Refinement ==
  ASSUME Faultless
  PROVE  Spec => ImplementsAtomicRoot
<1>1. Init => Promise!Init
  BY DEF Init, Promise!Init
<1>2. StoreInv /\ [Next]_vars => [Promise!Next]_(Promise!rootVars)
  BY StepRefines
<1> QED
  BY <1>1, <1>2, StoreInvariant, PTL DEF Spec, ImplementsAtomicRoot, Promise!Spec

\* The commits in doubt are newer than the promise.
DoubtIsNewer == \A r \in doubt : promised < r

\* A step of AtomicRoot keeps them so, and the promise never moves back.
LEMMA PromiseGrows ==
  ASSUME promised \in Nat, doubt \subseteq Nat, DoubtIsNewer, [Promise!Next]_(Promise!rootVars)
  PROVE  DoubtIsNewer' /\ promised' >= promised
<1>1. CASE UNCHANGED <<promised, doubt>>
  BY <1>1 DEF DoubtIsNewer
<1>2. ASSUME NEW r \in Root, Promise!Attempt(r) PROVE DoubtIsNewer' /\ promised' >= promised
  BY <1>2 DEF DoubtIsNewer, Promise!Attempt, Promise!Findable
<1>3. ASSUME NEW r \in Root, Promise!Succeed(r) \/ Promise!Lose(r)
      PROVE  DoubtIsNewer' /\ promised' >= promised
  <2>1. promised' = r /\ doubt' = {} /\ (r = promised \/ r \in doubt)
    BY <1>3 DEF Promise!Succeed, Promise!Lose, Promise!Findable
  <2>2. DoubtIsNewer'
    BY <2>1 DEF DoubtIsNewer
  <2>3. r \in Nat
    BY <2>1
  <2>4. \A q \in doubt : promised < q
    BY DEF DoubtIsNewer
  <2>5. promised <= r
    BY <2>1, <2>3, <2>4
  <2> QED
    BY <2>1, <2>2, <2>5
<1> QED
  BY <1>1, <1>2, <1>3 DEF Promise!Next, Promise!rootVars

\* No state reported durable is rolled back, by a failed commit, a retry, a
\* reopening or a power loss.
THEOREM Durability ==
  ASSUME Faultless
  PROVE  Spec => Promise!NeverRollsBack
<1>1. Init => DoubtIsNewer
  BY DEF Init, DoubtIsNewer
<1>2. StoreInv /\ DoubtIsNewer /\ [Next]_vars
        => DoubtIsNewer' /\ [promised' >= promised]_(Promise!rootVars)
  <2>1. StoreInv => promised \in Nat /\ doubt \subseteq Nat
    BY Layout DEF StoreInv, DataInv, TypeOK
  <2> QED
    BY <2>1, StepRefines, PromiseGrows
<1> QED
  BY <1>1, <1>2, StoreInvariant, PTL DEF Spec, Promise!NeverRollsBack
=============================================================================

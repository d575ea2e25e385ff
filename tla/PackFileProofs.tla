---------------------------- MODULE PackFileProofs ----------------------------
(***************************************************************************)
(* Whatever call is under way when the power fails, there is a pack, its   *)
(* password opens it and it stores what was reported: proofs for PackFile, *)
(* for any number of files, passwords, slots and versions.                 *)
(*                                                                         *)
(* Create writes slot 0, so slot 0 is the one that opens, that rekey       *)
(* writes and that compact carries over; the rest stay empty.              *)
(* A slot that is torn or cannot be read costs a password, and no more.    *)
(***************************************************************************)
EXTENDS PackFile, TLAPS

\* A file with no slot but slot 0, of which a power loss may leave what it is.
OneSlot(f) ==
  /\ f.slots[0] \in f.left[0]
  /\ \A s \in KeySlot \ {0} : f.slots[s] = Empty /\ f.left[s] = {Empty}

OnlySlotZero == \A i \in Inode : OneSlot(files[i])

HandleInv ==
  handle # NoHandle =>
    /\ handle.slot = 0
    /\ handle.inode # NoFile /\ call.pc # "syncDir" => handle.inode = dir.pack

\* The new file of a compaction is not the pack yet ...
Aside ==
  /\ handle # NoHandle /\ handle.inode \in Inode /\ call.inode \in Inode
  /\ call.inode # handle.inode /\ \A d \in survivors : d.pack # call.inode
  /\ files[call.inode].doubt = {}

\* What no password opens.
Unreadable == {Empty, Torn}

\* ... and has no slot that the pack has not.
Carries == passwords # {} => files[call.inode].left[0] \subseteq passwords \union Unreadable

CallInv ==
  /\ call.pc = "firstSlot" =>
       /\ handle = NoHandle /\ call.inode \in Inode /\ dir.pack = call.inode
       /\ call.password \in Password /\ passwords = {}
       /\ files[call.inode].saved = 0 /\ files[call.inode].doubt = {}
  /\ call.pc = "syncSlot" =>
       /\ handle # NoHandle /\ call.inode \in Inode /\ handle.inode = call.inode
       /\ call.password \in Password /\ files[call.inode].slots[0] = call.password
  /\ call.pc \in {"carry", "flush", "rename"} => Aside
  /\ call.pc \in {"flush", "rename", "syncDir"} => Carries
  /\ call.pc \in {"rename", "syncDir"} => files[call.inode].saved = handle.view
  /\ call.pc = "syncDir" =>
       /\ handle # NoHandle /\ call.inode \in Inode /\ dir.pack = call.inode
       /\ files[call.inode].doubt = {}

\* What a power loss finds is a pack that the history knows.
Known(i) ==
  /\ i \in Inode
  /\ files[i].left[0] \subseteq passwords \union Unreadable
  /\ {files[i].saved} \union files[i].doubt \subseteq versions

FoundInv == passwords # {} => \A d \in survivors : Known(d.pack)

\* What holds though slots may be torn, or unreadable when compact reads them.
PackFileInv == TypeOK /\ OnlySlotZero /\ HandleInv /\ CallInv /\ FoundInv

\* A write of a slot is whole, a slot can be read, and syncing a file saves its name.
Faultless == ~TornSlots /\ ~SlotReadErrors /\ SyncSavesEntries

\* Then the slot of a pack that was made always has a password, and so have that of
\* the handle's file and that of the file which is to replace it.
KeyInv ==
  /\ passwords # {} => \A d \in survivors : files[d.pack].left[0] \subseteq Password
  /\ handle # NoHandle /\ handle.inode # NoFile => files[handle.inode].slots[0] \in Password
  /\ call.pc \in {"flush", "rename", "syncDir"} => files[call.inode].left[0] \subseteq Password

-----------------------------------------------------------------------------
(* Files.                                                                  *)

LEMMA SlotNumbers == 0 \in KeySlot /\ KeySlot \subseteq Nat
BY PackFileAssumption DEF KeySlot

LEMMA NoHandleIsNone == NoHandle \notin Handle
BY PackFileAssumption DEF Handle

LEMMA BlankFile == Blank \in File /\ OneSlot(Blank)
BY SlotNumbers, PackFileAssumption DEF Blank, File, OneSlot, SlotValue, Version

LEMMA WrittenFile ==
  ASSUME NEW f \in File, OneSlot(f), NEW pw \in Password \union {Torn}
  PROVE  LET g == WriteSlot(f, 0, pw)
         IN  /\ g \in File /\ OneSlot(g)
             /\ g.slots[0] = pw
             /\ g.left[0] = f.left[0] \union {pw} \union (IF TornSlots THEN {Torn} ELSE {})
             /\ g.saved = f.saved /\ g.doubt = f.doubt
<1> DEFINE torn == IF TornSlots THEN {Torn} ELSE {}
           g == WriteSlot(f, 0, pw)
<1>1. /\ f.slots \in [KeySlot -> SlotValue] /\ f.left \in [KeySlot -> SUBSET SlotValue]
      /\ f.saved \in Version /\ f.doubt \in SUBSET Version /\ pw \in SlotValue /\ torn \subseteq SlotValue
  BY DEF File, SlotValue
<1>2. g = [slots |-> [f.slots EXCEPT ![0] = pw], left |-> [f.left EXCEPT ![0] = @ \union {pw} \union torn],
           saved |-> f.saved, doubt |-> f.doubt]
  <2>1. g = [f EXCEPT !.slots = [f.slots EXCEPT ![0] = pw], !.left = [f.left EXCEPT ![0] = @ \union {pw} \union torn]]
    BY DEF WriteSlot, File
  <2> QED
    BY <2>1 DEF File
<1>3. g \in File
  BY <1>1, <1>2, SlotNumbers DEF File
<1>4. /\ g.slots[0] = pw /\ g.left[0] = f.left[0] \union {pw} \union torn
      /\ \A s \in KeySlot \ {0} : g.slots[s] = f.slots[s] /\ g.left[s] = f.left[s]
      /\ g.saved = f.saved /\ g.doubt = f.doubt
  BY <1>1, <1>2, SlotNumbers
<1>5. OneSlot(g)
  BY <1>4 DEF OneSlot
<1> QED
  BY <1>3, <1>4, <1>5

LEMMA SyncedFile ==
  ASSUME NEW f \in File, \A s \in KeySlot \ {0} : f.slots[s] = Empty
  PROVE  LET g == Synced(f)
         IN  /\ g \in File /\ OneSlot(g)
             /\ g.slots = f.slots /\ g.left[0] = {f.slots[0]}
             /\ g.saved = f.saved /\ g.doubt = f.doubt
<1> DEFINE g == Synced(f)
<1>1. /\ f.slots \in [KeySlot -> SlotValue]
      /\ f.saved \in Version /\ f.doubt \in SUBSET Version
  BY DEF File
<1>2. g = [slots |-> f.slots, left |-> [s \in KeySlot |-> {f.slots[s]}],
           saved |-> f.saved, doubt |-> f.doubt]
  BY SMTT(20) DEF Synced, File
<1>3. g \in File
  BY <1>1, <1>2 DEF File
<1>4. \A s \in KeySlot : g.left[s] = {f.slots[s]}
  BY <1>2
<1> QED
  BY <1>2, <1>3, <1>4, SlotNumbers DEF OneSlot

\* A new file, or one that is changed, among the rest.
LEMMA OtherFiles ==
  ASSUME TypeOK, OnlySlotZero, NEW i \in Inode, NEW f \in File, OneSlot(f),
         files' = [files EXCEPT ![i] = f]
  PROVE  /\ files' \in [Inode -> File] /\ OnlySlotZero'
         /\ files'[i] = f /\ \A j \in Inode \ {i} : files'[j] = files[j]
BY DEF TypeOK, OnlySlotZero, OneSlot

LEMMA IdleCall == call' = Idle => CallInv' /\ call' \in Call
BY DEF Idle, CallInv, Call

LEMMA InitHolds == Init => PackFileInv
<1> SUFFICES ASSUME Init PROVE PackFileInv
  OBVIOUS
<1>1. TypeOK
  BY BlankFile, PackFileAssumption DEF Init, TypeOK, Idle, Call, Directory, Version
<1>2. OnlySlotZero
  BY BlankFile DEF Init, OnlySlotZero
<1> QED
  BY <1>1, <1>2 DEF Init, PackFileInv, HandleInv, CallInv, FoundInv, Idle

-----------------------------------------------------------------------------
(* Calls that leave the directory as it is.                                *)

LEMMA OpenStep ==
  ASSUME PackFileInv, NEW pw \in Password, Open(pw)
  PROVE  PackFileInv'
<1> DEFINE f == files[dir.pack]
           opening == {s \in KeySlot : f.slots[s] = pw}
<1>1. dir.pack \in Inode /\ f \in File /\ OneSlot(f)
  BY DEF PackFileInv, TypeOK, OnlySlotZero, Open, Directory
<1>2. opening = {0} /\ f.slots[0] = pw
  BY <1>1, PackFileAssumption DEF Open, OneSlot
<1>3. Opened(opening) = 0
  BY <1>2, SlotNumbers DEF Opened
<1>4. PICK view \in {f.saved} \union f.doubt :
        handle' = [inode |-> dir.pack, slot |-> Opened(opening), view |-> view]
  BY DEF Open
<1>5. view \in Version
  BY <1>1, <1>4 DEF File
<1>6. TypeOK'
  BY <1>1, <1>3, <1>4, <1>5, SlotNumbers DEF PackFileInv, TypeOK, Open, Handle
<1>7. HandleInv'
  BY <1>2, <1>3, <1>4 DEF HandleInv, Open
<1>8. UNCHANGED <<dir, survivors, files, call, newest, passwords, versions>> /\ call = Idle
  BY DEF Open
<1> QED
  BY <1>6, <1>7, <1>8, IdleCall DEF PackFileInv, OnlySlotZero, FoundInv, Known

LEMMA EditStep ==
  ASSUME PackFileInv, Edit
  PROVE  PackFileInv'
<1>1. handle \in Handle /\ handle # NoHandle /\ call = Idle /\ call' = Idle
  BY DEF PackFileInv, TypeOK, Edit, Ready
<1>2. newest' \in Version
  BY PackFileAssumption DEF PackFileInv, TypeOK, Edit, Version
<1>3. handle' \in Handle /\ handle'.slot = handle.slot /\ handle'.inode = handle.inode
  BY <1>1, <1>2 DEF Edit, Handle
<1>4. TypeOK'
  BY <1>2, <1>3 DEF PackFileInv, TypeOK, Edit
<1>5. HandleInv'
  BY <1>1, <1>3 DEF PackFileInv, HandleInv, Edit, Idle
<1> QED
  BY <1>1, <1>4, <1>5, IdleCall DEF PackFileInv, Edit, OnlySlotZero, FoundInv, Known

LEMMA HandleFile ==
  ASSUME PackFileInv, HasStore
  PROVE  /\ handle \in Handle /\ handle # NoHandle /\ call = Idle
         /\ handle.inode \in Inode /\ handle.slot = 0 /\ dir.pack = handle.inode
         /\ files[handle.inode] \in File /\ OneSlot(files[handle.inode])
         /\ passwords # {} => Known(handle.inode)
<1>1. handle \in Handle /\ handle # NoHandle /\ call = Idle /\ handle.inode # NoFile
  BY DEF PackFileInv, TypeOK, HasStore, Ready
<1>2. handle.inode \in Inode /\ call.pc = "idle"
  BY <1>1 DEF Handle, Idle
<1> QED
  BY <1>1, <1>2 DEF PackFileInv, TypeOK, OnlySlotZero, HandleInv, FoundInv

LEMMA CommitStep ==
  ASSUME SyncSavesEntries, PackFileInv, Commit
  PROVE  PackFileInv'
<1> DEFINE f == files[handle.inode]
           g == [Synced(f) EXCEPT !.saved = handle.view, !.doubt = {}]
<1>1. /\ handle \in Handle /\ handle # NoHandle /\ call = Idle /\ call' = Idle
      /\ handle.inode \in Inode /\ handle.slot = 0 /\ dir.pack = handle.inode
      /\ f \in File /\ OneSlot(f)
      /\ passwords # {} => Known(handle.inode)
  BY HandleFile DEF Commit
<1>2. handle.view \in Version
  BY <1>1 DEF Handle
<1>3. /\ Synced(f) \in File /\ OneSlot(Synced(f))
      /\ Synced(f).slots = f.slots /\ Synced(f).left[0] = {f.slots[0]}
  BY <1>1, SyncedFile DEF OneSlot
<1>4. /\ g \in File /\ g.slots = Synced(f).slots /\ g.left = Synced(f).left
      /\ g.saved = handle.view /\ g.doubt = {}
  BY <1>2, <1>3 DEF File
<1>5. OneSlot(g)
  BY <1>3, <1>4 DEF OneSlot
<1>6. files' = [files EXCEPT ![handle.inode] = g]
  BY DEF Commit
<1>7. files' \in [Inode -> File] /\ OnlySlotZero' /\ files'[handle.inode] = g
  BY <1>1, <1>4, <1>5, <1>6, OtherFiles DEF PackFileInv
<1>8. survivors' = {dir} /\ dir' = dir /\ versions' = {handle.view} /\ UNCHANGED <<handle, call, newest>>
  BY DEF Commit, EntriesSaved
<1>9. f.slots[0] \in passwords' \union Unreadable /\ passwords' \subseteq Password
  <2>1. f.slots[0] \in SlotValue
    BY <1>1, SlotNumbers DEF File
  <2>2. CASE passwords = {}
    BY <1>1, <2>1, <2>2 DEF Commit, SlotValue, Unreadable
  <2>3. CASE passwords # {}
    BY <1>1, <2>3 DEF Commit, PackFileInv, TypeOK, Known, OneSlot
  <2> QED
    BY <2>2, <2>3
<1>10. TypeOK'
  BY <1>2, <1>7, <1>8, <1>9 DEF PackFileInv, TypeOK
<1>11. HandleInv'
  BY <1>1, <1>3, <1>4, <1>7, <1>8 DEF HandleInv
<1>12. FoundInv'
  BY <1>1, <1>3, <1>4, <1>7, <1>8, <1>9 DEF FoundInv, Known
<1> QED
  BY <1>1, <1>7, <1>10, <1>11, <1>12, IdleCall DEF PackFileInv

LEMMA CommitFailsStep ==
  ASSUME PackFileInv, CommitFails
  PROVE  PackFileInv'
<1> DEFINE f == files[handle.inode]
           g == [f EXCEPT !.doubt = @ \union {handle.view}]
<1>1. /\ handle \in Handle /\ handle # NoHandle /\ call = Idle /\ call' = Idle
      /\ handle.inode \in Inode /\ f \in File /\ OneSlot(f)
  BY HandleFile DEF CommitFails
<1>2. handle.view \in Version
  BY <1>1 DEF Handle
<1>3. /\ g \in File /\ g.slots = f.slots /\ g.left = f.left
      /\ g.saved = f.saved /\ g.doubt = f.doubt \union {handle.view}
  BY <1>1, <1>2 DEF File
<1>4. OneSlot(g)
  BY <1>1, <1>3 DEF OneSlot
<1>5. files' = [files EXCEPT ![handle.inode] = g]
  BY <1>1 DEF CommitFails, PackFileInv, TypeOK
<1>6. /\ files' \in [Inode -> File] /\ OnlySlotZero'
      /\ files'[handle.inode] = g /\ \A j \in Inode \ {handle.inode} : files'[j] = files[j]
  BY <1>1, <1>3, <1>4, <1>5, OtherFiles DEF PackFileInv
<1>7. UNCHANGED <<dir, survivors, handle, call, newest, passwords>> /\ versions' = versions \union {handle.view}
  BY DEF CommitFails
<1>8. TypeOK'
  BY <1>2, <1>6, <1>7 DEF PackFileInv, TypeOK
<1>9. HandleInv'
  BY <1>1, <1>3, <1>6, <1>7 DEF PackFileInv, HandleInv
<1>10. ASSUME NEW i \in Inode, Known(i) PROVE Known(i)'
  BY <1>3, <1>6, <1>7, <1>10 DEF Known
<1>11. FoundInv'
  BY <1>7, <1>10 DEF PackFileInv, FoundInv, Known
<1> QED
  BY <1>1, <1>6, <1>8, <1>9, <1>11, IdleCall DEF PackFileInv

LEMMA RekeyStep ==
  ASSUME PackFileInv, NEW pw \in Password, Rekey(pw)
  PROVE  PackFileInv'
<1> PICK v \in Password \union {Torn} :
      /\ files' = [files EXCEPT ![handle.inode] = WriteSlot(files[handle.inode], handle.slot, v)]
      /\ \/ v = pw /\ call' = [pc |-> "syncSlot", inode |-> handle.inode, password |-> pw]
         \/ v = Torn /\ UNCHANGED call
  BY HandleFile DEF Rekey, PackFileInv, TypeOK
<1> DEFINE f == files[handle.inode]
           g == WriteSlot(f, handle.slot, v)
<1>1. /\ handle \in Handle /\ handle # NoHandle /\ call = Idle
      /\ handle.inode \in Inode /\ handle.slot = 0 /\ dir.pack = handle.inode
      /\ f \in File /\ OneSlot(f)
  BY HandleFile DEF Rekey
<1>2. /\ g \in File /\ OneSlot(g)
      /\ g.slots[0] = v /\ g.left[0] \subseteq f.left[0] \union {v, Torn}
      /\ g.saved = f.saved /\ g.doubt = f.doubt
  BY <1>1, WrittenFile
<1>3. /\ files' = [files EXCEPT ![handle.inode] = g]
      /\ UNCHANGED <<dir, survivors, handle, newest, versions>>
      /\ passwords' = IF passwords = {} THEN {} ELSE passwords \union {pw}
  BY DEF Rekey
<1>4. /\ files' \in [Inode -> File] /\ OnlySlotZero'
      /\ files'[handle.inode] = g /\ \A j \in Inode \ {handle.inode} : files'[j] = files[j]
  BY <1>1, <1>2, <1>3, OtherFiles DEF PackFileInv
<1>5. TypeOK'
  <2>1. call' \in Call
    BY <1>1 DEF PackFileInv, TypeOK, Call
  <2> QED
    BY <1>3, <1>4, <2>1 DEF PackFileInv, TypeOK
<1>6. HandleInv'
  BY <1>1, <1>3 DEF HandleInv
<1>7. CallInv'
  <2>1. CASE call' = Idle
    BY <2>1, IdleCall
  <2>2. CASE v = pw /\ call' = [pc |-> "syncSlot", inode |-> handle.inode, password |-> pw]
    BY <1>1, <1>2, <1>3, <1>4, <2>2 DEF CallInv
  <2> QED
    BY <1>1, <2>1, <2>2
<1>8. ASSUME NEW i \in Inode, Known(i), passwords # {} PROVE Known(i)'
  BY <1>1, <1>2, <1>3, <1>4, <1>8 DEF Known, Unreadable
<1>9. FoundInv'
  BY <1>3, <1>8 DEF PackFileInv, FoundInv, Known
<1> QED
  BY <1>4, <1>5, <1>6, <1>7, <1>9 DEF PackFileInv

LEMMA RekeySyncStep ==
  ASSUME SyncSavesEntries, PackFileInv, RekeySync
  PROVE  PackFileInv'
<1> DEFINE f == files[call.inode]
<1>1. /\ handle # NoHandle /\ call.inode \in Inode /\ handle.inode = call.inode
      /\ call.password \in Password /\ f.slots[0] = call.password
      /\ handle.slot = 0 /\ handle.inode # NoFile /\ dir.pack = handle.inode
  BY PackFileAssumption DEF PackFileInv, CallInv, HandleInv, RekeySync
<1>2. f \in File /\ OneSlot(f)
  BY <1>1 DEF PackFileInv, TypeOK, OnlySlotZero
<1>3. call' = Idle /\ UNCHANGED <<dir, handle, newest, versions>>
  BY DEF RekeySync
<1>4. CASE UNCHANGED <<files, survivors, passwords>>
  <2>1. TypeOK'
    BY <1>3, <1>4, IdleCall DEF PackFileInv, TypeOK
  <2>2. HandleInv'
    BY <1>1, <1>3, <1>4 DEF PackFileInv, HandleInv
  <2> QED
    BY <1>3, <1>4, <2>1, <2>2, IdleCall DEF PackFileInv, OnlySlotZero, FoundInv, Known
<1>5. CASE /\ files' = [files EXCEPT ![call.inode] = Synced(f)]
           /\ EntriesSaved
           /\ passwords' = IF passwords = {} THEN {} ELSE {call.password}
  <2>1. /\ Synced(f) \in File /\ OneSlot(Synced(f))
        /\ Synced(f).slots = f.slots /\ Synced(f).left[0] = {f.slots[0]}
        /\ Synced(f).saved = f.saved /\ Synced(f).doubt = f.doubt
    BY <1>2, SyncedFile DEF OneSlot
  <2>2. files' \in [Inode -> File] /\ OnlySlotZero' /\ files'[call.inode] = Synced(f)
    BY <1>1, <1>5, <2>1, OtherFiles DEF PackFileInv
  <2>3. survivors' = {dir}
    BY <1>5 DEF EntriesSaved
  <2>4. TypeOK'
    BY <1>1, <1>3, <1>5, <2>2, <2>3, IdleCall DEF PackFileInv, TypeOK
  <2>5. HandleInv'
    BY <1>1, <1>3, <2>1, <2>2 DEF HandleInv
  <2>6. passwords # {} => Known(dir.pack)
    BY DEF PackFileInv, FoundInv, TypeOK
  <2>7. FoundInv'
    BY <1>1, <1>3, <1>5, <2>1, <2>2, <2>3, <2>6 DEF FoundInv, Known
  <2> QED
    BY <1>3, <2>2, <2>4, <2>5, <2>7, IdleCall DEF PackFileInv
<1> QED
  BY <1>4, <1>5 DEF RekeySync

-----------------------------------------------------------------------------
(* create.                                                                 *)

LEMMA FreeFiles ==
  ASSUME NEW i \in Free
  PROVE  /\ i \in Inode /\ i # NoFile /\ call.inode # i
         /\ \A d \in survivors : d.pack # i
         /\ handle # NoHandle => handle.inode # i
BY PackFileAssumption DEF Free

LEMMA CreateFileStep ==
  ASSUME SyncSavesEntries, PackFileInv, NEW pw \in Password, CreateFile(pw)
  PROVE  PackFileInv'
<1>1. PICK i \in Free :
        /\ NamedAndSynced([dir EXCEPT !.pack = i])
        /\ files' = [files EXCEPT ![i] = Blank]
        /\ call' = [pc |-> "firstSlot", inode |-> i, password |-> pw]
  BY DEF CreateFile
<1>2. i \in Inode /\ dir \in Directory /\ dir \in survivors /\ dir.pack = NoFile
  BY FreeFiles DEF PackFileInv, TypeOK, CreateFile
<1>3. dir' = [dir EXCEPT !.pack = i] /\ survivors' = {dir'}
  BY <1>1 DEF NamedAndSynced
<1>4. dir' \in Directory /\ dir'.pack = i
  BY <1>2, <1>3 DEF Directory
<1>5. passwords = {}
  BY <1>2, PackFileAssumption DEF PackFileInv, FoundInv, Known
<1>6. files' \in [Inode -> File] /\ OnlySlotZero' /\ files'[i] = Blank
  BY <1>1, <1>2, BlankFile, OtherFiles DEF PackFileInv
<1>7. UNCHANGED <<handle, newest, passwords, versions>> /\ handle = NoHandle
  BY DEF CreateFile
<1>8. call' \in Call
  BY <1>1, <1>2 DEF Call
<1>9. TypeOK'
  BY <1>3, <1>4, <1>6, <1>7, <1>8 DEF PackFileInv, TypeOK
<1>10. CallInv'
  BY <1>1, <1>2, <1>4, <1>5, <1>6, <1>7 DEF CallInv, Blank
<1> QED
  BY <1>5, <1>6, <1>7, <1>9, <1>10 DEF PackFileInv, HandleInv, FoundInv

LEMMA CreateSlotStep ==
  ASSUME SyncSavesEntries, PackFileInv, CreateSlot
  PROVE  PackFileInv'
<1> DEFINE i == call.inode
           f == files[i]
           g == WriteSlot(f, 0, call.password)
<1>1. /\ i \in Inode /\ f \in File /\ OneSlot(f) /\ call.password \in Password
      /\ handle = NoHandle /\ dir.pack = i /\ passwords = {}
      /\ f.saved = 0 /\ f.doubt = {}
  BY DEF CreateSlot, PackFileInv, TypeOK, OnlySlotZero, CallInv
<1>2. /\ g \in File /\ OneSlot(g) /\ g.slots[0] = call.password
      /\ g.saved = 0 /\ g.doubt = {}
  BY <1>1, WrittenFile
<1>3. call' = Idle /\ UNCHANGED <<dir, newest>>
  BY DEF CreateSlot
<1>4. CASE /\ files' = [files EXCEPT ![i] = Synced(g)]
           /\ EntriesSaved
           /\ handle' = [inode |-> i, slot |-> 0, view |-> 0]
           /\ passwords' = {call.password}
           /\ versions' = {0}
  <2>1. /\ Synced(g) \in File /\ OneSlot(Synced(g))
        /\ Synced(g).slots = g.slots /\ Synced(g).left[0] = {g.slots[0]}
        /\ Synced(g).saved = 0 /\ Synced(g).doubt = {}
    BY <1>2, SyncedFile DEF OneSlot
  <2>2. files' \in [Inode -> File] /\ OnlySlotZero' /\ files'[i] = Synced(g)
    BY <1>1, <1>4, <2>1, OtherFiles DEF PackFileInv
  <2>3. survivors' = {dir}
    BY <1>4 DEF EntriesSaved
  <2>4. handle' \in Handle /\ 0 \in Version
    BY <1>1, <1>4, SlotNumbers, PackFileAssumption DEF Handle, Version
  <2>5. TypeOK'
    BY <1>1, <1>3, <1>4, <2>2, <2>3, <2>4, IdleCall DEF PackFileInv, TypeOK
  <2>6. HandleInv'
    BY <1>1, <1>2, <1>3, <1>4, <2>1, <2>2 DEF HandleInv
  <2>7. FoundInv'
    BY <1>1, <1>2, <1>3, <1>4, <2>1, <2>2, <2>3 DEF FoundInv, Known
  <2> QED
    BY <1>3, <2>2, <2>5, <2>6, <2>7, IdleCall DEF PackFileInv
<1>5. CASE /\ files' \in {files, [files EXCEPT ![i] = g]}
           /\ UNCHANGED <<survivors, handle, passwords, versions>>
  <2>1. files' \in [Inode -> File] /\ OnlySlotZero'
    BY <1>1, <1>2, <1>5, OtherFiles DEF PackFileInv, TypeOK, OnlySlotZero
  <2>2. TypeOK'
    BY <1>3, <1>5, <2>1, IdleCall DEF PackFileInv, TypeOK
  <2> QED
    BY <1>1, <1>3, <1>5, <2>1, <2>2, IdleCall DEF PackFileInv, HandleInv, FoundInv
<1> QED
  BY <1>4, <1>5 DEF CreateSlot

-----------------------------------------------------------------------------
(* compact.                                                                *)

LEMMA CompactCreateStep ==
  ASSUME SyncSavesEntries, PackFileInv, CompactCreate
  PROVE  PackFileInv'
<1>1. /\ handle \in Handle /\ handle # NoHandle /\ call = Idle
      /\ handle.inode \in Inode /\ dir.pack = handle.inode
      /\ dir \in Directory /\ dir \in survivors
  BY HandleFile DEF CompactCreate, PackFileInv, TypeOK
<1>2. UNCHANGED <<handle, newest, passwords, versions>>
  BY DEF CompactCreate
<1>3. ASSUME NEW i \in Free,
             NamedAndSynced([dir EXCEPT !.tmp = i]), files' = [files EXCEPT ![i] = Blank],
             call' = [pc |-> "carry", inode |-> i, password |-> Empty]
      PROVE  PackFileInv'
  <2>1. i \in Inode /\ i # handle.inode
    BY <1>1, FreeFiles
  <2>2. dir' \in Directory /\ dir'.pack = dir.pack /\ survivors' = {dir'}
    BY <1>1, <1>3, <2>1 DEF NamedAndSynced, Directory
  <2>3. /\ files' \in [Inode -> File] /\ OnlySlotZero' /\ files'[i] = Blank
        /\ \A j \in Inode \ {i} : files'[j] = files[j]
    BY <1>3, <2>1, BlankFile, OtherFiles DEF PackFileInv
  <2>4. call' \in Call
    BY <1>3, <2>1 DEF Call
  <2>5. TypeOK'
    BY <1>2, <2>2, <2>3, <2>4 DEF PackFileInv, TypeOK
  <2>6. HandleInv'
    BY <1>1, <1>2, <1>3, <2>1, <2>2, <2>3 DEF PackFileInv, HandleInv
  <2>7. CallInv'
    BY <1>1, <1>2, <1>3, <2>1, <2>2, <2>3 DEF CallInv, Aside, Blank
  <2>8. FoundInv'
    BY <1>1, <1>2, <2>1, <2>2, <2>3 DEF PackFileInv, FoundInv, Known
  <2> QED
    BY <2>3, <2>5, <2>6, <2>7, <2>8 DEF PackFileInv
<1>4. CASE Passes({}, [dir EXCEPT !.tmp = NoFile]) /\ UNCHANGED <<files, call>>
  <2>1. dir' \in Directory /\ dir'.pack = dir.pack /\ survivors' = survivors \union {dir'}
    BY <1>1, <1>4 DEF Passes, Directory
  <2>2. TypeOK'
    BY <1>2, <1>4, <2>1 DEF PackFileInv, TypeOK
  <2>3. HandleInv'
    BY <1>2, <1>4, <2>1 DEF PackFileInv, HandleInv
  <2>4. FoundInv'
    BY <1>1, <1>2, <1>4, <2>1 DEF PackFileInv, FoundInv, Known
  <2> QED
    BY <1>1, <1>4, <2>2, <2>3, <2>4, IdleCall DEF PackFileInv, OnlySlotZero
<1> QED
  BY <1>3, <1>4 DEF CompactCreate

\* The two files of a compaction under way.
LEMMA BothFiles ==
  ASSUME PackFileInv, call.pc \in {"carry", "flush", "rename"}
  PROVE  /\ Aside /\ handle \in Handle /\ handle.slot = 0 /\ dir.pack = handle.inode
         /\ files[handle.inode] \in File /\ OneSlot(files[handle.inode])
         /\ files[call.inode] \in File /\ OneSlot(files[call.inode])
         /\ passwords # {} => Known(handle.inode)
<1>1. Aside
  BY DEF PackFileInv, CallInv
<1>2. handle \in Handle /\ handle.inode # NoFile /\ dir.pack = handle.inode
  BY <1>1, PackFileAssumption DEF PackFileInv, TypeOK, HandleInv, Aside
<1> QED
  BY <1>1, <1>2 DEF PackFileInv, TypeOK, OnlySlotZero, HandleInv, FoundInv, Aside

LEMMA CompactCarryStep ==
  ASSUME SyncSavesEntries, PackFileInv, CompactCarry
  PROVE  PackFileInv'
<1> PICK unread \in SUBSET KeySlot :
      files' = [files EXCEPT ![call.inode] =
                  Synced([@ EXCEPT !.slots = Carried(files[handle.inode], unread)])]
  BY DEF CompactCarry
<1> DEFINE i == call.inode
           from == files[handle.inode]
           f == files[i]
           w == [f EXCEPT !.slots = Carried(from, unread)]
<1>1. /\ Aside /\ handle \in Handle /\ handle.slot = 0 /\ dir.pack = handle.inode
      /\ from \in File /\ OneSlot(from) /\ f \in File
      /\ passwords # {} => Known(handle.inode)
  BY BothFiles DEF CompactCarry
<1>2. files' = [files EXCEPT ![i] = Synced(w)]
  OBVIOUS
<1>3. Carried(from, unread) \in [KeySlot -> SlotValue]
      /\ \A s \in KeySlot : Carried(from, unread)[s] \in {Empty, from.slots[s]}
  BY <1>1 DEF Carried, File, SlotValue
<1>4. w \in File /\ w.slots = Carried(from, unread) /\ w.saved = f.saved /\ w.doubt = f.doubt
  BY <1>1, <1>3 DEF File
<1>5. w.slots[0] \in {Empty, from.slots[0]} /\ \A s \in KeySlot \ {0} : w.slots[s] = Empty
  BY <1>1, <1>3, <1>4, SlotNumbers DEF OneSlot
<1>6. /\ Synced(w) \in File /\ OneSlot(Synced(w))
      /\ Synced(w).left[0] \subseteq {Empty, from.slots[0]} /\ Synced(w).doubt = {}
  <2>1. /\ Synced(w) \in File /\ OneSlot(Synced(w))
        /\ Synced(w).left[0] = {w.slots[0]} /\ Synced(w).doubt = w.doubt
    BY <1>4, <1>5, SyncedFile
  <2>2. w.doubt = {}
    BY <1>1, <1>4 DEF Aside
  <2> QED
    BY <1>5, <2>1, <2>2
<1>7. /\ files' \in [Inode -> File] /\ OnlySlotZero' /\ files'[i] = Synced(w)
      /\ \A j \in Inode \ {i} : files'[j] = files[j]
  BY <1>1, <1>2, <1>6, OtherFiles DEF PackFileInv, Aside
<1>8. /\ call' = [call EXCEPT !.pc = "flush"] /\ survivors' = {dir}
      /\ UNCHANGED <<dir, handle, newest, passwords, versions>>
  BY DEF CompactCarry, EntriesSaved
<1>9. call' \in Call /\ call'.pc = "flush" /\ call'.inode = i
  BY <1>8 DEF PackFileInv, TypeOK, Call
<1>10. TypeOK'
  BY <1>7, <1>8, <1>9 DEF PackFileInv, TypeOK
<1>11. HandleInv'
  BY <1>1, <1>7, <1>8, <1>9 DEF PackFileInv, HandleInv, Aside
<1>12. Aside'
  BY <1>1, <1>6, <1>7, <1>8, <1>9 DEF Aside
<1>13. Carries'
  <2>1. files'[call'.inode].left[0] \subseteq {Empty, from.slots[0]} /\ passwords' = passwords
    BY <1>6, <1>7, <1>8, <1>9
  <2>2. passwords # {} => from.slots[0] \in passwords \union Unreadable
    BY <1>1 DEF Known, OneSlot
  <2> QED
    BY <2>1, <2>2 DEF Carries, Unreadable
<1>14. CallInv'
  BY <1>9, <1>12, <1>13 DEF CallInv
<1>15. FoundInv'
  BY <1>1, <1>7, <1>8 DEF FoundInv, Known, Aside
<1> QED
  BY <1>7, <1>10, <1>11, <1>14, <1>15 DEF PackFileInv

LEMMA CompactFlushStep ==
  ASSUME SyncSavesEntries, PackFileInv, CompactFlush
  PROVE  PackFileInv'
<1> DEFINE i == call.inode
           f == files[i]
           g == [f EXCEPT !.saved = handle.view]
<1>1. /\ Aside /\ handle \in Handle /\ dir.pack = handle.inode
      /\ f \in File /\ OneSlot(f)
      /\ passwords # {} => Known(handle.inode)
  BY BothFiles DEF CompactFlush
<1>2. Carries
  BY DEF PackFileInv, CallInv, CompactFlush
<1>3. handle.view \in Version
  BY <1>1 DEF Handle
<1>4. /\ g \in File /\ g.slots = f.slots /\ g.left = f.left /\ g.saved = handle.view /\ g.doubt = f.doubt
  BY <1>1, <1>3 DEF File
<1>5. OneSlot(g)
  BY <1>1, <1>4 DEF OneSlot
<1>6. files' = [files EXCEPT ![i] = g]
  BY DEF CompactFlush, Flushed
<1>7. /\ files' \in [Inode -> File] /\ OnlySlotZero' /\ files'[i] = g
      /\ \A j \in Inode \ {i} : files'[j] = files[j]
  BY <1>1, <1>4, <1>5, <1>6, OtherFiles DEF PackFileInv, Aside
<1>8. /\ call' = [call EXCEPT !.pc = "rename"] /\ survivors' = {dir}
      /\ UNCHANGED <<dir, handle, newest, passwords, versions>>
  BY DEF CompactFlush, EntriesSaved
<1>9. call' \in Call /\ call'.pc = "rename" /\ call'.inode = i
  BY <1>8 DEF PackFileInv, TypeOK, Call
<1>10. TypeOK'
  BY <1>7, <1>8, <1>9 DEF PackFileInv, TypeOK
<1>11. HandleInv'
  BY <1>1, <1>7, <1>8, <1>9 DEF PackFileInv, HandleInv, Aside
<1>12. Aside'
  BY <1>1, <1>4, <1>7, <1>8, <1>9 DEF Aside
<1>13. Carries'
  BY <1>2, <1>4, <1>7, <1>8, <1>9 DEF Carries
<1>14. CallInv'
  BY <1>4, <1>7, <1>8, <1>9, <1>12, <1>13 DEF CallInv
<1>15. FoundInv'
  BY <1>1, <1>7, <1>8 DEF FoundInv, Known, Aside
<1> QED
  BY <1>7, <1>10, <1>11, <1>14, <1>15 DEF PackFileInv

\* The handle with the file it goes on with, or with none.
LEMMA HandleGoesOn ==
  ASSUME PackFileInv, handle # NoHandle, NEW i \in Inode, GoOnWith(i), call' = Idle,
         dir'.pack = i
  PROVE  handle' \in Handle /\ HandleInv'
<1>1. handle \in Handle /\ handle.slot = 0
  BY DEF PackFileInv, TypeOK, HandleInv
<1>2. handle' \in Handle /\ handle'.slot = 0 /\ handle'.inode \in {i, NoFile}
  BY <1>1 DEF GoOnWith, Handle
<1> QED
  BY <1>2 DEF HandleInv

LEMMA CompactRenameStep ==
  ASSUME PackFileInv, CompactRename
  PROVE  PackFileInv'
<1> DEFINE i == call.inode
<1>1. /\ Aside /\ handle \in Handle /\ dir.pack = handle.inode
      /\ passwords # {} => Known(handle.inode)
  BY BothFiles DEF CompactRename
<1>2. Carries /\ files[i].saved = handle.view
  BY DEF PackFileInv, CallInv, CompactRename
<1>3. UNCHANGED <<files, newest, passwords>> /\ dir \in Directory
  BY DEF CompactRename, PackFileInv, TypeOK
<1>4. CASE /\ Passes(Between(dir), [pack |-> i, tmp |-> NoFile])
           /\ call' = [call EXCEPT !.pc = "syncDir"]
           /\ versions' = versions \union {handle.view}
           /\ UNCHANGED handle
  <2>1. dir' = [pack |-> i, tmp |-> NoFile] /\ survivors' = survivors \union {dir'}
    BY <1>4 DEF Passes, Between
  <2>2. i \in Inode /\ dir' \in Directory /\ dir'.pack = i
    BY <1>1, <2>1 DEF Aside, Directory
  <2>3. call' \in Call /\ call'.pc = "syncDir" /\ call'.inode = i
    BY <1>4 DEF PackFileInv, TypeOK, Call
  <2>4. handle.view \in Version
    BY <1>1 DEF Handle
  <2>5. TypeOK'
    BY <1>3, <1>4, <2>1, <2>2, <2>3, <2>4 DEF PackFileInv, TypeOK
  <2>6. HandleInv'
    BY <1>3, <1>4, <2>3 DEF PackFileInv, HandleInv
  <2>7. CallInv'
    BY <1>1, <1>2, <1>3, <1>4, <2>2, <2>3 DEF CallInv, Carries, Aside
  <2>8. FoundInv'
    BY <1>1, <1>2, <1>3, <1>4, <2>1, <2>2 DEF PackFileInv, FoundInv, Known, Carries, Aside
  <2> QED
    BY <1>3, <2>5, <2>6, <2>7, <2>8 DEF PackFileInv, OnlySlotZero
<1>5. CASE /\ Passes({}, [dir EXCEPT !.tmp = NoFile])
           /\ call' = Idle
           /\ GoOnWith(dir.pack)
           /\ UNCHANGED versions
  <2>1. dir' \in Directory /\ dir'.pack = dir.pack /\ survivors' = survivors \union {dir'}
    BY <1>3, <1>5 DEF Passes, Directory
  <2>2. handle' \in Handle /\ HandleInv'
    BY <1>1, <1>3, <1>5, <2>1, HandleGoesOn DEF Aside
  <2>3. TypeOK'
    BY <1>3, <1>5, <2>1, <2>2, IdleCall DEF PackFileInv, TypeOK
  <2>4. FoundInv'
    BY <1>1, <1>3, <1>5, <2>1 DEF PackFileInv, FoundInv, Known
  <2> QED
    BY <1>3, <1>5, <2>2, <2>3, <2>4, IdleCall DEF PackFileInv, OnlySlotZero
<1> QED
  BY <1>4, <1>5 DEF CompactRename

LEMMA CompactReopenStep ==
  ASSUME PackFileInv, CompactReopen
  PROVE  PackFileInv'
<1> DEFINE i == call.inode
<1>1. /\ handle # NoHandle /\ i \in Inode /\ dir.pack = i
      /\ files[i].doubt = {} /\ files[i].saved = handle.view
  BY DEF PackFileInv, CallInv, CompactReopen
<1>2. call' = Idle /\ UNCHANGED <<dir, files, newest, passwords>>
  BY DEF CompactReopen
<1>3. handle' \in Handle /\ HandleInv'
  BY <1>1, <1>2, HandleGoesOn DEF CompactReopen, Reopened
<1>4. handle.view \in Version /\ dir \in survivors
  BY <1>1 DEF PackFileInv, TypeOK, Handle
<1>5. TypeOK'
  BY <1>2, <1>3, <1>4, IdleCall DEF CompactReopen, PackFileInv, TypeOK
<1>6. passwords # {} => Known(i)
  BY <1>1, <1>4 DEF PackFileInv, FoundInv
<1>7. FoundInv'
  <2>1. CASE survivors' = {dir} /\ versions' = {handle.view}
    BY <1>1, <1>2, <1>6, <2>1 DEF FoundInv, Known
  <2>2. CASE UNCHANGED <<survivors, versions>>
    BY <1>2, <2>2 DEF PackFileInv, FoundInv, Known
  <2> QED
    BY <2>1, <2>2 DEF CompactReopen
<1> QED
  BY <1>2, <1>3, <1>5, <1>7, IdleCall DEF PackFileInv, OnlySlotZero

LEMMA GiveUpStep ==
  ASSUME PackFileInv, GiveUp
  PROVE  PackFileInv'
<1>1. TypeOK'
  BY IdleCall DEF GiveUp, PackFileInv, TypeOK
<1>2. HandleInv'
  BY DEF GiveUp, PackFileInv, HandleInv
<1> QED
  BY <1>1, <1>2, IdleCall DEF GiveUp, PackFileInv, OnlySlotZero, FoundInv, Known

-----------------------------------------------------------------------------
(* The end of a process, and of power.                                     *)

LEMMA ExitStep ==
  ASSUME PackFileInv, Exit
  PROVE  PackFileInv'
<1>1. TypeOK'
  BY IdleCall DEF Exit, PackFileInv, TypeOK
<1>2. HandleInv'
  BY DEF Exit, HandleInv
<1> QED
  BY <1>1, <1>2, IdleCall DEF Exit, PackFileInv, OnlySlotZero, FoundInv, Known

LEMMA RemainingFile ==
  ASSUME NEW f \in File, OneSlot(f), NEW r \in Remains(f)
  PROVE  /\ r \in File /\ OneSlot(r)
         /\ r.slots[0] \in f.left[0] /\ r.left[0] = {r.slots[0]}
         /\ r.saved \in {f.saved} \union f.doubt /\ r.doubt = {}
<1>1. PICK slots \in {g \in [KeySlot -> UNION {f.left[s] : s \in KeySlot}] :
                        \A s \in KeySlot : g[s] \in f.left[s]},
           v \in {f.saved} \union f.doubt :
        r = [slots |-> slots, left |-> [s \in KeySlot |-> {slots[s]}], saved |-> v, doubt |-> {}]
  BY DEF Remains
<1>2. f.left \in [KeySlot -> SUBSET SlotValue] /\ v \in Version
  BY DEF File
<1>3. slots \in [KeySlot -> SlotValue] /\ \A s \in KeySlot : slots[s] \in f.left[s]
  BY <1>2
<1>4. r \in File
  BY <1>1, <1>2, <1>3 DEF File
<1>5. OneSlot(r)
  BY <1>1, <1>3, SlotNumbers DEF OneSlot
<1> QED
  BY <1>1, <1>3, <1>4, <1>5, SlotNumbers

LEMMA PowerLossStep ==
  ASSUME PackFileInv, PowerLoss
  PROVE  PackFileInv'
<1>1. PICK d \in survivors :
        /\ dir' = d
        /\ survivors' = {d}
        /\ \E pack \in IF d.pack = NoFile THEN {Blank} ELSE Remains(files[d.pack]) :
             /\ files' = [i \in Inode |-> IF i = d.pack THEN pack ELSE Blank]
             /\ IF passwords = {} \/ d.pack = NoFile
                THEN passwords' = {} /\ versions' = {}
                ELSE /\ passwords' = {pack.slots[s] : s \in KeySlot} \ {Empty, Torn}
                     /\ versions' = {pack.saved}
  BY DEF PowerLoss
<1>2. PICK pack \in IF d.pack = NoFile THEN {Blank} ELSE Remains(files[d.pack]) :
        /\ files' = [i \in Inode |-> IF i = d.pack THEN pack ELSE Blank]
        /\ IF passwords = {} \/ d.pack = NoFile
           THEN passwords' = {} /\ versions' = {}
           ELSE /\ passwords' = {pack.slots[s] : s \in KeySlot} \ {Empty, Torn}
                /\ versions' = {pack.saved}
  BY <1>1
<1>3. d \in Directory /\ (d.pack # NoFile => d.pack \in Inode)
  BY DEF PackFileInv, TypeOK, Directory
<1>4. d.pack # NoFile =>
        /\ pack.slots[0] \in files[d.pack].left[0] /\ pack.left[0] = {pack.slots[0]}
        /\ pack.saved \in {files[d.pack].saved} \union files[d.pack].doubt /\ pack.doubt = {}
  BY <1>2, <1>3, RemainingFile DEF PackFileInv, TypeOK, OnlySlotZero
<1>5. pack \in File /\ OneSlot(pack)
  BY <1>2, <1>3, RemainingFile, BlankFile DEF PackFileInv, TypeOK, OnlySlotZero
<1>6. files' \in [Inode -> File] /\ OnlySlotZero'
  BY <1>2, <1>5, BlankFile DEF OnlySlotZero
<1>7. call' = Idle /\ handle' = NoHandle /\ UNCHANGED newest
  BY DEF PowerLoss
<1>8. CASE passwords = {} \/ d.pack = NoFile
  <2>1. TypeOK'
    BY <1>1, <1>2, <1>3, <1>6, <1>7, <1>8, IdleCall DEF PackFileInv, TypeOK
  <2> QED
    BY <1>2, <1>6, <1>7, <1>8, <2>1, IdleCall DEF PackFileInv, HandleInv, FoundInv
<1>9. CASE ~(passwords = {} \/ d.pack = NoFile)
  <2>1. Known(d.pack)
    BY <1>9 DEF PackFileInv, FoundInv
  <2>2. pack.slots[0] \in SlotValue /\ pack.saved \in Version
    BY <1>5, SlotNumbers DEF File
  <2>3. {pack.slots[s] : s \in KeySlot} \ {Empty, Torn} = {pack.slots[0]} \ Unreadable
    BY <1>5, SlotNumbers DEF OneSlot, Unreadable
  <2>4. /\ passwords' = {pack.slots[0]} \ Unreadable /\ versions' = {pack.saved}
        /\ passwords' \subseteq Password
    BY <1>2, <1>9, <2>2, <2>3 DEF SlotValue, Unreadable
  <2>5. TypeOK'
    BY <1>1, <1>3, <1>6, <1>7, <2>2, <2>4, IdleCall DEF PackFileInv, TypeOK
  <2>6. files'[d.pack] = pack
    BY <1>2, <1>3, <1>9
  <2>7. FoundInv'
    BY <1>1, <1>3, <1>4, <1>9, <2>4, <2>6 DEF FoundInv, Known
  <2> QED
    BY <1>6, <1>7, <2>5, <2>7, IdleCall DEF PackFileInv, HandleInv
<1> QED
  BY <1>8, <1>9

-----------------------------------------------------------------------------
(* Where slots are written whole and can be read, the owner has a key.     *)

\* The files that KeyInv speaks of.
LEMMA KeyFiles ==
  ASSUME PackFileInv
  PROVE  /\ \A i \in Inode : files[i] \in File /\ files[i].slots[0] \in files[i].left[0]
         /\ passwords # {} => \A d \in survivors : d.pack \in Inode
         /\ handle # NoHandle /\ handle.inode # NoFile => handle.inode \in Inode /\ handle.slot = 0
BY DEF PackFileInv, TypeOK, OnlySlotZero, OneSlot, FoundInv, Known, HandleInv, Handle

LEMMA KeyOpenStep ==
  ASSUME PackFileInv, KeyInv, NEW pw \in Password, Open(pw)
  PROVE  KeyInv'
<1>1. /\ dir.pack \in Inode /\ OneSlot(files[dir.pack])
      /\ UNCHANGED <<survivors, files, call, passwords>> /\ handle'.inode = dir.pack
  BY DEF PackFileInv, TypeOK, OnlySlotZero, Open, Directory
<1>2. files[dir.pack].slots[0] = pw
  BY <1>1, PackFileAssumption DEF Open, OneSlot
<1> QED
  BY <1>1, <1>2 DEF KeyInv

LEMMA KeyCommitStep ==
  ASSUME Faultless, PackFileInv, KeyInv, Commit
  PROVE  KeyInv'
<1> DEFINE f == files[handle.inode]
           g == [Synced(f) EXCEPT !.saved = handle.view, !.doubt = {}]
<1>1. /\ handle # NoHandle /\ call = Idle /\ handle.inode \in Inode /\ dir.pack = handle.inode
      /\ f \in File /\ OneSlot(f) /\ f.slots[0] \in Password
  BY HandleFile, PackFileAssumption DEF Commit, KeyInv
<1>2. /\ Synced(f) \in File /\ Synced(f).slots = f.slots /\ Synced(f).left[0] = {f.slots[0]}
  BY <1>1, SyncedFile DEF OneSlot
<1>3. g.slots = Synced(f).slots /\ g.left = Synced(f).left
  BY <1>2 DEF File
<1>4. files' = [files EXCEPT ![handle.inode] = g]
  BY DEF Commit
<1>5. files'[handle.inode].slots[0] \in Password /\ files'[handle.inode].left[0] \subseteq Password
  BY <1>1, <1>2, <1>3, <1>4 DEF PackFileInv, TypeOK
<1>6. survivors' = {dir} /\ UNCHANGED <<handle, call>>
  BY DEF Commit, EntriesSaved, Faultless
<1> QED
  BY <1>1, <1>5, <1>6 DEF KeyInv, Idle

\* A step that only adds what the handle shows to what a file may store.
LEMMA KeyCommitFailsStep ==
  ASSUME PackFileInv, KeyInv, CommitFails
  PROVE  KeyInv'
<1>1. \A i \in Inode : files'[i].slots = files[i].slots /\ files'[i].left = files[i].left
  BY DEF CommitFails, PackFileInv, TypeOK, File
<1>2. UNCHANGED <<survivors, handle, call, passwords>> /\ call.pc = "idle"
  BY DEF CommitFails, HasStore, Ready, Idle
<1> QED
  BY <1>1, <1>2, KeyFiles DEF KeyInv

LEMMA KeyRekeyStep ==
  ASSUME Faultless, PackFileInv, KeyInv, NEW pw \in Password, Rekey(pw)
  PROVE  KeyInv'
<1> DEFINE f == files[handle.inode]
           g == WriteSlot(f, 0, pw)
<1>1. /\ handle # NoHandle /\ handle.inode \in Inode /\ handle.slot = 0
      /\ f \in File /\ OneSlot(f)
  BY HandleFile DEF Rekey
<1>2. /\ files' = [files EXCEPT ![handle.inode] = g] /\ call'.pc = "syncSlot"
      /\ UNCHANGED <<survivors, handle>> /\ (passwords' # {} => passwords # {})
  BY <1>1 DEF Rekey, Faultless
<1>3. g.slots[0] = pw /\ g.left[0] = f.left[0] \union {pw}
  BY <1>1, WrittenFile DEF Faultless
<1>4. /\ files'[handle.inode].slots[0] = pw /\ files'[handle.inode].left[0] = f.left[0] \union {pw}
      /\ \A i \in Inode \ {handle.inode} : files'[i] = files[i]
  BY <1>1, <1>2, <1>3 DEF PackFileInv, TypeOK
<1>5. ASSUME passwords # {}, NEW d \in survivors
      PROVE  files'[d.pack].left[0] \subseteq Password
  <2>1. d.pack \in Inode /\ files[d.pack].left[0] \subseteq Password
    BY <1>5, KeyFiles DEF KeyInv
  <2> QED
    BY <1>4, <2>1
<1> QED
  BY <1>2, <1>4, <1>5 DEF KeyInv

LEMMA KeyRekeySyncStep ==
  ASSUME Faultless, PackFileInv, KeyInv, RekeySync
  PROVE  KeyInv'
<1> DEFINE f == files[call.inode]
<1>1. /\ call.inode \in Inode /\ handle.inode = call.inode /\ dir.pack = call.inode
      /\ f.slots[0] \in Password
  BY PackFileAssumption DEF PackFileInv, CallInv, HandleInv, RekeySync
<1>2. f \in File /\ OneSlot(f)
  BY <1>1 DEF PackFileInv, TypeOK, OnlySlotZero
<1>3. call'.pc = "idle" /\ UNCHANGED handle
  BY DEF RekeySync, Idle
<1>4. CASE UNCHANGED <<files, survivors, passwords>>
  BY <1>3, <1>4 DEF KeyInv
<1>5. CASE files' = [files EXCEPT ![call.inode] = Synced(f)] /\ EntriesSaved
  <2>1. Synced(f).slots = f.slots /\ Synced(f).left[0] = {f.slots[0]}
    BY <1>2, SyncedFile DEF OneSlot
  <2>2. files'[call.inode] = Synced(f) /\ survivors' = {dir}
    BY <1>1, <1>5 DEF PackFileInv, TypeOK, EntriesSaved, Faultless
  <2> QED
    BY <1>1, <1>3, <2>1, <2>2 DEF KeyInv
<1> QED
  BY <1>4, <1>5 DEF RekeySync

LEMMA KeyCreateFileStep ==
  ASSUME Faultless, PackFileInv, NEW pw \in Password, CreateFile(pw)
  PROVE  KeyInv'
<1>1. passwords = {}
  BY PackFileAssumption DEF PackFileInv, TypeOK, FoundInv, Known, CreateFile
<1>2. handle' = NoHandle /\ passwords' = {} /\ call'.pc = "firstSlot"
  BY <1>1 DEF CreateFile
<1> QED
  BY <1>2 DEF KeyInv

LEMMA KeyCreateSlotStep ==
  ASSUME Faultless, PackFileInv, CreateSlot
  PROVE  KeyInv'
<1> DEFINE i == call.inode
           f == files[i]
           g == WriteSlot(f, 0, call.password)
<1>1. /\ i \in Inode /\ f \in File /\ OneSlot(f) /\ call.password \in Password
      /\ handle = NoHandle /\ dir.pack = i /\ passwords = {}
  BY DEF CreateSlot, PackFileInv, TypeOK, OnlySlotZero, CallInv
<1>2. g \in File /\ OneSlot(g) /\ g.slots[0] = call.password
  BY <1>1, WrittenFile
<1>3. call'.pc = "idle"
  BY DEF CreateSlot, Idle
<1>4. CASE /\ files' = [files EXCEPT ![i] = Synced(g)]
           /\ EntriesSaved
           /\ handle' = [inode |-> i, slot |-> 0, view |-> 0]
  <2>1. Synced(g).slots = g.slots /\ Synced(g).left[0] = {g.slots[0]}
    BY <1>2, SyncedFile DEF OneSlot
  <2>2. files'[i] = Synced(g) /\ survivors' = {dir} /\ dir' = dir
    BY <1>1, <1>4 DEF PackFileInv, TypeOK, EntriesSaved, Faultless, CreateSlot
  <2> QED
    BY <1>1, <1>2, <1>3, <1>4, <2>1, <2>2 DEF KeyInv
<1>5. CASE UNCHANGED <<handle, passwords>>
  BY <1>1, <1>3, <1>5 DEF KeyInv
<1> QED
  BY <1>4, <1>5 DEF CreateSlot

LEMMA KeyCompactCreateStep ==
  ASSUME Faultless, PackFileInv, KeyInv, CompactCreate
  PROVE  KeyInv'
<1>1. handle.inode \in Inode /\ call.pc = "idle" /\ dir \in Directory /\ dir \in survivors
  BY HandleFile DEF CompactCreate, PackFileInv, TypeOK, Idle
<1>2. UNCHANGED <<handle, passwords>>
  BY DEF CompactCreate
<1>3. ASSUME NEW i \in Free,
             NamedAndSynced([dir EXCEPT !.tmp = i]), files' = [files EXCEPT ![i] = Blank],
             call' = [pc |-> "carry", inode |-> i, password |-> Empty]
      PROVE  KeyInv'
  <2>1. i # handle.inode /\ i # dir.pack
    BY <1>1, FreeFiles, HandleFile DEF CompactCreate
  <2>2. survivors' = {dir'} /\ dir'.pack = dir.pack
    BY <1>1, <1>3 DEF NamedAndSynced, Directory, Faultless
  <2>3. files'[handle.inode] = files[handle.inode] /\ files'[dir.pack] = files[dir.pack]
    BY <1>3, <2>1
  <2> QED
    BY <1>1, <1>2, <1>3, <2>2, <2>3 DEF KeyInv
<1>4. CASE Passes({}, [dir EXCEPT !.tmp = NoFile]) /\ UNCHANGED <<files, call>>
  <2>1. dir'.pack = dir.pack /\ survivors' = survivors \union {dir'}
    BY <1>1, <1>4 DEF Passes, Directory
  <2> QED
    BY <1>1, <1>2, <1>4, <2>1 DEF KeyInv
<1> QED
  BY <1>3, <1>4 DEF CompactCreate

\* The password of the pack is carried over.
LEMMA KeyCompactCarryStep ==
  ASSUME Faultless, PackFileInv, KeyInv, CompactCarry
  PROVE  KeyInv'
<1> DEFINE i == call.inode
           from == files[handle.inode]
           w == [files[i] EXCEPT !.slots = Carried(from, {})]
<1>1. /\ Aside /\ handle # NoHandle /\ dir.pack = handle.inode /\ handle.inode # NoFile
      /\ from \in File /\ OneSlot(from) /\ files[i] \in File
  BY BothFiles, PackFileAssumption DEF CompactCarry, Aside
<1>2. from.slots[0] \in Password
  BY <1>1 DEF KeyInv
<1>3. files' = [files EXCEPT ![i] = Synced(w)] /\ call'.pc = "flush" /\ call'.inode = i
  BY DEF CompactCarry, Faultless, PackFileInv, TypeOK, Call
<1>4. Carried(from, {}) \in [KeySlot -> SlotValue] /\ \A s \in KeySlot : Carried(from, {})[s] = from.slots[s]
  BY <1>1 DEF Carried, File
<1>5. w \in File /\ w.slots = Carried(from, {})
  BY <1>1, <1>4 DEF File
<1>6. \A s \in KeySlot \ {0} : w.slots[s] = Empty
  BY <1>1, <1>4, <1>5 DEF OneSlot
<1>7. Synced(w).left[0] = {from.slots[0]}
  <2>1. Synced(w).left[0] = {w.slots[0]}
    BY <1>5, <1>6, SyncedFile
  <2> QED
    BY <1>4, <1>5, <2>1, SlotNumbers
<1>8. files'[i] = Synced(w) /\ files'[handle.inode] = from
  BY <1>1, <1>3 DEF Aside, PackFileInv, TypeOK
<1>9. survivors' = {dir} /\ UNCHANGED <<handle, passwords>> /\ dir \in survivors
  BY DEF CompactCarry, EntriesSaved, Faultless, PackFileInv, TypeOK
<1> QED
  BY <1>1, <1>2, <1>3, <1>7, <1>8, <1>9 DEF KeyInv

LEMMA KeyCompactFlushStep ==
  ASSUME Faultless, PackFileInv, KeyInv, CompactFlush
  PROVE  KeyInv'
<1>1. /\ Aside /\ dir.pack = handle.inode /\ handle # NoHandle /\ handle.inode # NoFile
  BY BothFiles, PackFileAssumption DEF CompactFlush, Aside
<1>2. \A i \in Inode : files'[i].slots = files[i].slots /\ files'[i].left = files[i].left
  BY DEF CompactFlush, PackFileInv, TypeOK, File
<1>3. /\ survivors' = {dir} /\ dir \in survivors /\ UNCHANGED <<handle, passwords>>
      /\ call.pc = "flush" /\ call'.inode = call.inode
  BY DEF CompactFlush, EntriesSaved, Faultless, PackFileInv, TypeOK, Call
<1> QED
  BY <1>1, <1>2, <1>3 DEF KeyInv, Aside

LEMMA KeyCompactRenameStep ==
  ASSUME PackFileInv, KeyInv, CompactRename
  PROVE  KeyInv'
<1>1. /\ Aside /\ handle \in Handle /\ handle # NoHandle /\ dir.pack = handle.inode
      /\ handle.inode # NoFile /\ call.pc = "rename" /\ UNCHANGED <<files, passwords>>
      /\ dir \in Directory /\ dir \in survivors
  BY BothFiles, PackFileAssumption DEF CompactRename, Aside, PackFileInv, TypeOK
<1>2. CASE /\ Passes(Between(dir), [pack |-> call.inode, tmp |-> NoFile])
           /\ call' = [call EXCEPT !.pc = "syncDir"]
           /\ UNCHANGED handle
  <2>1. survivors' = survivors \union {[pack |-> call.inode, tmp |-> NoFile]}
    BY <1>2 DEF Passes, Between
  <2>2. call'.inode = call.inode
    BY <1>2 DEF PackFileInv, TypeOK, Call
  <2> QED
    BY <1>1, <1>2, <2>1, <2>2 DEF KeyInv
<1>3. CASE /\ Passes({}, [dir EXCEPT !.tmp = NoFile])
           /\ call' = Idle
           /\ GoOnWith(dir.pack)
  <2>1. dir'.pack = dir.pack /\ survivors' = survivors \union {dir'}
    BY <1>1, <1>3 DEF Passes, Directory
  <2>2. handle'.inode \in {handle.inode, NoFile}
    BY <1>1, <1>3 DEF GoOnWith, Handle
  <2> QED
    BY <1>1, <1>3, <2>1, <2>2 DEF KeyInv, Idle
<1> QED
  BY <1>2, <1>3 DEF CompactRename

LEMMA KeyCompactReopenStep ==
  ASSUME PackFileInv, KeyInv, CompactReopen
  PROVE  KeyInv'
<1>1. /\ handle \in Handle /\ handle # NoHandle /\ call.inode \in Inode
      /\ dir.pack = call.inode /\ dir \in survivors
  BY DEF PackFileInv, TypeOK, CallInv, CompactReopen
<1>2. files[call.inode].slots[0] \in Password
  BY <1>1, KeyFiles DEF KeyInv, CompactReopen
<1>3. /\ call'.pc = "idle" /\ survivors' \in {survivors, {dir}}
      /\ UNCHANGED <<files, passwords>> /\ GoOnWith(call.inode)
  BY DEF CompactReopen, Reopened, Idle
<1>4. handle'.inode \in {call.inode, NoFile}
  BY <1>1, <1>3 DEF GoOnWith, Handle
<1> QED
  BY <1>1, <1>2, <1>3, <1>4 DEF KeyInv

LEMMA KeyPowerLossStep ==
  ASSUME PackFileInv, KeyInv, PowerLoss
  PROVE  KeyInv'
<1>1. handle' = NoHandle /\ call'.pc = "idle"
  BY DEF PowerLoss, Idle
<1>2. ASSUME passwords' # {}
      PROVE  \A d \in survivors' : files'[d.pack].left[0] \subseteq Password
  <2>1. PICK d \in survivors :
          /\ survivors' = {d}
          /\ passwords # {} /\ d.pack # NoFile
          /\ \E pack \in Remains(files[d.pack]) :
               files' = [i \in Inode |-> IF i = d.pack THEN pack ELSE Blank]
    BY <1>2 DEF PowerLoss
  <2>2. PICK pack \in Remains(files[d.pack]) :
          files' = [i \in Inode |-> IF i = d.pack THEN pack ELSE Blank]
    BY <2>1
  <2>3. d.pack \in Inode /\ files[d.pack] \in File /\ OneSlot(files[d.pack])
    BY <2>1, KeyFiles DEF PackFileInv, OnlySlotZero
  <2>4. pack.left[0] \subseteq files[d.pack].left[0]
    BY <2>3, RemainingFile
  <2>5. files[d.pack].left[0] \subseteq Password
    BY <2>1 DEF KeyInv
  <2> QED
    BY <2>1, <2>2, <2>3, <2>4, <2>5
<1> QED
  BY <1>1, <1>2 DEF KeyInv

\* The calls that neither write a slot nor give a name.
LEMMA KeyOtherSteps ==
  ASSUME PackFileInv, KeyInv, Edit \/ GiveUp \/ Exit \/ UNCHANGED vars
  PROVE  KeyInv'
<1>1. CASE Edit
  <2>1. handle \in Handle /\ handle # NoHandle
    BY <1>1 DEF PackFileInv, TypeOK, Edit, Ready
  <2>2. handle'.inode = handle.inode
    BY <1>1, <2>1 DEF Edit, Handle
  <2> QED
    BY <1>1, <2>1, <2>2 DEF KeyInv, Edit
<1>2. CASE GiveUp \/ Exit
  BY <1>2 DEF KeyInv, GiveUp, Exit, Idle
<1>3. CASE UNCHANGED vars
  BY <1>3 DEF KeyInv, vars
<1> QED
  BY <1>1, <1>2, <1>3

LEMMA KeyStep ==
  ASSUME Faultless, PackFileInv, KeyInv, [Next]_vars
  PROVE  KeyInv'
BY KeyCreateFileStep, KeyOpenStep, KeyRekeyStep, KeyCreateSlotStep, KeyRekeySyncStep,
   KeyCommitStep, KeyCommitFailsStep, KeyCompactCreateStep, KeyCompactCarryStep,
   KeyCompactFlushStep, KeyCompactRenameStep, KeyCompactReopenStep, KeyPowerLossStep,
   KeyOtherSteps DEF Next

-----------------------------------------------------------------------------
(* The theorems.                                                           *)

LEMMA StepHolds ==
  ASSUME SyncSavesEntries, PackFileInv, [Next]_vars
  PROVE  PackFileInv'
<1>1. CASE UNCHANGED vars
  BY <1>1 DEF vars, PackFileInv, TypeOK, OnlySlotZero, OneSlot, HandleInv, CallInv, Aside, Carries, FoundInv, Known
<1> QED
  BY <1>1, CreateFileStep, OpenStep, RekeyStep, CreateSlotStep, RekeySyncStep, EditStep,
     CommitStep, CommitFailsStep, CompactCreateStep, CompactCarryStep, CompactFlushStep,
     CompactRenameStep, CompactReopenStep, GiveUpStep, ExitStep, PowerLossStep DEF Next

\* What makes the properties of the pack's file inductive, types included.
THEOREM PackFileInvariant ==
  ASSUME SyncSavesEntries
  PROVE  Spec => []PackFileInv
<1>1. PackFileInv /\ [Next]_vars => PackFileInv'
  BY StepHolds
<1> QED
  BY InitHolds, <1>1, PTL DEF Spec

\* Every state of the file has the types that the code gives it.
THEOREM PackFileTypes ==
  ASSUME SyncSavesEntries
  PROVE  Spec => []TypeOK
<1>1. PackFileInv => TypeOK
  BY DEF PackFileInv
<1> QED
  BY <1>1, PackFileInvariant, PTL

\* Once create has returned there is always a file at the pack's path
\* (Pack::create, compact, rename_replace).
THEOREM PackStays ==
  ASSUME SyncSavesEntries
  PROVE  Spec => []PackIsFound
<1>1. PackFileInv => PackIsFound
  BY PackFileAssumption DEF PackFileInv, FoundInv, Known, PackIsFound
<1> QED
  BY <1>1, PackFileInvariant, PTL

\* What a power loss leaves stores the version last reported durable or one in
\* doubt (commit, compact).
THEOREM VersionStays ==
  ASSUME SyncSavesEntries
  PROVE  Spec => []VersionIsFound
<1>1. PackFileInv => VersionIsFound
  BY DEF PackFileInv, FoundInv, Known, VersionIsFound, Findable
<1> QED
  BY <1>1, PackFileInvariant, PTL

\* A handle that is open writes to the file that the path names (compact).
THEOREM HandleStays ==
  ASSUME SyncSavesEntries
  PROVE  Spec => []HandleFollowsPack
<1>1. PackFileInv => HandleFollowsPack
  BY HandleFile DEF HandleFollowsPack
<1> QED
  BY <1>1, PackFileInvariant, PTL

\* No password but the one last set, or one of a rekey begun since, opens what a
\* power loss leaves, though slots be torn or compact cannot read them (rekey, compact).
NoOtherPassword ==
  passwords # {} =>
    \A f \in Findable, s \in KeySlot : f.left[s] \subseteq passwords \union {Empty, Torn}

\* Torn and unreadable slots may lock the owner out; they let no one else in.
THEOREM NoOneElseGetsIn ==
  ASSUME SyncSavesEntries
  PROVE  Spec => []NoOtherPassword
<1>1. PackFileInv => NoOtherPassword
  <2> SUFFICES ASSUME PackFileInv, passwords # {}, NEW d \in survivors, d.pack # NoFile,
                      NEW s \in KeySlot
               PROVE  files[d.pack].left[s] \subseteq passwords \union {Empty, Torn}
    BY DEF NoOtherPassword, Findable
  <2>1. Known(d.pack) /\ OneSlot(files[d.pack])
    BY DEF PackFileInv, FoundInv, OnlySlotZero, Known
  <2> QED
    BY <2>1 DEF Known, OneSlot, Unreadable
<1> QED
  BY <1>1, PackFileInvariant, PTL

\* The slot of a pack that was made has a password, and so has that of the file
\* which is to replace it, where slots are written whole and can be read.
THEOREM KeyStays ==
  ASSUME Faultless
  PROVE  Spec => [](PackFileInv /\ KeyInv)
<1>1. Init => PackFileInv /\ KeyInv
  BY InitHolds DEF Init, KeyInv, Idle
<1>2. (PackFileInv /\ KeyInv) /\ [Next]_vars => (PackFileInv /\ KeyInv)'
  BY StepHolds, KeyStep DEF Faultless
<1> QED
  BY <1>1, <1>2, PTL DEF Spec

\* The password last set, or one of a rekey begun since, opens what a power loss
\* leaves, and no other does (rekey, compact).
THEOREM OwnerGetsIn ==
  ASSUME Faultless
  PROVE  Spec => []PasswordOpens
<1>1. PackFileInv /\ KeyInv => PasswordOpens
  <2> SUFFICES ASSUME PackFileInv, KeyInv, passwords # {}, NEW d \in survivors, d.pack # NoFile
               PROVE  /\ \E s \in KeySlot : files[d.pack].left[s] \subseteq passwords
                      /\ \A s \in KeySlot : files[d.pack].left[s] \subseteq passwords \union {Empty}
    BY DEF PasswordOpens, Findable
  <2>1. Known(d.pack) /\ OneSlot(files[d.pack])
    BY DEF PackFileInv, FoundInv, OnlySlotZero, Known
  <2>2. files[d.pack].left[0] \subseteq passwords
    BY <2>1, PackFileAssumption DEF Known, KeyInv, Unreadable
  <2> QED
    BY <2>1, <2>2, SlotNumbers DEF OneSlot
<1> QED
  BY <1>1, KeyStays, PTL
=============================================================================

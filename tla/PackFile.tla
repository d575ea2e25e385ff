------------------------------- MODULE PackFile -------------------------------
(***************************************************************************)
(* Where a pack lives: its name in a directory, the temporary name beside  *)
(* it, the key slots that the password wraps the master key in, and the    *)
(* calls of src/src/pack.cpp that change them -- create, rekey, compact -- *)
(* step by step, against failing calls, a dying process and power loss.    *)
(*                                                                         *)
(* What a file stores is a version, of which Store shows that a file holds *)
(* the newest one it reported durable (saved) or one in doubt; how a       *)
(* version is made of paths and blobs is Pack's.  A slot that wraps the    *)
(* master key under a password is that password.                           *)
(***************************************************************************)
EXTENDS Integers

CONSTANTS
  Inode,              \* BOUND: the files the disk can hold at one time
  Password,
  LastKeySlot,        \* kNumKeySlots - 1
  LastVersion,        \* BOUND: changes made to a pack
  NoFile,             \* a name that names nothing; a store that was reset
  NoHandle,           \* no process has the pack open
  Empty,              \* a slot whose salt is all zero
  Torn,               \* a slot partly written, which no password opens
  TornSlots,          \* may a slot be left partly written?
  SlotReadErrors,     \* may reading a slot fail in Store::slot?
  DirSyncErrors,      \* may the directory's fsync fail in rename_replace?
  SyncSavesEntries    \* does syncing a file save the names given before it?

KeySlot == 0..LastKeySlot
Version == 0..LastVersion
SlotValue == Password \union {Empty, Torn}

ASSUME PackFileAssumption ==
  /\ LastKeySlot \in Nat /\ LastVersion \in Nat
  /\ Empty \notin Password /\ Torn \notin Password /\ Empty # Torn
  /\ NoFile \notin Inode
  /\ NoHandle \notin [inode : Inode \union {NoFile}, slot : KeySlot, view : Version]
  /\ {TornSlots, SlotReadErrors, DirSyncErrors, SyncSavesEntries} \subseteq BOOLEAN

VARIABLES
  dir,         \* the directory: the files named by the pack's path and by path.compact.tmp
  survivors,   \* the directories a power loss may leave
  files,       \* the files
  handle,      \* Pack::Impl: the file of its store, opened_slot, its version
  call,        \* where create, rekey or compact is
  newest,      \* the newest version there is
  passwords,   \* history: the password the pack was last told to have, and
               \* those of rekeys begun since; none before create returned, or
               \* once a power loss has left no slot that opens
  versions     \* history: the version last reported durable, and those in doubt

vars == <<dir, survivors, files, handle, call, newest, passwords, versions>>

Directory == [pack : Inode \union {NoFile}, tmp : Inode \union {NoFile}]

\* slots[s] is what reading slot s returns, left[s] what a power loss may leave.
File == [slots : [KeySlot -> SlotValue], left : [KeySlot -> SUBSET SlotValue],
         saved : Version, doubt : SUBSET Version]

Handle == [inode : Inode \union {NoFile}, slot : KeySlot, view : Version]
Idle == [pc |-> "idle", inode |-> NoFile, password |-> Empty]
Call == [pc : {"idle", "firstSlot", "syncSlot", "carry", "flush", "rename", "syncDir"},
         inode : Inode \union {NoFile}, password : Password \union {Empty}]

-----------------------------------------------------------------------------
(* The operating system.                                                   *)

Blank == [slots |-> [s \in KeySlot |-> Empty], left |-> [s \in KeySlot |-> {Empty}],
          saved |-> 0, doubt |-> {}]

\* os::pwrite_all of slot s of a file, and of part of it.
WriteSlot(f, s, v) ==
  [f EXCEPT !.slots[s] = v,
            !.left[s] = @ \union {v} \union (IF TornSlots THEN {Torn} ELSE {})]

\* os::sync_file of a file.
Synced(f) == [f EXCEPT !.left = [s \in KeySlot |-> {f.slots[s]}]]

\* The directory passes through the states ds and ends in d.
Passes(ds, d) == dir' = d /\ survivors' = survivors \union ds \union {d}

\* A file was synced, and with it, on a journaling file system, the directory.
EntriesSaved == survivors' = IF SyncSavesEntries THEN {dir} ELSE survivors

\* A name was given to a new file that was synced.
NamedAndSynced(d) ==
  dir' = d /\ survivors' = IF SyncSavesEntries THEN {d} ELSE survivors \union {d}

\* Files of no directory, handle or call; their numbers may be used again.
Free == {i \in Inode :
          /\ \A d \in survivors : i \notin {d.pack, d.tmp}
          /\ handle # NoHandle => handle.inode # i
          /\ call.inode # i}

-----------------------------------------------------------------------------
(* Pack::create.                                                           *)

\* Store::create: the file is named, laid out with empty slots, and synced.
\* Until a slot is written no password opens it, so a crash within Store::create
\* leaves what one behind it leaves.
CreateFile(pw) ==
  /\ handle = NoHandle /\ call = Idle
  /\ dir.pack = NoFile
  /\ \E i \in Free :
       /\ NamedAndSynced([dir EXCEPT !.pack = i])
       /\ files' = [files EXCEPT ![i] = Blank]
       /\ call' = [pc |-> "firstSlot", inode |-> i, password |-> pw]
  /\ UNCHANGED <<handle, newest, passwords, versions>>

\* write_slot(0, slot0) returned true, and create its handle; or it returned
\* false, and the file is left as it is.
CreateSlot ==
  LET written == WriteSlot(files[call.inode], 0, call.password)
  IN  /\ call.pc = "firstSlot"
      /\ call' = Idle
      /\ \/ /\ files' = [files EXCEPT ![call.inode] = Synced(written)]
            /\ EntriesSaved
            /\ handle' = [inode |-> call.inode, slot |-> 0, view |-> 0]
            /\ passwords' = {call.password}
            /\ versions' = {0}
         \/ /\ files' \in {files, [files EXCEPT ![call.inode] = written]}
            /\ UNCHANGED <<survivors, handle, passwords, versions>>
      /\ UNCHANGED <<dir, newest>>

-----------------------------------------------------------------------------
(* An open handle.                                                         *)

Ready == handle # NoHandle /\ call = Idle
HasStore == Ready /\ handle.inode # NoFile

\* Faulty: a loop over the slots that is not left when one opens.
OpenedEnd(opening) == LastKeySlot + 1

\* Pack::open: the first of the slots that the password unwraps.
Opened(opening) == CHOOSE s \in opening : \A t \in opening : s <= t

\* Pack::open
Open(pw) ==
  /\ handle = NoHandle /\ call = Idle
  /\ dir.pack # NoFile
  /\ LET f == files[dir.pack]
         opening == {s \in KeySlot : f.slots[s] = pw}
     IN  /\ opening # {}
         /\ \E view \in {f.saved} \union f.doubt :
              handle' = [inode |-> dir.pack, slot |-> Opened(opening), view |-> view]
  /\ UNCHANGED <<dir, survivors, files, call, newest, passwords, versions>>

\* put, del, move, copy or merge.
Edit ==
  /\ Ready /\ newest < LastVersion
  /\ newest' = newest + 1
  /\ handle' = [handle EXCEPT !.view = newest']
  /\ UNCHANGED <<dir, survivors, files, call, passwords, versions>>

\* Pack::commit returned true: all that was written to the file is durable.
Commit ==
  /\ HasStore
  /\ LET f == files[handle.inode]
     IN  /\ files' = [files EXCEPT ![handle.inode] =
                        [Synced(f) EXCEPT !.saved = handle.view, !.doubt = {}]]
         /\ passwords' = IF passwords = {} THEN {f.slots[handle.slot]} \ {Empty, Torn} ELSE passwords
  /\ EntriesSaved
  /\ versions' = {handle.view}
  /\ UNCHANGED <<dir, handle, call, newest>>

\* Pack::commit returned false after the superblock was written.
CommitFails ==
  /\ HasStore
  /\ files' = [files EXCEPT ![handle.inode].doubt = @ \union {handle.view}]
  /\ versions' = versions \union {handle.view}
  /\ UNCHANGED <<dir, survivors, handle, call, newest, passwords>>

\* Pack::rekey: the slot is written in place ...
Rekey(pw) ==
  /\ HasStore
  /\ \/ /\ files' = [files EXCEPT ![handle.inode] = WriteSlot(@, handle.slot, pw)]
        /\ call' = [pc |-> "syncSlot", inode |-> handle.inode, password |-> pw]
     \/ /\ TornSlots
        /\ files' = [files EXCEPT ![handle.inode] = WriteSlot(@, handle.slot, Torn)]
        /\ UNCHANGED call
  /\ passwords' = IF passwords = {} THEN {} ELSE passwords \union {pw}
  /\ UNCHANGED <<dir, survivors, handle, newest, versions>>

\* ... and synced.
RekeySync ==
  /\ call.pc = "syncSlot"
  /\ call' = Idle
  /\ \/ /\ files' = [files EXCEPT ![call.inode] = Synced(@)]
        /\ EntriesSaved
        /\ passwords' = IF passwords = {} THEN {} ELSE {call.password}
     \/ UNCHANGED <<files, survivors, passwords>>
  /\ UNCHANGED <<dir, handle, newest, versions>>

-----------------------------------------------------------------------------
(* Pack::compact.                                                          *)

\* A compaction step failed: compact returns false and leaves its file behind.
GiveUp ==
  /\ call.pc \in {"carry", "flush"}
  /\ call' = Idle
  /\ UNCHANGED <<dir, survivors, files, handle, newest, passwords, versions>>

\* The temporary file of an earlier try is removed, and one created, or not.
CompactCreate ==
  /\ HasStore
  /\ \/ \E i \in Free :
          /\ NamedAndSynced([dir EXCEPT !.tmp = i])
          /\ files' = [files EXCEPT ![i] = Blank]
          /\ call' = [pc |-> "carry", inode |-> i, password |-> Empty]
     \/ /\ Passes({}, [dir EXCEPT !.tmp = NoFile])
        /\ UNCHANGED <<files, call>>
  /\ UNCHANGED <<handle, newest, passwords, versions>>

\* Faulty variants of the definitions below, each a bug one could write.
CarriedNone(from, unread) == [s \in KeySlot |-> Empty]
FlushedWhat(f) == f.saved
ReopenedOld(i) == handle.inode
RemovedFirst(d) == {[d EXCEPT !.pack = NoFile]}

\* The slots the new file gets; an unreadable slot passes for an empty one.
Carried(from, unread) == [s \in KeySlot |-> IF s \in unread THEN Empty ELSE from.slots[s]]

\* Every slot that is not empty is written to the new file, and synced.
CompactCarry ==
  /\ call.pc = "carry"
  /\ \E unread \in IF SlotReadErrors THEN SUBSET KeySlot ELSE {{}} :
       files' = [files EXCEPT ![call.inode] =
                   Synced([@ EXCEPT !.slots = Carried(files[handle.inode], unread)])]
  /\ call' = [call EXCEPT !.pc = "flush"]
  /\ EntriesSaved
  /\ UNCHANGED <<dir, handle, newest, passwords, versions>>

\* What compaction stores in the new file.
Flushed(f) == handle.view

\* The live blobs and the manifest are written and committed in the new file,
\* and both files are closed.
CompactFlush ==
  /\ call.pc = "flush"
  /\ files' = [files EXCEPT ![call.inode].saved = Flushed(files[handle.inode])]
  /\ call' = [call EXCEPT !.pc = "rename"]
  /\ EntriesSaved
  /\ UNCHANGED <<dir, handle, newest, passwords, versions>>

\* The handle goes on with file i, or with no store when Store::open fails.
GoOnWith(i) == handle' \in {[handle EXCEPT !.inode = i], [handle EXCEPT !.inode = NoFile]}

\* The file that Store::open finds at the pack's path after the replacement.
Reopened(i) == i

\* The directories that a rename() over the pack at d.pack passes through.
Between(d) == {}

\* rename_replace: rename() replaced the pack, or failed; then the new file is
\* removed and the old one opened again.
CompactRename ==
  /\ call.pc = "rename"
  /\ \/ /\ Passes(Between(dir), [pack |-> call.inode, tmp |-> NoFile])
        /\ call' = [call EXCEPT !.pc = "syncDir"]
        /\ versions' = versions \union {handle.view}
        /\ UNCHANGED handle
     \/ /\ Passes({}, [dir EXCEPT !.tmp = NoFile])
        /\ call' = Idle
        /\ GoOnWith(dir.pack)
        /\ UNCHANGED versions
  /\ UNCHANGED <<files, newest, passwords>>

\* rename_replace syncs the directory as best it can, and the new file is opened.
CompactReopen ==
  /\ call.pc = "syncDir"
  /\ call' = Idle
  /\ GoOnWith(Reopened(call.inode))
  /\ \/ survivors' = {dir} /\ versions' = {handle.view}
     \/ DirSyncErrors /\ UNCHANGED <<survivors, versions>>
  /\ UNCHANGED <<dir, files, newest, passwords>>

-----------------------------------------------------------------------------
(* The end of a process, and of power.                                     *)

\* The process closes its handle, or dies in whatever call it is.
Exit ==
  /\ handle # NoHandle \/ call # Idle
  /\ handle' = NoHandle
  /\ call' = Idle
  /\ UNCHANGED <<dir, survivors, files, newest, passwords, versions>>

\* File f as a power loss may leave it.
Remains(f) ==
  {[slots |-> slots, left |-> [s \in KeySlot |-> {slots[s]}], saved |-> v, doubt |-> {}] :
     slots \in {g \in [KeySlot -> UNION {f.left[s] : s \in KeySlot}] :
                  \A s \in KeySlot : g[s] \in f.left[s]},
     v \in {f.saved} \union f.doubt}

\* Power fails.  The history records what is then found, if the pack was made;
\* of a file that is not the pack nothing is read again.
PowerLoss ==
  /\ \E d \in survivors :
       /\ dir' = d
       /\ survivors' = {d}
       /\ \E pack \in IF d.pack = NoFile THEN {Blank} ELSE Remains(files[d.pack]) :
            /\ files' = [i \in Inode |-> IF i = d.pack THEN pack ELSE Blank]
            /\ IF passwords = {} \/ d.pack = NoFile
               THEN passwords' = {} /\ versions' = {}
               ELSE /\ passwords' = {pack.slots[s] : s \in KeySlot} \ {Empty, Torn}
                    /\ versions' = {pack.saved}
  /\ handle' = NoHandle
  /\ call' = Idle
  /\ UNCHANGED newest

-----------------------------------------------------------------------------
Init ==
  /\ dir = [pack |-> NoFile, tmp |-> NoFile]
  /\ survivors = {dir}
  /\ files = [i \in Inode |-> Blank]
  /\ handle = NoHandle
  /\ call = Idle
  /\ newest = 0
  /\ passwords = {}
  /\ versions = {}

Next ==
  \/ \E pw \in Password : CreateFile(pw) \/ Open(pw) \/ Rekey(pw)
  \/ CreateSlot \/ RekeySync
  \/ Edit \/ Commit \/ CommitFails
  \/ CompactCreate \/ CompactCarry \/ CompactFlush \/ CompactRename \/ CompactReopen \/ GiveUp
  \/ Exit \/ PowerLoss

Spec == Init /\ [][Next]_vars

-----------------------------------------------------------------------------
(* Properties.                                                             *)

TypeOK ==
  /\ dir \in survivors /\ survivors \subseteq Directory
  /\ files \in [Inode -> File]
  /\ handle \in Handle \union {NoHandle}
  /\ call \in Call
  /\ newest \in Version
  /\ passwords \subseteq Password
  /\ versions \subseteq Version

\* Once create has returned, there is a file at the pack's path whatever call is
\* under way when the power fails, a compaction's replacement included.
PackIsFound == passwords # {} => \A d \in survivors : d.pack # NoFile

\* The files that the pack's path may name after a power loss.
Findable == {files[d.pack] : d \in {e \in survivors : e.pack # NoFile}}

\* Whatever the power loss leaves, the password the pack was last told to have
\* opens it, or one of a rekey that has not reported success, and no other:
\* rekey and compact, which carries the slots over, never lock the owner out.
PasswordOpens ==
  passwords # {} =>
    \A f \in Findable :
      /\ \E s \in KeySlot : f.left[s] \subseteq passwords
      /\ \A s \in KeySlot : f.left[s] \subseteq passwords \union {Empty}

\* Whatever the power loss leaves, the pack stores the version last reported
\* durable or one in doubt: compaction replaces a file by one that holds as
\* much, and no commit goes to a file the path no longer names.
VersionIsFound ==
  passwords # {} => \A f \in Findable : {f.saved} \union f.doubt \subseteq versions

\* An open handle reads and writes the file that the pack's path names.
HandleFollowsPack == HasStore => handle.inode = dir.pack
=============================================================================

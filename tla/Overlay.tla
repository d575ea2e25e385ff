-------------------------------- MODULE Overlay --------------------------------
(***************************************************************************)
(* Incremental updates (docs/DESIGN.md section 16): the diff command of    *)
(* src/cli/main.cpp, which writes an update pack from an old pack and a    *)
(* new one, and the merge command, which lays it over a target by          *)
(* Pack::merge, one put or del at a time, and commits.                     *)
(*                                                                         *)
(* The target is a handle as FileMap describes it.  An update pack is the  *)
(* files it carries and the lines of its .spkdel file; no other pack has a *)
(* file of that reserved name.                                             *)
(***************************************************************************)
CONSTANTS
  Path, Content, None, Closed,   \* as in FileMap
  NoPack,                        \* there is no file at the update's path
  ReadBack                       \* the paths that merge deletes for the line of a path

Map == [Path -> Content \union {None}]
UpdatePack == [files : Map, list : SUBSET Path]

ASSUME OverlayAssumption ==
  /\ None \notin Content
  /\ Closed \notin Map
  /\ NoPack \notin UpdatePack
  /\ ReadBack \in [Path -> SUBSET Path]

VARIABLES
  old, new,            \* the packs that diff compares
  start,               \* history: what the target held before any merge
  update,              \* the update pack as its file holds it
  making,              \* where the diff command is, and its handle's buffer
  view, saved, doubt,  \* the target
  call,                \* where the merge command is
  flagged              \* history: the paths of all -d options given

packs == <<old, new, start>>
target == <<view, saved, doubt>>
vars == <<packs, update, making, target, call, flagged>>

Target == INSTANCE FileMap

Bare == [files |-> [p \in Path |-> None], list |-> {}]
Making == [pc : {"none", "start", "copy", "commit", "done", "failed"}, todo : SUBSET Path, pack : UpdatePack]
Idle == [pc |-> "idle", todo |-> {}, dels |-> {}]
Call == [pc : {"idle", "put", "delete"}, todo : SUBSET Path, dels : SUBSET Path]

-----------------------------------------------------------------------------
(* Pack::diff and the diff command.                                        *)

\* Faulty variants, each a bug one could write.
DeletedNothing(m, n) == {}
CommittingEarly(mk) == mk.pc = "copy"
EndedElsewhere(mk) == [mk EXCEPT !.pc = "end"]
SettledFiles(c) == c.todo = {}

\* diff: the paths added and modified, and the paths deleted.
Changed(m, n) == {p \in Path : n[p] # None /\ n[p] # m[p]}
Deleted(m, n) == {p \in Path : m[p] # None /\ n[p] = None}

\* The update is being committed.
Committing(mk) == mk.pc = "commit"

\* The command has reported success.
Ended(mk) == [mk EXCEPT !.pc = "done"]

\* The update pack that diff is to write.
Update(m, n) ==
  [files |-> [p \in Path |-> IF p \in Changed(m, n) THEN n[p] ELSE None],
   list |-> Deleted(m, n)]

\* The command has opened both packs and created an update pack in place of
\* any that was there.
DiffStart ==
  /\ making.pc = "start"
  /\ update' = Bare
  /\ making' = [pc |-> "copy", todo |-> Changed(old, new), pack |-> Bare]
  /\ UNCHANGED <<packs, target, call, flagged>>

\* One changed file is read from the new pack and put in the update.
DiffCopy(p) ==
  /\ making.pc = "copy" /\ p \in making.todo
  /\ making' = [making EXCEPT !.todo = @ \ {p}, !.pack.files[p] = new[p]]
  /\ UNCHANGED <<packs, update, target, call, flagged>>

\* The list of deletions is put in the update, one line for each.
DiffList ==
  /\ making.pc = "copy" /\ making.todo = {}
  /\ making' = [making EXCEPT !.pc = "commit", !.pack.list = Deleted(old, new)]
  /\ UNCHANGED <<packs, update, target, call, flagged>>

\* The commit of the update returned true.
DiffCommit ==
  /\ making.pc = "commit"
  /\ update' = making.pack
  /\ making' = Ended(making)
  /\ UNCHANGED <<packs, target, call, flagged>>

\* A call failed, or the process died: what is found of a commit not reported
\* is all of it or nothing.
DiffFails ==
  /\ making.pc \in {"copy", "commit"}
  /\ update' \in {update} \union (IF Committing(making) THEN {making.pack} ELSE {})
  /\ making' = [making EXCEPT !.pc = "failed"]
  /\ UNCHANGED <<packs, target, call, flagged>>

-----------------------------------------------------------------------------
(* Pack::merge and the merge command.                                      *)

\* merge: the files it puts.
Merged(u) == {p \in Path : u.files[p] # None}

\* merge: what it deletes for the lines of the list.
Listed(u) == UNION {ReadBack[p] : p \in u.list}

\* Nothing is left to put or delete.
Settled(c) == c.todo = {} /\ c.dels = {}

\* The command has opened the update; flags are the paths of its -d options.
MergeStart(flags) ==
  /\ making.pc \in {"none", "done", "failed"} /\ update # NoPack
  /\ view # Closed /\ call = Idle
  /\ call' = [pc |-> "put", todo |-> Merged(update), dels |-> flags]
  /\ flagged' = flagged \union flags
  /\ UNCHANGED <<packs, update, making, target>>

MergePut(p) ==
  /\ call.pc = "put" /\ p \in call.todo
  /\ Target!Put(p, update.files[p])
  /\ call' = [call EXCEPT !.todo = @ \ {p}]
  /\ UNCHANGED <<packs, update, making, flagged>>

\* The update's list has been read; what -d names is deleted after it.
MergeList ==
  /\ call.pc = "put" /\ call.todo = {}
  /\ call' = [call EXCEPT !.pc = "delete", !.dels = @ \union Listed(update)]
  /\ UNCHANGED <<packs, update, making, target, flagged>>

\* A get or put failed: merge returns false with its puts still buffered.
MergeFails ==
  /\ call.pc = "put"
  /\ call' = Idle
  /\ UNCHANGED <<packs, update, making, target, flagged>>

\* A path that is not there is no error.
MergeDel(p) ==
  /\ call.pc = "delete" /\ p \in call.dels
  /\ Target!Del(p) \/ (view[p] = None /\ UNCHANGED target)
  /\ call' = [call EXCEPT !.dels = @ \ {p}]
  /\ UNCHANGED <<packs, update, making, flagged>>

MergeCommit ==
  /\ call.pc = "delete" /\ Settled(call)
  /\ Target!Save \/ Target!SaveFails
  /\ call' = Idle
  /\ UNCHANGED <<packs, update, making, flagged>>

-----------------------------------------------------------------------------
\* The target is opened; its process ends, in a merge or not; power fails.
Session ==
  /\ \/ call = Idle /\ Target!Open
     \/ Target!Close
     \/ Target!PowerLoss
  /\ call' = IF view' = Closed THEN Idle ELSE call
  /\ UNCHANGED <<packs, update, making, flagged>>

\* The update is yet to be made by diff, or was made by hand (README.md:116-121).
Init ==
  /\ start \in Map
  /\ view = start /\ saved = start /\ doubt = {}
  /\ call = Idle
  /\ flagged = {}
  /\ \/ /\ old \in Map /\ new \in Map
        /\ update = NoPack
        /\ making = [pc |-> "start", todo |-> {}, pack |-> Bare]
     \/ /\ old = start /\ new = start
        /\ update \in UpdatePack
        /\ making = [pc |-> "none", todo |-> {}, pack |-> Bare]

Next ==
  \/ DiffStart \/ DiffList \/ DiffCommit \/ DiffFails
  \/ \E p \in Path : DiffCopy(p) \/ MergePut(p) \/ MergeDel(p)
  \/ \E flags \in SUBSET Path : MergeStart(flags)
  \/ MergeList \/ MergeFails \/ MergeCommit
  \/ Session

Spec == Init /\ [][Next]_vars

-----------------------------------------------------------------------------
(* Properties.                                                             *)

TypeOK ==
  /\ {old, new, start, saved} \subseteq Map
  /\ view \in Map \union {Closed} /\ doubt \subseteq Map
  /\ update \in UpdatePack \union {NoPack}
  /\ making \in Making
  /\ call \in Call /\ flagged \subseteq Path

\* What a merge of u, with deletions of flags, is to make of map m: the files of
\* u, without the paths that its list or flags delete, over those of m.
Over(m, u, flags) ==
  [p \in Path |-> IF p \in Listed(u) \union flags THEN None
                  ELSE IF u.files[p] # None THEN u.files[p] ELSE m[p]]

\* An update pack is never found half written: at any failure or end of the diff
\* command it holds all of the update, or nothing, which merges as no change.
UpdateIsWhole == making.pc # "none" => update \in {NoPack, Bare, Update(old, new)}

\* What can be found in the target is always what it was, or all of the update
\* over that: a merge that failed half-way, its retry in the same handle with the
\* puts of the first still buffered, another merge of the same update, and a crash
\* in any of them never make a part of an update durable (Pack::merge, "base-
\* independent, idempotent").
MergeIsAtomic ==
  \A m \in {saved} \union doubt :
    m = start \/ \E flags \in SUBSET flagged : m = Over(start, update, flags)

\* The update that diff wrote turns the old pack into the new one: a merge of it
\* that reported success, after any number that did not, has made the target the
\* new pack (README.md:125-130).
DiffThenMerge ==
  [][/\ MergeCommit /\ Target!Save
     /\ making.pc = "done"
     /\ start = old /\ flagged = {}
     => saved' = new]_vars
=============================================================================

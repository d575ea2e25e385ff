----------------------------- MODULE OverlayProofs -----------------------------
(***************************************************************************)
(* Incremental updates proved for any packs: an update is found whole or   *)
(* not at all, in its own file and in the target, and what diff writes     *)
(* makes the old pack the new one.                                         *)
(***************************************************************************)
EXTENDS Overlay, TLAPS

\* Every path survives being written as a line and read back.
PlainNames == ReadBack = [p \in Path |-> {p}]

-----------------------------------------------------------------------------
(* The law of diff and merge.                                              *)

\* Laying over m the update from m to n gives n.
LEMMA DiffLaw ==
  ASSUME PlainNames, NEW m \in Map, NEW n \in Map
  PROVE  Over(m, Update(m, n), {}) = n
<1>1. Listed(Update(m, n)) = Deleted(m, n)
  BY DEF PlainNames, Listed, Update, Deleted
<1>2. ASSUME NEW p \in Path PROVE Over(m, Update(m, n), {})[p] = n[p]
  BY <1>1 DEF Over, Update, Changed, Deleted, Map
<1>3. Over(m, Update(m, n), {}) = [p \in Path |-> Over(m, Update(m, n), {})[p]]
  BY DEF Over
<1> QED
  BY <1>2, <1>3 DEF Map

\* An update from diff is an update pack.
LEMMA UpdateIsPack ==
  ASSUME NEW m \in Map, NEW n \in Map
  PROVE  Update(m, n) \in UpdatePack
BY DEF Update, UpdatePack, Map, Changed, Deleted

-----------------------------------------------------------------------------
(* The inductive invariant.                                                *)

\* How far the diff command has got.
DiffProgress ==
  /\ making.pc = "none" => update # NoPack
  /\ making.pc = "start" => update = NoPack
  /\ making.pc \in {"copy", "commit"} => update = Bare
  /\ making.pc = "copy" =>
       /\ making.todo \subseteq Changed(old, new)
       /\ making.pack = [files |-> [p \in Path |-> IF p \in Changed(old, new) \ making.todo
                                                   THEN new[p] ELSE None],
                         list |-> {}]
  /\ making.pc = "commit" => making.pack = Update(old, new)
  /\ making.pc = "done" => update = Update(old, new)
  /\ making.pc = "failed" => update \in {Bare, Update(old, new)}

\* There is no merge before there is an update.
NoneTooSoon ==
  making.pc \in {"start", "copy", "commit"} =>
    call = Idle /\ flagged = {} /\ saved = start /\ doubt = {} /\ view \in {start, Closed}

\* Is v[p] what the target had at p, or None where an option may have deleted it?
Kept(v, p) == v[p] = start[p] \/ (p \in flagged /\ v[p] = None)

\* Is v[p] what the update has at p, or None where an option may have deleted it?
Laid(v, p) == v[p] = update.files[p] \/ (p \in flagged /\ v[p] = None)

\* Nothing but what the update touches has changed in v.
Partial(v) == \A p \in Path : p \notin Merged(update) \union Listed(update) => Kept(v, p)

\* How far the merge command has got.
MergeProgress ==
  /\ view # Closed /\ making.pc \notin {"start", "copy", "commit"} => Partial(view)
  /\ call.pc # "idle" =>
       /\ view # Closed
       /\ \A p \in Merged(update) \ call.todo :
            Laid(view, p) \/ (call.pc = "delete" /\ p \in Listed(update))
  /\ call.pc = "put" => call.dels \subseteq flagged /\ call.todo \subseteq Merged(update)
  /\ call.pc = "delete" =>
       /\ call.todo = {}
       /\ call.dels \subseteq flagged \union Listed(update)
       /\ \A p \in Listed(update) \ call.dels : view[p] = None
  /\ call.pc = "idle" => call = Idle

OverlayInv == TypeOK /\ DiffProgress /\ NoneTooSoon /\ MergeProgress /\ MergeIsAtomic

-----------------------------------------------------------------------------
(* Facts about one state.                                                  *)

\* What may be found in the target differs from what it held only by the update.
LEMMA FoundIsPartial ==
  ASSUME NEW m, m = start \/ \E flags \in SUBSET flagged : m = Over(start, update, flags)
  PROVE  Partial(m)
<1>1. CASE m = start
  BY <1>1 DEF Partial, Kept
<1>2. ASSUME NEW flags \in SUBSET flagged, m = Over(start, update, flags)
      PROVE  Partial(m)
  BY <1>2 DEF Partial, Kept, Over, Merged
<1> QED
  BY <1>1, <1>2

\* When nothing is left to put or delete, the view is the update over the target.
LEMMA CompleteIsOver ==
  ASSUME OverlayInv, call.pc = "delete", call.dels = {}
  PROVE  \E flags \in SUBSET flagged : view = Over(start, update, flags)
<1> DEFINE flags == {p \in flagged : view[p] = None}
<1>1. view \in Map /\ view # Closed /\ call.todo = {} /\ making.pc \notin {"start", "copy", "commit"}
  BY DEF OverlayInv, TypeOK, MergeProgress, NoneTooSoon, Idle
<1>2. ASSUME NEW p \in Path
      PROVE  view[p] = Over(start, update, flags)[p]
  <2>1. CASE p \in Listed(update)
    BY <1>1, <2>1 DEF OverlayInv, MergeProgress, Over
  <2>2. CASE p \notin Listed(update) /\ p \in Merged(update)
    BY <1>1, <2>2 DEF OverlayInv, MergeProgress, Laid, Over, Merged
  <2>3. CASE p \notin Listed(update) /\ p \notin Merged(update)
    BY <1>1, <2>3 DEF OverlayInv, MergeProgress, Partial, Kept, Over, Merged
  <2> QED
    BY <2>1, <2>2, <2>3
<1>3. view = Over(start, update, flags)
  BY <1>1, <1>2 DEF Over, Map
<1> QED
  BY <1>3

-----------------------------------------------------------------------------
(* Every step preserves the invariant.                                     *)

LEMMA InitEstablishes == Init => OverlayInv
<1> SUFFICES ASSUME Init PROVE OverlayInv
  OBVIOUS
<1>1. Bare \in UpdatePack /\ Bare.files \in Map
  BY DEF Bare, UpdatePack, Map
<1>2. TypeOK
  BY <1>1, OverlayAssumption DEF Init, TypeOK, Making, Call, Idle
<1>3. DiffProgress
  BY OverlayAssumption DEF Init, DiffProgress
<1>4. NoneTooSoon
  BY DEF Init, NoneTooSoon
<1>5. MergeProgress
  BY DEF Init, MergeProgress, Partial, Kept, Idle
<1>6. MergeIsAtomic
  BY DEF Init, MergeIsAtomic
<1> QED
  BY <1>2, <1>3, <1>4, <1>5, <1>6 DEF OverlayInv

\* The steps of the diff command: no merge is under way, nor has one been.
LEMMA DiffPreserves ==
  ASSUME OverlayInv, DiffStart \/ DiffList \/ DiffCommit \/ DiffFails \/ \E p \in Path : DiffCopy(p)
  PROVE  OverlayInv'
<1> USE DEF OverlayInv
<1>1. UNCHANGED <<packs, target, call, flagged>> /\ making.pc \in {"start", "copy", "commit"}
  BY DEF DiffStart, DiffList, DiffCommit, DiffFails, DiffCopy
<1>2. call = Idle /\ flagged = {} /\ saved = start /\ doubt = {} /\ view \in {start, Closed}
  BY <1>1 DEF NoneTooSoon
<1>3. /\ old \in Map /\ new \in Map /\ Update(old, new) \in UpdatePack
      /\ Bare \in UpdatePack /\ NoPack \notin UpdatePack
  BY OverlayAssumption, UpdateIsPack DEF TypeOK, Bare, UpdatePack, Map
<1>4. making' \in Making /\ update' \in UpdatePack /\ DiffProgress'
  <2>1. CASE DiffStart
    BY <1>1, <1>3, <2>1 DEF DiffStart, TypeOK, Making, DiffProgress, Bare, Changed, packs
  <2>2. ASSUME NEW p \in Path, DiffCopy(p)
        PROVE  making' \in Making /\ update' \in UpdatePack /\ DiffProgress'
    <3>1. /\ making.pc = "copy" /\ p \in making.todo /\ update' = update /\ UNCHANGED <<old, new>>
          /\ making' = [making EXCEPT !.todo = @ \ {p}, !.pack.files[p] = new[p]]
      BY <2>2 DEF DiffCopy, packs
    <3>2. making.todo \subseteq Changed(old, new) /\ making \in Making
          /\ making.pack = [files |-> [q \in Path |-> IF q \in Changed(old, new) \ making.todo
                                                      THEN new[q] ELSE None], list |-> {}]
      BY <3>1 DEF DiffProgress, TypeOK
    <3>3. /\ making'.pc = "copy" /\ making'.todo = making.todo \ {p}
          /\ making'.pack.list = {}
          /\ making'.pack.files = [making.pack.files EXCEPT ![p] = new[p]]
          /\ making'.pack = [files |-> making'.pack.files, list |-> {}]
          /\ making' = [pc |-> "copy", todo |-> making'.todo, pack |-> making'.pack]
      <4>1. making = [pc |-> making.pc, todo |-> making.todo, pack |-> making.pack]
            /\ making.pack = [files |-> making.pack.files, list |-> making.pack.list]
        BY <3>2 DEF Making
      <4>2. making' = [pc |-> making.pc, todo |-> making.todo \ {p},
                       pack |-> [making.pack EXCEPT !.files[p] = new[p]]]
        BY ONLY <3>1, <4>1
      <4>3. [making.pack EXCEPT !.files[p] = new[p]] =
              [files |-> [making.pack.files EXCEPT ![p] = new[p]], list |-> making.pack.list]
        BY ONLY <4>1
      <4>4. making.pack.list = {}
        BY ONLY <3>2
      <4> QED
        BY ONLY <3>1, <4>2, <4>3, <4>4
    <3>4. making'.pack.files = [q \in Path |-> IF q \in Changed(old, new) \ making'.todo
                                               THEN new[q] ELSE None]
      BY <3>1, <3>2, <3>3
    <3>5. making'.pack.files \in Map
      BY <1>3, <3>4 DEF Map
    <3>6. making' \in Making
      BY <3>2, <3>3, <3>5 DEF Making, UpdatePack
    <3>7. DiffProgress'
      BY <3>1, <3>2, <3>3, <3>4 DEF DiffProgress, Changed
    <3> QED
      BY <1>3, <3>1, <3>2, <3>6, <3>7 DEF DiffProgress, Making
  <2>3. CASE DiffList
    <3>1. /\ making.pc = "copy" /\ making.todo = {} /\ update' = update /\ UNCHANGED <<old, new>>
          /\ making' = [making EXCEPT !.pc = "commit", !.pack.list = Deleted(old, new)]
      BY <2>3 DEF DiffList, packs
    <3>2. making \in Making
          /\ making.pack = [files |-> [q \in Path |-> IF q \in Changed(old, new)
                                                      THEN new[q] ELSE None], list |-> {}]
      BY <3>1 DEF DiffProgress, TypeOK
    <3>3. making' = [pc |-> "commit", todo |-> {}, pack |-> Update(old, new)]
      <4>1. making = [pc |-> making.pc, todo |-> making.todo, pack |-> making.pack]
            /\ making.pack = [files |-> making.pack.files, list |-> making.pack.list]
        BY <3>2 DEF Making
      <4>2. making' = [pc |-> "commit", todo |-> {},
                       pack |-> [making.pack EXCEPT !.list = Deleted(old, new)]]
        BY ONLY <3>1, <4>1
      <4>3. [making.pack EXCEPT !.list = Deleted(old, new)] =
              [files |-> making.pack.files, list |-> Deleted(old, new)]
        BY ONLY <4>1
      <4>4. making.pack.files = [q \in Path |-> IF q \in Changed(old, new) THEN new[q] ELSE None]
        BY ONLY <3>2
      <4> QED
        BY ONLY <4>2, <4>3, <4>4 DEF Update
    <3>4. making' \in Making
      BY <1>3, <3>3 DEF Making
    <3>5. Update(old, new)' = Update(old, new) /\ update' = Bare
      BY <3>1 DEF Update, Changed, Deleted, DiffProgress
    <3>6. DiffProgress'
      BY <3>3, <3>5 DEF DiffProgress
    <3> QED
      BY <1>3, <3>1, <3>4, <3>5, <3>6
  <2>4. CASE DiffCommit
    BY <1>1, <1>3, <2>4 DEF DiffCommit, Ended, TypeOK, Making, DiffProgress, packs, Update, Changed, Deleted
  <2>5. CASE DiffFails
    BY <1>1, <1>3, <2>5 DEF DiffFails, Committing, TypeOK, Making, DiffProgress, packs, Update, Changed, Deleted
  <2> QED
    BY <2>1, <2>2, <2>3, <2>4, <2>5
<1>5. TypeOK'
  BY <1>1, <1>4 DEF TypeOK, packs, target
<1>6. NoneTooSoon'
  BY <1>1, <1>2 DEF NoneTooSoon, packs, target, Idle
<1>7. MergeIsAtomic'
  BY <1>1, <1>2 DEF MergeIsAtomic, packs, target
<1>8. MergeProgress'
  BY <1>1, <1>2 DEF MergeProgress, Partial, Kept, packs, target, Idle
<1> QED
  BY <1>4, <1>5, <1>6, <1>7, <1>8

\* What the steps of the merge command leave alone.
LEMMA MergeLeaves ==
  ASSUME OverlayInv, UNCHANGED <<packs, update, making>>, making.pc \notin {"start", "copy", "commit"}
  PROVE  DiffProgress' /\ NoneTooSoon'
<1>1. Update(old, new)' = Update(old, new)
  BY DEF packs, Update, Changed, Deleted
<1> QED
  BY <1>1 DEF OverlayInv, DiffProgress, NoneTooSoon

\* A merge under way has an update to merge into an open target.
LEMMA MergeIsUnderWay ==
  ASSUME OverlayInv, call.pc # "idle"
  PROVE  /\ making.pc \notin {"start", "copy", "commit"}
         /\ update \in UpdatePack /\ update.files \in Map /\ view \in Map /\ Partial(view)
BY OverlayAssumption DEF OverlayInv, TypeOK, NoneTooSoon, MergeProgress, DiffProgress, Making,
   UpdatePack, Bare, Map, Update, Changed, Deleted, Idle

\* What may be found stays so when the target's file and the history stay.
LEMMA AtomicStays ==
  ASSUME MergeIsAtomic, UNCHANGED <<start, update, saved, doubt>>, flagged \subseteq flagged'
  PROVE  MergeIsAtomic'
<1>1. \A flags : Over(start, update, flags)' = Over(start, update, flags)
  BY DEF Over, Listed
<1> QED
  BY <1>1 DEF MergeIsAtomic

LEMMA MergeStartPreserves ==
  ASSUME OverlayInv, NEW flags \in SUBSET Path, MergeStart(flags)
  PROVE  OverlayInv'
<1>1. /\ UNCHANGED <<packs, update, making, target>> /\ view # Closed /\ call.pc = "idle"
      /\ call' = [pc |-> "put", todo |-> Merged(update), dels |-> flags]
      /\ flagged' = flagged \union flags /\ making.pc \notin {"start", "copy", "commit"}
  BY DEF MergeStart, Idle
<1>2. TypeOK'
  BY <1>1 DEF OverlayInv, TypeOK, packs, target, Call, Merged
<1>3. Partial(view)'
  BY <1>1 DEF OverlayInv, MergeProgress, Partial, Kept, Merged, Listed, packs, target
<1>4. MergeProgress'
  BY <1>1, <1>3 DEF MergeProgress, Merged, target
<1>5. MergeIsAtomic'
  BY <1>1, AtomicStays DEF OverlayInv, packs, target
<1> QED
  BY <1>1, <1>2, <1>4, <1>5, MergeLeaves DEF OverlayInv

LEMMA MergePutPreserves ==
  ASSUME OverlayInv, NEW p \in Path, MergePut(p)
  PROVE  OverlayInv'
<1>1. /\ UNCHANGED <<packs, update, making, flagged, saved, doubt>>
      /\ call.pc = "put" /\ p \in call.todo /\ view # Closed
      /\ view' = [view EXCEPT ![p] = update.files[p]]
      /\ call' = [call EXCEPT !.todo = @ \ {p}]
  BY DEF MergePut, Target!Put, Target!Change
<1>2. /\ making.pc \notin {"start", "copy", "commit"}
      /\ update.files \in Map /\ view \in Map /\ Partial(view)
  BY <1>1, MergeIsUnderWay
<1>3. view' \in Map /\ view' # Closed
  BY <1>1, <1>2, OverlayAssumption DEF Map
<1>4. call' = [pc |-> "put", todo |-> call.todo \ {p}, dels |-> call.dels] /\ p \in Merged(update)
  BY <1>1 DEF OverlayInv, TypeOK, Call, MergeProgress
<1>5. TypeOK'
  BY <1>1, <1>3, <1>4 DEF OverlayInv, TypeOK, packs, Call
<1>6. Partial(view)'
  BY <1>1, <1>2, <1>3, <1>4 DEF Partial, Kept, Merged, Listed, packs, Map
<1>7. \A q \in Merged(update) \ call'.todo : Laid(view', q)
  BY <1>1, <1>2, <1>4 DEF OverlayInv, MergeProgress, Laid, Merged, Map
<1>8. MergeProgress'
  BY <1>1, <1>3, <1>4, <1>6, <1>7 DEF OverlayInv, MergeProgress, Laid, Merged
<1>9. MergeIsAtomic'
  BY <1>1, AtomicStays DEF OverlayInv, packs
<1> QED
  BY <1>1, <1>2, <1>5, <1>8, <1>9, MergeLeaves DEF OverlayInv

LEMMA MergeListPreserves ==
  ASSUME OverlayInv, MergeList
  PROVE  OverlayInv'
<1>1. /\ UNCHANGED <<packs, update, making, flagged, target>>
      /\ call.pc = "put" /\ call.todo = {}
      /\ call' = [call EXCEPT !.pc = "delete", !.dels = @ \union Listed(update)]
  BY DEF MergeList
<1>2. /\ making.pc \notin {"start", "copy", "commit"} /\ update \in UpdatePack /\ Partial(view)
  BY <1>1, MergeIsUnderWay
<1>3. call' = [pc |-> "delete", todo |-> {}, dels |-> call.dels \union Listed(update)]
      /\ call.dels \subseteq flagged
  BY <1>1 DEF OverlayInv, TypeOK, Call, MergeProgress
<1>4. Listed(update) \subseteq Path
  BY <1>2, OverlayAssumption DEF Listed, UpdatePack
<1>5. TypeOK'
  BY <1>1, <1>3, <1>4 DEF OverlayInv, TypeOK, packs, target, Call
<1>6. Partial(view)' /\ Listed(update)' = Listed(update)
  BY <1>1, <1>2 DEF Partial, Kept, Merged, Listed, packs, target
<1>7. MergeProgress'
  BY <1>1, <1>3, <1>6 DEF OverlayInv, MergeProgress, Laid, Merged, target
<1>8. MergeIsAtomic'
  BY <1>1, AtomicStays DEF OverlayInv, packs, target
<1> QED
  BY <1>1, <1>2, <1>5, <1>7, <1>8, MergeLeaves DEF OverlayInv

LEMMA MergeFailsPreserves ==
  ASSUME OverlayInv, MergeFails
  PROVE  OverlayInv'
<1>1. UNCHANGED <<packs, update, making, flagged, target>> /\ call.pc = "put" /\ call' = Idle
  BY DEF MergeFails
<1>2. making.pc \notin {"start", "copy", "commit"} /\ Partial(view)
  BY <1>1, MergeIsUnderWay
<1>3. TypeOK'
  BY <1>1 DEF OverlayInv, TypeOK, packs, target, Call, Idle
<1>4. MergeProgress'
  BY <1>1, <1>2 DEF MergeProgress, Partial, Kept, Merged, Listed, packs, target, Idle
<1>5. MergeIsAtomic'
  BY <1>1, AtomicStays DEF OverlayInv, packs, target
<1> QED
  BY <1>1, <1>2, <1>3, <1>4, <1>5, MergeLeaves DEF OverlayInv

LEMMA MergeDelPreserves ==
  ASSUME OverlayInv, NEW p \in Path, MergeDel(p)
  PROVE  OverlayInv'
<1>1. /\ UNCHANGED <<packs, update, making, flagged, saved, doubt>>
      /\ call.pc = "delete" /\ p \in call.dels
      /\ call' = [call EXCEPT !.dels = @ \ {p}]
      /\ view' = [view EXCEPT ![p] = None] \/ (view[p] = None /\ view' = view)
  BY DEF MergeDel, Target!Del, Target!Change, target
<1>2. /\ making.pc \notin {"start", "copy", "commit"}
      /\ update.files \in Map /\ view \in Map /\ Partial(view)
  BY <1>1, MergeIsUnderWay
<1>3. /\ view' \in Map /\ view' # Closed /\ view'[p] = None
      /\ \A q \in Path \ {p} : view'[q] = view[q]
  BY <1>1, <1>2, OverlayAssumption DEF Map
<1>4. call' = [pc |-> "delete", todo |-> {}, dels |-> call.dels \ {p}]
      /\ p \in flagged \union Listed(update) /\ call.todo = {}
  BY <1>1 DEF OverlayInv, TypeOK, Call, MergeProgress
<1>5. TypeOK'
  BY <1>1, <1>3, <1>4 DEF OverlayInv, TypeOK, packs, Call
<1>6. Listed(update)' = Listed(update) /\ Merged(update)' = Merged(update)
  BY <1>1 DEF Listed, Merged
<1>7. Partial(view)'
  BY <1>1, <1>2, <1>3, <1>4, <1>6 DEF Partial, Kept, packs
<1>8. \A q \in Merged(update) : Laid(view', q) \/ q \in Listed(update)
  BY <1>1, <1>3, <1>4 DEF OverlayInv, MergeProgress, Laid, Merged
<1>9. \A q \in Listed(update) \ call'.dels : view'[q] = None
  <2>1. Listed(update) \subseteq Path
    BY <1>1, <1>2, MergeIsUnderWay, OverlayAssumption DEF Listed, UpdatePack
  <2> QED
    BY <1>1, <1>3, <1>4, <2>1 DEF OverlayInv, MergeProgress
<1>10. MergeProgress'
  BY <1>1, <1>3, <1>4, <1>6, <1>7, <1>8, <1>9 DEF OverlayInv, MergeProgress, Laid
<1>11. MergeIsAtomic'
  BY <1>1, AtomicStays DEF OverlayInv, packs
<1> QED
  BY <1>1, <1>2, <1>5, <1>10, <1>11, MergeLeaves DEF OverlayInv

LEMMA MergeCommitPreserves ==
  ASSUME OverlayInv, MergeCommit
  PROVE  OverlayInv'
<1>1. /\ UNCHANGED <<packs, update, making, flagged, view>>
      /\ call.pc = "delete" /\ call.dels = {} /\ call' = Idle
      /\ \/ saved' = view /\ doubt' = {}
         \/ saved' = saved /\ doubt' = doubt \union {view}
  BY DEF MergeCommit, Settled, Target!Save, Target!SaveFails
<1>2. making.pc \notin {"start", "copy", "commit"} /\ view \in Map /\ Partial(view)
  BY <1>1, MergeIsUnderWay
<1>3. \E flags \in SUBSET flagged : view = Over(start, update, flags)
  BY <1>1, CompleteIsOver
<1>4. TypeOK'
  BY <1>1, <1>2 DEF OverlayInv, TypeOK, packs, Call, Idle
<1>5. MergeProgress'
  BY <1>1, <1>2 DEF MergeProgress, Partial, Kept, Merged, Listed, packs, Idle
<1>6. \A flags : Over(start, update, flags)' = Over(start, update, flags)
  BY <1>1 DEF Over, Listed, packs
<1>7. MergeIsAtomic'
  BY <1>1, <1>3, <1>6 DEF OverlayInv, MergeIsAtomic, packs
<1> QED
  BY <1>1, <1>2, <1>4, <1>5, <1>7, MergeLeaves DEF OverlayInv

LEMMA SessionPreserves ==
  ASSUME OverlayInv, Session
  PROVE  OverlayInv'
<1> USE DEF OverlayInv
<1>1. /\ UNCHANGED <<packs, update, making, flagged>>
      /\ saved' \in {saved} \union doubt
      /\ doubt' \in {doubt, {}}
      /\ \/ view' = Closed /\ call' = Idle
         \/ view' \in {saved} \union doubt /\ call = Idle /\ (view' # Closed => call' = Idle)
            /\ (view' = Closed => call' = Idle)
  BY DEF Session, Target!Open, Target!Close, Target!PowerLoss
<1>2. call' = Idle
  BY <1>1
<1>3. TypeOK'
  BY <1>1, <1>2 DEF TypeOK, packs, Call, Idle
<1>4. \A flags : Over(start, update, flags)' = Over(start, update, flags)
  BY <1>1 DEF Over, Listed, packs
<1>5. MergeIsAtomic'
  BY <1>1, <1>4 DEF MergeIsAtomic, packs
<1>6. CASE making.pc \in {"start", "copy", "commit"}
  <2>1. Update(old, new)' = Update(old, new)
    BY <1>1 DEF packs, Update, Changed, Deleted
  <2>2. DiffProgress'
    BY <1>1, <2>1 DEF DiffProgress, packs, Changed
  <2>3. NoneTooSoon'
    BY <1>1, <1>2, <1>6 DEF NoneTooSoon, packs, Idle
  <2>4. MergeProgress'
    BY <1>1, <1>2, <1>6 DEF MergeProgress, Idle
  <2> QED
    BY <1>3, <1>5, <2>2, <2>3, <2>4
<1>7. CASE making.pc \notin {"start", "copy", "commit"}
  <2>1. view' # Closed => Partial(view')
    BY <1>1, FoundIsPartial DEF MergeIsAtomic
  <2>2. Partial(view') => Partial(view)'
    BY <1>1 DEF Partial, Kept, Merged, Listed, packs
  <2>3. MergeProgress'
    BY <1>1, <1>2, <2>1, <2>2 DEF MergeProgress, Idle
  <2> QED
    BY <1>1, <1>3, <1>5, <1>7, <2>3, MergeLeaves
<1> QED
  BY <1>6, <1>7

LEMMA NextPreserves == OverlayInv /\ [Next]_vars => OverlayInv'
<1> SUFFICES ASSUME OverlayInv, [Next]_vars PROVE OverlayInv'
  OBVIOUS
<1>1. CASE DiffStart \/ DiffList \/ DiffCommit \/ DiffFails \/ \E p \in Path : DiffCopy(p)
  BY <1>1, DiffPreserves
<1>2. ASSUME NEW p \in Path, MergePut(p) \/ MergeDel(p) PROVE OverlayInv'
  BY <1>2, MergePutPreserves, MergeDelPreserves
<1>3. ASSUME NEW flags \in SUBSET Path, MergeStart(flags) PROVE OverlayInv'
  BY <1>3, MergeStartPreserves
<1>4. CASE MergeList \/ MergeFails \/ MergeCommit \/ Session
  BY <1>4, MergeListPreserves, MergeFailsPreserves, MergeCommitPreserves, SessionPreserves
<1>5. CASE UNCHANGED vars
  <2>1. UNCHANGED <<packs, update, making, target, call, flagged, old, new, start, view, saved, doubt>>
    BY <1>5 DEF vars, packs, target
  <2>2. Update(old, new)' = Update(old, new) /\ Changed(old, new)' = Changed(old, new)
        /\ \A flags : Over(start, update, flags)' = Over(start, update, flags)
    BY <2>1 DEF Update, Changed, Deleted, Over, Listed
  <2>3. TypeOK' /\ DiffProgress' /\ NoneTooSoon' /\ MergeIsAtomic'
    BY <2>1, <2>2 DEF OverlayInv, TypeOK, DiffProgress, NoneTooSoon, MergeIsAtomic
  <2>4. MergeProgress'
    BY <2>1 DEF OverlayInv, MergeProgress, Partial, Kept, Laid, Merged, Listed
  <2> QED
    BY <2>3, <2>4 DEF OverlayInv
<1> QED
  BY <1>1, <1>2, <1>3, <1>4, <1>5 DEF Next

-----------------------------------------------------------------------------
(* The theorems.                                                           *)

LEMMA Invariance == Spec => []OverlayInv
BY InitEstablishes, NextPreserves, PTL DEF Spec

\* Every state of diff and merge has the types that the code gives it.
THEOREM OverlayTypes == Spec => []TypeOK
<1>1. OverlayInv => TypeOK
  BY DEF OverlayInv
<1> QED
  BY <1>1, Invariance, PTL

\* What may be found in the target is what it held or the update over all of it,
\* for any packs, any lines and any merges, failed, repeated and cut short.
THEOREM AtomicMerge == Spec => []MergeIsAtomic
<1>1. OverlayInv => MergeIsAtomic
  BY DEF OverlayInv
<1> QED
  BY <1>1, Invariance, PTL

\* An update pack is found whole or empty, wherever the diff command failed.
THEOREM WholeUpdate == Spec => []UpdateIsWhole
<1>1. OverlayInv => UpdateIsWhole
  BY DEF OverlayInv, TypeOK, Making, DiffProgress, UpdateIsWhole
<1> QED
  BY <1>1, Invariance, PTL

\* A merge of what diff wrote makes the old pack the new one, for any two packs
\* whose paths can be written as lines.
THEOREM DiffAndMerge ==
  ASSUME PlainNames
  PROVE  Spec => DiffThenMerge
<1>1. ASSUME OverlayInv, MergeCommit, Target!Save, making.pc = "done", start = old, flagged = {}
      PROVE  saved' = new
  <2>1. view = Over(old, Update(old, new), {})
    BY <1>1, CompleteIsOver DEF OverlayInv, DiffProgress, MergeCommit, Settled
  <2>2. old \in Map /\ new \in Map /\ saved' = view
    BY <1>1 DEF OverlayInv, TypeOK, Target!Save
  <2> QED
    BY <2>1, <2>2, DiffLaw
<1>2. OverlayInv /\ [Next]_vars =>
        [/\ MergeCommit /\ Target!Save
         /\ making.pc = "done"
         /\ start = old /\ flagged = {}
         => saved' = new]_vars
  BY <1>1
<1> QED
  BY <1>2, Invariance, PTL DEF Spec, DiffThenMerge
=============================================================================

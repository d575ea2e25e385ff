----------------------------- MODULE ShellProofs -----------------------------
(***************************************************************************)
(* What a session of the command line keeps: proofs for Shell, for any     *)
(* paths, contents and passwords and any number of failed saves.           *)
(***************************************************************************)
EXTENDS Shell, TLAPS

\* Between the change and the commit of a command the handle shows the change; for
\* the rest it shows what the last successful commands made.
ViewIsAcked ==
  /\ view = Closed => command = Prompt
  /\ command.at = "changed" => \A p \in DOMAIN command.edit : view[p] = command.edit[p]
  /\ view # Closed =>
       \A p \in Path :
         acked[p] # Unknown /\ (command.at = "changed" => p \notin DOMAIN command.edit)
           => view[p] = acked[p]

\* The file of a running editor, and what was read back from it, are whole.
TextIsWhole ==
  /\ temp # None => command.at = "editor"
  /\ command.at = "editor" => temp \in Draft /\ (~TempErrors => temp.whole)
  /\ command.at = "edited" => (~TempErrors => command.edited.whole)

\* Only nothing is not typed.
Typed(n) == n.typed \/ n.password = Empty

SecretsAgree ==
  /\ SessionOpens /\ NoneMistyped
  /\ command.at = "confirm" => Typed(command.n1)
  /\ command.at = "confirmed" => Typed(command.n1) /\ Typed(command.n2)

ShellInv == TypeOK /\ SuccessIsDurable /\ ViewIsAcked /\ TextIsWhole /\ SecretsAgree

-----------------------------------------------------------------------------
(* The parts of a command, and the changes that commands make.             *)

LEMMA CommandParts ==
  ASSUME NEW c \in Command
  PROVE  /\ c.at \in {"prompt", "changed", "editor", "edited", "confirm", "confirmed"}
         /\ c.at = "prompt" => c = Prompt
         /\ c.at = "changed" => c.edit \in Edits
         /\ c.at = "editor" => c.path \in Path /\ c.data \in Text
         /\ c.at = "edited" => c.path \in Path /\ c.data \in Text /\ c.edited \in Draft
         /\ c.at = "confirm" => c.n1 \in Answer
         /\ c.at = "confirmed" => c.n1 \in Answer /\ c.n2 \in Answer
<1> USE DEF Command
<1>1. CASE c = Prompt
  BY <1>1 DEF Prompt
<1>2. CASE c \in [at : {"changed"}, edit : Edits]
  BY <1>2
<1>3. CASE c \in [at : {"editor"}, path : Path, data : Text]
  BY <1>3
<1>4. CASE c \in [at : {"edited"}, path : Path, data : Text, edited : Draft]
  BY <1>4
<1>5. CASE c \in [at : {"confirm"}, n1 : Answer]
  BY <1>5
<1>6. CASE c \in [at : {"confirmed"}, n1 : Answer, n2 : Answer]
  BY <1>6
<1> QED
  BY <1>1, <1>2, <1>3, <1>4, <1>5, <1>6

LEMMA EditParts ==
  ASSUME NEW e \in Edits
  PROVE  DOMAIN e \subseteq Path /\ \A p \in DOMAIN e : e[p] \in Content \union {None}
BY DEF Edits

LEMMA EditOf ==
  ASSUME NEW S \in SUBSET Path, NEW e \in [S -> Content \union {None}]
  PROVE  e \in Edits
BY DEF Edits

\* The handle has what e says, and the rest as before.
Applies(e) ==
  e \in Edits /\ view # Closed /\ view' = Laid(e) /\ Changed(e) /\ UNCHANGED <<saved, doubt>>

LEMMA LaidIsMap == ASSUME TypeOK, view # Closed, NEW e \in Edits PROVE Laid(e) \in Map
BY EditParts DEF TypeOK, Laid, Map

LEMMA PutApplies ==
  ASSUME TypeOK, NEW p \in Path, NEW c \in Content, Handle!Put(p, c),
         Changed([q \in {p} |-> c])
  PROVE  \E e \in Edits : Applies(e)
<1> DEFINE e == [q \in {p} |-> c]
<1>1. e \in Edits
  BY EditOf
<1>2. view' = Laid(e)
  BY DEF Laid, Handle!Put, Handle!Change, TypeOK, Map
<1> QED
  BY <1>1, <1>2 DEF Applies, Handle!Put, Handle!Change

LEMMA RmApplies ==
  ASSUME TypeOK, NEW p \in Path, Rm(p)
  PROVE  \E e \in Edits : Applies(e)
<1> DEFINE e == [q \in {p} |-> None]
<1>1. e \in Edits
  BY EditOf
<1>2. view' = Laid(e)
  BY DEF Rm, Laid, Handle!Del, Handle!Change, TypeOK, Map
<1> QED
  BY <1>1, <1>2 DEF Applies, Rm, Handle!Del, Handle!Change

LEMMA CpApplies ==
  ASSUME TypeOK, NEW f \in Path, NEW t \in Path, Cp(f, t)
  PROVE  \E e \in Edits : Applies(e)
<1> DEFINE e == [q \in {t} |-> view[f]]
<1>1. view \in Map
  BY DEF TypeOK, Cp, AtPrompt
<1>2. e \in [{t} -> Content \union {None}]
  BY <1>1 DEF Map
<1>3. e \in Edits
  BY <1>2, EditOf
<1>4. view' = Laid(e)
  BY <1>1 DEF Cp, Laid, Handle!Copy, Handle!Change, Map
<1> QED
  BY <1>3, <1>4 DEF Applies, Cp, Handle!Copy, Handle!Change

LEMMA MvApplies ==
  ASSUME TypeOK, NEW f \in Path, NEW t \in Path, Mv(f, t)
  PROVE  \E e \in Edits : Applies(e)
<1> DEFINE e == [q \in {f, t} |-> IF q = f THEN None ELSE view[f]]
<1>1. view \in Map /\ f # t
  BY DEF TypeOK, Mv, AtPrompt, Handle!Move
<1>2. e \in [{f, t} -> Content \union {None}]
  BY <1>1 DEF Map
<1>3. e \in Edits
  BY <1>2, EditOf
<1>4. view' = Laid(e)
  BY <1>1 DEF Mv, Laid, Handle!Move, Handle!Change, Map
<1> QED
  BY <1>3, <1>4 DEF Applies, Mv, Handle!Move, Handle!Change

LEMMA MergeApplies ==
  ASSUME NEW e \in Edits, Merge(e)
  PROVE  Applies(e)
BY DEF Applies, Merge, AtPrompt, Handle!Change

LEMMA WriteBackApplies ==
  ASSUME TypeOK, WriteBack
  PROVE  \/ \E e \in Edits : Applies(e)
         \/ command' = Prompt /\ UNCHANGED <<handle, hasStore, temp, secrets, acked>>
<1>1. command.path \in Path /\ command.edited.text \in Content
  BY CommandParts DEF WriteBack, At, TypeOK, Draft
<1> QED
  BY <1>1, PutApplies DEF WriteBack

-----------------------------------------------------------------------------
(* Types.                                                                  *)

LEMMA AckedTypes ==
  ASSUME TypeOK
  PROVE  /\ \A S \in SUBSET Path : Withdrawn(S) \in [Path -> Content \union {None, Unknown}]
         /\ \A e \in Edits :
              [p \in Path |-> IF p \in DOMAIN e THEN e[p] ELSE acked[p]]
                \in [Path -> Content \union {None, Unknown}]
<1>1. acked \in [Path -> Content \union {None, Unknown}]
  BY DEF TypeOK
<1>2. ASSUME NEW e \in Edits
      PROVE  [p \in Path |-> IF p \in DOMAIN e THEN e[p] ELSE acked[p]]
               \in [Path -> Content \union {None, Unknown}]
  BY <1>1, <1>2, EditParts
<1> QED
  BY <1>1, <1>2 DEF Withdrawn

LEMMA EndedTypes == TypeOK /\ Ended => command' \in Command /\ acked' \in [Path -> Content \union {None, Unknown}]
<1> SUFFICES ASSUME TypeOK, Ended
             PROVE  command' \in Command /\ acked' \in [Path -> Content \union {None, Unknown}]
  OBVIOUS
<1>1. (IF At("changed") THEN DOMAIN command.edit ELSE {}) \subseteq Path
  BY CommandParts, EditParts DEF TypeOK, At
<1> QED
  BY <1>1, AckedTypes DEF Ended, Command

LEMMA TypeInit == Init => TypeOK
BY ShellAssumption DEF Init, TypeOK, Command, Map

LEMMA TypeApplies ==
  ASSUME TypeOK, NEW e \in Edits, Applies(e)
  PROVE  TypeOK'
<1>1. view' \in Map
  BY LaidIsMap DEF Applies
<1>2. command' \in Command
  BY DEF Applies, Changed, Command
<1> QED
  BY <1>1, <1>2 DEF TypeOK, Applies, Changed, secrets

LEMMA TypeStep == TypeOK /\ TextIsWhole /\ [Next]_vars => TypeOK'
<1> SUFFICES ASSUME TypeOK, TextIsWhole, [Next]_vars
             PROVE  TypeOK'
  OBVIOUS
<1> USE DEF TypeOK, handle, secrets
<1>1. ASSUME NEW p \in Path, NEW c \in Content, Add(p, c) PROVE TypeOK'
  BY <1>1, PutApplies, TypeApplies DEF Add
<1>2. ASSUME NEW p \in Path, Rm(p) PROVE TypeOK'
  BY <1>2, RmApplies, TypeApplies
<1>3. ASSUME NEW p \in Path, EditOpens(p) PROVE TypeOK'
  <2>1. command' \in Command
    BY <1>3 DEF EditOpens, Editable, Command
  <2>2. view[p] \in Content
    BY <1>3, ShellAssumption DEF EditOpens, Editable
  <2>3. CutShort \subseteq Draft
    BY DEF CutShort, Draft
  <2>4. [text |-> view[p], whole |-> TRUE] \in Draft
    BY <2>2 DEF Draft
  <2>5. temp' \in Draft
    BY <1>3, <2>3, <2>4 DEF EditOpens
  <2> QED
    BY <1>3, <2>1, <2>5 DEF EditOpens
<1>4. ASSUME NEW f \in Path, NEW t \in Path, Cp(f, t) PROVE TypeOK'
  BY <1>4, CpApplies, TypeApplies
<1>5. ASSUME NEW f \in Path, NEW t \in Path, Mv(f, t) PROVE TypeOK'
  BY <1>5, MvApplies, TypeApplies
<1>6. ASSUME NEW e \in Edits, Merge(e) PROVE TypeOK'
  BY <1>6, MergeApplies, TypeApplies
<1>7. ASSUME NEW e \in Edits, MergeFails(e) PROVE TypeOK'
  <2>1. view' \in Map
    BY <1>7, LaidIsMap DEF MergeFails, AtPrompt, Handle!Change
  <2>2. acked' \in [Path -> Content \union {None, Unknown}]
    BY <1>7, AckedTypes, EditParts DEF MergeFails
  <2> QED
    BY <1>7, <2>1, <2>2 DEF MergeFails, Handle!Change
<1>8. CASE Commit
  <2>1. command.edit \in Edits
    BY <1>8, CommandParts DEF Commit, At
  <2>2. acked' \in [Path -> Content \union {None, Unknown}]
    BY <1>8, <2>1, AckedTypes, EditParts DEF Commit
  <2>3. command' \in Command
    BY <1>8 DEF Commit, Command
  <2> QED
    BY <1>8, <2>2, <2>3 DEF Commit, At, Handle!Save, Handle!SaveFails
<1>9. CASE Compact
  BY <1>9 DEF Compact, AtPrompt, Handle!Save, Handle!SaveFails
<1>10. ASSUME NEW c \in Content, EditorSaves(c) PROVE TypeOK'
  <2>1. temp \in Draft
    BY <1>10 DEF EditorSaves, At, TextIsWhole
  <2>2. [temp EXCEPT !.text = c] \in Draft
    BY <2>1 DEF Draft
  <2> QED
    BY <1>10, <2>2 DEF EditorSaves
<1>11. CASE EditorEnds
  <2>1. temp \in Draft /\ command.path \in Path /\ command.data \in Text
    BY <1>11, CommandParts DEF EditorEnds, At, TextIsWhole
  <2>2. CutShort \subseteq Draft
    BY DEF CutShort, Draft
  <2>3. PICK ended \in {"clean", "failed", "unreadable"} :
          IF ReadBack(ended)
          THEN \E left \in {[temp EXCEPT !.whole = @ /\ ended = "clean"]} \union CutShort :
                 command' = [at |-> "edited", path |-> command.path, data |-> command.data, edited |-> left]
          ELSE command' = Prompt
    BY <1>11 DEF EditorEnds
  <2>4. command' \in Command
    <3>1. CASE ~ReadBack(ended)
      BY <2>3, <3>1 DEF Command
    <3>2. CASE ReadBack(ended)
      <4>1. PICK left \in {[temp EXCEPT !.whole = @ /\ ended = "clean"]} \union CutShort :
              command' = [at |-> "edited", path |-> command.path, data |-> command.data, edited |-> left]
        BY <2>3, <3>2
      <4>2. [temp EXCEPT !.whole = @ /\ ended = "clean"] \in Draft
        BY <2>1, <3>2 DEF Draft, ReadBack
      <4>3. left \in Draft
        BY <4>1, <4>2, <2>2
      <4> QED
        BY <4>1, <4>3, <2>1 DEF Command
    <3> QED
      BY <3>1, <3>2
  <2> QED
    BY <1>11, <2>3, <2>4 DEF EditorEnds
<1>12. CASE WriteBack
  <2>1. CASE command' = Prompt /\ UNCHANGED <<handle, hasStore, temp, secrets, acked>>
    BY <2>1 DEF Command
  <2> QED
    BY <1>12, <2>1, WriteBackApplies, TypeApplies
<1>13. CASE RekeyAsks
  <2>1. command' \in Command
    BY <1>13 DEF RekeyAsks, Command
  <2>2. cinEnded' \in BOOLEAN
    BY <1>13 DEF RekeyAsks, ReadPassword
  <2>3. UNCHANGED <<view, saved, doubt, hasStore, temp, g_session_password, key, unconfirmed, acked>>
    BY <1>13 DEF RekeyAsks
  <2> QED
    BY <2>1, <2>2, <2>3
<1>14. CASE RekeyConfirms
  <2>1. command.n1 \in Answer
    BY <1>14, CommandParts DEF RekeyConfirms, At
  <2>2. command' \in Command
    BY <1>14, <2>1 DEF RekeyConfirms, Command
  <2>3. cinEnded' \in BOOLEAN
    BY <1>14 DEF RekeyConfirms, ReadPassword
  <2>4. UNCHANGED <<view, saved, doubt, hasStore, temp, g_session_password, key, unconfirmed, acked>>
    BY <1>14 DEF RekeyConfirms
  <2> QED
    BY <2>2, <2>3, <2>4
<1>15. CASE Rekey
  <2>1. command.n1.password \in Password
    BY <1>15, CommandParts DEF Rekey, At, Answer
  <2>2. command' \in Command
    BY <1>15 DEF Rekey, Command
  <2>3. key' \subseteq Password /\ unconfirmed' \subseteq Password /\ g_session_password' \in Password
    BY <1>15, <2>1 DEF Rekey, Remembered
  <2> QED
    BY <1>15, <2>2, <2>3 DEF Rekey
<1>16. CASE MergeAsks
  BY <1>16 DEF MergeAsks, ReadPassword
<1>17. CASE Quit
  BY <1>17, EndedTypes DEF Quit, Ended, Handle!Close
<1>18. CASE Kill
  BY <1>18, EndedTypes DEF Kill, Ended, Handle!Close
<1>19. CASE PowerLoss
  BY <1>19, EndedTypes DEF PowerLoss, Ended, Handle!PowerLoss
<1>20. ASSUME NEW pw \in Password, Start(pw) PROVE TypeOK'
  BY <1>20 DEF Start, Handle!Open
<1>21. CASE UNCHANGED vars
  BY <1>21 DEF vars
<1> QED
  BY <1>1, <1>2, <1>3, <1>4, <1>5, <1>6, <1>7, <1>8, <1>9, <1>10, <1>11, <1>12, <1>13, <1>14,
     <1>15, <1>16, <1>17, <1>18, <1>19, <1>20, <1>21 DEF Next

-----------------------------------------------------------------------------
(* What a step leaves of the rest.                                         *)

LEMMA InitHolds == Init => ShellInv
<1> SUFFICES ASSUME Init PROVE ShellInv
  OBVIOUS
<1>1. TypeOK
  BY TypeInit
<1>2. view = Closed /\ saved \in Map /\ doubt = {} /\ acked = saved /\ command = Prompt /\ temp = None
  BY DEF Init
<1>3. SuccessIsDurable
  BY <1>2 DEF SuccessIsDurable
<1>4. ViewIsAcked
  BY <1>2 DEF ViewIsAcked, Prompt
<1>5. TextIsWhole
  BY <1>2 DEF TextIsWhole, Prompt
<1>6. SecretsAgree
  BY <1>2 DEF SecretsAgree, SessionOpens, NoneMistyped, Prompt, Init
<1> QED
  BY <1>1, <1>3, <1>4, <1>5, <1>6 DEF ShellInv

LEMMA AckedApplies ==
  ASSUME TypeOK, ViewIsAcked, SuccessIsDurable, NEW e \in Edits, Applies(e), command.at # "changed"
  PROVE  SuccessIsDurable' /\ ViewIsAcked'
<1>1. saved' = saved /\ doubt' = doubt /\ acked' = acked /\ view \in Map
  BY DEF Applies, Changed, TypeOK
<1>2. command' = [at |-> "changed", edit |-> e] /\ DOMAIN e \subseteq Path
  BY EditParts DEF Applies, Changed
<1>3. \A p \in Path : view'[p] = IF p \in DOMAIN e THEN e[p] ELSE view[p]
  BY DEF Applies, Laid
<1>4. view' # Closed
  BY LaidIsMap, ShellAssumption DEF Applies
<1>5. \A p \in Path : acked[p] # Unknown => view[p] = acked[p]
  BY DEF ViewIsAcked, Applies
<1>6. \A p \in Path : acked[p] # Unknown /\ p \notin DOMAIN e => view'[p] = acked[p]
  BY <1>3, <1>5
<1>7. ViewIsAcked'
  BY <1>1, <1>2, <1>3, <1>4, <1>6 DEF ViewIsAcked
<1>8. SuccessIsDurable'
  BY <1>1 DEF SuccessIsDurable
<1> QED
  BY <1>7, <1>8

LEMMA AckedEnded ==
  ASSUME TypeOK, ViewIsAcked, SuccessIsDurable, Ended, view' = Closed,
         \A m \in {saved'} \union doubt' : m \in {saved} \union doubt \/ (view # Closed /\ m = view)
  PROVE  SuccessIsDurable' /\ ViewIsAcked'
<1> DEFINE S == IF At("changed") THEN DOMAIN command.edit ELSE {}
<1>1. \A p \in Path : acked'[p] = IF p \in S THEN Unknown ELSE acked[p]
  BY DEF Ended, Withdrawn
<1>2. ASSUME NEW m \in {saved'} \union doubt', NEW p \in Path, acked'[p] # Unknown
      PROVE  m[p] = acked'[p]
  <2>1. p \notin S /\ acked[p] # Unknown /\ acked'[p] = acked[p]
    BY <1>1, <1>2
  <2>2. CASE m \in {saved} \union doubt
    BY <2>1, <2>2 DEF SuccessIsDurable
  <2>3. CASE view # Closed /\ m = view
    BY <2>1, <2>3 DEF ViewIsAcked, At
  <2> QED
    BY <2>2, <2>3
<1>3. SuccessIsDurable'
  BY <1>2 DEF SuccessIsDurable
<1>4. ViewIsAcked'
  BY DEF ViewIsAcked, Ended, Prompt
<1> QED
  BY <1>3, <1>4

\* A step that leaves the handle and the history alone, and starts or ends no change.
LEMMA AckedQuiet ==
  ASSUME ViewIsAcked, SuccessIsDurable, view # Closed, UNCHANGED <<handle, acked>>,
         command.at # "changed", command'.at # "changed"
  PROVE  SuccessIsDurable' /\ ViewIsAcked'
BY DEF ViewIsAcked, SuccessIsDurable, handle

LEMMA AckedStep == TypeOK /\ ViewIsAcked /\ SuccessIsDurable /\ [Next]_vars => SuccessIsDurable' /\ ViewIsAcked'
<1> SUFFICES ASSUME TypeOK, ViewIsAcked, SuccessIsDurable, [Next]_vars
             PROVE  SuccessIsDurable' /\ ViewIsAcked'
  OBVIOUS
<1>1. ASSUME NEW p \in Path, NEW c \in Content, Add(p, c) PROVE SuccessIsDurable' /\ ViewIsAcked'
  BY <1>1, PutApplies, AckedApplies DEF Add, AtPrompt, Prompt
<1>2. ASSUME NEW p \in Path, Rm(p) PROVE SuccessIsDurable' /\ ViewIsAcked'
  BY <1>2, RmApplies, AckedApplies DEF Rm, AtPrompt, Prompt
<1>3. ASSUME NEW p \in Path, EditOpens(p) PROVE SuccessIsDurable' /\ ViewIsAcked'
  BY <1>3, AckedQuiet DEF EditOpens, AtPrompt, Prompt
<1>4. ASSUME NEW f \in Path, NEW t \in Path, Cp(f, t) PROVE SuccessIsDurable' /\ ViewIsAcked'
  BY <1>4, CpApplies, AckedApplies DEF Cp, AtPrompt, Prompt
<1>5. ASSUME NEW f \in Path, NEW t \in Path, Mv(f, t) PROVE SuccessIsDurable' /\ ViewIsAcked'
  BY <1>5, MvApplies, AckedApplies DEF Mv, AtPrompt, Prompt
<1>6. ASSUME NEW e \in Edits, Merge(e) PROVE SuccessIsDurable' /\ ViewIsAcked'
  BY <1>6, MergeApplies, AckedApplies DEF Merge, AtPrompt, Prompt
<1>7. ASSUME NEW e \in Edits, MergeFails(e) PROVE SuccessIsDurable' /\ ViewIsAcked'
  <2>1. /\ \A p \in Path : acked'[p] = IF p \in DOMAIN e THEN Unknown ELSE acked[p]
        /\ \A p \in Path : view'[p] = IF p \in DOMAIN e THEN e[p] ELSE view[p]
        /\ saved' = saved /\ doubt' = doubt /\ command' = command
        /\ command = Prompt /\ view # Closed
    BY <1>7 DEF MergeFails, Handle!Change, Laid, Withdrawn, AtPrompt
  <2>2. \A p \in Path : acked[p] # Unknown => view[p] = acked[p]
    BY <2>1 DEF ViewIsAcked, Prompt
  <2>3. SuccessIsDurable'
    BY <2>1 DEF SuccessIsDurable
  <2>4. ViewIsAcked'
    BY <2>1, <2>2 DEF ViewIsAcked, Prompt
  <2> QED
    BY <2>3, <2>4
<1>8. CASE Commit
  <2> DEFINE e == command.edit
  <2>1. /\ command.at = "changed" /\ view # Closed /\ view' = view /\ command' = Prompt
        /\ e \in Edits
    BY <1>8, CommandParts DEF Commit, At, TypeOK, Handle!Save, Handle!SaveFails
  <2>2. /\ \A p \in DOMAIN e : view[p] = e[p]
        /\ \A p \in Path : acked[p] # Unknown /\ p \notin DOMAIN e => view[p] = acked[p]
    BY <2>1 DEF ViewIsAcked
  <2>3. CASE saved' = view /\ doubt' = {} /\ \A p \in Path : acked'[p] = IF p \in DOMAIN e THEN e[p] ELSE acked[p]
    BY <2>1, <2>2, <2>3 DEF SuccessIsDurable, ViewIsAcked, Prompt
  <2>4. CASE saved' = saved /\ doubt' = doubt \union {view} /\ \A p \in Path : acked'[p] = IF p \in DOMAIN e THEN Unknown ELSE acked[p]
    BY <2>1, <2>2, <2>4 DEF SuccessIsDurable, ViewIsAcked, Prompt
  <2> QED
    BY <1>8, <2>3, <2>4 DEF Commit, Handle!Save, Handle!SaveFails, Succeeds, Withdrawn
<1>9. CASE Compact
  <2>1. command' = command /\ command = Prompt /\ view # Closed /\ view' = view /\ acked' = acked
    BY <1>9 DEF Compact, AtPrompt, Handle!Save, Handle!SaveFails, handle
  <2>2. \A p \in Path : acked[p] # Unknown => view[p] = acked[p]
    BY <2>1 DEF ViewIsAcked, Prompt
  <2>3. \A m \in {saved'} \union doubt' : m \in {saved} \union doubt \/ m = view
    BY <1>9 DEF Compact, Handle!Save, Handle!SaveFails, handle
  <2>4. SuccessIsDurable'
    BY <2>1, <2>2, <2>3 DEF SuccessIsDurable
  <2>5. ViewIsAcked'
    BY <2>1 DEF ViewIsAcked
  <2> QED
    BY <2>4, <2>5
<1>10. ASSUME NEW c \in Content, EditorSaves(c) PROVE SuccessIsDurable' /\ ViewIsAcked'
  BY <1>10, AckedQuiet DEF EditorSaves, At
<1>11. CASE EditorEnds
  BY <1>11, AckedQuiet DEF EditorEnds, At, Prompt
<1>12. CASE WriteBack
  <2>1. view # Closed /\ command.at = "edited"
    BY <1>12 DEF WriteBack, At
  <2>2. CASE \E e \in Edits : Applies(e)
    BY <2>1, <2>2, AckedApplies
  <2>3. CASE command' = Prompt /\ UNCHANGED <<handle, hasStore, temp, secrets, acked>>
    BY <2>1, <2>3, AckedQuiet DEF Prompt
  <2> QED
    BY <1>12, <2>2, <2>3, WriteBackApplies
<1>13. CASE RekeyAsks
  BY <1>13, AckedQuiet DEF RekeyAsks, AtPrompt, Prompt
<1>14. CASE RekeyConfirms
  BY <1>14, AckedQuiet DEF RekeyConfirms, At
<1>15. CASE Rekey
  BY <1>15, AckedQuiet DEF Rekey, At, Prompt
<1>16. CASE MergeAsks
  BY <1>16, AckedQuiet DEF MergeAsks, AtPrompt, Prompt
<1>17. CASE Quit
  BY <1>17, AckedEnded DEF Quit, Handle!Close
<1>18. CASE Kill
  BY <1>18, AckedEnded DEF Kill, Handle!Close
<1>19. CASE PowerLoss
  BY <1>19, AckedEnded DEF PowerLoss, Handle!PowerLoss
<1>20. ASSUME NEW pw \in Password, Start(pw) PROVE SuccessIsDurable' /\ ViewIsAcked'
  <2>1. /\ view = Closed /\ command = Prompt /\ command' = Prompt /\ acked' = acked
        /\ saved' = saved /\ doubt' = doubt /\ view' \in {saved} \union doubt
    BY <1>20 DEF Start, Handle!Open, ViewIsAcked
  <2>2. view' # Closed
    BY <2>1, ShellAssumption DEF TypeOK
  <2> QED
    BY <2>1, <2>2 DEF SuccessIsDurable, ViewIsAcked, Prompt
<1>21. CASE UNCHANGED vars
  BY <1>21 DEF vars, handle, SuccessIsDurable, ViewIsAcked
<1> QED
  BY <1>1, <1>2, <1>3, <1>4, <1>5, <1>6, <1>7, <1>8, <1>9, <1>10, <1>11, <1>12, <1>13, <1>14,
     <1>15, <1>16, <1>17, <1>18, <1>19, <1>20, <1>21 DEF Next

-----------------------------------------------------------------------------
(* The edited text.                                                        *)

LEMMA TextQuiet ==
  ASSUME temp' = None, command'.at \notin {"editor", "edited"}
  PROVE  TextIsWhole'
BY DEF TextIsWhole

\* With no editor there is no file.
LEMMA TextLeaves ==
  ASSUME TextIsWhole, command.at # "editor", temp' = temp, command'.at \notin {"editor", "edited"}
  PROVE  TextIsWhole'
BY DEF TextIsWhole

LEMMA TextApplies ==
  ASSUME TextIsWhole, command.at # "editor", NEW e \in Edits, Applies(e)
  PROVE  TextIsWhole'
BY TextLeaves DEF Applies, Changed

LEMMA TextStep == TypeOK /\ TextIsWhole /\ [Next]_vars => TextIsWhole'
<1> SUFFICES ASSUME TypeOK, TextIsWhole, [Next]_vars
             PROVE  TextIsWhole'
  OBVIOUS
<1>1. ASSUME NEW p \in Path, NEW c \in Content, Add(p, c) PROVE TextIsWhole'
  BY <1>1, TextLeaves DEF Add, AtPrompt, Prompt, Changed
<1>2. ASSUME NEW p \in Path, Rm(p) PROVE TextIsWhole'
  BY <1>2, TextLeaves DEF Rm, AtPrompt, Prompt, Changed
<1>3. ASSUME NEW p \in Path, EditOpens(p) PROVE TextIsWhole'
  <2>1. view[p] \in Content /\ command' = [at |-> "editor", path |-> p, data |-> view[p]]
    BY <1>3, ShellAssumption DEF EditOpens, Editable
  <2>2. [text |-> view[p], whole |-> TRUE] \in Draft
    BY <2>1 DEF Draft
  <2>3. CASE temp' = [text |-> view[p], whole |-> TRUE]
    BY <2>1, <2>2, <2>3 DEF TextIsWhole
  <2>4. CASE temp' \in CutShort
    <3>1. TempErrors /\ temp' \in Draft
      BY <2>4 DEF CutShort, Draft
    <3> QED
      BY <2>1, <3>1 DEF TextIsWhole
  <2> QED
    BY <1>3, <2>3, <2>4 DEF EditOpens
<1>4. ASSUME NEW f \in Path, NEW t \in Path, Cp(f, t) PROVE TextIsWhole'
  BY <1>4, TextLeaves DEF Cp, AtPrompt, Prompt, Changed
<1>5. ASSUME NEW f \in Path, NEW t \in Path, Mv(f, t) PROVE TextIsWhole'
  BY <1>5, TextLeaves DEF Mv, AtPrompt, Prompt, Changed
<1>6. ASSUME NEW e \in Edits, Merge(e) PROVE TextIsWhole'
  BY <1>6, TextLeaves DEF Merge, AtPrompt, Prompt, Changed
<1>7. ASSUME NEW e \in Edits, MergeFails(e) PROVE TextIsWhole'
  BY <1>7, TextLeaves DEF MergeFails, AtPrompt, Prompt
<1>8. CASE Commit
  BY <1>8, TextLeaves DEF Commit, At, Prompt
<1>9. CASE Compact
  BY <1>9, TextLeaves DEF Compact, AtPrompt, Prompt
<1>10. ASSUME NEW c \in Content, EditorSaves(c) PROVE TextIsWhole'
  <2>1. temp \in Draft /\ command' = command /\ command.at = "editor" /\ temp' = [temp EXCEPT !.text = c]
    BY <1>10 DEF EditorSaves, At, TextIsWhole
  <2>2. temp' \in Draft /\ temp'.whole = temp.whole
    BY <2>1 DEF Draft
  <2> QED
    BY <2>1, <2>2 DEF TextIsWhole
<1>11. CASE EditorEnds
  <2>1. temp' = None /\ temp \in Draft /\ (~TempErrors => temp.whole)
    BY <1>11 DEF EditorEnds, TextIsWhole, At
  <2>2. CASE command' = Prompt
    BY <2>1, <2>2, TextQuiet DEF Prompt
  <2>3. CASE \E left \in {[temp EXCEPT !.whole = @ /\ TRUE]} \union CutShort :
               command' = [at |-> "edited", path |-> command.path, data |-> command.data, edited |-> left]
    <3>1. PICK left \in {[temp EXCEPT !.whole = @ /\ TRUE]} \union CutShort :
            command' = [at |-> "edited", path |-> command.path, data |-> command.data, edited |-> left]
      BY <2>3
    <3>2. ~TempErrors => left.whole
      BY <2>1, <3>1 DEF CutShort, Draft
    <3> QED
      BY <2>1, <3>1, <3>2 DEF TextIsWhole
  <2> QED
    BY <1>11, <2>2, <2>3 DEF EditorEnds, ReadBack
<1>12. CASE WriteBack
  BY <1>12, WriteBackApplies, TextApplies, TextLeaves DEF WriteBack, At, Prompt
<1>13. CASE RekeyAsks
  BY <1>13, TextLeaves DEF RekeyAsks, AtPrompt, Prompt
<1>14. CASE RekeyConfirms
  BY <1>14, TextLeaves DEF RekeyConfirms, At
<1>15. CASE Rekey
  BY <1>15, TextLeaves DEF Rekey, At, Prompt
<1>16. CASE MergeAsks
  BY <1>16, TextLeaves DEF MergeAsks, AtPrompt, Prompt
<1>17. CASE Quit
  BY <1>17, TextQuiet DEF Quit, Ended, Prompt
<1>18. CASE Kill
  BY <1>18, TextQuiet DEF Kill, Ended, Prompt
<1>19. CASE PowerLoss
  BY <1>19, TextQuiet DEF PowerLoss, Ended, Prompt
<1>20. ASSUME NEW pw \in Password, Start(pw) PROVE TextIsWhole'
  BY <1>20 DEF Start, TextIsWhole
<1>21. CASE UNCHANGED vars
  BY <1>21 DEF vars, TextIsWhole
<1> QED
  BY <1>1, <1>2, <1>3, <1>4, <1>5, <1>6, <1>7, <1>8, <1>9, <1>10, <1>11, <1>12, <1>13, <1>14,
     <1>15, <1>16, <1>17, <1>18, <1>19, <1>20, <1>21 DEF Next

-----------------------------------------------------------------------------
(* Passwords.                                                              *)

LEMMA SecretsQuiet ==
  ASSUME SecretsAgree, view # Closed, UNCHANGED <<g_session_password, key, unconfirmed>>,
         command'.at \notin {"confirm", "confirmed"}
  PROVE  SecretsAgree'
BY DEF SecretsAgree, SessionOpens, NoneMistyped

LEMMA SecretsEnded ==
  ASSUME SecretsAgree, Ended, view' = Closed
  PROVE  SecretsAgree'
BY DEF SecretsAgree, SessionOpens, NoneMistyped, Ended, Prompt

LEMMA SecretsApplies ==
  ASSUME SecretsAgree, NEW e \in Edits, Applies(e)
  PROVE  SecretsAgree'
BY SecretsQuiet DEF Applies, Changed, secrets

LEMMA ReadIsTyped == ASSUME NEW n \in Answer, ReadPassword(n) PROVE Typed(n)
BY DEF ReadPassword, Typed, Nothing

LEMMA SecretsStep == TypeOK /\ SecretsAgree /\ [Next]_vars => SecretsAgree'
<1> SUFFICES ASSUME TypeOK, SecretsAgree, [Next]_vars
             PROVE  SecretsAgree'
  OBVIOUS
<1>1. ASSUME NEW p \in Path, NEW c \in Content, Add(p, c) PROVE SecretsAgree'
  BY <1>1, PutApplies, SecretsApplies DEF Add
<1>2. ASSUME NEW p \in Path, Rm(p) PROVE SecretsAgree'
  BY <1>2, RmApplies, SecretsApplies
<1>3. ASSUME NEW p \in Path, EditOpens(p) PROVE SecretsAgree'
  BY <1>3, SecretsQuiet DEF EditOpens, AtPrompt, secrets
<1>4. ASSUME NEW f \in Path, NEW t \in Path, Cp(f, t) PROVE SecretsAgree'
  BY <1>4, CpApplies, SecretsApplies
<1>5. ASSUME NEW f \in Path, NEW t \in Path, Mv(f, t) PROVE SecretsAgree'
  BY <1>5, MvApplies, SecretsApplies
<1>6. ASSUME NEW e \in Edits, Merge(e) PROVE SecretsAgree'
  BY <1>6, MergeApplies, SecretsApplies
<1>7. ASSUME NEW e \in Edits, MergeFails(e) PROVE SecretsAgree'
  BY <1>7, SecretsQuiet DEF MergeFails, AtPrompt, Prompt, secrets
<1>8. CASE Commit
  BY <1>8, SecretsQuiet DEF Commit, At, Prompt, secrets
<1>9. CASE Compact
  BY <1>9, SecretsQuiet DEF Compact, AtPrompt, Prompt, secrets
<1>10. ASSUME NEW c \in Content, EditorSaves(c) PROVE SecretsAgree'
  BY <1>10, SecretsQuiet DEF EditorSaves, At, secrets
<1>11. CASE EditorEnds
  BY <1>11, SecretsQuiet DEF EditorEnds, At, Prompt, secrets
<1>12. CASE WriteBack
  <2>1. view # Closed
    BY <1>12 DEF WriteBack, At
  <2> QED
    BY <1>12, <2>1, WriteBackApplies, SecretsApplies, SecretsQuiet DEF Prompt, secrets
<1>13. CASE RekeyAsks
  BY <1>13, ReadIsTyped DEF RekeyAsks, SecretsAgree, SessionOpens, NoneMistyped, handle
<1>14. CASE RekeyConfirms
  BY <1>14, ReadIsTyped DEF RekeyConfirms, At, SecretsAgree, SessionOpens, NoneMistyped, handle
<1>15. CASE Rekey
  <2> DEFINE n1 == command.n1
             n2 == command.n2
  <2>1. n1 \in Answer /\ n2 \in Answer /\ Typed(n1) /\ Typed(n2) /\ view' = view /\ command' = Prompt
    BY <1>15, CommandParts DEF Rekey, At, TypeOK, SecretsAgree, handle
  <2>2. SessionOpens'
    BY <1>15, <2>1 DEF Rekey, At, SecretsAgree, SessionOpens, Remembered
  <2>3. ASSUME Agree(n1, n2), ~(n1.typed /\ n2.typed /\ n1 = n2) PROVE n1.password = Empty
    <3>1. ASSUME n1.typed, n2.typed PROVE n1 = n2
      BY <2>1, <2>3, <3>1 DEF Answer, Agree
    <3> QED
      BY <2>1, <2>3, <3>1 DEF Agree, Typed
  <2>4. NoneMistyped'
    BY <1>15, <2>3 DEF Rekey, SecretsAgree, NoneMistyped
  <2> QED
    BY <2>1, <2>2, <2>4 DEF SecretsAgree, Prompt
<1>16. CASE MergeAsks
  BY <1>16, SecretsQuiet DEF MergeAsks, AtPrompt, Prompt
<1>17. CASE Quit
  BY <1>17, SecretsEnded DEF Quit, Handle!Close
<1>18. CASE Kill
  BY <1>18, SecretsEnded DEF Kill, Handle!Close
<1>19. CASE PowerLoss
  BY <1>19, SecretsEnded DEF PowerLoss, Handle!PowerLoss
<1>20. ASSUME NEW pw \in Password, Start(pw) PROVE SecretsAgree'
  BY <1>20 DEF Start, SecretsAgree, SessionOpens, NoneMistyped
<1>21. CASE UNCHANGED vars
  BY <1>21 DEF vars, handle, secrets, SecretsAgree, SessionOpens, NoneMistyped
<1> QED
  BY <1>1, <1>2, <1>3, <1>4, <1>5, <1>6, <1>7, <1>8, <1>9, <1>10, <1>11, <1>12, <1>13, <1>14,
     <1>15, <1>16, <1>17, <1>18, <1>19, <1>20, <1>21 DEF Next

-----------------------------------------------------------------------------
(* The theorems.                                                           *)

\* Types, and what makes the properties inductive.
THEOREM ShellInvariant == Spec => []ShellInv
<1>1. ShellInv /\ [Next]_vars => ShellInv'
  BY TypeStep, AckedStep, TextStep, SecretsStep DEF ShellInv
<1> QED
  BY InitHolds, <1>1, PTL DEF Spec

\* Every state of a session has the types that the code gives it.
THEOREM ShellTypes == Spec => []TypeOK
<1>1. ShellInv => TypeOK
  BY DEF ShellInv
<1> QED
  BY ShellInvariant, <1>1, PTL

\* What a command reported is found by whoever opens the pack next, whatever failed
\* beside it (do_command).
THEOREM SuccessStays == Spec => []SuccessIsDurable
<1>1. ShellInv => SuccessIsDurable
  BY DEF ShellInv
<1> QED
  BY ShellInvariant, <1>1, PTL

\* As long as no temporary file fails where the code does not look, what edit puts is
\* a whole text (edit_in_editor).
THEOREM EditIsWhole ==
  ASSUME ~TempErrors
  PROVE  Spec => []EditKeepsText
<1>1. ShellInv => EditKeepsText
  BY DEF ShellInv, TextIsWhole, EditKeepsText
<1> QED
  BY ShellInvariant, <1>1, PTL

\* The password the session remembers is the pack's (do_command, rekey).
THEOREM SessionPassword == Spec => []SessionOpens
<1>1. ShellInv => SessionOpens
  BY DEF ShellInv, SecretsAgree
<1> QED
  BY ShellInvariant, <1>1, PTL

\* No password that was typed wrong gets into the slot (do_command, rekey).
THEOREM ConfirmedPassword == Spec => []NoneMistyped
<1>1. ShellInv => NoneMistyped
  BY DEF ShellInv, SecretsAgree
<1> QED
  BY ShellInvariant, <1>1, PTL
=============================================================================

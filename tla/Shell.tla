-------------------------------- MODULE Shell --------------------------------
(***************************************************************************)
(* The command line (src/cli/main.cpp): the shell and the one-shot         *)
(* commands over one handle, with edit's temporary file and the password   *)
(* prompts (src/cli/platform_posix.cpp, src/cli/platform_win32.cpp).  The  *)
(* handle is as FileMap describes it.                                      *)
(*                                                                         *)
(* A command that only reads, or fails before it changed anything, is no   *)
(* step here, and a one-shot command is a session of one.  diff and create *)
(* work on packs of their own (Overlay, PackFile), web is Web; Overlay has *)
(* what merge makes of an update, this module what a session does besides. *)
(***************************************************************************)
EXTENDS Naturals, FiniteSets

CONSTANTS
  Path, Content, None, Closed,  \* as in FileMap
  Text,         \* the contents that looks_text takes for text
  Password,
  Empty,        \* the empty password
  Unknown,      \* nothing is known to be durable at a path
  MaxFails,     \* bound: saves that fail before one succeeds
  TempErrors    \* may a temporary file fail where the code does not look?

VARIABLES
  view, saved, doubt,  \* the handle
  hasStore,    \* Impl::store is not null
  command,     \* the command being run, and how far it is
  temp,        \* the running process's temporary file, edit's
  cinEnded,    \* std::cin has failed: no prompt waits for an answer any more
  g_session_password,
  key,         \* the passwords that the key slot may be found to have
  unconfirmed, \* history: passwords rekey has used though the user did not type them twice
  acked        \* history: what the last successful command for a path made of it

handle == <<view, saved, doubt>>
secrets == <<cinEnded, g_session_password, key, unconfirmed>>
vars == <<handle, hasStore, command, temp, secrets, acked>>

Handle == INSTANCE FileMap

Map == [Path -> Content \union {None}]

\* What a command is to save: what becomes of each path it touches.
Edits == UNION {[S -> Content \union {None}] : S \in SUBSET Path}

\* A text, and whether it was made from all of what the pack has.
Draft == [text : Content, whole : BOOLEAN]

\* An answer at a prompt, and whether anybody typed it.
Answer == [password : Password, typed : BOOLEAN]

Prompt == [at |-> "prompt"]
Command ==
  {Prompt}
    \union [at : {"changed"}, edit : Edits]
    \union [at : {"editor"}, path : Path, data : Text]
    \union [at : {"edited"}, path : Path, data : Text, edited : Draft]
    \union [at : {"confirm"}, n1 : Answer]
    \union [at : {"confirmed"}, n1 : Answer, n2 : Answer]

ASSUME ShellAssumption ==
  /\ None \notin Path \union Content \union Draft
  /\ Closed \notin Map
  /\ Unknown \notin Content \union {None}
  /\ Text \subseteq Content
  /\ Empty \in Password
  /\ TempErrors \in BOOLEAN

\* No command runs, and the user may give one.
AtPrompt == view # Closed /\ command = Prompt

At(place) == view # Closed /\ command.at = place

-----------------------------------------------------------------------------
\* Faulty variants, each a bug one could write.
Regardless(committed) == TRUE
HoweverItEnded(ended) == TRUE
NotCompared(n1, n2) == TRUE
Forgotten(pw) == g_session_password
Present(p) == view[p] # None

-----------------------------------------------------------------------------
(* Commands that change the pack and commit: add, rm, mv, cp, merge.       *)

\* The change was made; the commit comes next.
Changed(edit) ==
  /\ command' = [at |-> "changed", edit |-> edit]
  /\ UNCHANGED <<hasStore, temp, secrets, acked>>

Add(p, c) == AtPrompt /\ hasStore /\ Handle!Put(p, c) /\ Changed([q \in {p} |-> c])
Rm(p) == AtPrompt /\ Handle!Del(p) /\ Changed([q \in {p} |-> None])
Cp(f, t) == AtPrompt /\ Handle!Copy(f, t) /\ Changed([q \in {t} |-> view[f]])
Mv(f, t) ==
  /\ AtPrompt /\ Handle!Move(f, t)
  /\ Changed([q \in {f, t} |-> IF q = f THEN None ELSE view[f]])

\* merge puts an update and deletes what it lists and what the -d options name.
Laid(edit) == [p \in Path |-> IF p \in DOMAIN edit THEN edit[p] ELSE view[p]]

Merge(edit) == AtPrompt /\ hasStore /\ Handle!Change(Laid(edit)) /\ Changed(edit)

Withdrawn(S) == [p \in Path |-> IF p \in S THEN Unknown ELSE acked[p]]

\* Or it fails in the middle, and what it has put stays in the handle.
MergeFails(edit) ==
  /\ AtPrompt /\ hasStore
  /\ Handle!Change(Laid(edit))
  /\ acked' = Withdrawn(DOMAIN edit)
  /\ UNCHANGED <<hasStore, command, temp, secrets>>

\* The result of a command whose commit returned.
Succeeds(committed) == committed

\* Without a store the process dies here, as it does in put: see Kill.
Commit ==
  /\ At("changed") /\ hasStore
  /\ \E committed \in BOOLEAN :
       /\ IF committed THEN Handle!Save
                       ELSE Handle!SaveFails /\ Cardinality(doubt') <= MaxFails
       /\ acked' = IF Succeeds(committed)
                   THEN [p \in Path |-> IF p \in DOMAIN command.edit THEN command.edit[p] ELSE acked[p]]
                   ELSE Withdrawn(DOMAIN command.edit)
  /\ command' = Prompt
  /\ UNCHANGED <<hasStore, temp, secrets>>

\* compact, as Pack is shown to implement FileMap: it saves the view; or it fails, before
\* or after it saved it, and may leave no store.
Compact ==
  /\ AtPrompt /\ hasStore
  /\ \/ Handle!Save /\ hasStore' \in BOOLEAN
     \/ Handle!SaveFails /\ Cardinality(doubt') <= MaxFails /\ hasStore' \in BOOLEAN
     \/ UNCHANGED handle /\ hasStore' = FALSE
  /\ UNCHANGED <<command, temp, secrets, acked>>

-----------------------------------------------------------------------------
(* edit                                                                    *)

Editable(p) == view[p] \in Text

\* A text that a failure the code does not see has cut short.
CutShort == IF TempErrors THEN [text : Content, whole : {FALSE}] ELSE {}

\* The text is written to a temporary file; on Windows the end of it by an fclose
\* whose result is not looked at.
EditOpens(p) ==
  /\ AtPrompt /\ hasStore /\ Editable(p)
  /\ temp' \in {[text |-> view[p], whole |-> TRUE]} \union CutShort
  /\ command' = [at |-> "editor", path |-> p, data |-> view[p]]
  /\ UNCHANGED <<handle, hasStore, secrets, acked>>

\* The user saves in the editor.
EditorSaves(c) ==
  /\ At("editor")
  /\ temp' = [temp EXCEPT !.text = c]
  /\ UNCHANGED <<handle, hasStore, command, secrets, acked>>

\* Only what an editor that ended well has left is read back.
ReadBack(ended) == ended = "clean"

\* The editor ends well, or crashes, perhaps while it saves; or Windows cannot read the
\* file back.  POSIX does not see that it cannot, and goes on with what it has read.
EditorEnds ==
  /\ At("editor")
  /\ temp' = None   \* it goes whatever has happened
  /\ \E ended \in {"clean", "failed", "unreadable"} :
       IF ReadBack(ended)
       THEN \E left \in {[temp EXCEPT !.whole = @ /\ ended = "clean"]} \union CutShort :
              command' = [at |-> "edited", path |-> command.path, data |-> command.data, edited |-> left]
       ELSE command' = Prompt
  /\ UNCHANGED <<handle, hasStore, secrets, acked>>

\* An unchanged text is not put; put may fail.
WriteBack ==
  /\ At("edited")
  /\ \/ /\ command.edited.text # command.data
        /\ Handle!Put(command.path, command.edited.text)
        /\ Changed([q \in {command.path} |-> command.edited.text])
     \/ command' = Prompt /\ UNCHANGED <<handle, hasStore, temp, secrets, acked>>

-----------------------------------------------------------------------------
(* Passwords.                                                              *)

\* read_password: a line, perhaps the last; once the input has ended, getline returns
\* at once with nothing.
Nothing == [password |-> Empty, typed |-> FALSE]

ReadPassword(answer) ==
  \/ ~cinEnded /\ answer.typed /\ cinEnded' \in BOOLEAN
  \/ answer = Nothing /\ cinEnded' = TRUE

RekeyAsks ==
  /\ AtPrompt
  /\ \E n1 \in Answer : ReadPassword(n1) /\ command' = [at |-> "confirm", n1 |-> n1]
  /\ UNCHANGED <<handle, hasStore, temp, g_session_password, key, unconfirmed, acked>>

RekeyConfirms ==
  /\ At("confirm")
  /\ \E n2 \in Answer :
       ReadPassword(n2) /\ command' = [at |-> "confirmed", n1 |-> command.n1, n2 |-> n2]
  /\ UNCHANGED <<handle, hasStore, temp, g_session_password, key, unconfirmed, acked>>

Agree(n1, n2) == n1.password = n2.password

\* What merge will try first.
Remembered(pw) == pw

\* rekey: the two differ, or the slot is written and synced, or it failed before or
\* after the slot was written.
Rekey ==
  LET n1 == command.n1  n2 == command.n2  pw == n1.password IN
  /\ At("confirmed")
  /\ command' = Prompt
  /\ \/ /\ Agree(n1, n2) /\ hasStore
        /\ unconfirmed' = IF n1.typed /\ n2.typed /\ n1 = n2 THEN unconfirmed ELSE unconfirmed \union {pw}
        /\ \/ key' = {pw} /\ g_session_password' = Remembered(pw)
           \/ key' = key \union {pw} /\ UNCHANGED g_session_password
     \/ UNCHANGED <<key, g_session_password, unconfirmed>>
  /\ UNCHANGED <<handle, hasStore, temp, cinEnded, acked>>

\* merge asks for the password of a source that g_session_password does not open.
MergeAsks ==
  /\ AtPrompt
  /\ \E answer \in Answer : ReadPassword(answer)
  /\ UNCHANGED <<handle, hasStore, command, temp, g_session_password, key, unconfirmed, acked>>

-----------------------------------------------------------------------------
(* Processes.                                                              *)

\* A process has ended.  A temporary file that it still had stays, nobody's.
Ended ==
  /\ command' = Prompt /\ temp' = None
  /\ cinEnded' = FALSE
  /\ hasStore' = TRUE
  /\ acked' = Withdrawn(IF At("changed") THEN DOMAIN command.edit ELSE {})
  /\ UNCHANGED <<g_session_password, key, unconfirmed>>

\* quit, exit or Ctrl-D at the shell's own prompt, or the end of a one-shot command.
Quit == AtPrompt /\ Handle!Close /\ Ended

\* The process dies, perhaps in a commit.
Kill ==
  /\ view # Closed
  /\ \/ Handle!Close
     \/ /\ At("changed") /\ Cardinality(doubt \union {view}) <= MaxFails
        /\ view' = Closed /\ doubt' = doubt \union {view} /\ UNCHANGED saved
  /\ Ended

PowerLoss == Handle!PowerLoss /\ Ended

\* main opens the pack with the password it has asked for or found in the environment.
Start(pw) ==
  /\ pw \in key
  /\ Handle!Open
  /\ g_session_password' = pw /\ key' = {pw}
  /\ UNCHANGED <<hasStore, command, temp, cinEnded, unconfirmed, acked>>

-----------------------------------------------------------------------------
Init ==
  /\ view = Closed /\ saved \in Map /\ doubt = {}
  /\ hasStore = TRUE /\ command = Prompt /\ temp = None
  /\ cinEnded = FALSE
  /\ key \in {{pw} : pw \in Password} /\ g_session_password \in key /\ unconfirmed = {}
  /\ acked = saved

Next ==
  \/ \E p \in Path, c \in Content : Add(p, c)
  \/ \E p \in Path : Rm(p) \/ EditOpens(p)
  \/ \E f, t \in Path : Cp(f, t) \/ Mv(f, t)
  \/ \E edit \in Edits : Merge(edit) \/ MergeFails(edit)
  \/ Commit \/ Compact
  \/ \E c \in Content : EditorSaves(c)
  \/ EditorEnds \/ WriteBack
  \/ RekeyAsks \/ RekeyConfirms \/ Rekey \/ MergeAsks
  \/ Quit \/ Kill \/ PowerLoss \/ \E pw \in Password : Start(pw)

Spec == Init /\ [][Next]_vars

-----------------------------------------------------------------------------
(* Properties.                                                             *)

TypeOK ==
  /\ view \in Map \union {Closed} /\ saved \in Map /\ doubt \subseteq Map
  /\ hasStore \in BOOLEAN
  /\ command \in Command
  /\ temp \in Draft \union {None}
  /\ cinEnded \in BOOLEAN /\ g_session_password \in Password
  /\ key \subseteq Password /\ unconfirmed \subseteq Password
  /\ acked \in [Path -> Content \union {None, Unknown}]

\* A command that reported success has made its change durable, whatever commands fail
\* before or after it in the same session and however the session ends.
SuccessIsDurable ==
  \A m \in {saved} \union doubt, p \in Path : acked[p] # Unknown => m[p] = acked[p]

\* What edit puts was made from all of the file's text by an editor that ended well
\* (docs/DESIGN.md section 12).
EditKeepsText ==
  command.at = "edited" /\ command.edited.text # command.data => command.edited.whole

\* The password that merge tries first is the pack's own.
SessionOpens == view # Closed => g_session_password \in key

\* A password typed wrong once does not get into the slot: rekey asks for it twice
\* (the comment at the head of main.cpp).  The empty one is excepted, since prompts
\* answer themselves with it once the input has ended.
NoneMistyped == unconfirmed \subseteq {Empty}
=============================================================================

--------------------------------- MODULE Web ---------------------------------
(***************************************************************************)
(* The web UI (src/cli/web.cpp, docs/DESIGN.md sections 8 and 9): the      *)
(* request handlers of run_web, which share one handle under one mutex,    *)
(* and the page's preview and edit panel, whose requests are answered in   *)
(* any order.  The handle is as FileMap describes it.                      *)
(*                                                                         *)
(* A connection carries one request at a time; a browser has a few.  The   *)
(* listing only tells the user which paths to ask for, and rekey changes   *)
(* no file: neither is modelled here.  A content may be of any size, text  *)
(* or not; a text is UTF-8 with plain newlines (a browser would not give   *)
(* back others as they were).                                              *)
(***************************************************************************)
EXTENDS Integers, FiniteSets

CONSTANTS
  Path, Content, None, Closed,  \* as in FileMap; None is also the page's null
  Tab, Conn,
  Patient,                      \* the tabs whose user lets a request end before the next
  Ok,                           \* the answer to a change that was committed
  Unknown,                      \* nothing is known to be durable at a path
  MaxFails                      \* bound: commits that fail before one succeeds

VARIABLES
  view, saved, doubt,  \* the handle that the server has open
  conn,                \* what each connection carries
  panel,               \* the preview panel of each tab
  current,             \* the tabs whose page has the token of the running server
  acked                \* history: what the last ok that is not in question promised

handle == <<view, saved, doubt>>
vars == <<handle, conn, panel, current, acked>>

Handle == INSTANCE FileMap

Map == [Path -> Content \union {None}]

\* A text on the page: the path it was read from, and whether it is all of it.
Shown == [path : Path, whole : BOOLEAN]

ASSUME WebAssumption ==
  /\ None \notin Path \union Content \union Tab
  /\ Closed \notin Map
  /\ Ok \notin Shown \union {None}
  /\ Unknown \notin Content \union {None}
  /\ Patient \subseteq Tab

Views == [op : {"view"}, path : Path]
Changes ==
  [op : {"save"}, path : Path, data : Content, base : Shown \union {None}]
    \union [op : {"upload"}, path : Path, data : Content]
    \union [op : {"delete"}, path : Path]
    \union [op : {"rename", "copy"}, path : Path, to : Path]

Edits == UNION {[S -> Content \union {None}] : S \in SUBSET Path}

Free == [at |-> "free"]
Carried ==
  {Free}
    \union [at : {"asked"}, tab : Tab \union {None}, call : Views \union Changes, authed : BOOLEAN]
    \union [at : {"locked"}, tab : Tab \union {None}, call : Changes, edit : Edits]
    \union [at : {"answered"}, tab : Tab \union {None}, call : Views, answer : Shown \union {None}]
    \union [at : {"answered"}, tab : Tab \union {None}, call : Changes, answer : {None, Ok}]

Blank == [path |-> None, text |-> None, editable |-> FALSE, editing |-> FALSE, body |-> "note"]
Panel ==
  {pn \in [path : Path \union {None}, text : Shown \union {None},
           editable : BOOLEAN, editing : BOOLEAN, body : {"note", "pre", "area"}] :
     pn.editing => pn.path # None}

-----------------------------------------------------------------------------
\* Faulty variants, each a bug one could write.
EditableAnyhow(s) == TRUE
AlwaysEnters == TRUE
ShutInEdit(pn) == [pn EXCEPT !.path = None, !.body = "note"]
OkIfChanged(committed) == Ok

-----------------------------------------------------------------------------
(* The page.                                                               *)

\* A text that was truncated is for viewing only.
Editable(s) == s.whole

\* pvView: the text is shown, and an edit of it is dropped.
Viewing(pn, s) == [pn EXCEPT !.text = s, !.editing = FALSE, !.body = "pre"]

Busy(t) == \E k \in Conn : conn[k] # Free /\ conn[k].tab = t

Ask(t, k, call) ==
  /\ conn[k] = Free
  /\ t \in Patient => ~ Busy(t)
  /\ conn' = [conn EXCEPT ![k] = [at |-> "asked", tab |-> t, call |-> call, authed |-> t \in current]]
  /\ UNCHANGED <<handle, current, acked>>

\* pv
Preview(t, k, p) ==
  /\ Ask(t, k, [op |-> "view", path |-> p])
  /\ panel' = [panel EXCEPT ![t] = [Blank EXCEPT !.path = p]]

\* pvEdit, by the button that is there for a text that may be edited.
Edit(t) ==
  /\ panel[t].path # None /\ panel[t].editable /\ ~ panel[t].editing
  /\ panel' = [panel EXCEPT ![t].editing = TRUE, ![t].body = "area"]
  /\ UNCHANGED <<handle, conn, current, acked>>

\* pvSave, of whatever the user has made of the text.
Save(t, k, c) ==
  /\ panel[t].editing /\ panel[t].body = "area"
  /\ Ask(t, k, [op |-> "save", path |-> panel[t].path, data |-> c, base |-> panel[t].text])
  /\ UNCHANGED panel

\* The Cancel button.
Cancel(t) ==
  /\ panel[t].editing
  /\ panel' = [panel EXCEPT ![t] = Viewing(@, @.text)]
  /\ UNCHANGED <<handle, conn, current, acked>>

\* closePv
Shut(pn) == [pn EXCEPT !.path = None, !.editing = FALSE, !.body = "note"]

ClosePanel(t) ==
  /\ panel[t].path # None
  /\ panel' = [panel EXCEPT ![t] = Shut(@)]
  /\ UNCHANGED <<handle, conn, current, acked>>

\* upload, rm, ren and cp
Command(t, k) ==
  /\ \/ \E p \in Path, c \in Content : Ask(t, k, [op |-> "upload", path |-> p, data |-> c])
     \/ \E p \in Path : Ask(t, k, [op |-> "delete", path |-> p])
     \/ \E f, g \in Path, op \in {"rename", "copy"} :
          f # g /\ Ask(t, k, [op |-> op, path |-> f, to |-> g])
  /\ UNCHANGED panel

\* The rest of pv or pvSave runs when its answer comes, whatever the panel shows
\* by then.
Receive(k) ==
  LET t == conn[k].tab  call == conn[k].call  answer == conn[k].answer IN
  /\ conn[k].at = "answered"
  /\ conn' = [conn EXCEPT ![k] = Free]
  /\ panel' =
       IF t = None THEN panel
       ELSE [panel EXCEPT ![t] =
         CASE call.op = "view" /\ answer # None ->
                [Viewing(@, answer) EXCEPT !.editable = Editable(answer)]
           [] call.op = "view" /\ answer = None -> [@ EXCEPT !.body = "note"]
           [] call.op = "save" /\ answer = Ok -> Viewing(@, [path |-> call.path, whole |-> TRUE])
           [] OTHER -> @]
  /\ UNCHANGED <<handle, current, acked>>

\* The page is loaded anew from the running server; nobody waits for the answers
\* to the old page.
Reload(t) ==
  /\ view # Closed
  /\ panel' = [panel EXCEPT ![t] = Blank]
  /\ conn' = [k \in Conn |-> IF conn[k] # Free /\ conn[k].tab = t THEN [conn[k] EXCEPT !.tab = None] ELSE conn[k]]
  /\ current' = current \union {t}
  /\ UNCHANGED <<handle, acked>>

-----------------------------------------------------------------------------
(* The server.                                                             *)

\* The lock_guard: at most one request is between its change and its commit.
Enters == \A k \in Conn : conn[k].at # "locked"

\* commit_reply, after the change was made.
Reply(committed) == IF committed THEN Ok ELSE None

Answer(k, a) ==
  conn' = [conn EXCEPT ![k] = [at |-> "answered", tab |-> @.tab, call |-> @.call, answer |-> a]]

\* What a call is to change: where each path it touches goes.
Effect(call) ==
  CASE call.op \in {"save", "upload"} -> [p \in {call.path} |-> call.data]
    [] call.op = "delete" -> [p \in {call.path} |-> None]
    [] call.op = "copy" -> [p \in {call.to} |-> view[call.path]]
    [] call.op = "rename" ->
         [p \in {call.path, call.to} |-> IF p = call.path THEN None ELSE view[call.path]]

\* The same call of the handle.
Change(call) ==
  CASE call.op \in {"save", "upload"} -> Handle!Put(call.path, call.data)
    [] call.op = "delete" -> Handle!Del(call.path)
    [] call.op = "rename" -> Handle!Move(call.path, call.to)
    [] call.op = "copy" -> Handle!Copy(call.path, call.to)

Asked(k) == view # Closed /\ conn[k].at = "asked"
Admitted(k) == Asked(k) /\ conn[k].authed /\ Enters

\* A token of another run of the server.
Refuse(k) ==
  /\ Asked(k) /\ ~ conn[k].authed
  /\ Answer(k, None)
  /\ UNCHANGED <<handle, panel, current, acked>>

\* /api/view; the read may fail, a binary or an image is not shown as text, and a
\* text over 1 MiB is cut there.
AnswerView(k) ==
  LET p == conn[k].call.path IN
  /\ Admitted(k) /\ conn[k].call.op = "view"
  /\ \/ Answer(k, None)
     \/ view[p] # None /\ \E whole \in BOOLEAN : Answer(k, [path |-> p, whole |-> whole])
  /\ UNCHANGED <<handle, panel, current, acked>>

\* The first half of a handler that changes the pack.
ChangeDone(k) ==
  /\ Admitted(k) /\ conn[k].call.op # "view"
  /\ Change(conn[k].call)
  /\ conn' = [conn EXCEPT ![k] =
                [at |-> "locked", tab |-> @.tab, call |-> @.call, edit |-> Effect(@.call)]]
  /\ UNCHANGED <<panel, current, acked>>

\* The change was refused (no such file, or the name is taken) or failed; there is
\* no commit.
ChangeFails(k) ==
  /\ Admitted(k) /\ conn[k].call.op # "view"
  /\ \/ conn[k].call.op \in {"save", "upload"}
     \/ view[conn[k].call.path] = None
     \/ conn[k].call.op \in {"rename", "copy"} /\ view[conn[k].call.to] # None
  /\ Answer(k, None)
  /\ UNCHANGED <<handle, panel, current, acked>>

\* The commit of a handler, and its answer.
CommitReply(k) ==
  /\ view # Closed /\ conn[k].at = "locked"
  /\ \E committed \in BOOLEAN :
       /\ IF committed THEN Handle!Save
                       ELSE Handle!SaveFails /\ Cardinality(doubt') <= MaxFails
       /\ Answer(k, Reply(committed))
       /\ acked' =
            [p \in Path |-> CASE p \notin DOMAIN conn[k].edit -> acked[p]
                             [] Reply(committed) = Ok /\ p \in DOMAIN conn[k].edit -> conn[k].edit[p]
                             [] OTHER -> Unknown]
  /\ UNCHANGED <<panel, current>>

\* The server is stopped, perhaps in a commit, or the power fails: the requests it had are never
\* answered, and the pages that are open keep a token that is no longer good.
Stop ==
  /\ view # Closed
  /\ \/ Handle!Close \/ Handle!PowerLoss
     \/ /\ ~ Enters /\ Cardinality(doubt \union {view}) <= MaxFails
        /\ view' = Closed /\ doubt' = doubt \union {view} /\ UNCHANGED saved
  /\ conn' = [k \in Conn |-> IF conn[k].at = "answered" THEN conn[k] ELSE Free]
  /\ current' = {}
  /\ acked' = [p \in Path |-> IF \E k \in Conn : conn[k].at = "locked" /\ p \in DOMAIN conn[k].edit
                              THEN Unknown ELSE acked[p]]
  /\ UNCHANGED panel

\* It is started again over the same pack.
Start == Handle!Open /\ UNCHANGED <<conn, panel, current, acked>>

-----------------------------------------------------------------------------
Init ==
  /\ view \in Map /\ saved = view /\ doubt = {}
  /\ conn = [k \in Conn |-> Free]
  /\ panel = [t \in Tab |-> Blank]
  /\ current = Tab
  /\ acked = view

Page ==
  \/ \E t \in Tab : Edit(t) \/ Cancel(t) \/ ClosePanel(t) \/ Reload(t)
  \/ \E t \in Tab, k \in Conn :
       \/ \E p \in Path : Preview(t, k, p)
       \/ \E c \in Content : Save(t, k, c)
       \/ Command(t, k)
  \/ \E k \in Conn : Receive(k)

Server ==
  \/ \E k \in Conn : Refuse(k) \/ AnswerView(k) \/ ChangeDone(k) \/ ChangeFails(k) \/ CommitReply(k)
  \/ Stop \/ Start

Next == Page \/ Server

Spec == Init /\ [][Next]_vars

-----------------------------------------------------------------------------
(* Properties.                                                             *)

TypeOK ==
  /\ view \in Map \union {Closed} /\ saved \in Map /\ doubt \subseteq Map
  /\ conn \in [Conn -> Carried]
  /\ panel \in [Tab -> Panel]
  /\ current \subseteq Tab
  /\ acked \in [Path -> Content \union {None, Unknown}]

EditsKeepTo(T) ==
  \A k \in Conn :
    (conn[k] # Free /\ conn[k].tab \in T /\ conn[k].call.op = "save")
      => conn[k].call.base = [path |-> conn[k].call.path, whole |-> TRUE]

\* What a save puts at a path was made from the text of that path, and from all of
\* it, for a user who waits for each answer (docs/DESIGN.md: editing is disabled
\* for a truncated text, which a save would put in place of the file).
PatientEdits == EditsKeepTo(Patient)

\* The same for every user, whatever the order of the answers.
EveryEdit == EditsKeepTo(Tab)

\* What was answered with ok is there, whoever opens the pack next, until another
\* request for the same path: neither a failed commit of another request in the
\* same handle, nor a request of another tab, a stop or a power loss undoes it.
OkIsDurable ==
  \A m \in {saved} \union doubt, p \in Path : acked[p] # Unknown => m[p] = acked[p]
=============================================================================

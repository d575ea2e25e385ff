------------------------------ MODULE WebProofs ------------------------------
(***************************************************************************)
(* What the web server answered with ok is durable: proofs for Web, for    *)
(* any number of tabs, connections, paths and failed commits.              *)
(***************************************************************************)
EXTENDS Web, TLAPS

Locked(k) == conn[k].at = "locked"

\* The request that holds the mutex is the only one, and the server is running.
OneLocked ==
  /\ \A k, l \in Conn : Locked(k) /\ Locked(l) => k = l
  /\ \A k \in Conn : Locked(k) => view # Closed

\* The handle shows the change of the request that holds the mutex, and whatever
\* else was answered with ok.
ViewIsAcked ==
  view # Closed =>
    \A p \in Path :
      \/ \E k \in Conn : Locked(k) /\ p \in DOMAIN conn[k].edit /\ view[p] = conn[k].edit[p]
      \/ /\ acked[p] # Unknown => view[p] = acked[p]
         /\ \A k \in Conn : Locked(k) => p \notin DOMAIN conn[k].edit

WebInv == TypeOK /\ OneLocked /\ ViewIsAcked /\ OkIsDurable

-----------------------------------------------------------------------------
(* The types of what connections carry.                                    *)

Call == Views \union Changes

\* What may be answered to a call.
Replies(call) == IF call \in Views THEN Shown \union {None} ELSE {None, Ok}

LEMMA Kinds == \A call \in Call : call \in Views <=> call.op = "view"
BY DEF Call, Views, Changes

LEMMA CarriedParts ==
  ASSUME NEW r \in Carried, r.at # "free"
  PROVE  /\ r.tab \in Tab \union {None} /\ r.call \in Call
         /\ r.at = "locked" => r.edit \in Edits /\ r.call \in Changes
         /\ r.at = "answered" => r.answer \in Replies(r.call)
         /\ [r EXCEPT !.tab = None] \in Carried
         /\ [r EXCEPT !.tab = None].at = r.at
         /\ r.at = "locked" => [r EXCEPT !.tab = None].edit = r.edit
<1> USE DEF Carried, Free, Call
<1>1. CASE r \in [at : {"asked"}, tab : Tab \union {None}, call : Views \union Changes, authed : BOOLEAN]
  BY <1>1
<1>2. CASE r \in [at : {"locked"}, tab : Tab \union {None}, call : Changes, edit : Edits]
  BY <1>2
<1>3. CASE r \in [at : {"answered"}, tab : Tab \union {None}, call : Views, answer : Shown \union {None}]
  BY <1>3 DEF Replies
<1>4. CASE r \in [at : {"answered"}, tab : Tab \union {None}, call : Changes, answer : {None, Ok}]
  <2>1. r.call \notin Views
    BY <1>4 DEF Views, Changes
  <2> QED
    BY <1>4, <2>1 DEF Replies
<1> QED
  BY <1>1, <1>2, <1>3, <1>4

LEMMA AskedIsCarried ==
  ASSUME NEW t \in Tab, NEW call \in Call, NEW b \in BOOLEAN
  PROVE  [at |-> "asked", tab |-> t, call |-> call, authed |-> b] \in Carried
BY DEF Carried, Call

LEMMA AnsweredIsCarried ==
  ASSUME NEW t \in Tab \union {None}, NEW call \in Call, NEW a \in Replies(call)
  PROVE  [at |-> "answered", tab |-> t, call |-> call, answer |-> a] \in Carried
<1>1. CASE call \in Views
  BY <1>1 DEF Carried, Replies
<1>2. CASE call \notin Views
  BY <1>2 DEF Carried, Replies, Call
<1> QED
  BY <1>1, <1>2

LEMMA LockedIsCarried ==
  ASSUME NEW t \in Tab \union {None}, NEW call \in Changes, NEW e \in Edits
  PROVE  [at |-> "locked", tab |-> t, call |-> call, edit |-> e] \in Carried
BY DEF Carried

\* Effect and Change agree: a change moves just the paths of its effect, to what
\* the effect says.
LEMMA EffectOfChange ==
  ASSUME TypeOK, view # Closed, NEW call \in Changes, Change(call)
  PROVE  /\ Effect(call) \in Edits
         /\ view' \in Map /\ UNCHANGED <<saved, doubt>>
         /\ \A p \in Path : view'[p] = IF p \in DOMAIN Effect(call) THEN Effect(call)[p] ELSE view[p]
<1> USE DEF Handle!Change, Map
<1>0. view \in Map
  BY DEF TypeOK
<1>1. CASE call.op \in {"save", "upload"}
  <2>1. call.path \in Path /\ call.data \in Content
    BY <1>1 DEF Changes
  <2>2. Effect(call) = [p \in {call.path} |-> call.data]
    BY <1>1 DEF Effect
  <2>3. Effect(call) \in Edits
    <3>1. Effect(call) \in [{call.path} -> Content \union {None}]
      BY <2>1, <2>2
    <3> QED
      BY <2>1, <3>1 DEF Edits
  <2>4. view' = [view EXCEPT ![call.path] = call.data] /\ UNCHANGED <<saved, doubt>>
    BY <1>1 DEF Change, Handle!Put
  <2> QED
    BY <1>0, <2>1, <2>2, <2>3, <2>4
<1>2. CASE call.op = "delete"
  <2>1. call.path \in Path
    BY <1>2 DEF Changes
  <2>2. Effect(call) = [p \in {call.path} |-> None]
    BY <1>2 DEF Effect
  <2>3. Effect(call) \in Edits
    <3>1. Effect(call) \in [{call.path} -> Content \union {None}]
      BY <2>1, <2>2
    <3> QED
      BY <2>1, <3>1 DEF Edits
  <2>4. view' = [view EXCEPT ![call.path] = None] /\ UNCHANGED <<saved, doubt>>
    BY <1>2 DEF Change, Handle!Del
  <2> QED
    BY <1>0, <2>1, <2>2, <2>3, <2>4
<1>3. CASE call.op = "copy"
  <2>1. call.path \in Path /\ call.to \in Path
    BY <1>3 DEF Changes
  <2>2. Effect(call) = [p \in {call.to} |-> view[call.path]]
    BY <1>3 DEF Effect
  <2>3. Effect(call) \in Edits
    <3>1. Effect(call) \in [{call.to} -> Content \union {None}]
      BY <1>0, <2>1, <2>2
    <3> QED
      BY <2>1, <3>1 DEF Edits
  <2>4. view' = [view EXCEPT ![call.to] = view[call.path]] /\ UNCHANGED <<saved, doubt>>
    BY <1>3 DEF Change, Handle!Copy
  <2> QED
    BY <1>0, <2>1, <2>2, <2>3, <2>4
<1>4. CASE call.op = "rename"
  <2>1. call.path \in Path /\ call.to \in Path
    BY <1>4 DEF Changes
  <2>2. Effect(call) = [p \in {call.path, call.to} |-> IF p = call.path THEN None ELSE view[call.path]]
    BY <1>4 DEF Effect
  <2>3. Effect(call) \in Edits
    <3>1. Effect(call) \in [{call.path, call.to} -> Content \union {None}]
      BY <1>0, <2>1, <2>2
    <3> QED
      BY <2>1, <3>1 DEF Edits
  <2>4. /\ view' = [view EXCEPT ![call.to] = view[call.path], ![call.path] = None]
        /\ UNCHANGED <<saved, doubt>>
    BY <1>4 DEF Change, Handle!Move
  <2> QED
    BY <1>0, <2>1, <2>2, <2>3, <2>4
<1> QED
  BY <1>1, <1>2, <1>3, <1>4 DEF Changes

-----------------------------------------------------------------------------
(* The panels.                                                             *)

LEMMA BlankIsPanel ==
  /\ Blank \in Panel
  /\ \A p \in Path : [Blank EXCEPT !.path = p] \in Panel
BY DEF Blank, Panel

LEMMA PanelStays ==
  ASSUME NEW pn \in Panel
  PROVE  /\ \A s \in Shown : /\ Viewing(pn, s) \in Panel
                            /\ \A e \in BOOLEAN : [Viewing(pn, s) EXCEPT !.editable = e] \in Panel
         /\ Viewing(pn, pn.text) \in Panel
         /\ [pn EXCEPT !.body = "note"] \in Panel
         /\ pn.path # None => [pn EXCEPT !.editing = TRUE, !.body = "area"] \in Panel
         /\ Shut(pn) \in Panel
BY DEF Viewing, Shut, Panel

-----------------------------------------------------------------------------
(* The steps that take no lock, change no file and commit nothing.         *)

LEMMA NothingServed ==
  ASSUME WebInv, UNCHANGED <<handle, acked>>,
         conn' \in [Conn -> Carried], panel' \in [Tab -> Panel], current' \subseteq Tab,
         \A k \in Conn : (conn'[k].at = "locked") <=> Locked(k),
         \A k \in Conn : Locked(k) => conn'[k].edit = conn[k].edit
  PROVE  WebInv'
<1>1. TypeOK'
  BY DEF WebInv, TypeOK, handle
<1>2. OneLocked'
  BY DEF WebInv, OneLocked, Locked, handle
<1>3. ViewIsAcked'
  BY DEF WebInv, ViewIsAcked, Locked, handle
<1>4. OkIsDurable'
  BY DEF WebInv, OkIsDurable, handle
<1> QED
  BY <1>1, <1>2, <1>3, <1>4 DEF WebInv

\* A connection that carried no locked request is put to another use.
LEMMA OneConnection ==
  ASSUME WebInv, NEW k \in Conn, ~ Locked(k), NEW r \in Carried, r.at # "locked",
         conn' = [conn EXCEPT ![k] = r],
         UNCHANGED <<handle, acked>>, panel' \in [Tab -> Panel], current' \subseteq Tab
  PROVE  WebInv'
<1>1. conn \in [Conn -> Carried]
  BY DEF WebInv, TypeOK
<1>2. conn' \in [Conn -> Carried]
  BY <1>1
<1>3. \A l \in Conn : (conn'[l].at = "locked") <=> Locked(l)
  BY <1>1 DEF Locked
<1>4. \A l \in Conn : Locked(l) => conn'[l].edit = conn[l].edit
  BY <1>1 DEF Locked
<1> QED
  BY <1>2, <1>3, <1>4, NothingServed

LEMMA FreeIsCarried == Free \in Carried /\ Free.at = "free"
BY DEF Carried, Free

\* What is not free has the fields of a request.
LEMMA Busied ==
  ASSUME TypeOK, NEW k \in Conn, conn[k].at # "free"
  PROVE  /\ conn[k] \in Carried
         /\ conn[k].tab \in Tab \union {None} /\ conn[k].call \in Call
BY CarriedParts DEF TypeOK

LEMMA AskStep ==
  ASSUME WebInv, NEW t \in Tab, NEW k \in Conn, NEW call \in Call, Ask(t, k, call),
         panel' \in [Tab -> Panel]
  PROVE  WebInv'
<1>0. (t \in current) \in BOOLEAN
  OBVIOUS
<1>1. [at |-> "asked", tab |-> t, call |-> call, authed |-> t \in current] \in Carried
  BY <1>0, AskedIsCarried
<1>2. ~ Locked(k)
  BY DEF Ask, Locked, Free
<1>3. current' \subseteq Tab
  BY DEF Ask, WebInv, TypeOK
<1> QED
  BY <1>1, <1>2, <1>3, OneConnection DEF Ask

LEMMA AnswerStep ==
  ASSUME WebInv, NEW k \in Conn, Asked(k), NEW a \in Replies(conn[k].call), Answer(k, a),
         UNCHANGED <<handle, panel, current, acked>>
  PROVE  WebInv'
<1>1. TypeOK
  BY DEF WebInv
<1>2. conn[k].at = "asked"
  BY DEF Asked
<1>3. conn[k].tab \in Tab \union {None} /\ conn[k].call \in Call
  BY <1>1, <1>2, Busied
<1> DEFINE r == [at |-> "answered", tab |-> conn[k].tab, call |-> conn[k].call, answer |-> a]
<1>4. r \in Carried
  BY <1>3, AnsweredIsCarried
<1>5. conn' = [conn EXCEPT ![k] = r]
  BY <1>1 DEF Answer, TypeOK
<1>6. ~ Locked(k) /\ r.at # "locked"
  BY <1>2 DEF Locked
<1>7. panel' \in [Tab -> Panel] /\ current' \subseteq Tab
  BY <1>1 DEF TypeOK
<1> HIDE DEF r
<1> QED
  BY <1>4, <1>5, <1>6, <1>7, OneConnection

LEMMA PanelStep ==
  ASSUME WebInv, UNCHANGED <<handle, conn, current, acked>>, panel' \in [Tab -> Panel]
  PROVE  WebInv'
BY NothingServed DEF WebInv, TypeOK, Locked

LEMMA ReceiveStep ==
  ASSUME WebInv, NEW k \in Conn, Receive(k)
  PROVE  WebInv'
<1>1. TypeOK
  BY DEF WebInv
<1>2. conn[k].at = "answered"
  BY DEF Receive
<1>3. /\ conn[k] \in Carried
      /\ conn[k].tab \in Tab \union {None} /\ conn[k].call \in Call
  BY <1>1, <1>2, Busied
<1>4. conn[k].answer \in Replies(conn[k].call)
  BY <1>2, <1>3, CarriedParts
<1>5. panel' \in [Tab -> Panel]
  <2>0. panel \in [Tab -> Panel]
    BY <1>1 DEF TypeOK
  <2>1. CASE conn[k].tab = None
    BY <2>0, <2>1 DEF Receive
  <2>2. CASE conn[k].tab # None
    <3>1. PICK t \in Tab : t = conn[k].tab
      BY <1>3, <2>2
    <3>2. panel[t] \in Panel
      BY <2>0
    <3>3. PICK pn : panel' = [panel EXCEPT ![t] = pn] /\ pn =
            CASE conn[k].call.op = "view" /\ conn[k].answer # None ->
                   [Viewing(panel[t], conn[k].answer) EXCEPT !.editable = Editable(conn[k].answer)]
              [] conn[k].call.op = "view" /\ conn[k].answer = None -> [panel[t] EXCEPT !.body = "note"]
              [] conn[k].call.op = "save" /\ conn[k].answer = Ok ->
                   Viewing(panel[t], [path |-> conn[k].call.path, whole |-> TRUE])
              [] OTHER -> panel[t]
      BY <2>0, <2>2, <3>1 DEF Receive
    <3>4. pn \in Panel
      <4>1. CASE conn[k].call.op = "view"
        <5>1. conn[k].answer \in Shown \union {None}
          BY <1>3, <1>4, <4>1, Kinds DEF Replies
        <5>2. conn[k].answer \in Shown => Editable(conn[k].answer) \in BOOLEAN
          BY DEF Editable, Shown
        <5> QED
          BY <3>2, <3>3, <4>1, <5>1, <5>2, PanelStays
      <4>2. CASE conn[k].call.op = "save" /\ conn[k].answer = Ok
        <5>1. [path |-> conn[k].call.path, whole |-> TRUE] \in Shown
          BY <1>3, <4>2 DEF Shown, Call, Views, Changes
        <5> QED
          BY <3>2, <3>3, <4>2, <5>1, PanelStays
      <4>3. CASE conn[k].call.op # "view" /\ ~ (conn[k].call.op = "save" /\ conn[k].answer = Ok)
        BY <3>2, <3>3, <4>3
      <4> QED
        BY <4>1, <4>2, <4>3
    <3> QED
      BY <2>0, <3>3, <3>4
  <2> QED
    BY <2>1, <2>2
<1>6. /\ conn' = [conn EXCEPT ![k] = Free]
      /\ UNCHANGED <<handle, acked>> /\ current' \subseteq Tab
  BY <1>1 DEF Receive, TypeOK
<1>7. ~ Locked(k)
  BY <1>2 DEF Locked
<1> QED
  BY <1>5, <1>6, <1>7, FreeIsCarried, OneConnection

LEMMA ReloadStep ==
  ASSUME WebInv, NEW t \in Tab, Reload(t)
  PROVE  WebInv'
<1>1. TypeOK
  BY DEF WebInv
<1>2. \A k \in Conn : conn[k] # Free => conn[k].at # "free"
  BY <1>1 DEF TypeOK, Carried, Free
<1>3. \A k \in Conn : conn'[k] =
         IF conn[k] # Free /\ conn[k].tab = t THEN [conn[k] EXCEPT !.tab = None] ELSE conn[k]
  BY DEF Reload
<1>4. \A k \in Conn : /\ conn'[k] \in Carried
                      /\ conn'[k].at = conn[k].at
                      /\ Locked(k) => conn'[k].edit = conn[k].edit
  <2> TAKE k \in Conn
  <2>1. conn[k] \in Carried
    BY <1>1 DEF TypeOK
  <2>2. CASE conn[k] # Free /\ conn[k].tab = t
    <3>1. conn'[k] = [conn[k] EXCEPT !.tab = None]
      BY <1>3, <2>2
    <3>2. conn[k].at # "free"
      BY <1>2, <2>2
    <3> QED
      BY <2>1, <3>1, <3>2, CarriedParts DEF Locked
  <2>3. CASE ~ (conn[k] # Free /\ conn[k].tab = t)
    BY <1>3, <2>1, <2>3
  <2> QED
    BY <2>2, <2>3
<1>5. conn' \in [Conn -> Carried]
  <2>1. conn' = [k \in Conn |-> conn'[k]]
    BY DEF Reload
  <2> QED
    BY <1>4, <2>1
<1>6. panel' \in [Tab -> Panel]
  BY <1>1, BlankIsPanel DEF Reload, TypeOK
<1>7. UNCHANGED <<handle, acked>> /\ current' \subseteq Tab
  BY <1>1 DEF Reload, TypeOK
<1> QED
  BY <1>4, <1>5, <1>6, <1>7, NothingServed DEF Locked

-----------------------------------------------------------------------------
(* The steps of the server that a promise depends on.                      *)

LEMMA MapsAreOpen == \A m \in Map : m # Closed
BY WebAssumption

LEMMA ChangeStep ==
  ASSUME WebInv, NEW k \in Conn, ChangeDone(k)
  PROVE  WebInv'
<1>1. TypeOK /\ OkIsDurable
  BY DEF WebInv
<1>2. conn[k].at = "asked" /\ view # Closed /\ \A l \in Conn : ~ Locked(l)
  BY DEF ChangeDone, Admitted, Asked, Enters, Locked
<1>3. conn[k].tab \in Tab \union {None} /\ conn[k].call \in Changes
  BY <1>1, <1>2, Busied, Kinds DEF ChangeDone, Call
<1>4. PICK e : e = Effect(conn[k].call)
  OBVIOUS
<1>5. /\ e \in Edits /\ view' \in Map /\ UNCHANGED <<saved, doubt>>
      /\ \A p \in Path : view'[p] = IF p \in DOMAIN e THEN e[p] ELSE view[p]
  BY <1>1, <1>2, <1>3, <1>4, EffectOfChange DEF ChangeDone
<1>6. PICK r : r = [at |-> "locked", tab |-> conn[k].tab, call |-> conn[k].call, edit |-> e]
  OBVIOUS
<1>7. r \in Carried /\ r.at = "locked" /\ r.edit = e
  BY <1>3, <1>5, <1>6, LockedIsCarried
<1>8. conn \in [Conn -> Carried] /\ conn' = [conn EXCEPT ![k] = r]
  BY <1>1, <1>4, <1>6 DEF ChangeDone, TypeOK
<1>9. view' # Closed
  BY <1>5, MapsAreOpen
<1>10. \A l \in Conn : conn'[l] = IF l = k THEN r ELSE conn[l]
  BY <1>8
<1>11. \A l \in Conn : (conn'[l].at = "locked") <=> l = k
  BY <1>2, <1>7, <1>10 DEF Locked
<1>12. UNCHANGED <<panel, current, acked>>
  BY DEF ChangeDone
<1>13. TypeOK'
  BY <1>1, <1>5, <1>7, <1>8, <1>12 DEF TypeOK
<1>14. OneLocked'
  BY <1>9, <1>11 DEF OneLocked, Locked
<1>15. ViewIsAcked'
  <2>1. ASSUME NEW p \in Path
        PROVE  \/ conn'[k].at = "locked" /\ p \in DOMAIN conn'[k].edit /\ view'[p] = conn'[k].edit[p]
               \/ /\ acked'[p] # Unknown => view'[p] = acked'[p]
                  /\ \A l \in Conn : conn'[l].at = "locked" => p \notin DOMAIN conn'[l].edit
    <3>1. CASE p \in DOMAIN e
      BY <1>5, <1>7, <1>10, <3>1
    <3>2. CASE p \notin DOMAIN e
      <4>1. acked[p] # Unknown => view[p] = acked[p]
        BY <1>2 DEF WebInv, ViewIsAcked
      <4> QED
        BY <1>5, <1>7, <1>10, <1>11, <1>12, <3>2, <4>1
    <3> QED
      BY <3>1, <3>2
  <2> QED
    BY <2>1 DEF ViewIsAcked, Locked
<1>16. OkIsDurable'
  BY <1>1, <1>5, <1>12 DEF OkIsDurable
<1> QED
  BY <1>13, <1>14, <1>15, <1>16 DEF WebInv

LEMMA CommitStep ==
  ASSUME WebInv, NEW k \in Conn, CommitReply(k)
  PROVE  WebInv'
<1>1. TypeOK /\ OneLocked /\ ViewIsAcked /\ OkIsDurable
  BY DEF WebInv
<1>2. view # Closed /\ conn[k].at = "locked"
  BY DEF CommitReply
<1>3. PICK b \in BOOLEAN :
        /\ IF b THEN Handle!Save ELSE Handle!SaveFails
        /\ Answer(k, Reply(b))
        /\ acked' =
             [p \in Path |-> CASE p \notin DOMAIN conn[k].edit -> acked[p]
                              [] Reply(b) = Ok /\ p \in DOMAIN conn[k].edit -> conn[k].edit[p]
                              [] OTHER -> Unknown]
  BY DEF CommitReply
<1>4. conn[k].tab \in Tab \union {None} /\ conn[k].call \in Changes /\ conn[k].edit \in Edits
  BY <1>1, <1>2, CarriedParts DEF TypeOK
<1>5. (Reply(b) = Ok) <=> b
  BY WebAssumption DEF Reply
<1>6. PICK r : r = [at |-> "answered", tab |-> conn[k].tab, call |-> conn[k].call, answer |-> Reply(b)]
  OBVIOUS
<1>7. r \in Carried /\ r.at = "answered"
  <2>1. conn[k].call \in Call /\ conn[k].call \notin Views
    BY <1>4 DEF Call, Views, Changes
  <2>2. Reply(b) \in Replies(conn[k].call)
    BY <2>1 DEF Reply, Replies
  <2> QED
    BY <1>4, <1>6, <2>1, <2>2, AnsweredIsCarried
<1>8. conn' = [conn EXCEPT ![k] = r]
  BY <1>1, <1>3, <1>6 DEF Answer, TypeOK
<1>9. \A l \in Conn : conn'[l].at # "locked"
  <2>1. \A l \in Conn : conn'[l] = IF l = k THEN r ELSE conn[l]
    BY <1>1, <1>8 DEF TypeOK
  <2> QED
    BY <1>1, <1>2, <1>7, <2>1 DEF OneLocked, Locked
<1>10. UNCHANGED <<view, panel, current>> /\ view \in Map
  BY <1>1, <1>2, <1>3 DEF CommitReply, Handle!Save, Handle!SaveFails, TypeOK
<1>11. /\ saved' \in {view, saved}
       /\ doubt' \subseteq doubt \union {view}
       /\ b => saved' = view /\ doubt' = {}
  BY <1>3 DEF Handle!Save, Handle!SaveFails
\* The promise as it is now holds of the handle, and so does what is added to it.
<1>12. \A p \in Path : acked'[p] # Unknown =>
          /\ view[p] = acked'[p]
          /\ ~ b => acked'[p] = acked[p]
  <2> TAKE p \in Path
  <2>0. acked'[p] = CASE p \notin DOMAIN conn[k].edit -> acked[p]
                      [] Reply(b) = Ok /\ p \in DOMAIN conn[k].edit -> conn[k].edit[p]
                      [] OTHER -> Unknown
    BY <1>3
  <2>1. \/ /\ p \in DOMAIN conn[k].edit /\ view[p] = conn[k].edit[p]
        \/ /\ p \notin DOMAIN conn[k].edit /\ (acked[p] # Unknown => view[p] = acked[p])
    <3>1. \A l \in Conn : Locked(l) <=> l = k
      BY <1>1, <1>2 DEF OneLocked, Locked
    <3> QED
      BY <1>1, <1>2, <3>1 DEF ViewIsAcked
  <2> QED
    BY <1>5, <2>0, <2>1
<1>13. acked' \in [Path -> Content \union {None, Unknown}]
  <2>1. ASSUME NEW p \in Path PROVE acked'[p] \in Content \union {None, Unknown}
    BY <1>1, <1>10, <1>12, <2>1 DEF Map, TypeOK
  <2>2. acked' = [p \in Path |-> acked'[p]]
    BY <1>3
  <2> QED
    BY <2>1, <2>2
<1>14. TypeOK'
  BY <1>1, <1>7, <1>8, <1>10, <1>11, <1>13 DEF TypeOK
<1>15. OneLocked'
  BY <1>9 DEF OneLocked, Locked
<1>16. ViewIsAcked'
  BY <1>9, <1>10, <1>12 DEF ViewIsAcked, Locked
<1>17. OkIsDurable'
  <2>1. CASE b
    BY <1>10, <1>11, <1>12, <2>1 DEF OkIsDurable
  <2>2. CASE ~ b
    <3>1. ASSUME NEW m \in {saved'} \union doubt', NEW p \in Path, acked'[p] # Unknown
          PROVE  m[p] = acked'[p]
      <4>1. m = view \/ m \in {saved} \union doubt
        BY <1>11
      <4> QED
        BY <1>1, <1>12, <2>2, <3>1, <4>1 DEF OkIsDurable
    <3> QED
      BY <3>1 DEF OkIsDurable
  <2> QED
    BY <2>1, <2>2
<1> QED
  BY <1>14, <1>15, <1>16, <1>17 DEF WebInv

LEMMA StopStep ==
  ASSUME WebInv, Stop
  PROVE  WebInv'
<1>1. TypeOK /\ OneLocked /\ ViewIsAcked /\ OkIsDurable
  BY DEF WebInv
<1>2. view \in Map
  BY <1>1 DEF Stop, TypeOK
<1>3. /\ view' = Closed
      /\ \/ saved' \in {saved} \union doubt /\ doubt' \subseteq doubt
         \/ /\ ~ Enters /\ doubt' = doubt \union {view} /\ UNCHANGED saved
  BY DEF Stop, Handle!Close, Handle!PowerLoss
<1>4. \A k \in Conn : conn'[k] = IF conn[k].at = "answered" THEN conn[k] ELSE Free
  BY DEF Stop
<1>5. conn' \in [Conn -> Carried]
  BY <1>1, FreeIsCarried DEF Stop, TypeOK
<1>6. \A k \in Conn : conn'[k].at # "locked"
  BY <1>4, FreeIsCarried
<1>7. \A p \in Path : acked'[p] =
          IF \E k \in Conn : Locked(k) /\ p \in DOMAIN conn[k].edit THEN Unknown ELSE acked[p]
  BY DEF Stop, Locked
<1>8. acked' \in [Path -> Content \union {None, Unknown}]
  BY <1>1 DEF Stop, TypeOK
<1>9. TypeOK'
  BY <1>1, <1>2, <1>3, <1>5, <1>8 DEF Stop, TypeOK
<1>10. OneLocked' /\ ViewIsAcked'
  BY <1>3, <1>6 DEF OneLocked, ViewIsAcked, Locked
<1>11. OkIsDurable'
  <2>1. ASSUME NEW m \in {saved'} \union doubt', NEW p \in Path, acked'[p] # Unknown
        PROVE  m[p] = acked'[p]
    <3>1. acked'[p] = acked[p] /\ ~ \E k \in Conn : Locked(k) /\ p \in DOMAIN conn[k].edit
      BY <1>7, <2>1
    <3>2. m = view \/ m \in {saved} \union doubt
      BY <1>3
    <3>3. CASE m = view
      BY <1>1, <2>1, <3>1, <3>3 DEF ViewIsAcked, Stop
    <3>4. CASE m \in {saved} \union doubt
      BY <1>1, <2>1, <3>1, <3>4 DEF OkIsDurable
    <3> QED
      BY <3>2, <3>3, <3>4
  <2> QED
    BY <2>1 DEF OkIsDurable
<1> QED
  BY <1>9, <1>10, <1>11 DEF WebInv

LEMMA StartStep ==
  ASSUME WebInv, Start
  PROVE  WebInv'
<1>1. TypeOK /\ OneLocked /\ OkIsDurable
  BY DEF WebInv
<1>2. /\ view = Closed /\ view' \in {saved} \union doubt
      /\ UNCHANGED <<saved, doubt, conn, panel, current, acked>>
  BY DEF Start, Handle!Open
<1>3. \A k \in Conn : conn'[k].at # "locked"
  BY <1>1, <1>2 DEF OneLocked, Locked
<1>4. TypeOK'
  BY <1>1, <1>2 DEF TypeOK
<1>5. OneLocked' /\ OkIsDurable'
  BY <1>1, <1>2, <1>3 DEF OneLocked, OkIsDurable, Locked
<1>6. ViewIsAcked'
  BY <1>1, <1>2, <1>3 DEF ViewIsAcked, OkIsDurable, Locked
<1> QED
  BY <1>4, <1>5, <1>6 DEF WebInv

-----------------------------------------------------------------------------
(* The theorems.                                                           *)

LEMMA WebInit == Init => WebInv
<1> SUFFICES ASSUME Init PROVE WebInv
  OBVIOUS
<1>1. TypeOK
  BY FreeIsCarried, BlankIsPanel DEF Init, TypeOK, Map
<1>2. \A k \in Conn : ~ Locked(k)
  BY FreeIsCarried DEF Init, Locked
<1>3. view \in Map
  BY DEF Init
<1> QED
  BY <1>1, <1>2, <1>3 DEF WebInv, OneLocked, ViewIsAcked, OkIsDurable, Init

LEMMA PageStep ==
  ASSUME WebInv, Page
  PROVE  WebInv'
<1>1. panel \in [Tab -> Panel] /\ conn \in [Conn -> Carried]
  BY DEF WebInv, TypeOK
<1>2. ASSUME NEW t \in Tab, Edit(t) \/ Cancel(t) \/ ClosePanel(t) PROVE WebInv'
  <2>1. panel[t] \in Panel
    BY <1>1
  <2>2. PICK pn : pn \in Panel /\ panel' = [panel EXCEPT ![t] = pn]
    <3>1. CASE Edit(t)
      <4>1. panel' = [panel EXCEPT ![t] = [panel[t] EXCEPT !.editing = TRUE, !.body = "area"]]
        BY <1>1, <2>1, <3>1 DEF Edit, Panel
      <4> QED
        BY <2>1, <3>1, <4>1, PanelStays DEF Edit
    <3>2. CASE Cancel(t)
      BY <1>1, <2>1, <3>2, PanelStays DEF Cancel
    <3>3. CASE ClosePanel(t)
      BY <1>1, <2>1, <3>3, PanelStays DEF ClosePanel
    <3> QED
      BY <1>2, <3>1, <3>2, <3>3
  <2>3. UNCHANGED <<handle, conn, current, acked>>
    BY <1>2 DEF Edit, Cancel, ClosePanel
  <2> QED
    BY <1>1, <2>2, <2>3, PanelStep
<1>3. ASSUME NEW t \in Tab, NEW k \in Conn, NEW p \in Path, Preview(t, k, p) PROVE WebInv'
  <2>1. [op |-> "view", path |-> p] \in Call
    BY DEF Call, Views
  <2>2. panel' \in [Tab -> Panel]
    BY <1>1, <1>3, BlankIsPanel DEF Preview
  <2> QED
    BY <1>3, <2>1, <2>2, AskStep DEF Preview
<1>4. ASSUME NEW t \in Tab, NEW k \in Conn, NEW c \in Content, Save(t, k, c) PROVE WebInv'
  <2>1. panel[t] \in Panel
    BY <1>1
  <2>2. PICK call : call = [op |-> "save", path |-> panel[t].path, data |-> c, base |-> panel[t].text]
    OBVIOUS
  <2>3. call \in Call
    BY <1>4, <2>1, <2>2 DEF Call, Changes, Panel, Save
  <2> QED
    BY <1>1, <1>4, <2>2, <2>3, AskStep DEF Save
<1>5. ASSUME NEW t \in Tab, NEW k \in Conn, Command(t, k) PROVE WebInv'
  <2>1. PICK call \in Call : Ask(t, k, call)
    <3>1. \A p \in Path, c \in Content : [op |-> "upload", path |-> p, data |-> c] \in Call
      BY DEF Call, Changes
    <3>2. \A p \in Path : [op |-> "delete", path |-> p] \in Call
      BY DEF Call, Changes
    <3>3. \A f, g \in Path, op \in {"rename", "copy"} : [op |-> op, path |-> f, to |-> g] \in Call
      BY DEF Call, Changes
    <3> QED
      BY <1>5, <3>1, <3>2, <3>3 DEF Command
  <2> QED
    BY <1>1, <1>5, <2>1, AskStep DEF Command
<1> QED
  BY <1>2, <1>3, <1>4, <1>5, ReloadStep, ReceiveStep DEF Page

LEMMA ServerStep ==
  ASSUME WebInv, Server
  PROVE  WebInv'
<1>1. ASSUME NEW k \in Conn, Refuse(k) \/ AnswerView(k) \/ ChangeFails(k) PROVE WebInv'
  <2>1. Asked(k) /\ UNCHANGED <<handle, panel, current, acked>>
    BY <1>1 DEF Refuse, AnswerView, ChangeFails, Admitted
  <2>2. conn[k].call \in Call
    BY <2>1, Busied DEF Asked, WebInv
  <2>3. None \in Replies(conn[k].call)
    BY DEF Replies
  <2>4. CASE Answer(k, None)
    BY <2>1, <2>3, <2>4, AnswerStep
  <2>5. CASE ~ Answer(k, None)
    <3>1. PICK whole \in BOOLEAN :
            conn[k].call.op = "view" /\ Answer(k, [path |-> conn[k].call.path, whole |-> whole])
      BY <1>1, <2>5 DEF Refuse, AnswerView, ChangeFails
    <3>3. conn[k].call \in Views
      BY <2>2, <3>1, Kinds
    <3>4. [path |-> conn[k].call.path, whole |-> whole] \in Replies(conn[k].call)
      BY <3>3 DEF Views, Shown, Replies
    <3> QED
      BY <2>1, <3>1, <3>4, AnswerStep
  <2> QED
    BY <2>4, <2>5
<1> QED
  BY <1>1, ChangeStep, CommitStep, StopStep, StartStep DEF Server

LEMMA WebStep == WebInv /\ [Next]_vars => WebInv'
<1> SUFFICES ASSUME WebInv, [Next]_vars PROVE WebInv'
  OBVIOUS
<1>1. CASE UNCHANGED vars
  BY <1>1, PanelStep DEF vars, WebInv, TypeOK
<1> QED
  BY <1>1, PageStep, ServerStep DEF Next

LEMMA WebInvariant == Spec => []WebInv
BY WebInit, WebStep, PTL DEF Spec

\* What each connection and panel holds is of its type.
THEOREM WebType == Spec => []TypeOK
<1>1. WebInv => TypeOK
  BY DEF WebInv
<1> QED
  BY <1>1, WebInvariant, PTL

\* What was answered with ok is there whoever opens the pack next: the handlers
\* change and commit under one lock, and ok is the answer to a commit that
\* succeeded (src/cli/web.cpp, commit_reply).
THEOREM OkStays == Spec => []OkIsDurable
<1>1. WebInv => OkIsDurable
  BY DEF WebInv
<1> QED
  BY <1>1, WebInvariant, PTL

-----------------------------------------------------------------------------
(* A user who waits for each answer saves to each file its own text.       *)

Asks(t, k) == conn[k] # Free /\ conn[k].tab = t

\* What may be edited is all of the file that the panel names.
PanelFits(pn) ==
  /\ (pn.path # None /\ pn.editable) => pn.text = [path |-> pn.path, whole |-> TRUE]
  /\ pn.editing => pn.editable

\* The panel has not gone on to another file while a request of it is under way.
RequestFits(pn, call) ==
  /\ call.op \in {"view", "save"} => pn.path \in {None, call.path}
  /\ call.op = "save" => call.base = [path |-> call.path, whole |-> TRUE]

AnswerFits(r) ==
  (r.at = "answered" /\ r.call.op = "view" /\ r.answer # None) => r.answer.path = r.call.path

OneRequest == \A t \in Patient, k, l \in Conn : Asks(t, k) /\ Asks(t, l) => k = l

PatientInv ==
  /\ OneRequest
  /\ \A t \in Patient : PanelFits(panel[t])
  /\ \A t \in Patient, k \in Conn : Asks(t, k) => RequestFits(panel[t], conn[k].call)
  /\ \A k \in Conn : AnswerFits(conn[k])

LEMMA PatientInit == Init => PatientInv
BY WebAssumption
DEF Init, PatientInv, OneRequest, Asks, PanelFits, AnswerFits, Free, Blank

\* A step that asks nothing: requests go on or end, and what panels show is still
\* theirs.
LEMMA NothingAsked ==
  ASSUME PatientInv,
         \A k \in Conn : conn'[k] # Free =>
            conn[k] # Free /\ conn'[k].call = conn[k].call /\ conn'[k].tab \in {conn[k].tab, None},
         \A k \in Conn : AnswerFits(conn'[k]),
         \A t \in Patient : PanelFits(panel'[t]),
         \A t \in Patient : panel'[t].path \in {panel[t].path, None}
  PROVE  PatientInv'
<1>1. \A t \in Patient, k \in Conn : Asks(t, k)' => Asks(t, k) /\ conn'[k].call = conn[k].call
  BY WebAssumption DEF Asks
<1>2. \A t \in Patient, k \in Conn :
         RequestFits(panel[t], conn[k].call) => RequestFits(panel'[t], conn[k].call)
  BY DEF RequestFits
<1> QED
  BY <1>1, <1>2 DEF PatientInv, OneRequest

\* A tab asks for something that fits its panel.
LEMMA PatientAsks ==
  ASSUME WebInv, PatientInv, NEW t \in Tab, NEW k \in Conn, NEW call, Ask(t, k, call),
         panel' \in [Tab -> Panel], \A u \in Tab : u # t => panel'[u] = panel[u],
         t \in Patient => PanelFits(panel'[t]) /\ RequestFits(panel'[t], call)
  PROVE  PatientInv'
<1> DEFINE r == [at |-> "asked", tab |-> t, call |-> call, authed |-> t \in current]
<1>1. conn \in [Conn -> Carried]
  BY DEF WebInv, TypeOK
<1>2. \A l \in Conn : conn'[l] = IF l = k THEN r ELSE conn[l]
  BY <1>1 DEF Ask
<1>3. r.tab = t /\ r.call = call /\ r.at = "asked"
  OBVIOUS
<1> HIDE DEF r
<1>4. \A u \in Patient, l \in Conn : Asks(u, l)' => (u = t /\ l = k) \/ (l # k /\ Asks(u, l))
  BY <1>2, <1>3 DEF Asks
<1>5. t \in Patient => \A l \in Conn : ~ Asks(t, l)
  BY DEF Ask, Busy, Asks
<1>6. OneRequest'
  BY <1>4, <1>5 DEF PatientInv, OneRequest
<1>7. \A u \in Patient : PanelFits(panel'[u])
  BY WebAssumption DEF PatientInv
<1>8. \A u \in Patient, l \in Conn : Asks(u, l)' => RequestFits(panel'[u], conn'[l].call)
  BY <1>2, <1>3, <1>4, <1>5, WebAssumption DEF PatientInv
<1>9. \A l \in Conn : AnswerFits(conn'[l])
  BY <1>2, <1>3 DEF PatientInv, AnswerFits
<1> QED
  BY <1>6, <1>7, <1>8, <1>9 DEF PatientInv

LEMMA PatientReceives ==
  ASSUME WebInv, PatientInv, NEW k \in Conn, Receive(k)
  PROVE  PatientInv'
<1>0. TypeOK /\ panel \in [Tab -> Panel] /\ conn \in [Conn -> Carried]
  BY DEF WebInv, TypeOK
<1>1. conn[k].at = "answered" /\ conn[k] # Free
  BY DEF Receive, Free
<1>2. \A l \in Conn : conn'[l] = IF l = k THEN Free ELSE conn[l]
  BY <1>0 DEF Receive
<1>3. \A l \in Conn : AnswerFits(conn'[l])
  BY <1>2 DEF PatientInv, AnswerFits, Free
<1>4. \A u \in Tab : u # conn[k].tab => panel'[u] = panel[u]
  BY <1>0 DEF Receive
<1>5. ASSUME NEW t \in Patient, t = conn[k].tab
      PROVE  PanelFits(panel'[t]) /\ panel'[t].path = panel[t].path
  <2>0. t \in Tab /\ t # None /\ panel[t] \in Panel /\ conn[k].call \in Call
    BY <1>0, <1>1, Busied, WebAssumption
  <2>1. PanelFits(panel[t]) /\ RequestFits(panel[t], conn[k].call)
    BY <1>1, <1>5 DEF PatientInv, Asks
  <2>2. conn[k].answer \in Replies(conn[k].call)
    BY <1>0, <1>1, Busied, CarriedParts
  <2>3. panel'[t] =
          CASE conn[k].call.op = "view" /\ conn[k].answer # None ->
                 [Viewing(panel[t], conn[k].answer) EXCEPT !.editable = Editable(conn[k].answer)]
            [] conn[k].call.op = "view" /\ conn[k].answer = None -> [panel[t] EXCEPT !.body = "note"]
            [] conn[k].call.op = "save" /\ conn[k].answer = Ok ->
                 Viewing(panel[t], [path |-> conn[k].call.path, whole |-> TRUE])
            [] OTHER -> panel[t]
    BY <1>0, <1>5, <2>0 DEF Receive
  <2>4. CASE conn[k].call.op = "view" /\ conn[k].answer # None
    <3>1. conn[k].answer \in Shown /\ conn[k].answer.path = conn[k].call.path
      BY <1>1, <2>0, <2>2, <2>4, Kinds DEF Replies, PatientInv, AnswerFits
    <3>2. panel'[t] = [Viewing(panel[t], conn[k].answer) EXCEPT !.editable = Editable(conn[k].answer)]
      BY <2>3, <2>4
    <3>3. panel[t].path \in {None, conn[k].call.path}
      BY <2>1, <2>4 DEF RequestFits
    <3> QED
      BY <2>0, <3>1, <3>2, <3>3, ZenonT(40) DEF Viewing, Editable, Panel, PanelFits, Shown
  <2>5. CASE conn[k].call.op = "view" /\ conn[k].answer = None
    BY <2>0, <2>1, <2>3, <2>5 DEF Panel, PanelFits
  <2>6. CASE conn[k].call.op = "save" /\ conn[k].answer = Ok
    <3>1. panel'[t] = Viewing(panel[t], [path |-> conn[k].call.path, whole |-> TRUE])
      BY <2>3, <2>6
    <3>2. panel[t].path \in {None, conn[k].call.path}
      BY <2>1, <2>6 DEF RequestFits
    <3> QED
      BY <2>0, <3>1, <3>2, ZenonT(40) DEF Viewing, Panel, PanelFits
  <2>7. CASE conn[k].call.op # "view" /\ ~ (conn[k].call.op = "save" /\ conn[k].answer = Ok)
    BY <2>1, <2>3, <2>7
  <2> QED
    BY <2>4, <2>5, <2>6, <2>7
<1>6. \A u \in Patient : PanelFits(panel'[u]) /\ panel'[u].path \in {panel[u].path, None}
  BY <1>4, <1>5, WebAssumption DEF PatientInv
<1> QED
  BY <1>1, <1>2, <1>3, <1>6, NothingAsked

LEMMA PatientPage ==
  ASSUME WebInv, PatientInv, Page
  PROVE  PatientInv'
<1>0. TypeOK /\ panel \in [Tab -> Panel] /\ conn \in [Conn -> Carried]
  BY DEF WebInv, TypeOK
<1>1. \A t \in Patient : PanelFits(panel[t]) /\ panel[t] \in Panel
  BY <1>0, WebAssumption DEF PatientInv
<1>2. ASSUME NEW t \in Tab, Edit(t) \/ Cancel(t) \/ ClosePanel(t) PROVE PatientInv'
  <2>1. conn' = conn
    BY <1>2 DEF Edit, Cancel, ClosePanel
  <2>2. PICK pn : /\ panel' = [panel EXCEPT ![t] = pn]
                  /\ \/ pn = [panel[t] EXCEPT !.editing = TRUE, !.body = "area"] /\ panel[t].editable
                     \/ pn = Viewing(panel[t], panel[t].text)
                     \/ pn = Shut(panel[t])
    BY <1>0, <1>2 DEF Edit, Cancel, ClosePanel
  <2>3. panel[t] \in Panel
    BY <1>0
  <2>4. pn.path \in {panel[t].path, None}
    BY <2>2, <2>3 DEF Viewing, Shut, Panel
  <2>5. PanelFits(panel[t]) => PanelFits(pn)
    BY <2>2, <2>3 DEF Viewing, Shut, Panel, PanelFits
  <2>6. \A u \in Tab : panel'[u] = IF u = t THEN pn ELSE panel[u]
    BY <1>0, <2>2
  <2>7. \A u \in Patient : PanelFits(panel'[u]) /\ panel'[u].path \in {panel[u].path, None}
    BY <1>1, <2>4, <2>5, <2>6, WebAssumption
  <2>8. \A l \in Conn : AnswerFits(conn'[l])
    BY <2>1 DEF PatientInv
  <2> QED
    BY <2>1, <2>7, <2>8, NothingAsked
<1>3. ASSUME NEW t \in Tab, Reload(t) PROVE PatientInv'
  <2>1. \A k \in Conn : conn'[k] =
           IF conn[k] # Free /\ conn[k].tab = t THEN [conn[k] EXCEPT !.tab = None] ELSE conn[k]
    BY <1>3 DEF Reload
  <2>2. \A k \in Conn : conn[k] # Free => conn[k].at # "free"
    BY <1>0 DEF Carried, Free
  <2>3. \A u \in Tab : panel'[u] = IF u = t THEN Blank ELSE panel[u]
    BY <1>0, <1>3 DEF Reload
  <2>4. \A u \in Patient : PanelFits(panel'[u]) /\ panel'[u].path \in {panel[u].path, None}
    BY <1>1, <2>3, WebAssumption DEF PanelFits, Blank
  <2>5. ASSUME NEW k \in Conn, conn[k] # Free
        PROVE  LET r == [conn[k] EXCEPT !.tab = None]
               IN  r.call = conn[k].call /\ r.tab = None /\ (AnswerFits(conn[k]) => AnswerFits(r))
    <3>1. conn[k].at # "free" /\ conn[k] \in Carried
      BY <1>0, <2>2, <2>5
    <3> QED
      BY <3>1 DEF Carried, AnswerFits, Free
  <2>6. \A k \in Conn : /\ conn'[k] # Free => conn[k] # Free /\ conn'[k].call = conn[k].call
                                               /\ conn'[k].tab \in {conn[k].tab, None}
                        /\ AnswerFits(conn'[k])
    BY <2>1, <2>5 DEF PatientInv
  <2> QED
    BY <2>4, <2>6, NothingAsked
<1>4. ASSUME NEW t \in Tab, NEW k \in Conn, NEW p \in Path, Preview(t, k, p) PROVE PatientInv'
  <2>1. panel' = [panel EXCEPT ![t] = [Blank EXCEPT !.path = p]]
    BY <1>4 DEF Preview
  <2>2. /\ panel' \in [Tab -> Panel] /\ panel'[t] = [Blank EXCEPT !.path = p]
        /\ \A u \in Tab : u # t => panel'[u] = panel[u]
    BY <1>0, <2>1, BlankIsPanel
  <2>3. PanelFits(panel'[t]) /\ panel'[t].path = p
    BY <2>2 DEF PanelFits, Blank
  <2>4. RequestFits(panel'[t], [op |-> "view", path |-> p])
    BY <2>3 DEF RequestFits
  <2> QED
    BY <1>4, <2>2, <2>3, <2>4, PatientAsks DEF Preview
<1>5. ASSUME NEW t \in Tab, NEW k \in Conn, Command(t, k) PROVE PatientInv'
  <2>1. panel' = panel
    BY <1>5 DEF Command
  <2>2. PICK call : Ask(t, k, call) /\ call.op \notin {"view", "save"}
    <3>1. ASSUME NEW p \in Path, NEW c \in Content, Ask(t, k, [op |-> "upload", path |-> p, data |-> c])
          PROVE  \E call : Ask(t, k, call) /\ call.op \notin {"view", "save"}
      <4> WITNESS [op |-> "upload", path |-> p, data |-> c]
      <4> QED
        BY <3>1
    <3>2. ASSUME NEW p \in Path, Ask(t, k, [op |-> "delete", path |-> p])
          PROVE  \E call : Ask(t, k, call) /\ call.op \notin {"view", "save"}
      <4> WITNESS [op |-> "delete", path |-> p]
      <4> QED
        BY <3>2
    <3>3. ASSUME NEW f \in Path, NEW g \in Path, NEW op \in {"rename", "copy"},
                 Ask(t, k, [op |-> op, path |-> f, to |-> g])
          PROVE  \E call : Ask(t, k, call) /\ call.op \notin {"view", "save"}
      <4> WITNESS [op |-> op, path |-> f, to |-> g]
      <4> QED
        BY <3>3
    <3> QED
      BY <1>5, <3>1, <3>2, <3>3 DEF Command
  <2>3. RequestFits(panel'[t], call)
    BY <2>2 DEF RequestFits
  <2> QED
    BY <1>0, <1>1, <2>1, <2>2, <2>3, PatientAsks
<1>6. ASSUME NEW t \in Tab, NEW k \in Conn, NEW c \in Content, Save(t, k, c) PROVE PatientInv'
  <2>1. panel' = panel /\ panel[t].editing /\ panel[t] \in Panel
    BY <1>0, <1>6 DEF Save
  <2>2. PICK call : /\ Ask(t, k, call)
                    /\ call = [op |-> "save", path |-> panel[t].path, data |-> c, base |-> panel[t].text]
    BY <1>6 DEF Save
  <2>3. t \in Patient => panel[t].text = [path |-> panel[t].path, whole |-> TRUE]
    BY <1>1, <2>1 DEF PanelFits, Panel
  <2>4. t \in Patient => RequestFits(panel'[t], call)
    BY <2>1, <2>2, <2>3 DEF RequestFits
  <2> QED
    BY <1>0, <1>1, <2>1, <2>2, <2>4, PatientAsks
<1>7. ASSUME NEW k \in Conn, Receive(k) PROVE PatientInv'
  BY <1>7, PatientReceives
<1> QED
  BY <1>2, <1>3, <1>4, <1>5, <1>6, <1>7 DEF Page

LEMMA PatientServer ==
  ASSUME WebInv, PatientInv, Server
  PROVE  PatientInv'
<1>0. TypeOK /\ conn \in [Conn -> Carried] /\ panel' = panel
  BY DEF WebInv, TypeOK, Server, Refuse, AnswerView, ChangeDone, ChangeFails, CommitReply, Stop, Start
<1>1. \A t \in Patient : PanelFits(panel'[t]) /\ panel'[t].path \in {panel[t].path, None}
  BY <1>0 DEF PatientInv
<1>2. ASSUME NEW k \in Conn, NEW r, conn' = [conn EXCEPT ![k] = r], conn[k].at # "free",
             r.tab = conn[k].tab, r.call = conn[k].call, AnswerFits(r)
      PROVE  PatientInv'
  <2>1. \A l \in Conn : conn'[l] = IF l = k THEN r ELSE conn[l]
    BY <1>0, <1>2
  <2>2. conn[k] # Free
    BY <1>2 DEF Free
  <2>3. \A l \in Conn : AnswerFits(conn'[l])
    BY <1>2, <2>1 DEF PatientInv
  <2> QED
    BY <1>1, <1>2, <2>1, <2>2, <2>3, NothingAsked
<1>3. ASSUME NEW k \in Conn, NEW a, Answer(k, a), conn[k].at # "free",
             a = None \/ a = Ok \/ (a.path = conn[k].call.path),
             conn[k].call.op = "view" => a # Ok
      PROVE  PatientInv'
  <2> DEFINE r == [at |-> "answered", tab |-> conn[k].tab, call |-> conn[k].call, answer |-> a]
  <2>1. conn' = [conn EXCEPT ![k] = r]
    BY <1>0, <1>3 DEF Answer
  <2>2. r.tab = conn[k].tab /\ r.call = conn[k].call /\ AnswerFits(r)
    BY <1>3 DEF AnswerFits
  <2> HIDE DEF r
  <2> QED
    BY <1>2, <1>3, <2>1, <2>2
<1>4. ASSUME NEW k \in Conn, Refuse(k) \/ ChangeFails(k) PROVE PatientInv'
  <2>1. Answer(k, None) /\ conn[k].at = "asked"
    BY <1>4 DEF Refuse, ChangeFails, Admitted, Asked
  <2> QED
    BY <1>3, <2>1, WebAssumption
<1>5. ASSUME NEW k \in Conn, AnswerView(k) PROVE PatientInv'
  <2>1. conn[k].at = "asked" /\ conn[k].call.op = "view"
    BY <1>5 DEF AnswerView, Admitted, Asked
  <2>2. CASE Answer(k, None)
    BY <1>3, <2>1, <2>2, WebAssumption
  <2>3. ASSUME NEW whole \in BOOLEAN, Answer(k, [path |-> conn[k].call.path, whole |-> whole])
        PROVE  PatientInv'
    <3> DEFINE a == [path |-> conn[k].call.path, whole |-> whole]
    <3>1. conn[k].call \in Views
      BY <1>0, <2>1, Busied, Kinds
    <3>2. a \in Shown /\ a.path = conn[k].call.path
      BY <3>1 DEF Shown, Views
    <3>3. Answer(k, a)
      BY <2>3
    <3> HIDE DEF a
    <3> QED
      BY <1>3, <2>1, <3>2, <3>3, WebAssumption
  <2> QED
    BY <1>5, <2>2, <2>3 DEF AnswerView
<1>6. ASSUME NEW k \in Conn, ChangeDone(k) PROVE PatientInv'
  <2> DEFINE r == [at |-> "locked", tab |-> conn[k].tab, call |-> conn[k].call, edit |-> Effect(conn[k].call)]
  <2>1. conn' = [conn EXCEPT ![k] = r] /\ conn[k].at = "asked"
    BY <1>0, <1>6 DEF ChangeDone, Admitted, Asked
  <2>2. r.tab = conn[k].tab /\ r.call = conn[k].call /\ AnswerFits(r)
    BY DEF AnswerFits
  <2> HIDE DEF r
  <2> QED
    BY <1>2, <2>1, <2>2
<1>7. ASSUME NEW k \in Conn, CommitReply(k) PROVE PatientInv'
  <2>1. conn[k].at = "locked" /\ conn[k].call.op # "view"
    BY <1>0, <1>7, Busied, CarriedParts DEF CommitReply, Changes
  <2>2. Answer(k, None) \/ Answer(k, Ok)
    BY <1>7 DEF CommitReply, Reply
  <2> QED
    BY <1>3, <2>1, <2>2, WebAssumption
<1>8. CASE Stop
  <2>1. \A k \in Conn : conn'[k] \in {conn[k], Free}
    BY <1>8 DEF Stop
  <2>2. AnswerFits(Free)
    BY DEF AnswerFits, Free
  <2>3. \A k \in Conn : AnswerFits(conn'[k])
    BY <2>1, <2>2 DEF PatientInv
  <2> QED
    BY <1>1, <2>1, <2>3, NothingAsked
<1>9. CASE Start
  BY <1>0, <1>9 DEF Start, PatientInv, OneRequest, Asks
<1> QED
  BY <1>4, <1>5, <1>6, <1>7, <1>8, <1>9 DEF Server

LEMMA PatientStep == WebInv /\ PatientInv /\ [Next]_vars => PatientInv'
<1> SUFFICES ASSUME WebInv, PatientInv, [Next]_vars PROVE PatientInv'
  OBVIOUS
<1>1. CASE UNCHANGED vars
  BY <1>1 DEF vars, PatientInv, OneRequest, Asks
<1> QED
  BY <1>1, PatientPage, PatientServer DEF Next

\* A user who waits for each answer saves to each file what was made of that file's
\* own text, and of all of it, for any number of other tabs and of files
\* (src/cli/web.cpp, pv, pvEdit and pvSave).
THEOREM PatientUsers == Spec => []PatientEdits
<1>1. PatientInv => PatientEdits
  BY DEF PatientInv, PatientEdits, EditsKeepTo, Asks, RequestFits
<1> QED
  BY <1>1, PatientInit, PatientStep, WebInvariant, PTL DEF Spec
=============================================================================

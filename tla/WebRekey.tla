------------------------------ MODULE WebRekey ------------------------------
(***************************************************************************)
(* The password change of the web UI (src/cli/web.cpp, docs/DESIGN.md      *)
(* section 8): doRekey of the page, and the handler that compares the old  *)
(* password with the slot and then writes the new one, while other         *)
(* requests, of other tabs, wait for the mutex.  A slot is not torn here,  *)
(* which PackFile allows for.                                              *)
(***************************************************************************)
EXTENDS Naturals

CONSTANTS
  Client,    \* bound: the requests under way at a time
  Password,
  NoPassword \* the empty one, which removes the protection

VARIABLES
  serving,   \* is there a server?
  slot,      \* the password that the handle's key slot opens with, as it is read
  onDisk,    \* those that it may open with after a power loss
  request,   \* what each client has asked, and how far its handler is
  agreed,    \* history: the password of the last change that was answered with ok
  attempted  \* history: those of later changes that failed or were cut off

rekeyVars == <<serving, slot, onDisk, request, agreed, attempted>>

Unasked == [at |-> "free"]
Handling == {"verified", "written"}
RekeyRequest ==
  {Unasked} \union [at : {"asked"} \union Handling, old : Password, new : Password, authed : BOOLEAN]

\* Faulty variants, each a bug one could write.
WithoutMutex == TRUE
OkOnceWritten(synced) == TRUE

\* The lock_guard: one handler at a time has the handle.
MutexFree == \A c \in Client : request[c].at \notin Handling

\* doRekey: an empty new password, or two that differ, are not sent.
DoRekey(c, o, a, b, authed) ==
  /\ serving /\ request[c] = Unasked
  /\ a # NoPassword /\ a = b
  /\ request' = [request EXCEPT ![c] = [at |-> "asked", old |-> o, new |-> a, authed |-> authed]]
  /\ UNCHANGED <<serving, slot, onDisk, agreed, attempted>>

\* An answer; a new request of the same client may follow.
Answered(c) == request' = [request EXCEPT ![c] = Unasked]

\* A token of another run of the server.
RefuseToken(c) ==
  /\ serving /\ request[c].at = "asked" /\ ~ request[c].authed
  /\ Answered(c)
  /\ UNCHANGED <<serving, slot, onDisk, agreed, attempted>>

\* Pack::verify_password; to read the slot or to derive the key may fail.
VerifyPassword(c) ==
  /\ serving /\ request[c].at = "asked" /\ request[c].authed /\ MutexFree
  /\ \/ request[c].old = slot /\ request' = [request EXCEPT ![c].at = "verified"]
     \/ Answered(c)
  /\ UNCHANGED <<serving, slot, onDisk, agreed, attempted>>

\* Pack::rekey: the slot is wrapped anew and written in place, or that fails ...
WriteNew(c) ==
  /\ serving /\ request[c].at = "verified"
  /\ \/ /\ slot' = request[c].new
        /\ onDisk' = onDisk \union {request[c].new}
        /\ request' = [request EXCEPT ![c].at = "written"]
     \/ Answered(c) /\ UNCHANGED <<slot, onDisk>>
  /\ UNCHANGED <<serving, agreed, attempted>>

\* What rekey returns after the sync.
Rekeyed(synced) == synced

\* ... and synced; the handler answers.
SyncNew(c) ==
  /\ serving /\ request[c].at = "written"
  /\ \E synced \in BOOLEAN :
       /\ onDisk' = IF synced THEN {slot} ELSE onDisk
       /\ IF Rekeyed(synced)
            THEN agreed' = request[c].new /\ attempted' = {}
            ELSE attempted' = attempted \union {request[c].new} /\ UNCHANGED agreed
  /\ Answered(c)
  /\ UNCHANGED <<serving, slot>>

\* The commit of another handler syncs the file that the slot is in.
OtherCommit ==
  /\ serving /\ MutexFree
  /\ onDisk' = {slot}
  /\ UNCHANGED <<serving, slot, request, agreed, attempted>>

\* The server ends in whatever handler it is.
CutOff ==
  /\ request' = [c \in Client |-> Unasked]
  /\ attempted' = attempted \union {request[c].new : c \in {k \in Client : request[k].at = "written"}}
  /\ serving' = FALSE
  /\ UNCHANGED agreed

ServerStops == serving /\ CutOff /\ UNCHANGED <<slot, onDisk>>

ServerLosesPower == serving /\ CutOff /\ slot' \in onDisk /\ onDisk' = {slot'}

ServerStarts ==
  /\ ~ serving /\ serving' = TRUE
  /\ UNCHANGED <<slot, onDisk, request, agreed, attempted>>

RekeyInit ==
  /\ serving = TRUE
  /\ slot \in Password /\ onDisk = {slot} /\ agreed = slot /\ attempted = {}
  /\ request = [c \in Client |-> Unasked]

RekeyNext ==
  \/ \E c \in Client :
       \/ \E o, a, b \in Password, authed \in BOOLEAN : DoRekey(c, o, a, b, authed)
       \/ RefuseToken(c) \/ VerifyPassword(c) \/ WriteNew(c) \/ SyncNew(c)
  \/ OtherCommit \/ ServerStops \/ ServerLosesPower \/ ServerStarts

RekeySpec == RekeyInit /\ [][RekeyNext]_rekeyVars

-----------------------------------------------------------------------------
(* Properties.                                                             *)

\* While the server runs, the password is only ever changed by a request that named
\* the very password it replaces, whatever requests for other changes came before it
\* in the meantime: a left-open tab cannot silently change it (web.cpp's comment).
ChangedByWhoKnows ==
  [][(serving' /\ slot' # slot) =>
       \E c \in Client : request[c].at = "verified" /\ request[c].old = slot /\ slot' = request[c].new]_rekeyVars

\* The password of the last change answered with ok opens the pack, now and after a
\* power loss, unless a later change has failed, was cut off or is at work.
OkOpens ==
  {slot} \union onDisk \subseteq
    {agreed} \union attempted \union {request[c].new : c \in {k \in Client : request[k].at = "written"}}
=============================================================================

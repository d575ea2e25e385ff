------------------------------- MODULE FileMap -------------------------------
(***************************************************************************)
(* What a sealpack handle promises the program that uses it                *)
(* (include/sealpack.h): a map from paths to contents.  Changes are made   *)
(* in a view and become durable only when a call that saves returns true;  *)
(* a view that is closed, or lost with its process, leaves what was saved. *)
(*                                                                         *)
(* A save that failed leaves its view in doubt: whoever opens the file     *)
(* next may find it, or what was saved before.                             *)
(***************************************************************************)
CONSTANTS
  Path,
  Content,
  None,      \* there is no file at a path
  Closed     \* the value of view when no process has the pack open

VARIABLES
  view,      \* what the open handle shows, changes not saved included
  saved,     \* the newest map reported durable
  doubt      \* maps whose save failed since

mapVars == <<view, saved, doubt>>

Map == [Path -> Content \union {None}]

Init ==
  /\ view = [p \in Path |-> None]
  /\ saved = view
  /\ doubt = {}

Change(m) == view' = m /\ UNCHANGED <<saved, doubt>>

Put(p, c) == view # Closed /\ Change([view EXCEPT ![p] = c])
Del(p) == view # Closed /\ view[p] # None /\ Change([view EXCEPT ![p] = None])
Copy(f, t) ==
  view # Closed /\ view[f] # None /\ view[t] = None /\ Change([view EXCEPT ![t] = view[f]])
Move(f, t) ==
  /\ view # Closed /\ view[f] # None /\ view[t] = None
  /\ Change([view EXCEPT ![t] = view[f], ![f] = None])

\* A call that saves the view returned true.
Save == view # Closed /\ saved' = view /\ doubt' = {} /\ UNCHANGED view

\* It returned false; the view stays as it was, to be saved again.
SaveFails == view # Closed /\ doubt' = doubt \union {view} /\ UNCHANGED <<view, saved>>

Open == view = Closed /\ view' \in {saved} \union doubt /\ UNCHANGED <<saved, doubt>>
Close == view # Closed /\ view' = Closed /\ UNCHANGED <<saved, doubt>>

PowerLoss == saved' \in {saved} \union doubt /\ doubt' = {} /\ view' = Closed

Next ==
  \/ \E p \in Path, c \in Content : Put(p, c)
  \/ \E p \in Path : Del(p)
  \/ \E f, t \in Path : Copy(f, t) \/ Move(f, t)
  \/ Save \/ SaveFails \/ Open \/ Close \/ PowerLoss

Spec == Init /\ [][Next]_mapVars
=============================================================================

------------------------------ MODULE AtomicRoot ------------------------------
(***************************************************************************)
(* What a sealpack file promises about the state a reader finds in it,     *)
(* with nothing said about how: README "Crash safety" and DESIGN section 5 *)
(* ("either the old committed state or the new one, never a mix").         *)
(*                                                                         *)
(* A root names one committed state of the file (the offset of a manifest, *)
(* 0 for the empty pack).  promised is the newest root the file has been   *)
(* told is durable; doubt holds the roots of commits that were begun since *)
(* and have not been reported durable.  Power may fail at any moment, and  *)
(* what is found afterwards is promised or one of doubt -- nothing older,  *)
(* and nothing that was never committed.                                   *)
(***************************************************************************)
EXTENDS Naturals

CONSTANT Root           \* the roots a file can have

VARIABLES promised, doubt

rootVars == <<promised, doubt>>

\* The roots a reader may find after a power loss.
Findable == {promised} \union doubt

Init ==
  /\ promised = 0
  /\ doubt = {}

\* A commit of root r has begun to be written.  A manifest is appended behind
\* everything committed before it, so r is a larger offset than any of those.
Attempt(r) ==
  /\ \A q \in Findable : q < r
  /\ doubt' = doubt \union {r}
  /\ UNCHANGED promised

\* The commit of r returned true.
Succeed(r) ==
  /\ r \in doubt
  /\ promised' = r
  /\ doubt' = {}

\* The power failed; r is what the file holds from now on.
Lose(r) ==
  /\ r \in Findable
  /\ promised' = r
  /\ doubt' = {}

Next == \E r \in Root : Attempt(r) \/ Succeed(r) \/ Lose(r)

Spec == Init /\ [][Next]_rootVars

-----------------------------------------------------------------------------
\* No commit that was reported durable is ever rolled back: the promise moves
\* forward only, over commits, failed commits and power losses alike.
NeverRollsBack == [][promised' >= promised]_rootVars
=============================================================================

------------------------------ MODULE MCOverlay ------------------------------
(***************************************************************************)
(* Overlay on a few paths and contents, for TLC.  The line of an odd path  *)
(* (one that begins with '#') is one that merge passes over.               *)
(***************************************************************************)
EXTENDS Overlay, TLC

CONSTANT OddPath

LineReadBack == [p \in Path |-> {p} \ OddPath]

Symmetry == Permutations(Content)
=============================================================================

------------------------------- MODULE MCShell -------------------------------
(***************************************************************************)
(* Shell for a few paths, contents and passwords, for TLC.  Which path is  *)
(* which does not matter.                                                  *)
(***************************************************************************)
EXTENDS Shell, TLC

Symmetry == Permutations(Path)
=============================================================================

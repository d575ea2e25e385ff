------------------------------ MODULE MCPackFile ------------------------------
(***************************************************************************)
(* PackFile with a few files, passwords and versions, for TLC.  Which file *)
(* of the disk is which does not matter.                                   *)
(***************************************************************************)
EXTENDS PackFile, TLC

Symmetry == Permutations(Inode) \union Permutations(Password)
=============================================================================

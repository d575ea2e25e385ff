-------------------------------- MODULE MCWeb --------------------------------
(***************************************************************************)
(* Web for a few tabs, connections and files, for TLC.                     *)
(***************************************************************************)
EXTENDS Web, TLC

Symmetry == Permutations(Conn) \union Permutations(Path)
=============================================================================

------------------------------- MODULE MCStore -------------------------------
(***************************************************************************)
(* Store on a small file, for TLC: the configurations give the constants    *)
(* their values and say which faults the system below may show.             *)
(***************************************************************************)
EXTENDS Store
=============================================================================

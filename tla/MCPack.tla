-------------------------------- MODULE MCPack --------------------------------
(***************************************************************************)
(* Pack on a few paths and contents, for TLC.                              *)
(***************************************************************************)
EXTENDS Pack
=============================================================================

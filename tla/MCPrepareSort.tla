----------------------------- MODULE MCPrepareSort -----------------------------
(* An instance of PrepareSort for TLC: 4-bit indices and all sizes they    *)
(* have.                                                                   *)
EXTENDS PrepareSort
=============================================================================

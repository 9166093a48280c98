------------------------------- MODULE MCCoroSort -------------------------------
(* An instance of CoroSort for TLC. *)
EXTENDS CoroSort
=============================================================================

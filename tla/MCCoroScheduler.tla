---------------------------- MODULE MCCoroScheduler ----------------------------
(* An instance of CoroScheduler for TLC. *)
EXTENDS CoroScheduler
=============================================================================

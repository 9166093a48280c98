-------------------------- MODULE MCMergeSortedArrays --------------------------
(* Instances of MergeSortedArrays for TLC. *)
EXTENDS MergeSortedArrays
=============================================================================

------------------------------ MODULE MCUserFsDoc ------------------------------
(* The instances of UserFs on which TLC shows where the code and the       *)
(* comments of the headers differ.                                         *)
EXTENDS UserFsDoc

CONSTANTS n1, f1

Flags == {{}, {"CREATE"}, {"READ_ONLY"}}
Bytes(k) == [i \in 1..k |-> 1]
DocBuffers == {Bytes(1), Bytes(4)}
=============================================================================

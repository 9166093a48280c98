--------------------------- MODULE MCUserFsOverwrite ---------------------------
(* An instance of UserFsOverwrite for TLC: one file and every call on it,  *)
(* two descriptors as long as the calls are plain, and then one, resizes   *)
(* beyond the limit, and a heap that may run out in any call.              *)
EXTENDS UserFsOverwrite

CONSTANTS n1, f1

Flags == {{}, {"CREATE"}}
\* Every byte written is 1: the properties do not look at the bytes.
Bytes(k) == [i \in 1..k |-> 1]
ShortBuffers == {Bytes(1), Bytes(3)}
=============================================================================

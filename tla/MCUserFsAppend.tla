---------------------------- MODULE MCUserFsAppend ----------------------------
(* An instance of UserFsAppend for TLC.                                    *)
EXTENDS UserFsAppend

CONSTANTS n1, f1

Flags == {{}, {"CREATE"}, {"READ_ONLY"}, {"WRITE_ONLY"}}
AppendBuffers == {<<1>>, <<2, 1>>}

=============================================================================

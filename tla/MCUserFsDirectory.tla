--------------------------- MODULE MCUserFsDirectory ---------------------------
(* An instance of UserFsDirectory for TLC: the directory, its list and the *)
(* descriptor table, with files that stay empty.                           *)
EXTENDS UserFsDirectory, TLC

CONSTANTS n1, n2, n3, f1, f2, f3

DirectoryFlags == {{}, {"CREATE"}}
DirectoryHeaps == {0, 1, 2, 3, 100}

Symmetric == Permutations(Names) \cup Permutations(Files)
=============================================================================

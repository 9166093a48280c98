---------------------------- MODULE UserFsDirectory ----------------------------
(***************************************************************************)
(* UserFs together with the list of FileList: whenever a call creates a    *)
(* file it links it, and whenever one destroys a file, a ufs_delete or the *)
(* ufs_close of a ghost, it unlinks it.                                    *)
(***************************************************************************)
EXTENDS UserFs

(* There are only so many addresses, and a walk of the list that ends does *)
(* so within their number.                                                 *)
ASSUME FilesAssumption == IsFiniteSet(Files)

VARIABLES head, next, prev

listVars == << head, next, prev >>

L == INSTANCE FileList WITH file_list <- head

DirectoryInit == Init /\ L!Init

DirectoryNext ==
  /\ Next
  /\ \/ file_list' = file_list /\ UNCHANGED listVars
     \/ \E f \in file_list' \ file_list : L!Insert(f)
     \/ \E f \in file_list \ file_list' : L!Unlink(f)

DirectorySpec == DirectoryInit /\ [][DirectoryNext]_<< vars, listVars >>

-----------------------------------------------------------------------------
(* The list holds exactly the files of the directory, and prev undoes next *)
(* (see FileList): under every sequence of calls and with any allocation   *)
(* failing.                                                                *)
ListIsTheFiles == L!ListIsTheFiles /\ L!Linked = file_list
PrevUndoesNext == L!PrevUndoesNext

(* find_file_by_name, which walks the list (userfs.c:44-58), finds what    *)
(* UserFs says it does: the file or the ghost of the name, if there is one.*)
WalkFindsTheFile ==
  \A n \in Names : FilesNamed(n) = {L!Found(n)} \ {NULL}
=============================================================================

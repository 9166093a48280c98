----------------------------- MODULE UserFsAppend -----------------------------
(***************************************************************************)
(* UserFs for callers under which it is the file system that userfs.h      *)
(* promises.  They never resize, use a descriptor only after an open,      *)
(* leave the name of a deleted file alone until its last descriptor is     *)
(* closed, create only files that do not exist, and every write reaches    *)
(* the end of the file.  Writes may run out of memory or over the limit.   *)
(*                                                                         *)
(* What is outside of this use and breaks the promise is in UserFsDoc.     *)
(***************************************************************************)
EXTENDS UserFs

CONSTANT Plenty   \* as many allocations as ufs_open can ask for

(* The table and its array, a file and its name, a bigger table, and the   *)
(* descriptor.                                                             *)
ASSUME PlentyAssumption == Plenty \in Nat /\ Plenty >= 6

IsGhost(n) == \E f \in FilesNamed(n) : del_flag[f]

ReachesTheEnd(d, buf) ==
  IsOpen(d) => LET size == data[file[d]].size
               IN  LesserOf(offset[d], size) + Len(buf) >= size

AppendNext ==
  \/ \E n \in Names, fl \in OpenFlags :
       /\ "CREATE" \in fl => FilesNamed(n) = {}
       /\ Open(n, fl, Plenty)
  \/ /\ table = "ready"
     /\ \/ \E d \in FdArguments, buf \in Buffers, spare \in Heaps :
             ReachesTheEnd(d, buf) /\ Write(d, buf, spare)
        \/ \E d \in FdArguments, n \in Counts : Read(d, n)
        \/ \E d \in FdArguments : Close(d)
        \/ \E n \in Names : ~IsGhost(n) /\ Delete(n)

AppendSpec == Init /\ [][AppendNext]_vars

-----------------------------------------------------------------------------
(***************************************************************************)
(* The refinement: a ghost has no name any more, and the content of a file *)
(* is what its blocks hold up to its size.                                 *)
(***************************************************************************)
Dir == [n \in Names |->
          IF \E f \in FilesNamed(n) : ~del_flag[f]
          THEN CHOOSE f \in FilesNamed(n) : ~del_flag[f] ELSE NULL]

Content == [f \in Files |->
              [i \in 1..data[f].size |-> ByteAt(data[f].chain, i - 1)]]

Flat == INSTANCE FlatFs WITH
          Fds <- Fds, dir <- Dir, content <- Content, open <- file,
          pos <- offset, errno <- ufs_error_code

(* Every call does what it does in the flat file system: it finds the      *)
(* bytes that were written, at the descriptor's position, in the file that *)
(* had the name when it was opened, and reports the promised errors        *)
(* (userfs.h:74-133).  No call ever ends the process.                      *)
FlatSpec == Flat!Spec /\ []~fault
=============================================================================

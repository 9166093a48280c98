------------------------------- MODULE UserFsDoc -------------------------------
(***************************************************************************)
(* What the comments of the headers say of the calls and the code does not *)
(* do, for all callers, with memory enough or without.                     *)
(***************************************************************************)
EXTENDS UserFs

(* "If the file is deleted, it is allowed to create a new one with the     *)
(* same name immediately and it should not affect existing opened          *)
(* descriptors of the deleted file" (userfs.h:124-127): an open leaves the *)
(* contents of the ghosts alone.                                           *)
OpensSpareGhosts ==
  [][\A n \in Names : \A fl \in OpenFlags : \A heap \in Heaps :
       Open(n, fl, heap) =>
         \A f \in file_list : del_flag[f] => data'[f] = data[f]]_vars

(* "Opened file descriptors behind the new file size should proceed from   *)
(* the new file end" (userfs.h:142-143): a read through one of them, after *)
(* a resize has cut the file, would find nothing.                          *)
ReadsProceedFromTheEnd ==
  [][\A d, e \in Fds : \A size \in NewSizes : \A spare \in Heaps :
       /\ Resize(d, size, spare) /\ IsOpen(d) /\ ~fault' /\ result'.value = 0
       /\ Shrinks(data[file[d]], size)
       /\ file[e] = file[d] /\ offset[e] > size
       => \A n \in Counts :
            /\ ~ReadFaults(data'[file[e]], offset'[e], n)
            /\ ReadBytes(data'[file[e]], offset'[e], n) = << >>]_vars
=============================================================================

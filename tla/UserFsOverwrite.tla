---------------------------- MODULE UserFsOverwrite ----------------------------
(***************************************************************************)
(* UserFs with the history of what callers have done so far: plain is TRUE *)
(* as long as they never resized a file, created only files that did not   *)
(* exist and had memory enough, which is the way the calls were used       *)
(* before ufs_resize was added.  Until then the bookkeeping of ufs_write   *)
(* is sound, although a write that ends inside a block cuts the block at   *)
(* its end (userfs.c:159-161).                                             *)
(***************************************************************************)
EXTENDS UserFs

CONSTANT Plenty   \* as many allocations as a call can ask for

(* ufs_write asks for a first block, for the one of the offset and for one *)
(* behind each that it fills.                                              *)
ASSUME PlentyAssumption ==
  Plenty \in Nat /\ \A buf \in Buffers : Len(buf) + 2 <= Plenty

VARIABLE plain

PlainCall ==
  \/ \E n \in Names, fl \in OpenFlags :
       /\ "CREATE" \in fl <=> FilesNamed(n) = {}
       /\ Open(n, fl, Plenty)
  \/ \E d \in FdArguments, buf \in Buffers : Write(d, buf, Plenty)
  \/ \E d \in FdArguments, n \in Counts : Read(d, n)
  \/ \E d \in FdArguments : Close(d)
  \/ \E n \in Names : Delete(n)

(* BOUND: the other calls, and all behind them, are made while there is at *)
(* most one descriptor.                                                    *)
AnyCall == count <= 1 /\ Next /\ count' <= 1

OverwriteInit == Init /\ plain = TRUE
OverwriteNext ==
  \/ plain /\ ~fault /\ PlainCall /\ UNCHANGED plain
  \/ AnyCall /\ plain' = FALSE

OverwriteSpec == OverwriteInit /\ [][OverwriteNext]_<< vars, plain >>

(* last_block is the last block of the list (file.h:13-17): the next block *)
(* that any descriptor adds is found from it, and destroy_chain frees every*)
(* block.                                                                  *)
LastBlockIsLast ==
  plain => \A f \in file_list : data[f].last = Len(data[f].chain)

(* file_size, which ufs_write keeps up by differences (userfs.c:159), is   *)
(* the sum of what the blocks say they hold, across any writes through any *)
(* descriptors.                                                            *)
Occupied(f) ==
  LET chain == data[f].chain
      sum[k \in 0..Len(chain)] == IF k = 0 THEN 0 ELSE sum[k - 1] + chain[k].occupied
  IN  sum[Len(chain)]

SizeIsOccupied ==
  plain => \A f \in file_list : data[f].size = Occupied(f)

(* Every call through a descriptor that is not behind the end of its file  *)
(* stays in the file's blocks: ufs_read never walks off the list and       *)
(* ufs_write never copies to an address before a block (userfs.c:156,      *)
(* 203, 212).                                                              *)
CallsStayInBlocks ==
  plain =>
    \A d \in {e \in Fds : IsOpen(e)} :
      /\ offset[d] <= data[file[d]].size =>
           \A n \in Counts : ~ReadFaults(data[file[d]], offset[d], n)
      /\ \A buf \in Buffers :
           Written(data[file[d]], offset[d], buf, Plenty).status # "fault"
=============================================================================

------------------------------ MODULE BlockFile ------------------------------
(***************************************************************************)
(* The contents of one file of the user file system: the fields            *)
(* block_list, last_block and file_size of struct file, and the block      *)
(* loops of ufs_write, ufs_read and ufs_resize.                            *)
(*                                                                         *)
(* The blocks reachable from block_list through next are the sequence      *)
(* chain; last is the position in chain of the block that last_block       *)
(* points to, 0 for NULL.  last can be smaller than Len(chain), and        *)
(* growing the file then overwrites the next pointer of block number last: *)
(* the blocks behind it are lost.                                          *)
(***************************************************************************)
EXTENDS Integers, Sequences

CONSTANTS
  BlockSize,    \* bytes in a block
  MaxFileSize   \* MAX_FILE_SIZE, the limit ufs_write and ufs_resize test

ASSUME BlockSizeAssumption == BlockSize \in Nat \ {0}
ASSUME MaxFileSizeAssumption == MaxFileSize \in Nat

Byte == 0..255

LesserOf(a, b) == IF a < b THEN a ELSE b

(* C's / and % for a positive divisor: both truncate towards zero. *)
Quot(a, b) == IF a >= 0 THEN a \div b ELSE -((-a) \div b)
Rem(a, b)  == a - b * Quot(a, b)

(* init_block: calloc fills the memory with zero bytes. *)
EmptyBlock == [memory |-> [k \in 0..(BlockSize - 1) |-> 0], occupied |-> 0]

(* The data fields of a file after init_file. *)
EmptyData == [chain |-> << >>, last |-> 0, size |-> 0]

(* The byte at position p of the blocks of a chain laid end to end. *)
ByteAt(chain, p) == chain[p \div BlockSize + 1].memory[p % BlockSize]

-----------------------------------------------------------------------------
(***************************************************************************)
(* ufs_write.  A write in progress is a record w:                          *)
(*   data    the file's data,                                              *)
(*   offset  the descriptor's offset,                                      *)
(*   cur     the position in chain of cur_block, from the cur_offset,      *)
(*   rest    the bytes of the buffer still to be written,                  *)
(*   spare   how many more blocks the heap can give,                       *)
(*   status  "run", "nomem" (an early return with UFS_ERR_NO_MEM) or       *)
(*           "fault" (memcpy to an address before the block).              *)
(***************************************************************************)

(* Appends an empty block behind the end of the chain.  It fails when the  *)
(* heap is exhausted, either for the struct or for its memory.             *)
Extend(w) ==
  IF w.spare = 0
  THEN [w EXCEPT !.status = "nomem"]
  ELSE [w EXCEPT !.data.chain = Append(@, EmptyBlock), !.spare = @ - 1]

(* The first block of a file that has none becomes its last block, too.    *)
(* The variant leaves last_block NULL.                                     *)
FirstBlockOnly(w) == IF w.data.last # 0 THEN w ELSE Extend(w)
FirstBlock(w) ==
  IF w.data.last # 0 THEN w
  ELSE LET x == Extend(w)
       IN  IF x.status = "run" THEN [x EXCEPT !.data.last = 1] ELSE x

(* The walk to the block of the offset.  When the chain is too short it is *)
(* extended by one block, without moving last, and the walk ends there.    *)
Seek(w) ==
  LET target == IF w.offset < 0 THEN 1 ELSE w.offset \div BlockSize + 1
      there  == [w EXCEPT !.cur = target]
      beyond == [w EXCEPT !.cur = Len(w.data.chain) + 1]
  IN  IF w.status # "run" THEN w
      ELSE IF target <= Len(w.data.chain) THEN there ELSE Extend(beyond)

(* What a turn of the loop that fills n bytes of a block adds to file_size. *)
(* The variant counts the bytes it overwrites as new ones.                 *)
GrowthWithoutOverwrite(w, n, block) == n
SizeGrowth(w, n, block) == n + w.from - block.occupied

(* Where last_block is after a new block was linked behind block cur.  The *)
(* variant leaves it where it was.                                         *)
LastUnmoved(w) == w.data.last
LastMoved(w) == IF w.data.last = w.cur THEN w.cur + 1 ELSE w.data.last

(* A turn of the copying loop fills a part of cur_block, *)
CurBlock(w) == w.data.chain[w.cur]
CurWrite(w) == LesserOf(Len(w.rest), BlockSize - w.from)

Filled(w) ==
  [memory   |-> [k \in DOMAIN CurBlock(w).memory |->
                   IF k \in w.from..(w.from + CurWrite(w) - 1)
                   THEN w.rest[k - w.from + 1] ELSE CurBlock(w).memory[k]],
   occupied |-> CurWrite(w) + w.from]

Stored(w) ==
  LET stored == [chain |-> [w.data.chain EXCEPT ![w.cur] = Filled(w)],
                 last  |-> w.data.last,
                 size  |-> w.data.size + SizeGrowth(w, CurWrite(w), CurBlock(w))]
  IN  [w EXCEPT !.data = stored]

(* and links a block behind it when it has filled the last one.            *)
FillsTheLast(w) ==
  Filled(w).occupied = BlockSize /\ w.cur = Len(w.data.chain)

Linked(w) ==
  LET x == Extend(Stored(w))
  IN  IF ~FillsTheLast(w) THEN Stored(w)
      ELSE IF x.status = "run" THEN [x EXCEPT !.data.last = LastMoved(w)] ELSE x

(* file_size + cur_write is a size_t: a negative sum is a huge one.        *)
FitsLimit(w) == w.data.size + CurWrite(w) \in 0..MaxFileSize

Copy(w) ==
  IF ~FitsLimit(w) THEN [w EXCEPT !.status = "nomem"]
  ELSE IF w.from < 0 THEN [w EXCEPT !.status = "fault"]
  ELSE IF Linked(w).status # "run" THEN Linked(w)
  ELSE [Linked(w) EXCEPT
          !.offset = @ + CurWrite(w),
          !.cur    = @ + 1,
          !.from   = 0,
          !.rest   = SubSeq(@, CurWrite(w) + 1, Len(@))]

(* The loop ends with the buffer or with an error.  Every turn copies a    *)
(* byte at least, so there are no more turns than bytes.                   *)
Turn(w) == IF w.status = "run" /\ w.rest # << >> THEN Copy(w) ELSE w

Copied(w) ==
  LET after[k \in 0..Len(w.rest)] == IF k = 0 THEN w ELSE Turn(after[k - 1])
  IN  after[Len(w.rest)]

(* ufs_write behind its checks: data is the file, offset the descriptor's  *)
(* offset, buf the bytes, spare the blocks the heap can give.              *)
Starting(data, offset, buf, spare) ==
  LET start == LesserOf(offset, data.size)
  IN  [data |-> data, offset |-> start, cur |-> 0, from |-> Rem(start, BlockSize),
       rest |-> buf, spare |-> spare, status |-> "run"]

Written(data, offset, buf, spare) ==
  Copied(Seek(FirstBlock(Starting(data, offset, buf, spare))))

-----------------------------------------------------------------------------
(***************************************************************************)
(* ufs_read of up to count bytes at an offset: the bytes it copies.  An    *)
(* offset behind the file's size leaves count unclamped, and a walk that   *)
(* leaves the chain dereferences NULL.  The variant never clamps count.    *)
(***************************************************************************)
ReadUnclamped(data, offset, count) == count
ReadCount(data, offset, count) ==
  IF data.size - offset >= 0 THEN LesserOf(count, data.size - offset) ELSE count

(* Where in the chain the copying starts: below 0 is before the first block. *)
ReadStart(offset) == IF offset < 0 THEN Rem(offset, BlockSize) ELSE offset

ReadFaults(data, offset, count) ==
  \/ Quot(offset, BlockSize) > Len(data.chain)
  \/ /\ ReadCount(data, offset, count) > 0
     /\ \/ ReadStart(offset) < 0
        \/ ReadStart(offset) + ReadCount(data, offset, count) > BlockSize * Len(data.chain)

ReadBytes(data, offset, count) ==
  [k \in 1..ReadCount(data, offset, count) |->
     ByteAt(data.chain, ReadStart(offset) + k - 1)]

-----------------------------------------------------------------------------
(***************************************************************************)
(* ufs_resize.  old_size is compared with the size_t new_size, so that a   *)
(* negative old_size counts as the bigger one.                             *)
(***************************************************************************)
Grows(data, newSize)   == 0 <= data.size /\ data.size < newSize
Shrinks(data, newSize) == data.size < 0 \/ newSize < data.size

(* How many blocks the growing branch wants to add. *)
MissingBlocks(data, newSize) ==
  newSize \div BlockSize - data.size \div BlockSize

(* Growing with spare blocks on the heap: the new blocks are linked behind *)
(* last, and when they are too few the size stays what it was.             *)
Grown(data, newSize, spare) ==
  LET k == LesserOf(MissingBlocks(data, newSize), spare)
  IN  [chain |-> IF k = 0 THEN data.chain
                 ELSE SubSeq(data.chain, 1, data.last) \o [i \in 1..k |-> EmptyBlock],
       last  |-> data.last + k,
       size  |-> IF k = MissingBlocks(data, newSize) THEN newSize ELSE data.size]

(* Shrinking clears the bytes from newSize to the end of the block that    *)
(* holds the old end; no block is freed and no occupied count changed.     *)
LastCleared(data) == Quot(data.size, BlockSize) + 1

ShrinkFaults(data, newSize) ==
  LET first == newSize \div BlockSize + 1
  IN  \/ first > Len(data.chain) + 1
      \/ first <= LastCleared(data) /\ LastCleared(data) > Len(data.chain)

Cleared(data, newSize, i) ==
  [memory   |-> [k \in DOMAIN data.chain[i].memory |->
                   IF (i - 1) * BlockSize + k >= newSize /\ i <= LastCleared(data)
                   THEN 0 ELSE data.chain[i].memory[k]],
   occupied |-> data.chain[i].occupied]

Shrunk(data, newSize) ==
  [chain |-> [i \in DOMAIN data.chain |-> Cleared(data, newSize, i)],
   last  |-> data.last,
   size  |-> newSize]
=============================================================================

--------------------------- MODULE UserFsAppendProofs ---------------------------
(***************************************************************************)
(* UserFsAppend implements FlatFs, for blocks and buffers of any size, any *)
(* number of names, files and descriptors, any limit, and writes that run  *)
(* out of memory at any block.                                             *)
(***************************************************************************)
EXTENDS UserFsAppend, UserFsProofs

(* What block i of a file of some size holds. *)
HeldBy(size, i) ==
  IF size >= BlockSize * i THEN BlockSize
  ELSE IF size <= BlockSize * (i - 1) THEN 0
  ELSE size - BlockSize * (i - 1)

(* The invariant of a file: its bytes are in its blocks without a gap.     *)
(* last_block may lie before the end of the list, after a walk that added  *)
(* a block, and the list may have an empty block at its end.               *)
Dense(x) ==
  /\ x \in FileData /\ LastIn(x)
  /\ x.size \in 0..MaxFileSize
  /\ x.size <= BlockSize * Len(x.chain)
  /\ \A i \in 1..Len(x.chain) : x.chain[i].occupied = HeldBy(x.size, i)

(* What the file system promises to have stored. *)
ContentOf(x) == [i \in 1..x.size |-> ByteAt(x.chain, i - 1)]

-----------------------------------------------------------------------------
(***************************************************************************)
(* Positions in a chain.                                                   *)
(***************************************************************************)
LEMMA Products ==
  ASSUME NEW a \in Nat, NEW b \in Nat
  PROVE  /\ BlockSize * a \in Nat
         /\ BlockSize * (a + 1) = BlockSize * a + BlockSize
         /\ a <= b => BlockSize * a <= BlockSize * b
         /\ a < b => BlockSize * a + BlockSize <= BlockSize * b
<1>1. BlockSize * a \in Nat
  BY BlockSizeAssumption
<1>2. BlockSize * (a + 1) = BlockSize * a + BlockSize
  BY BlockSizeAssumption
<1>3. a <= b => BlockSize * a <= BlockSize * b
  BY BlockSizeAssumption
<1>4. a < b => BlockSize * a + BlockSize <= BlockSize * b
  BY BlockSizeAssumption
<1> QED BY <1>1, <1>2, <1>3, <1>4

(* Position q lies in block b + 1, at q - BlockSize * b. *)
LEMMA PlaceOf ==
  ASSUME NEW q \in Nat, NEW b \in Nat
  PROVE  /\ BlockSize * b <= q /\ q < BlockSize * b + BlockSize =>
              q \div BlockSize = b /\ q % BlockSize = q - BlockSize * b
         /\ q \div BlockSize = b => BlockSize * b <= q /\ q < BlockSize * b + BlockSize
<1>1. PICK c \in Nat : c = q \div BlockSize
  BY Division
<1>2. PICK r \in 0..(BlockSize - 1) : r = q % BlockSize
  BY Division
<1>3. PICK p \in Nat : p = BlockSize * b
  BY Products
<1>4. PICK s \in Nat : s = BlockSize * c
  BY Products
<1>5. q = s + r
  BY <1>1, <1>2, <1>4, Division
<1>6. c < b => s + BlockSize <= p
  BY <1>3, <1>4, Products
<1>7. b < c => p + BlockSize <= s
  BY <1>3, <1>4, Products
<1>8. c = b => s = p
  BY <1>3, <1>4
<1>9. p <= q /\ q < p + BlockSize => c = b
  BY <1>3, <1>4, <1>5, <1>6, <1>7, BlockSizeAssumption
<1>10. c = b => p <= q /\ q < p + BlockSize /\ r = q - p
  BY <1>3, <1>4, <1>5, <1>8, BlockSizeAssumption
<1> QED BY <1>1, <1>2, <1>3, <1>9, <1>10

(* The byte at a position in the blocks of a chain. *)
LEMMA BytePlace ==
  ASSUME NEW chain \in Seq(Blocks), NEW q \in Nat, q < BlockSize * Len(chain)
  PROVE  /\ q \div BlockSize + 1 \in 1..Len(chain)
         /\ q % BlockSize \in 0..(BlockSize - 1)
         /\ ByteAt(chain, q) \in Byte
<1>1. PICK c \in Nat : c = q \div BlockSize
  BY Division
<1>2. q % BlockSize \in 0..(BlockSize - 1)
  BY Division
<1>3. PICK m \in Nat : m = Len(chain)
  OBVIOUS
<1>4. BlockSize * c <= q
  BY <1>1, PlaceOf
<1>5. m <= c => BlockSize * m <= BlockSize * c
  BY <1>1, <1>3, Products
<1>6. BlockSize * c \in Nat /\ BlockSize * m \in Nat
  BY <1>1, <1>3, Products
<1>7. c + 1 \in 1..m
  BY <1>1, <1>3, <1>4, <1>5, <1>6
<1>8. chain[c + 1] \in Blocks
  BY <1>3, <1>7, ElementOfSeq
<1>9. ByteAt(chain, q) \in Byte
  BY <1>1, <1>2, <1>8 DEF ByteAt, Blocks
<1> QED BY <1>1, <1>2, <1>3, <1>7, <1>9

(* A block more does not move the bytes. *)
LEMMA ByteAppended ==
  ASSUME NEW chain \in Seq(Blocks), NEW b \in Blocks,
         NEW q \in Nat, q < BlockSize * Len(chain)
  PROVE  ByteAt(Append(chain, b), q) = ByteAt(chain, q)
<1>1. PICK i \in 1..Len(chain) : i = q \div BlockSize + 1
  BY BytePlace
<1>2. Append(chain, b)[i] = chain[i]
  BY <1>1
<1> QED BY <1>1, <1>2 DEF ByteAt

LEMMA ContentIsBytes ==
  ASSUME NEW x, Dense(x)
  PROVE  /\ ContentOf(x) \in Seq(Byte) /\ Len(ContentOf(x)) = x.size
         /\ \A i \in 1..x.size : ContentOf(x)[i] = ByteAt(x.chain, i - 1)
<1>1. x.chain \in Seq(Blocks) /\ x.size \in Nat /\ Len(x.chain) \in Nat
      /\ x.size <= BlockSize * Len(x.chain)
  BY MaxFileSizeAssumption DEF Dense, FileData
<1>2. ASSUME NEW i \in 1..x.size PROVE ByteAt(x.chain, i - 1) \in Byte
  <2>1. PICK q \in Nat : q = i - 1 /\ q < x.size
    BY <1>1
  <2>2. BlockSize * Len(x.chain) \in Nat
    BY <1>1, Products
  <2> QED BY <1>1, <2>1, <2>2, BytePlace
<1>3. PICK c : c = [i \in 1..x.size |-> ByteAt(x.chain, i - 1)]
  OBVIOUS
<1>4. c \in Seq(Byte) /\ Len(c) = x.size
  BY <1>1, <1>2, <1>3
<1>5. \A i \in 1..x.size : c[i] = ByteAt(x.chain, i - 1)
  BY <1>3
<1> QED BY <1>3, <1>4, <1>5 DEF ContentOf

(* A new block is empty, and so it may be at the end of any chain. *)
LEMMA AppendedIsDense ==
  ASSUME NEW x, Dense(x), NEW y \in FileData, LastIn(y),
         y.chain = Append(x.chain, EmptyBlock), y.size = x.size
  PROVE  Dense(y) /\ \A q \in 0..(x.size - 1) : ByteAt(y.chain, q) = ByteAt(x.chain, q)
<1>1. /\ x.chain \in Seq(Blocks) /\ x.size \in 0..MaxFileSize /\ x.size \in Nat
      /\ x.size <= BlockSize * Len(x.chain)
      /\ \A i \in 1..Len(x.chain) : x.chain[i].occupied = HeldBy(x.size, i)
  BY MaxFileSizeAssumption DEF Dense, FileData
<1>2. PICK m \in Nat : m = Len(x.chain)
  BY <1>1
<1>3. /\ Len(y.chain) = m + 1 /\ y.chain[m + 1] = EmptyBlock
      /\ \A i \in 1..m : y.chain[i] = x.chain[i]
  BY <1>1, <1>2
<1>4. PICK p \in Nat : p = BlockSize * m /\ BlockSize * (m + 1) = p + BlockSize
  BY <1>2, Products
<1>5. HeldBy(x.size, m + 1) = 0
  <2>1. x.size <= BlockSize * ((m + 1) - 1) /\ ~(x.size >= BlockSize * (m + 1))
    BY <1>1, <1>2, <1>4, BlockSizeAssumption
  <2> QED BY <2>1 DEF HeldBy
<1>6. \A i \in 1..(m + 1) : y.chain[i].occupied = HeldBy(y.size, i)
  <2>1. \A i \in 1..(m + 1) : i \in 1..m \/ i = m + 1
    BY <1>2
  <2>2. EmptyBlock.occupied = 0
    BY DEF EmptyBlock
  <2> QED BY <1>1, <1>2, <1>3, <1>5, <2>1, <2>2
<1>7. y.size <= BlockSize * Len(y.chain)
  BY <1>1, <1>2, <1>3, <1>4, BlockSizeAssumption
<1>8. ASSUME NEW q \in 0..(x.size - 1) PROVE ByteAt(y.chain, q) = ByteAt(x.chain, q)
  <2>1. q \in Nat /\ q < BlockSize * Len(x.chain)
    BY <1>1, <1>2, <1>4
  <2> QED BY <1>1, <2>1, EmptyIsABlock, ByteAppended
<1> QED BY <1>1, <1>3, <1>6, <1>7, <1>8 DEF Dense

-----------------------------------------------------------------------------
(***************************************************************************)
(* A turn of the copying loop of ufs_write.                                *)
(***************************************************************************)

(* file_size and the blocks' counts after n bytes in block c + 1.  The     *)
(* turn fills the block or reaches the end of the file.                    *)
TurnSizes(size, new, c, p, from, n) ==
  /\ p = BlockSize * c
  /\ from + n <= BlockSize /\ p + from <= size
  /\ from + n = BlockSize \/ size <= p + from + n
  /\ new = IF p + from + n > size THEN p + from + n ELSE size

LEMMA HeldAfter ==
  ASSUME NEW size \in Nat, NEW c \in Nat, NEW from \in Nat, NEW n \in Nat \ {0},
         NEW p \in Nat, NEW new \in Nat, TurnSizes(size, new, c, p, from, n)
  PROVE  /\ size + (n + from - HeldBy(size, c + 1)) = new
         /\ HeldBy(new, c + 1) = n + from
         /\ \A i \in Nat \ {0} : i # c + 1 => HeldBy(new, i) = HeldBy(size, i)
         /\ new <= size + n
         /\ new <= p + BlockSize \/ new = size
<1>1. p = BlockSize * c
  BY DEF TurnSizes
<1>2. BlockSize * (c + 1) = p + BlockSize /\ BlockSize * ((c + 1) - 1) = p
  BY <1>1, Products
<1>3. /\ from + n <= BlockSize /\ p + from <= size
      /\ from + n = BlockSize \/ size <= p + from + n
      /\ new = IF p + from + n > size THEN p + from + n ELSE size
  BY DEF TurnSizes
<1>4. HeldBy(size, c + 1) =
        IF size >= p + BlockSize THEN BlockSize ELSE IF size <= p THEN 0 ELSE size - p
  BY <1>2 DEF HeldBy
<1>5. HeldBy(new, c + 1) =
        IF new >= p + BlockSize THEN BlockSize ELSE IF new <= p THEN 0 ELSE new - p
  BY <1>2 DEF HeldBy
<1>6. size + (n + from - HeldBy(size, c + 1)) = new
  <2>1. PICK h \in Int : h = HeldBy(size, c + 1)
    BY <1>1, <1>4, BlockSizeAssumption
  <2>2. h = IF size >= p + BlockSize THEN BlockSize ELSE IF size <= p THEN 0 ELSE size - p
    BY <1>4, <2>1
  <2>3. size + (n + from - h) = new
    BY <1>1, <1>3, <2>2, BlockSizeAssumption
  <2> QED BY <2>1, <2>3
<1>7. HeldBy(new, c + 1) = n + from
  BY <1>3, <1>5, BlockSizeAssumption
<1>8. ASSUME NEW i \in Nat \ {0}, i # c + 1 PROVE HeldBy(new, i) = HeldBy(size, i)
  <2>1. PICK j \in Nat : i = j + 1
    <3>1. i - 1 \in Nat /\ i = (i - 1) + 1
      OBVIOUS
    <3> QED BY <3>1
  <2>2. PICK r \in Nat : r = BlockSize * j
    BY Products
  <2>3. BlockSize * i = r + BlockSize /\ BlockSize * (i - 1) = r
    BY <2>1, <2>2, Products
  <2>4. CASE j < c
    <3>1. r + BlockSize <= p
      BY <1>1, <2>2, <2>4, Products
    <3> QED BY <1>3, <2>3, <3>1, BlockSizeAssumption DEF HeldBy
  <2>5. CASE c < j
    <3>1. p + BlockSize <= r
      BY <1>1, <2>2, <2>5, Products
    <3> QED BY <1>3, <2>3, <3>1, BlockSizeAssumption DEF HeldBy
  <2> QED BY <1>8, <2>1, <2>4, <2>5
<1>9. new <= size + n /\ (new <= p + BlockSize \/ new = size)
  BY <1>3, BlockSizeAssumption
<1> QED BY <1>2, <1>6, <1>7, <1>8, <1>9

(* The bytes after a turn. *)
LEMMA BytesFilled ==
  ASSUME NEW w, MayCopy(w), w.from >= 0, NEW q \in Nat, q < BlockSize * Len(w.data.chain),
         NEW p \in Nat, p = BlockSize * (w.cur - 1) + w.from
  PROVE  ByteAt([w.data.chain EXCEPT ![w.cur] = Filled(w)], q) =
           IF q \in p..(p + CurWrite(w) - 1) THEN w.rest[q - p + 1]
           ELSE ByteAt(w.data.chain, q)
<1>1. PICK chain \in Seq(Blocks) : chain = w.data.chain
  BY DEF MayCopy, Writes, FileData
<1>2. /\ w.cur \in 1..Len(chain) /\ w.from \in Nat /\ w.from < BlockSize
  BY <1>1 DEF MayCopy, Writes
<1>0. PICK from \in Nat : from = w.from
  BY <1>2
<1>3. PICK n \in Nat \ {0} : n = CurWrite(w) /\ n + w.from <= BlockSize
  BY CurWriteFacts DEF MayCopy
<1>4. PICK new : new = [chain EXCEPT ![w.cur] = Filled(w)]
  OBVIOUS
<1>5. PICK b \in Nat : b = q \div BlockSize /\ b + 1 \in 1..Len(chain)
  <2>1. q \div BlockSize \in Nat
    BY Division
  <2> QED BY <1>1, <2>1, BytePlace
<1>6. PICK r \in 0..(BlockSize - 1) : r = q % BlockSize
  BY Division
<1>7. PICK s \in Nat : s = BlockSize * b
  BY Products
<1>8. q = s + r
  BY <1>5, <1>6, <1>7, Division
<1>9. PICK c \in Nat : w.cur = c + 1 /\ w.cur - 1 = c
  <2>1. w.cur - 1 \in Nat /\ w.cur = (w.cur - 1) + 1
    BY <1>2
  <2> QED BY <2>1
<1>10. PICK base \in Nat : base = BlockSize * c /\ p = base + w.from
  BY <1>9, Products
<1>11. CASE b = c
  <2>1. new[b + 1] = Filled(w) /\ chain[b + 1] = CurBlock(w)
    BY <1>1, <1>2, <1>4, <1>9, <1>11 DEF CurBlock
  <2>2. DOMAIN CurBlock(w).memory = 0..(BlockSize - 1)
    <3>1. CurBlock(w) \in Blocks
      BY FilledIsABlock DEF MayCopy
    <3> QED BY <3>1 DEF Blocks
  <2>3. Filled(w).memory[r] = IF r \in w.from..(w.from + n - 1)
                              THEN w.rest[r - w.from + 1] ELSE CurBlock(w).memory[r]
    BY <1>3, <2>2 DEF Filled
  <2>4. s = base
    BY <1>7, <1>10, <1>11
  <2>5. r \in from..(from + n - 1) <=> q \in p..(p + n - 1)
    BY <1>0, <1>8, <1>10, <2>4, BlockSizeAssumption
  <2>6. r - from + 1 = q - p + 1
    BY <1>0, <1>8, <1>10, <2>4, BlockSizeAssumption
  <2>7. ByteAt(new, q) = Filled(w).memory[r] /\ ByteAt(chain, q) = CurBlock(w).memory[r]
    BY <1>5, <1>6, <2>1 DEF ByteAt
  <2> QED BY <1>0, <1>1, <1>3, <1>4, <2>3, <2>5, <2>6, <2>7
<1>12. CASE b # c
  <2>1. new[b + 1] = chain[b + 1]
    BY <1>4, <1>5, <1>9, <1>12
  <2>2. ByteAt(new, q) = ByteAt(chain, q)
    BY <1>5, <2>1 DEF ByteAt
  <2>3. b < c => s + BlockSize <= base
    BY <1>7, <1>10, Products
  <2>4. c < b => base + BlockSize <= s
    BY <1>7, <1>10, Products
  <2>5. ~(q \in p..(p + n - 1))
    <3>1. n + from <= BlockSize /\ p = base + from
      BY <1>0, <1>3, <1>10
    <3>2. b < c \/ c < b
      BY <1>12
    <3> QED BY <1>6, <1>8, <2>3, <2>4, <3>1, <3>2, BlockSizeAssumption
  <2> QED BY <1>1, <1>3, <1>4, <2>2, <2>5
<1> QED BY <1>11, <1>12

(* A turn that stores at p, inside the file or at its end, and that fills  *)
(* its block or reaches the end leaves no gap.                             *)
StoresAt(w, p) ==
  /\ w.from >= 0 /\ p = BlockSize * (w.cur - 1) + w.from
  /\ p <= w.data.size
  /\ CurWrite(w) + w.from = BlockSize \/ w.data.size <= p + CurWrite(w)

LEMMA StoredIsDense ==
  ASSUME NEW w, MayCopy(w), Dense(w.data), FitsLimit(w), NEW p \in Nat, StoresAt(w, p)
  PROVE  /\ Dense(Stored(w).data)
         /\ Stored(w).data.size =
              IF p + CurWrite(w) > w.data.size THEN p + CurWrite(w) ELSE w.data.size
         /\ \A q \in 0..(Stored(w).data.size - 1) :
              ByteAt(Stored(w).data.chain, q) =
                IF q \in p..(p + CurWrite(w) - 1) THEN w.rest[q - p + 1]
                ELSE ByteAt(w.data.chain, q)
<1>1. PICK size \in Nat : size = w.data.size /\ size <= MaxFileSize
  BY MaxFileSizeAssumption DEF Dense
<1>2. PICK from \in Nat : from = w.from
  BY DEF MayCopy, Writes, StoresAt
<1>3. PICK n \in Nat \ {0} : n = CurWrite(w) /\ n + from <= BlockSize
  BY <1>2, CurWriteFacts DEF MayCopy
<1>4. PICK c \in Nat : w.cur = c + 1 /\ w.cur - 1 = c
  <2>1. w.cur \in Int /\ w.cur >= 1
    BY DEF MayCopy, Writes
  <2>2. w.cur - 1 \in Nat /\ w.cur = (w.cur - 1) + 1
    BY <2>1
  <2> QED BY <2>2
<1>5. PICK b \in Nat : b = BlockSize * c
  BY Products
<1>6. /\ p = b + from /\ p <= size
      /\ n + from = BlockSize \/ size <= p + n
  BY <1>1, <1>2, <1>3, <1>4, <1>5 DEF StoresAt
<1>7. PICK new \in Nat : new = IF p + n > size THEN p + n ELSE size
  OBVIOUS
<1>8. /\ size + (n + from - HeldBy(size, c + 1)) = new
      /\ HeldBy(new, c + 1) = n + from
      /\ \A i \in Nat \ {0} : i # c + 1 => HeldBy(new, i) = HeldBy(size, i)
      /\ new <= size + n
      /\ new <= b + BlockSize \/ new = size
  <2>1. from + n <= BlockSize
    BY <1>3, BlockSizeAssumption
  <2>2. b + from <= size
    BY <1>1, <1>6
  <2>3. from + n = BlockSize \/ size <= b + from + n
    BY <1>1, <1>2, <1>3, <1>6, BlockSizeAssumption
  <2>4. new = IF b + from + n > size THEN b + from + n ELSE size
    BY <1>6, <1>7
  <2>5. TurnSizes(size, new, c, b, from, n)
    BY <1>5, <2>1, <2>2, <2>3, <2>4 DEF TurnSizes
  <2> QED BY <2>5, HeldAfter
<1>9. PICK chain \in Seq(Blocks) :
        /\ chain = w.data.chain
        /\ size <= BlockSize * Len(chain)
        /\ \A i \in 1..Len(chain) : chain[i].occupied = HeldBy(size, i)
  BY <1>1 DEF Dense, FileData
<1>10. PICK l \in Nat : l = Len(chain) /\ c < l
  <2>1. w.cur \in 1..Len(chain)
    BY <1>9 DEF MayCopy
  <2> QED BY <1>4, <2>1
<1>11. PICK x \in FileData :
         /\ x = Stored(w).data
         /\ x.chain = [chain EXCEPT ![w.cur] = Filled(w)]
         /\ Len(x.chain) = l /\ x.last = w.data.last
         /\ x.size = w.data.size + (CurWrite(w) + w.from - CurBlock(w).occupied)
  BY <1>9, <1>10, StoredFacts DEF Writes
<1>12. x.size = new
  <2>1. CurBlock(w).occupied = HeldBy(size, c + 1)
    BY <1>9, <1>4, <1>10 DEF CurBlock
  <2> QED BY <1>1, <1>2, <1>3, <1>8, <1>11, <2>1
<1>13. new <= MaxFileSize
  BY <1>1, <1>3, <1>8, MaxFileSizeAssumption DEF FitsLimit
<1>14. new <= BlockSize * l
  <2>1. PICK t \in Nat : t = BlockSize * l
    BY Products
  <2>2. PICK u \in Nat : u = BlockSize * (c + 1) /\ u = b + BlockSize
    <3>1. BlockSize * (c + 1) = b + BlockSize
      BY <1>5, Products
    <3>2. b + BlockSize \in Nat
      BY BlockSizeAssumption
    <3> QED BY <3>1, <3>2
  <2>3. u <= t
    BY <1>10, <2>1, <2>2, Products
  <2>4. size <= t
    BY <1>9, <1>10, <2>1
  <2> QED BY <1>8, <2>1, <2>2, <2>3, <2>4
<1>15. \A i \in 1..l : x.chain[i].occupied = HeldBy(new, i)
  <2> SUFFICES ASSUME NEW i \in 1..l PROVE x.chain[i].occupied = HeldBy(new, i)
    OBVIOUS
  <2>1. CASE i = c + 1
    <3>1. x.chain[i] = Filled(w)
      BY <1>4, <1>10, <1>11, <2>1
    <3>2. Filled(w).occupied = n + from
      BY <1>2, <1>3 DEF Filled
    <3> QED BY <1>8, <2>1, <3>1, <3>2
  <2>2. CASE i # c + 1
    <3>1. x.chain[i] = chain[i]
      BY <1>4, <1>10, <1>11, <2>2
    <3> QED BY <1>9, <1>10, <1>8, <2>2, <3>1
  <2> QED BY <2>1, <2>2
<1>16. Dense(x)
  <2>1. LastIn(x)
    <3>1. w.data.last <= Len(chain) /\ (w.data.last = 0 <=> chain = << >>)
      BY <1>9 DEF Dense, LastIn
    <3>2. chain # << >> /\ x.chain # << >>
      BY <1>10, <1>11
    <3> QED BY <1>10, <1>11, <3>1, <3>2 DEF LastIn
  <2> QED BY <1>11, <1>12, <1>13, <1>14, <1>15, <2>1 DEF Dense
<1>17. ASSUME NEW q \in 0..(x.size - 1)
       PROVE  ByteAt(x.chain, q) =
                IF q \in p..(p + CurWrite(w) - 1) THEN w.rest[q - p + 1]
                ELSE ByteAt(w.data.chain, q)
  <2>1. q \in Nat /\ q < new
    BY <1>12
  <2>2. q < BlockSize * Len(w.data.chain)
    <3>1. BlockSize * l \in Nat
      BY Products
    <3> QED BY <1>9, <1>10, <1>14, <2>1, <3>1
  <2>3. x.chain = [w.data.chain EXCEPT ![w.cur] = Filled(w)]
    BY <1>9, <1>11
  <2>4. ByteAt([w.data.chain EXCEPT ![w.cur] = Filled(w)], q) =
          IF q \in p..(p + CurWrite(w) - 1) THEN w.rest[q - p + 1]
          ELSE ByteAt(w.data.chain, q)
    BY <2>1, <2>2, BytesFilled DEF StoresAt
  <2> QED BY <2>3, <2>4
<1> QED BY <1>1, <1>3, <1>7, <1>11, <1>12, <1>16, <1>17

-----------------------------------------------------------------------------
(***************************************************************************)
(* A write from start on that reaches the end of the file.                 *)
(***************************************************************************)

(* m bytes of buf have come to x, where the others are those of old. *)
HasStored(x, old, start, buf, m) ==
  /\ x.size = IF start + m > old.size THEN start + m ELSE old.size
  /\ \A q \in 0..(x.size - 1) :
       ByteAt(x.chain, q) = IF q \in start..(start + m - 1) THEN buf[q - start + 1]
                            ELSE ByteAt(old.chain, q)

(* The bytes in rest come to their places: cur and from go with them.  A   *)
(* turn that stores bytes and finds no memory leaves the offset behind.    *)
InPlace(w, start, buf, m) ==
  /\ w.offset = start + m /\ w.from >= 0
  /\ Len(w.rest) = Len(buf) - m
  /\ \A j \in 1..(Len(buf) - m) : w.rest[j] = buf[m + j]
  /\ w.rest # << >> => BlockSize * (w.cur - 1) + w.from = start + m

Appending(old, start, buf) ==
  {w \in SoundWrites :
     /\ w.status # "fault"
     /\ Dense(w.data)
     /\ \E m \in 0..Len(buf) :
          /\ HasStored(w.data, old, start, buf, m)
          /\ w.offset \in start..(start + m)
          /\ w.status = "run" => InPlace(w, start, buf, m)}

(* The bytes of a turn follow those of the turns before it. *)
LEMMA MoreStored ==
  ASSUME NEW old, NEW x, NEW y, old.size \in Nat, NEW start \in 0..old.size,
         NEW buf \in Seq(Byte), NEW m \in 0..Len(buf), NEW n \in Nat \ {0},
         HasStored(x, old, start, buf, m), m + n <= Len(buf),
         y.size = IF start + m + n > x.size THEN start + m + n ELSE x.size,
         \A q \in 0..(y.size - 1) :
           ByteAt(y.chain, q) =
             IF q \in (start + m)..(start + m + n - 1) THEN buf[q - start + 1]
             ELSE ByteAt(x.chain, q)
  PROVE  HasStored(y, old, start, buf, m + n)
<1>1. x.size = IF start + m > old.size THEN start + m ELSE old.size
  BY DEF HasStored
<1>2. y.size = IF start + (m + n) > old.size THEN start + (m + n) ELSE old.size
  BY <1>1
<1>3. x.size \in Nat /\ y.size \in Nat
  BY <1>1, <1>2
<1>4. ASSUME NEW q \in 0..(y.size - 1)
      PROVE  ByteAt(y.chain, q) = IF q \in start..(start + (m + n) - 1) THEN buf[q - start + 1]
                                  ELSE ByteAt(old.chain, q)
  <2>1. CASE q \in (start + m)..(start + m + n - 1)
    BY <2>1
  <2>2. CASE ~(q \in (start + m)..(start + m + n - 1))
    <3>1. ByteAt(y.chain, q) = ByteAt(x.chain, q)
      BY <2>2
    <3>2. q \in 0..(x.size - 1)
      BY <1>1, <1>3, <2>2
    <3>3. q \in start..(start + m - 1) <=> q \in start..(start + (m + n) - 1)
      BY <2>2
    <3> QED BY <3>1, <3>2, <3>3 DEF HasStored
  <2> QED BY <2>1, <2>2
<1> QED BY <1>2, <1>4 DEF HasStored

LEMMA SameStored ==
  ASSUME NEW old, NEW x, NEW y, NEW start, NEW buf, NEW m,
         HasStored(x, old, start, buf, m), y.size = x.size,
         \A q \in 0..(x.size - 1) : ByteAt(y.chain, q) = ByteAt(x.chain, q)
  PROVE  HasStored(y, old, start, buf, m)
  BY DEF HasStored

(* What a turn stores is the next part of the buffer. *)
LEMMA StoredIsNext ==
  ASSUME NEW w, MayCopy(w), Dense(w.data), FitsLimit(w),
         NEW old, old.size \in Nat, NEW start \in 0..old.size,
         NEW buf \in Seq(Byte), old.size <= start + Len(buf), NEW m \in 0..Len(buf),
         HasStored(w.data, old, start, buf, m), InPlace(w, start, buf, m)
  PROVE  /\ Dense(Stored(w).data) /\ m + CurWrite(w) <= Len(buf)
         /\ HasStored(Stored(w).data, old, start, buf, m + CurWrite(w))
<1>1. PICK p \in Nat : p = start + m
  OBVIOUS
<1>2. w.data.size = IF start + m > old.size THEN start + m ELSE old.size
  BY DEF HasStored
<1>3. /\ w.from >= 0 /\ BlockSize * (w.cur - 1) + w.from = p
      /\ \A j \in 1..(Len(buf) - m) : w.rest[j] = buf[m + j]
      /\ Len(w.rest) = Len(buf) - m
  BY <1>1 DEF InPlace, MayCopy
<1>4. PICK n \in Nat \ {0} : n = CurWrite(w) /\ m + n <= Len(buf)
                             /\ (n = Len(buf) - m \/ CurWrite(w) + w.from = BlockSize)
  BY <1>3, CurWriteFacts DEF MayCopy
<1>5. StoresAt(w, p)
  BY <1>1, <1>2, <1>3, <1>4 DEF StoresAt
<1>6. /\ Dense(Stored(w).data)
      /\ Stored(w).data.size = IF p + n > w.data.size THEN p + n ELSE w.data.size
      /\ \A q \in 0..(Stored(w).data.size - 1) :
           ByteAt(Stored(w).data.chain, q) =
             IF q \in p..(p + n - 1) THEN w.rest[q - p + 1] ELSE ByteAt(w.data.chain, q)
  BY <1>4, <1>5, StoredIsDense
<1>7. \A q \in p..(p + n - 1) : w.rest[q - p + 1] = buf[q - start + 1]
  <2> SUFFICES ASSUME NEW q \in p..(p + n - 1) PROVE w.rest[q - p + 1] = buf[q - start + 1]
    OBVIOUS
  <2>1. PICK j \in 1..(Len(buf) - m) : j = q - p + 1
    BY <1>4
  <2>2. m + j = q - start + 1
    BY <1>1, <2>1
  <2> QED BY <1>3, <2>1, <2>2
<1>8. HasStored(Stored(w).data, old, start, buf, m + n)
  <2>1. Stored(w).data.size = IF start + m + n > w.data.size THEN start + m + n ELSE w.data.size
    BY <1>1, <1>6
  <2>2. \A q \in 0..(Stored(w).data.size - 1) :
          ByteAt(Stored(w).data.chain, q) =
            IF q \in (start + m)..(start + m + n - 1) THEN buf[q - start + 1]
            ELSE ByteAt(w.data.chain, q)
    BY <1>1, <1>6, <1>7
  <2> QED BY <1>4, <2>1, <2>2, MoreStored
<1> QED BY <1>4, <1>6, <1>8

(* After a turn the rest of the buffer goes to the next block. *)
LEMMA NextInPlace ==
  ASSUME NEW w, MayCopy(w), NEW y \in Writes,
         NEW start \in Nat, NEW buf \in Seq(Byte), NEW m \in 0..Len(buf),
         InPlace(w, start, buf, m), m + CurWrite(w) <= Len(buf),
         y.offset = w.offset + CurWrite(w), y.cur = w.cur + 1, y.from = 0,
         y.rest = SubSeq(w.rest, CurWrite(w) + 1, Len(w.rest))
  PROVE  InPlace(y, start, buf, m + CurWrite(w))
<1>1. PICK n \in Nat \ {0} : n = CurWrite(w) /\ m + n <= Len(buf)
                             /\ (n = Len(w.rest) \/ n + w.from = BlockSize)
  BY CurWriteFacts DEF MayCopy
<1>2. /\ w.offset = start + m /\ Len(w.rest) = Len(buf) - m
      /\ \A j \in 1..(Len(buf) - m) : w.rest[j] = buf[m + j]
      /\ BlockSize * (w.cur - 1) + w.from = start + m
  BY DEF InPlace, MayCopy
<1>3. PICK l \in Nat : l = Len(buf) - m - n /\ l = Len(buf) - (m + n)
  BY <1>1
<1>4. w.rest \in Seq(Byte) /\ Len(w.rest) = n + l
  BY <1>2, <1>3 DEF MayCopy, Writes
<1>5. PICK rest : rest = y.rest
  OBVIOUS
<1>6. Len(rest) = l /\ \A j \in 1..l : rest[j] = w.rest[n + j]
  <2>1. rest = SubSeq(w.rest, n + 1, n + l)
    BY <1>1, <1>4, <1>5
  <2>2. n + 1 \in 1..(Len(w.rest) + 1) /\ n + l \in 0..Len(w.rest)
    BY <1>4
  <2> QED BY <1>4, <2>1, <2>2, SubSeqProperties
<1>7. \A j \in 1..l : rest[j] = buf[(m + n) + j]
  <2> SUFFICES ASSUME NEW j \in 1..l PROVE rest[j] = buf[(m + n) + j]
    OBVIOUS
  <2>1. PICK i \in 1..(Len(buf) - m) : i = n + j /\ m + i = (m + n) + j
    BY <1>3
  <2> QED BY <1>2, <1>6, <2>1
<1>8. rest # << >> => BlockSize * (y.cur - 1) + y.from = start + (m + n)
  <2> SUFFICES ASSUME rest # << >> PROVE BlockSize * (y.cur - 1) + y.from = start + (m + n)
    OBVIOUS
  <2>1. n + w.from = BlockSize
    <3>1. rest \in Seq(Byte)
      BY <1>5 DEF Writes
    <3>2. l # 0
      BY <1>6, <3>1
    <3> QED BY <1>1, <1>4, <3>2
  <2>2. PICK c \in Nat : w.cur - 1 = c /\ y.cur - 1 = c + 1
    <3>1. w.cur \in Int /\ w.cur >= 1
      BY DEF MayCopy, Writes
    <3>2. w.cur - 1 \in Nat /\ y.cur - 1 = (w.cur - 1) + 1
      BY <3>1
    <3> QED BY <3>2
  <2>3. PICK b \in Nat : b = BlockSize * c /\ BlockSize * (c + 1) = b + BlockSize
    BY Products
  <2>4. PICK from \in Int : from = w.from
    BY DEF MayCopy, Writes
  <2>5. b + from = start + m /\ n + from = BlockSize
    BY <1>2, <2>1, <2>2, <2>3, <2>4
  <2>6. b + BlockSize = start + (m + n)
    BY <2>5
  <2> QED BY <2>2, <2>3, <2>6
<1>9. y.offset = start + (m + n)
  BY <1>1, <1>2
<1>10. Len(rest) = Len(buf) - (m + n) /\ \A j \in 1..(Len(buf) - (m + n)) : rest[j] = buf[(m + n) + j]
  BY <1>3, <1>6, <1>7
<1>11. y.from >= 0
  OBVIOUS
<1>12. InPlace(y, start, buf, m + n)
  BY <1>5, <1>8, <1>9, <1>10, <1>11 DEF InPlace
<1> QED BY <1>1, <1>12

LEMMA TurnAppends ==
  ASSUME NEW old, old.size \in Nat, NEW start \in 0..old.size,
         NEW buf \in Seq(Byte), old.size <= start + Len(buf),
         NEW w \in Appending(old, start, buf)
  PROVE  Turn(w) \in Appending(old, start, buf)
<1>1. w \in SoundWrites /\ w \in Writes /\ w.status # "fault" /\ Dense(w.data)
  BY DEF Appending, SoundWrites
<1>2. PICK m \in 0..Len(buf) :
        /\ HasStored(w.data, old, start, buf, m)
        /\ w.offset \in start..(start + m)
        /\ w.status = "run" => InPlace(w, start, buf, m)
  BY DEF Appending
<1>3. CASE ~(w.status = "run" /\ w.rest # << >>)
  BY <1>3 DEF Turn
<1>4. CASE w.status = "run" /\ w.rest # << >>
  <2>1. /\ MayCopy(w) /\ Turn(w) = Copy(w) /\ InPlace(w, start, buf, m)
        /\ w.from >= 0 /\ w.offset = start + m
    BY <1>1, <1>2, <1>4 DEF SoundWrites, MayCopy, Turn, InPlace
  <2>2. Turn(w) \in SoundWrites
    BY <1>1, TurnIsSound
  <2>3. CASE ~FitsLimit(w)
    <3>1. Turn(w) = [w EXCEPT !.status = "nomem"]
      BY <2>1, <2>3 DEF Copy
    <3>2. Turn(w).data = w.data /\ Turn(w).offset = w.offset /\ Turn(w).status = "nomem"
      BY <1>1, <3>1 DEF Writes
    <3> QED BY <1>1, <1>2, <2>2, <3>2 DEF Appending
  <2>4. CASE FitsLimit(w)
    <3>1. /\ Dense(Stored(w).data) /\ m + CurWrite(w) <= Len(buf)
          /\ HasStored(Stored(w).data, old, start, buf, m + CurWrite(w))
      BY <1>1, <1>2, <2>1, <2>4, StoredIsNext
    <3>2. PICK n \in Nat \ {0} : n = CurWrite(w)
      BY <2>1, CurWriteFacts DEF MayCopy
    <3>3. PICK k \in 0..Len(buf) : k = m + n
      BY <3>1, <3>2
    <3>4. PICK s \in Writes : s = Stored(w)
      BY <2>1, StoredFacts
    <3>5. Dense(s.data) /\ HasStored(s.data, old, start, buf, k)
      BY <3>1, <3>2, <3>3, <3>4
    <3>6. CASE FillsTheLast(w) /\ w.spare = 0
      <4>1. Turn(w) = [s EXCEPT !.status = "nomem"] /\ s.offset = w.offset
        BY <2>1, <2>4, <3>4, <3>6, CopyFacts, StoredFacts
      <4>2. Turn(w).data = s.data /\ Turn(w).offset = start + m /\ Turn(w).status = "nomem"
        BY <2>1, <4>1 DEF Writes
      <4>3. Turn(w).offset \in start..(start + k)
        BY <3>3, <4>2
      <4> QED BY <2>2, <3>5, <4>2, <4>3 DEF Appending
    <3>7. CASE ~(FillsTheLast(w) /\ w.spare = 0)
      <4>1. PICK y \in Writes :
              /\ y = Turn(w) /\ y.data.size = s.data.size /\ y.status = "run"
              /\ y.offset = w.offset + n /\ y.cur = w.cur + 1 /\ y.from = 0
              /\ y.rest = SubSeq(w.rest, n + 1, Len(w.rest))
        BY <2>1, <2>4, <3>2, <3>4, <3>7, CopyFacts
      <4>2. InPlace(y, start, buf, k)
        <5>1. /\ y.offset = w.offset + CurWrite(w)
              /\ y.rest = SubSeq(w.rest, CurWrite(w) + 1, Len(w.rest))
              /\ start \in Nat
          BY <3>2, <4>1
        <5>2. InPlace(y, start, buf, m + CurWrite(w))
          BY <2>1, <3>1, <4>1, <5>1, NextInPlace
        <5> QED BY <3>2, <3>3, <5>2
      <4>3. y.offset \in start..(start + k)
        BY <2>1, <3>3, <4>1
      <4>4. Dense(y.data) /\ HasStored(y.data, old, start, buf, k)
        <5>1. y.data \in FileData /\ LastIn(y.data)
          BY <2>2, <4>1 DEF SoundWrites, Writes
        <5>2. CASE FillsTheLast(w)
          <6>1. y.data.chain = Append(s.data.chain, EmptyBlock)
            BY <2>1, <2>4, <3>4, <3>7, <4>1, <5>2, CopyFacts
          <6>2. /\ Dense(y.data)
                /\ \A q \in 0..(s.data.size - 1) :
                     ByteAt(y.data.chain, q) = ByteAt(s.data.chain, q)
            BY <3>5, <4>1, <5>1, <6>1, AppendedIsDense
          <6> QED BY <3>5, <4>1, <6>2, SameStored
        <5>3. CASE ~FillsTheLast(w)
          <6>1. y.data.chain = s.data.chain /\ y.data.last = s.data.last
            <7>1. Copy(w).data.chain = Stored(w).data.chain /\ Copy(w).data.last = w.data.last
              BY <2>1, <2>4, <5>3, CopyFacts
            <7>2. Stored(w).data.last = w.data.last
              BY <2>1, StoredFacts
            <7> QED BY <2>1, <3>4, <4>1, <7>1, <7>2
          <6>2. y.data = s.data
            <7>1. s.data \in FileData /\ y.data \in FileData
              BY <5>1 DEF Writes
            <7>2. y.data = [chain |-> y.data.chain, last |-> y.data.last, size |-> y.data.size]
              BY <7>1 DEF FileData
            <7>3. s.data = [chain |-> s.data.chain, last |-> s.data.last, size |-> s.data.size]
              BY <7>1 DEF FileData
            <7> QED BY <4>1, <6>1, <7>2, <7>3
          <6> QED BY <3>5, <6>2
        <5> QED BY <5>2, <5>3
      <4> QED BY <2>2, <4>1, <4>2, <4>3, <4>4 DEF Appending
    <3> QED BY <3>6, <3>7
  <2> QED BY <2>3, <2>4
<1> QED BY <1>3, <1>4

-----------------------------------------------------------------------------
(* Before the copying nothing is stored, and the block is the one where    *)
(* start is.                                                               *)
LEMMA FirstBlockAppends ==
  ASSUME NEW old, Dense(old), NEW off \in Int, NEW start \in 0..old.size,
         start = LesserOf(off, old.size), NEW buf \in Seq(Byte), NEW spare \in Nat,
         NEW b, b = FirstBlock(Starting(old, off, buf, spare))
  PROVE  /\ b \in Writes /\ b.status # "fault"
         /\ Dense(b.data) /\ b.data.size = old.size
         /\ \A q \in 0..(old.size - 1) : ByteAt(b.data.chain, q) = ByteAt(old.chain, q)
         /\ b.offset = start /\ b.from = start % BlockSize /\ b.rest = buf
<1>1. old \in FileData /\ LastIn(old) /\ old.size \in Nat
  BY MaxFileSizeAssumption DEF Dense
<1>2. PICK s : s = Starting(old, off, buf, spare)
  OBVIOUS
<1>3. /\ s \in Writes /\ s.data = old /\ s.offset = start
      /\ s.from = Rem(start, BlockSize)
      /\ s.rest = buf /\ s.spare = spare /\ s.status = "run"
  BY <1>1, <1>2, StartingFacts
<1>4. s.from = start % BlockSize
  <2>1. start \in Nat
    BY <1>1
  <2> QED BY <1>3, <2>1, Division
<1>5. /\ b \in Writes /\ LastIn(b.data)
      /\ b.rest = buf /\ b.from = s.from /\ b.offset = start /\ b.data.size = old.size
  BY <1>1, <1>2, <1>3, FirstBlockFacts
<1>6. CASE old.last # 0
  <2>1. b = s
    BY <1>1, <1>2, <1>3, <1>6, FirstBlockFacts
  <2> QED BY <1>3, <1>4, <1>5, <2>1
<1>7. CASE old.last = 0 /\ spare = 0
  <2>1. b = [s EXCEPT !.status = "nomem"]
    BY <1>1, <1>2, <1>3, <1>7, FirstBlockFacts
  <2>2. b.data = old /\ b.status = "nomem"
    BY <1>3, <2>1 DEF Writes
  <2> QED BY <1>4, <1>5, <2>2
<1>8. CASE old.last = 0 /\ spare # 0
  <2>1. b.data.chain = << EmptyBlock >> /\ b.status = "run"
    BY <1>1, <1>2, <1>3, <1>8, FirstBlockFacts
  <2>2. old.chain = << >>
    BY <1>1, <1>8 DEF LastIn
  <2>3. b.data.chain = Append(old.chain, EmptyBlock)
    BY <2>1, <2>2
  <2>4. b.data \in FileData
    BY <1>5 DEF Writes
  <2>5. /\ Dense(b.data)
        /\ \A q \in 0..(old.size - 1) : ByteAt(b.data.chain, q) = ByteAt(old.chain, q)
    BY <1>5, <2>3, <2>4, AppendedIsDense
  <2> QED BY <1>4, <1>5, <2>1, <2>5
<1> QED BY <1>6, <1>7, <1>8

LEMMA SeekAppends ==
  ASSUME NEW old, Dense(old), NEW off \in Int, NEW start \in 0..old.size,
         start = LesserOf(off, old.size), NEW buf \in Seq(Byte), NEW spare \in Nat,
         NEW w, w = Seek(FirstBlock(Starting(old, off, buf, spare)))
  PROVE  w \in Appending(old, start, buf) /\ w.rest = buf
<1>1. old \in FileData /\ LastIn(old) /\ old.size \in Nat /\ start \in Nat
  BY MaxFileSizeAssumption DEF Dense
<1>2. w \in SoundWrites /\ w.rest = buf
  BY <1>1, SeekIsSound
<1>3. PICK b : b = FirstBlock(Starting(old, off, buf, spare))
  OBVIOUS
<1>4. /\ b \in Writes /\ b.status # "fault"
      /\ Dense(b.data) /\ b.data.size = old.size
      /\ \A q \in 0..(old.size - 1) : ByteAt(b.data.chain, q) = ByteAt(old.chain, q)
      /\ b.offset = start /\ b.from = start % BlockSize /\ b.rest = buf
  BY <1>3, FirstBlockAppends
<1>5. /\ w = Seek(b) /\ w \in Writes /\ w.from = b.from /\ w.offset = start
      /\ w.data.size = old.size
  BY <1>3, <1>4, SeekFacts
<1>6. HasStored(b.data, old, start, buf, 0)
  <2>1. HasStored(old, old, start, buf, 0)
    BY <1>1 DEF HasStored
  <2> QED BY <1>4, <2>1, SameStored
<1>7. PICK a \in Nat : a = start \div BlockSize
  BY <1>1, Division
<1>8. PICK r \in Nat : r = start % BlockSize /\ start = BlockSize * a + r
  <2>1. start % BlockSize \in 0..(BlockSize - 1)
    BY <1>1, Division
  <2>2. start % BlockSize \in Nat
    BY <2>1, BlockSizeAssumption
  <2>3. start = BlockSize * (start \div BlockSize) + (start % BlockSize)
    BY <1>1, Division
  <2> QED BY <1>7, <2>2, <2>3
<1>9. Target(b) = a + 1
  BY <1>1, <1>4, <1>7 DEF Target
<1>10. PICK l \in Nat : l = Len(b.data.chain) /\ a <= l
  <2>1. PICK l \in Nat : l = Len(b.data.chain)
    BY <1>4 DEF Dense, FileData
  <2>2. PICK p \in Nat : p = BlockSize * l
    BY Products
  <2>3. PICK e \in Nat : e = BlockSize * a
    BY Products
  <2>4. start <= p
    BY <1>1, <1>4, <2>1, <2>2 DEF Dense
  <2>5. l < a => p + BlockSize <= e
    BY <2>2, <2>3, Products
  <2>6. ~(l < a)
    BY <1>1, <1>8, <2>3, <2>4, <2>5, BlockSizeAssumption
  <2> QED BY <2>1, <2>6
<1>11. w.status = "run" => w.cur = a + 1
  <2>1. CASE b.status # "run"
    BY <1>4, <1>5, <2>1, SeekFacts
  <2>2. CASE b.status = "run" /\ a + 1 <= l
    BY <1>4, <1>5, <1>9, <1>10, <2>2, SeekFacts
  <2>3. CASE b.status = "run" /\ a + 1 > l
    <3>1. Target(b) > Len(b.data.chain) /\ l = a
      BY <1>9, <1>10, <2>3
    <3>2. b.spare = 0 => w.status = "nomem"
      BY <1>4, <1>5, <2>3, <3>1, SeekFacts
    <3>3. b.spare # 0 => w.cur = Len(b.data.chain) + 1
      BY <1>4, <1>5, <2>3, <3>1, SeekFacts
    <3> QED BY <1>10, <3>1, <3>2, <3>3
  <2> QED BY <1>10, <2>1, <2>2, <2>3
<1>12. /\ w.status # "fault" /\ Dense(w.data)
       /\ HasStored(w.data, old, start, buf, 0)
  <2>1. CASE b.status # "run"
    <3>1. w = b
      BY <1>4, <1>5, <2>1, SeekFacts
    <3> QED BY <1>4, <1>6, <3>1
  <2>2. CASE b.status = "run" /\ a + 1 <= l
    <3>1. w.data = b.data /\ w.status = "run"
      BY <1>4, <1>5, <1>9, <1>10, <2>2, SeekFacts
    <3> QED BY <1>4, <1>6, <3>1
  <2>3. CASE b.status = "run" /\ a + 1 > l /\ b.spare = 0
    <3>1. w.data = b.data /\ w.status = "nomem"
      BY <1>4, <1>5, <1>9, <1>10, <2>3, SeekFacts
    <3> QED BY <1>4, <1>6, <3>1
  <2>4. CASE b.status = "run" /\ a + 1 > l /\ b.spare # 0
    <3>1. w.data.chain = Append(b.data.chain, EmptyBlock) /\ w.status = "run"
      BY <1>4, <1>5, <1>9, <1>10, <2>4, SeekFacts
    <3>2. w.data \in FileData /\ LastIn(w.data)
      BY <1>2 DEF SoundWrites, Writes
    <3>3. /\ Dense(w.data)
          /\ \A q \in 0..(b.data.size - 1) : ByteAt(w.data.chain, q) = ByteAt(b.data.chain, q)
      BY <1>4, <1>5, <3>1, <3>2, AppendedIsDense
    <3> QED BY <1>4, <1>5, <1>6, <3>1, <3>3, SameStored
  <2> QED BY <1>10, <2>1, <2>2, <2>3, <2>4
<1>13. w.status = "run" => InPlace(w, start, buf, 0)
  <2> SUFFICES ASSUME w.status = "run" PROVE InPlace(w, start, buf, 0)
    OBVIOUS
  <2>1. w.cur - 1 = a /\ w.from = r
    BY <1>4, <1>5, <1>8, <1>11
  <2>2. BlockSize * (w.cur - 1) + w.from = start + 0
    BY <1>1, <1>8, <2>1
  <2>3. w.offset = start + 0 /\ w.from >= 0
    BY <1>1, <1>5, <2>1
  <2>4. Len(w.rest) = Len(buf) - 0 /\ \A j \in 1..(Len(buf) - 0) : w.rest[j] = buf[0 + j]
    BY <1>2
  <2> QED BY <2>2, <2>3, <2>4 DEF InPlace
<1>14. 0 \in 0..Len(buf) /\ w.offset \in start..(start + 0)
  BY <1>1, <1>5
<1>15. w \in Appending(old, start, buf)
  BY <1>2, <1>12, <1>13, <1>14 DEF Appending
<1> QED BY <1>2, <1>15

(* A turn that goes on leaves less of the buffer. *)
LEMMA TurnShrinks ==
  ASSUME NEW w \in SoundWrites, NEW n \in Nat,
         w.status = "run" => Len(w.rest) <= n + 1,
         Turn(w).status = "run", w.status = "run" => w.from >= 0
  PROVE  Len(Turn(w).rest) <= n
<1>1. w.rest \in Seq(Byte) /\ Len(w.rest) \in Nat
  BY DEF SoundWrites, Writes
<1>2. CASE w.status = "run" /\ w.rest # << >>
  <2>1. MayCopy(w) /\ Turn(w) = Copy(w) /\ w.from >= 0
    BY <1>2 DEF SoundWrites, MayCopy, Turn
  <2>2. FitsLimit(w) /\ ~(FillsTheLast(w) /\ w.spare = 0)
    <3>1. ~FitsLimit(w) => Copy(w) = [w EXCEPT !.status = "nomem"]
      BY DEF Copy
    <3>2. FitsLimit(w) /\ FillsTheLast(w) /\ w.spare = 0 =>
            Copy(w) = [Stored(w) EXCEPT !.status = "nomem"]
      BY <2>1, CopyFacts
    <3>3. w \in Writes /\ Stored(w) \in Writes
      BY <2>1, StoredFacts DEF MayCopy
    <3> QED BY <2>1, <3>1, <3>2, <3>3 DEF Writes
  <2>3. PICK c \in 1..Len(w.rest) : c = CurWrite(w)
    BY <2>1, CurWriteFacts DEF MayCopy
  <2>4. Turn(w).rest = SubSeq(w.rest, c + 1, Len(w.rest))
    BY <2>1, <2>2, <2>3, CopyFacts
  <2>5. Len(SubSeq(w.rest, c + 1, Len(w.rest))) = Len(w.rest) - c
    <3>1. c + 1 \in 1..(Len(w.rest) + 1) /\ Len(w.rest) \in 0..Len(w.rest)
      BY <1>1, <2>3
    <3>2. Len(w.rest) - (c + 1) + 1 = Len(w.rest) - c
      BY <1>1, <2>3
    <3> QED BY <1>1, <3>1, <3>2, SubSeqProperties
  <2> QED BY <1>1, <1>2, <2>3, <2>4, <2>5
<1>3. CASE ~(w.status = "run" /\ w.rest # << >>)
  <2>1. Turn(w) = w
    BY <1>3 DEF Turn
  <2>2. w.rest = << >>
    BY <1>3, <2>1
  <2> QED BY <2>1, <2>2
<1> QED BY <1>2, <1>3

(* ufs_write from start on: a part of the buffer is stored, all of it when *)
(* the call does not run out of memory.                                    *)
ReachesEnd(old, off, start, buf) ==
  start = LesserOf(off, old.size) /\ old.size <= start + Len(buf)

PartStored(w, old, start, buf) ==
  \E m \in 0..Len(buf) :
    /\ HasStored(w.data, old, start, buf, m)
    /\ w.offset \in start..(start + m)
    /\ w.status # "nomem" => m = Len(buf) /\ w.offset = start + m

LEMMA WrittenAppends ==
  ASSUME NEW old, Dense(old), NEW off \in Int, NEW start \in 0..old.size,
         NEW buf \in Seq(Byte), NEW spare \in Nat, ReachesEnd(old, off, start, buf),
         NEW w, w = Written(old, off, buf, spare)
  PROVE  w.status # "fault" /\ Dense(w.data) /\ PartStored(w, old, start, buf)
<1>1. old.size \in Nat /\ start = LesserOf(off, old.size) /\ old.size <= start + Len(buf)
  BY MaxFileSizeAssumption DEF Dense, ReachesEnd
<1>2. PICK x : x = Seek(FirstBlock(Starting(old, off, buf, spare)))
  OBVIOUS
<1>3. x \in Appending(old, start, buf) /\ x.rest = buf
  BY <1>1, <1>2, SeekAppends
<1>4. PICK n \in Nat : n = Len(buf)
  OBVIOUS
<1> DEFINE A == Appending(old, start, buf)
           P == [k \in 0..n |-> {y \in A : y.status = "run" => Len(y.rest) <= n - k}]
<1>5. x \in P[0]
  BY <1>3, <1>4
<1>6. ASSUME NEW k \in 0..(n - 1), NEW y \in P[k] PROVE Turn(y) \in P[k + 1]
  <2>1. y \in A /\ (y.status = "run" => Len(y.rest) <= n - k)
    OBVIOUS
  <2>2. Turn(y) \in A
    BY <1>1, <2>1, TurnAppends
  <2>3. PICK j \in Nat : j = n - (k + 1) /\ n - k = j + 1
    OBVIOUS
  <2>4. y \in SoundWrites /\ (y.status = "run" => y.from >= 0)
    BY <2>1 DEF Appending, InPlace
  <2>5. Turn(y).status = "run" => Len(Turn(y).rest) <= n - (k + 1)
    <3> HIDE DEF A
    <3>1. y.status = "run" => Len(y.rest) <= j + 1
      BY <2>1, <2>3
    <3> QED BY <2>3, <2>4, <3>1, TurnShrinks
  <2>6. k + 1 \in 0..n
    OBVIOUS
  <2> QED BY <2>2, <2>5, <2>6
<1>7. Copied(x) \in P[n]
  <2>1. Len(x.rest) = n
    BY <1>3, <1>4
  <2> HIDE DEF P
  <2> QED BY <1>5, <1>6, <2>1, CopiedIsIn
<1>8. w = Copied(x)
  BY <1>2 DEF Written
<1>9. w \in A /\ (w.status = "run" => Len(w.rest) <= n - n)
  BY <1>7, <1>8
<1>10. w.status \in {"run", "nomem"} /\ Dense(w.data)
  BY <1>9 DEF Appending, SoundWrites, Writes
<1>11. PICK m \in 0..Len(buf) :
         /\ HasStored(w.data, old, start, buf, m)
         /\ w.offset \in start..(start + m)
         /\ w.status = "run" => InPlace(w, start, buf, m)
  BY <1>9 DEF Appending
<1>12. w.status = "run" => m = Len(buf) /\ w.offset = start + m
  <2>1. w.status = "run" => Len(w.rest) = Len(buf) - m /\ w.offset = start + m
    BY <1>11 DEF InPlace
  <2>2. w.status = "run" => Len(w.rest) <= 0
    BY <1>9
  <2> QED BY <2>1, <2>2
<1>13. w.status # "nomem" => m = Len(buf) /\ w.offset = start + m
  BY <1>10, <1>12
<1> QED BY <1>10, <1>11, <1>13 DEF PartStored

-----------------------------------------------------------------------------
(***************************************************************************)
(* The contents of files and the calls of the flat file system.            *)
(***************************************************************************)
LEMMA PartOf ==
  ASSUME NEW s \in Seq(Byte), NEW i \in Nat \ {0}, NEW j \in 0..Len(s)
  PROVE  /\ SubSeq(s, i, j) \in Seq(Byte)
         /\ Len(SubSeq(s, i, j)) = IF i <= j THEN j - i + 1 ELSE 0
         /\ \A k \in 1..(j - i + 1) : SubSeq(s, i, j)[k] = s[i + k - 1]
<1>1. \A k \in i..j : s[k] \in Byte
  OBVIOUS
<1> QED BY <1>1, SubSeqProperties

LEMMA OverIsBytes ==
  ASSUME NEW c \in Seq(Byte), NEW p \in 0..Len(c), NEW b \in Seq(Byte)
  PROVE  /\ Flat!Over(c, p, b) \in Seq(Byte)
         /\ Len(Flat!Over(c, p, b)) = IF p + Len(b) > Len(c) THEN p + Len(b) ELSE Len(c)
         /\ \A i \in 1..Len(Flat!Over(c, p, b)) :
              Flat!Over(c, p, b)[i] = IF i \in (p + 1)..(p + Len(b)) THEN b[i - p] ELSE c[i]
<1>1. PICK l \in Nat : l = Len(c)
  OBVIOUS
<1>2. PICK m \in Nat : m = Len(b)
  OBVIOUS
<1>0. p \in Nat
  OBVIOUS
<1>3. PICK front : front = SubSeq(c, 1, p)
  OBVIOUS
<1>4. PICK back : back = SubSeq(c, p + m + 1, l)
  OBVIOUS
<1>5. /\ front \in Seq(Byte) /\ Len(front) = p
      /\ \A k \in 1..p : front[k] = c[k]
  <2>1. /\ front \in Seq(Byte) /\ Len(front) = IF 1 <= p THEN p - 1 + 1 ELSE 0
        /\ \A k \in 1..(p - 1 + 1) : front[k] = c[1 + k - 1]
    BY <1>1, <1>3, PartOf
  <2>2. p - 1 + 1 = p /\ \A k \in 1..p : 1 + k - 1 = k
    BY <1>1
  <2> QED BY <1>1, <2>1, <2>2
<1>6. PICK e \in Nat :
        /\ back \in Seq(Byte) /\ Len(back) = e
        /\ e = IF p + m <= l THEN l - (p + m) ELSE 0
        /\ \A k \in 1..e : back[k] = c[p + m + k]
  <2>1. PICK i \in Nat \ {0} : i = p + m + 1
    BY <1>1, <1>2
  <2>2. l \in 0..Len(c)
    BY <1>1
  <2>3. back = SubSeq(c, i, l)
    BY <1>4, <2>1
  <2>4. /\ back \in Seq(Byte) /\ Len(back) = IF i <= l THEN l - i + 1 ELSE 0
        /\ \A k \in 1..(l - i + 1) : back[k] = c[i + k - 1]
    BY <2>2, <2>3, PartOf
  <2>5. PICK e \in Nat : e = Len(back) /\ e = IF p + m <= l THEN l - (p + m) ELSE 0
    <3>0. (IF p + m <= l THEN l - (p + m) ELSE 0) \in Nat
      BY <1>0
    <3>1. PICK e \in Nat : e = IF p + m <= l THEN l - (p + m) ELSE 0
      BY <3>0
    <3>2. e = IF i <= l THEN l - i + 1 ELSE 0
      BY <1>0, <2>1, <3>1
    <3> QED BY <2>4, <3>1, <3>2
  <2>6. ASSUME NEW k \in 1..e PROVE back[k] = c[p + m + k]
    <3>1. k \in 1..(l - i + 1) /\ i + k - 1 = p + m + k
      BY <1>1, <1>2, <2>1, <2>5
    <3> QED BY <2>4, <3>1
  <2> QED BY <2>4, <2>5, <2>6
<1>7. PICK fb : fb = front \o b
  OBVIOUS
<1>8. /\ fb \in Seq(Byte) /\ Len(fb) = p + m
      /\ \A i \in 1..(p + m) : fb[i] = IF i <= p THEN front[i] ELSE b[i - p]
  BY <1>2, <1>5, <1>7, ConcatProperties
<1>9. PICK o : o = Flat!Over(c, p, b) /\ o = fb \o back
  BY <1>1, <1>2, <1>3, <1>4, <1>7 DEF Flat!Over
<1>10. PICK u \in Nat : u = p + m /\ Len(fb) = u
  BY <1>1, <1>2, <1>8
<1>11. /\ o \in Seq(Byte) /\ Len(o) = u + e
       /\ \A i \in 1..(u + e) : o[i] = IF i <= u THEN fb[i] ELSE back[i - u]
  <2>1. /\ o \in Seq(Byte) /\ Len(o) = Len(fb) + Len(back)
        /\ \A i \in 1..(Len(fb) + Len(back)) :
             o[i] = IF i <= Len(fb) THEN fb[i] ELSE back[i - Len(fb)]
    <3>1. fb \in Seq(Byte) /\ back \in Seq(Byte)
      BY <1>6, <1>8
    <3>2. o = fb \o back
      BY <1>9
    <3> QED BY <3>1, <3>2, ConcatProperties
  <2> QED BY <1>6, <1>10, <2>1
<1>12. u + e = IF p + m > l THEN p + m ELSE l
  BY <1>0, <1>6, <1>10
<1>13. ASSUME NEW i \in 1..(u + e)
       PROVE  o[i] = IF i \in (p + 1)..(p + m) THEN b[i - p] ELSE c[i]
  <2>0. p \in Nat /\ i \in Nat \ {0}
    BY <1>1
  <2>1. CASE i <= p
    <3>1. i \in 1..p /\ i <= u /\ i \in 1..(p + m)
      BY <1>10, <2>0, <2>1
    <3>2. o[i] = fb[i]
      BY <1>11, <3>1
    <3>3. fb[i] = front[i]
      BY <1>8, <2>1, <3>1
    <3>4. front[i] = c[i]
      BY <1>5, <3>1
    <3> QED BY <2>0, <2>1, <3>2, <3>3, <3>4
  <2>2. CASE p < i /\ i <= p + m
    <3>1. i <= u /\ i \in 1..(p + m) /\ ~(i <= p) /\ i \in (p + 1)..(p + m)
      BY <1>10, <2>0, <2>2
    <3>2. o[i] = fb[i]
      BY <1>11, <3>1
    <3>3. fb[i] = b[i - p]
      BY <1>8, <3>1
    <3> QED BY <3>1, <3>2, <3>3
  <2>3. CASE p + m < i
    <3>1. PICK k \in 1..e : k = i - u /\ i = p + m + k /\ ~(i <= u)
      BY <1>10, <2>0, <2>3
    <3>2. o[i] = back[k]
      BY <1>11, <3>1
    <3>3. back[k] = c[i]
      BY <1>6, <3>1
    <3> QED BY <2>3, <3>2, <3>3
  <2> QED BY <2>0, <2>1, <2>2, <2>3
<1> QED BY <1>1, <1>2, <1>9, <1>11, <1>12, <1>13

(* n bytes from position off on. *)
Part(s, off, n) == SubSeq(s, off + 1, off + n)

LEMMA PartIsBytes ==
  ASSUME NEW s \in Seq(Byte), NEW off \in Nat, NEW n \in Nat, off + n <= Len(s)
  PROVE  /\ Part(s, off, n) \in Seq(Byte) /\ Len(Part(s, off, n)) = n
         /\ \A k \in 1..n : Part(s, off, n)[k] = s[off + k]
<1>1. PICK i \in Nat \ {0} : i = off + 1
  OBVIOUS
<1>2. PICK j \in 0..Len(s) : j = off + n
  OBVIOUS
<1>3. PICK t : t = SubSeq(s, i, j)
  OBVIOUS
<1>4. /\ t \in Seq(Byte) /\ Len(t) = IF i <= j THEN j - i + 1 ELSE 0
      /\ \A k \in 1..(j - i + 1) : t[k] = s[i + k - 1]
  BY <1>3, PartOf
<1>5. (IF i <= j THEN j - i + 1 ELSE 0) = n /\ j - i + 1 = n
  BY <1>1, <1>2
<1>6. \A k \in 1..n : t[k] = s[off + k]
  <2> SUFFICES ASSUME NEW k \in 1..n PROVE t[k] = s[off + k]
    OBVIOUS
  <2>1. k \in 1..(j - i + 1) /\ i + k - 1 = off + k
    BY <1>1, <1>5
  <2> QED BY <1>4, <2>1
<1>7. t = Part(s, off, n)
  BY <1>1, <1>2, <1>3 DEF Part
<1> QED BY <1>4, <1>5, <1>6, <1>7

(* What ufs_write stores lies over the bytes that were there. *)
LEMMA StoredIsOver ==
  ASSUME NEW old, Dense(old), NEW x, Dense(x), NEW start \in 0..old.size,
         NEW buf \in Seq(Byte), NEW m \in 0..Len(buf), HasStored(x, old, start, buf, m)
  PROVE  ContentOf(x) = Flat!Over(ContentOf(old), start, SubSeq(buf, 1, m))
<1>1. PICK l \in Nat : l = old.size
  BY MaxFileSizeAssumption DEF Dense
<1>2. PICK c \in Seq(Byte) :
        /\ c = ContentOf(old) /\ Len(c) = l
        /\ \A i \in 1..l : c[i] = ByteAt(old.chain, i - 1)
  BY <1>1, ContentIsBytes
<1>3. PICK n \in Nat : n = x.size
  BY MaxFileSizeAssumption DEF Dense
<1>4. PICK y \in Seq(Byte) :
        /\ y = ContentOf(x) /\ Len(y) = n
        /\ \A i \in 1..n : y[i] = ByteAt(x.chain, i - 1)
  BY <1>3, ContentIsBytes
<1>5. PICK b \in Seq(Byte) :
        /\ b = SubSeq(buf, 1, m) /\ Len(b) = m
        /\ \A k \in 1..m : b[k] = buf[k]
  <2>0. m \in Nat /\ 0 \in Nat /\ 0 + m <= Len(buf)
    OBVIOUS
  <2>1. PICK b : b = Part(buf, 0, m)
    OBVIOUS
  <2>2. /\ b \in Seq(Byte) /\ Len(b) = m
        /\ \A k \in 1..m : b[k] = buf[0 + k]
    BY <2>0, <2>1, PartIsBytes
  <2>3. b = SubSeq(buf, 1, m)
    BY <2>0, <2>1 DEF Part
  <2>4. \A k \in 1..m : b[k] = buf[k]
    BY <2>2
  <2> QED BY <2>2, <2>3, <2>4
<1>6. n = (IF start + m > l THEN start + m ELSE l) /\ m \in Nat /\ start \in 0..l
  BY <1>1, <1>3 DEF HasStored
<1>7. PICK o \in Seq(Byte) :
        /\ o = Flat!Over(c, start, b) /\ Len(o) = n
        /\ \A i \in 1..n : o[i] = IF i \in (start + 1)..(start + m) THEN b[i - start] ELSE c[i]
  <2>1. start \in 0..Len(c)
    BY <1>2, <1>6
  <2>2. PICK o : o = Flat!Over(c, start, b)
    OBVIOUS
  <2>3. /\ o \in Seq(Byte)
        /\ Len(o) = IF start + Len(b) > Len(c) THEN start + Len(b) ELSE Len(c)
        /\ \A i \in 1..Len(o) :
             o[i] = IF i \in (start + 1)..(start + Len(b)) THEN b[i - start] ELSE c[i]
    BY <2>1, <2>2, OverIsBytes
  <2>4. Len(o) = n
    BY <1>2, <1>5, <1>6, <2>3
  <2>5. \A i \in 1..n : o[i] = IF i \in (start + 1)..(start + m) THEN b[i - start] ELSE c[i]
    BY <1>5, <2>3, <2>4
  <2> QED BY <2>2, <2>3, <2>4, <2>5
<1>8. ASSUME NEW i \in 1..n PROVE y[i] = o[i]
  <2>1. PICK q \in 0..(n - 1) : q = i - 1
    OBVIOUS
  <2>2. ByteAt(x.chain, q) = IF q \in start..(start + m - 1) THEN buf[q - start + 1]
                             ELSE ByteAt(old.chain, q)
    BY <1>3 DEF HasStored
  <2>3. CASE i \in (start + 1)..(start + m)
    <3>1. PICK k \in 1..m : k = i - start /\ k = q - start + 1
      BY <1>6, <2>1, <2>3
    <3>2. q \in start..(start + m - 1)
      BY <1>6, <2>1, <2>3
    <3>3. y[i] = buf[k]
      BY <1>4, <2>1, <2>2, <3>1, <3>2
    <3>4. o[i] = b[k]
      BY <1>7, <2>3, <3>1
    <3>5. b[k] = buf[k]
      BY <1>5
    <3> QED BY <3>3, <3>4, <3>5
  <2>4. CASE ~(i \in (start + 1)..(start + m))
    <3>1. ~(q \in start..(start + m - 1)) /\ i \in 1..l
      BY <1>6, <2>1, <2>4
    <3> QED BY <1>2, <1>4, <1>7, <2>1, <2>2, <2>4, <3>1
  <2> QED BY <2>3, <2>4
<1>9. y = o
  BY <1>4, <1>7, <1>8, SeqEqual
<1> QED BY <1>2, <1>4, <1>5, <1>7, <1>9

(* ufs_read from inside the file or its end. *)
LEMMA ReadIsPart ==
  ASSUME NEW x, Dense(x), NEW off \in 0..x.size, NEW n \in Nat,
         NEW end, end = IF off + n < x.size THEN off + n ELSE x.size
  PROVE  /\ ~ReadFaults(x, off, n)
         /\ ReadBytes(x, off, n) = SubSeq(ContentOf(x), off + 1, end)
         /\ Len(ReadBytes(x, off, n)) \in 0..(x.size - off)
<1>1. PICK size \in Nat : size = x.size
  BY MaxFileSizeAssumption DEF Dense
<1>2. off \in Nat /\ off <= size
  BY <1>1
<1>3. PICK cnt \in Nat : cnt = ReadCount(x, off, n) /\ end = off + cnt /\ off + cnt <= size
  <2>1. ReadCount(x, off, n) = LesserOf(n, size - off)
    BY <1>1, <1>2 DEF ReadCount
  <2>2. LesserOf(n, size - off) \in Nat
    BY <1>2 DEF LesserOf
  <2>3. end = off + LesserOf(n, size - off) /\ off + LesserOf(n, size - off) <= size
    BY <1>1, <1>2 DEF LesserOf
  <2> QED BY <2>1, <2>2, <2>3
<1>4. ReadStart(off) = off
  BY <1>2 DEF ReadStart
<1>5. PICK l \in Nat : l = Len(x.chain)
  BY DEF Dense, FileData
<1>6. PICK p \in Nat : p = BlockSize * l /\ size <= p
  BY <1>1, <1>5, Products DEF Dense
<1>7. ~ReadFaults(x, off, n)
  <2>1. PICK a \in Nat : a = off \div BlockSize /\ a = Quot(off, BlockSize)
    BY <1>2, Division
  <2>2. BlockSize * a <= off
    BY <1>2, <2>1, PlaceOf
  <2>3. PICK e \in Nat : e = BlockSize * a
    BY Products
  <2>4. l < a => p + BlockSize <= e
    BY <1>6, <2>3, Products
  <2>5. a <= l
    BY <1>2, <1>6, <2>2, <2>3, <2>4, BlockSizeAssumption
  <2>6. ~(off < 0) /\ ~(off + cnt > p)
    BY <1>2, <1>3, <1>6
  <2> QED BY <1>3, <1>4, <1>5, <1>6, <2>1, <2>5, <2>6 DEF ReadFaults
<1>8. PICK r : r = ReadBytes(x, off, n)
  OBVIOUS
<1>9. r = [k \in 1..cnt |-> ByteAt(x.chain, off + k - 1)]
  BY <1>3, <1>4, <1>8 DEF ReadBytes
<1>10. PICK c \in Seq(Byte) :
        /\ c = ContentOf(x) /\ Len(c) = size
        /\ \A i \in 1..size : c[i] = ByteAt(x.chain, i - 1)
  BY <1>1, ContentIsBytes
<1>11. PICK s \in Seq(Byte) :
         /\ s = SubSeq(c, off + 1, end) /\ Len(s) = cnt
         /\ \A k \in 1..cnt : s[k] = c[off + k]
  <2>1. off + cnt <= Len(c)
    BY <1>3, <1>10
  <2>2. PICK s : s = Part(c, off, cnt)
    OBVIOUS
  <2>3. s \in Seq(Byte) /\ Len(s) = cnt /\ \A k \in 1..cnt : s[k] = c[off + k]
    BY <1>2, <2>1, <2>2, PartIsBytes
  <2>4. s = SubSeq(c, off + 1, end)
    BY <1>3, <2>2 DEF Part
  <2> QED BY <2>3, <2>4
<1>12. \A k \in 1..cnt : ByteAt(x.chain, off + k - 1) = c[off + k]
  <2> SUFFICES ASSUME NEW k \in 1..cnt PROVE ByteAt(x.chain, off + k - 1) = c[off + k]
    OBVIOUS
  <2>1. PICK i \in 1..size : i = off + k /\ i - 1 = off + k - 1
    BY <1>2, <1>3
  <2> QED BY <1>10, <2>1
<1>13. r \in Seq(Byte) /\ Len(r) = cnt /\ \A k \in 1..cnt : r[k] = s[k]
  <2>1. \A k \in 1..cnt : s[k] \in Byte
    BY <1>11
  <2>2. \A k \in 1..cnt : ByteAt(x.chain, off + k - 1) = s[k]
    BY <1>11, <1>12
  <2>3. \A k \in 1..cnt : r[k] = s[k]
    BY <1>9, <2>2
  <2>4. \A k \in 1..cnt : ByteAt(x.chain, off + k - 1) \in Byte
    BY <2>1, <2>2
  <2>5. r \in Seq(Byte) /\ Len(r) = cnt
    BY <1>9, <2>4
  <2> QED BY <2>3, <2>5
<1>14. r = s
  BY <1>11, <1>13, SeqEqual
<1>15. cnt \in 0..(size - off)
  BY <1>2, <1>3
<1> QED BY <1>1, <1>7, <1>8, <1>10, <1>11, <1>13, <1>14, <1>15

-----------------------------------------------------------------------------
(***************************************************************************)
(* The inductive invariant: the one of all calls, every file without gaps, *)
(* freed files empty, and every descriptor inside its file.                *)
(***************************************************************************)
FilesAreDense    == \A f \in Files : Dense(data[f])
FreedAreEmpty    == \A f \in Files \ file_list : data[f] = EmptyData
ListedHaveNames  == \A f \in file_list : name[f] \in Names
OffsetsAreInside ==
  \A d \in Fds : file[d] # NULL => offset[d] \in 0..data[file[d]].size

AppendInv ==
  /\ IInv /\ DataInv
  /\ ~fault /\ table # "no_array"
  /\ FilesAreDense /\ FreedAreEmpty /\ ListedHaveNames /\ OffsetsAreInside

LEMMA EmptyIsDense == Dense(EmptyData)
<1>1. EmptyData.chain = << >> /\ EmptyData.size = 0 /\ EmptyData.last = 0
  BY DEF EmptyData
<1>2. Len(EmptyData.chain) = 0 /\ BlockSize * 0 = 0
  BY <1>1, BlockSizeAssumption
<1> QED BY <1>1, <1>2, EmptyIsData, MaxFileSizeAssumption DEF Dense

LEMMA InitAppendInv == Init => AppendInv
<1> SUFFICES ASSUME Init PROVE AppendInv
  OBVIOUS
<1>1. IInv /\ DataInv
  BY InitIInv, InitDataInv
<1>2. ~fault /\ table # "no_array"
  BY DEF Init
<1>3. FilesAreDense /\ FreedAreEmpty
  BY EmptyIsDense DEF Init, FilesAreDense, FreedAreEmpty
<1>4. ListedHaveNames /\ OffsetsAreInside
  BY DEF Init, ListedHaveNames, OffsetsAreInside
<1> QED BY <1>1, <1>2, <1>3, <1>4 DEF AppendInv

(* With memory enough occupy_fd finds a free slot. *)
OpensFd(d, f, flagSet) ==
  /\ file[d] = NULL
  /\ file' = [file EXCEPT ![d] = f]
  /\ offset' = [offset EXCEPT ![d] = 0]
  /\ flags' = [flags EXCEPT ![d] = flagSet \cup {"READ_WRITE"}]
  /\ Succeeds(d)

LEMMA SlotIsFree ==
  ASSUME IInv, NEW cap \in Nat, cap <= MaxCapacity, count < cap
  PROVE  \E d \in 0..(cap - 1) : file[d] = NULL
<1>1. 0..(cap - 1) \subseteq Fds
  BY CapacityAssumption DEF Fds
<1>2. Cardinality(0..(cap - 1)) = cap
  <2>1. 0 \in Int /\ cap - 1 \in Int
    OBVIOUS
  <2> QED BY <2>1, FS_Interval
<1>3. IsFiniteSet(OpenFds) /\ Cardinality(OpenFds) = count /\ count \in Nat
  <2>1. count = Cardinality({d \in Fds : file[d] # NULL})
    BY DEF IInv, TableAccounts
  <2>2. count \in Nat
    BY CapacityAssumption DEF IInv, TypeOK
  <2>3. OpenFds \subseteq Fds
    BY DEF OpenFds
  <2> QED BY <2>1, <2>2, <2>3, FdSets DEF OpenFds
<1>4. ~(0..(cap - 1) \subseteq OpenFds)
  <2> SUFFICES ASSUME 0..(cap - 1) \subseteq OpenFds PROVE FALSE
    OBVIOUS
  <2>1. Cardinality(0..(cap - 1)) <= Cardinality(OpenFds)
    BY <1>3, FS_Subset
  <2> QED BY <1>2, <1>3, <2>1
<1> QED BY <1>1, <1>4 DEF OpenFds

LEMMA OccupyFdOpens ==
  ASSUME IInv, NEW f \in Files, NEW flagSet, NEW heap \in Nat, heap > 1,
         OccupyFd(f, flagSet, heap)
  PROVE  table' = "ready" /\ \E d \in Fds : OpensFd(d, f, flagSet)
<1>1. HeapForFd(heap) > 0
  BY DEF HeapForFd
<1>2. table' = "ready"
  BY <1>1 DEF OccupyFd, HeapForFd
<1>3. capacity' \in 1..MaxCapacity /\ count < capacity'
  <2>1. /\ Capacity0 \in Nat \ {0} /\ count \in Nat /\ count <= Capacity0
    BY CapacityAssumption DEF Capacity0, IInv, TypeOK, TableGrows
  <2>2. /\ capacity' = IF TableFull THEN 2 * Capacity0 ELSE Capacity0
        /\ capacity' <= MaxCapacity
    BY DEF OccupyFd
  <2> QED BY <2>1, <2>2, CapacityAssumption DEF TableFull
<1>4. FreeFds \subseteq {d \in Fds : file[d] = NULL}
  BY <1>3, CapacityAssumption DEF FreeFds, Fds
<1>5. FreeFds # {}
  <2>1. PICK cap \in Nat : cap = capacity'
    BY <1>3
  <2>2. cap <= MaxCapacity /\ count < cap
    BY <1>3, <2>1
  <2>3. \E d \in 0..(cap - 1) : file[d] = NULL
    BY <2>2, SlotIsFree
  <2> QED BY <2>1, <2>3 DEF FreeFds
<1>6. \E d \in FreeFds : OpensFd(d, f, flagSet)
  <2>1. ~(HeapForFd(heap) <= 0)
    BY <1>1 DEF HeapForFd
  <2>2. \E d \in FreeFds : /\ file' = [file EXCEPT ![d] = f]
                           /\ offset' = [offset EXCEPT ![d] = 0]
                           /\ flags' = [flags EXCEPT ![d] = flagSet \cup {"READ_WRITE"}]
                           /\ Succeeds(d)
    BY <1>5, <2>1 DEF OccupyFd
  <2> QED BY <1>4, <2>2 DEF OpensFd
<1> QED BY <1>2, <1>4, <1>6

(* The three ends of ufs_open: there is no such file, there is one, or     *)
(* one is created.                                                         *)
OpensNothing(n, flagSet) ==
  /\ "CREATE" \notin flagSet /\ \A f \in FilesNamed(n) : del_flag[f]
  /\ Fails("NO_FILE")
  /\ UNCHANGED << dirVars, data, file, offset, flags >>

OpensOld(n, flagSet) ==
  /\ "CREATE" \notin flagSet
  /\ \E f \in FilesNamed(n), d \in Fds : ~del_flag[f] /\ OpensFd(d, f, flagSet)
  /\ UNCHANGED << dirVars, data >>

Links(f, n) ==
  /\ file_list' = file_list \cup {f}
  /\ name' = [name EXCEPT ![f] = n]
  /\ del_flag' = [del_flag EXCEPT ![f] = FALSE]

OpensNew(n, flagSet) ==
  /\ "CREATE" \in flagSet /\ FilesNamed(n) = {}
  /\ \E f \in Files \ file_list, d \in Fds : Links(f, n) /\ OpensFd(d, f, flagSet)
  /\ UNCHANGED data

LEMMA OpenDoes ==
  ASSUME AppendInv, NEW n \in Names, NEW flagSet,
         "CREATE" \in flagSet => FilesNamed(n) = {}, Open(n, flagSet, Plenty)
  PROVE  /\ table' = "ready"
         /\ OpensNothing(n, flagSet) \/ OpensOld(n, flagSet) \/ OpensNew(n, flagSet)
<1>1. IInv /\ table \in {"absent", "ready"}
  BY DEF AppendInv, IInv, TypeOK
<1>2. ~OpenWithoutTable(Plenty) /\ Plenty \in Nat
  BY PlentyAssumption DEF OpenWithoutTable, LazyInitFails
<1>3. Heap0(Plenty) \in Nat /\ Heap0(Plenty) - 2 \in Nat /\ Heap0(Plenty) - 2 > 1
  BY PlentyAssumption DEF Heap0
<1>4. ~OpenAgain(n, flagSet, Plenty)
  BY DEF OpenAgain
<1>5. CASE OpenNew(n, flagSet, Plenty)
  <2>1. PICK f \in Files \ file_list :
          /\ Links(f, n)
          /\ data' = [data EXCEPT ![f] = EmptyData]
          /\ OccupyFd(f, flagSet, Heap0(Plenty) - 2)
    BY <1>1, <1>3, <1>5 DEF OpenNew, Links
  <2>2. data' = data
    BY <2>1 DEF AppendInv, DataInv, FreedAreEmpty
  <2>3. table' = "ready" /\ \E d \in Fds : OpensFd(d, f, flagSet)
    BY <1>1, <1>3, <2>1, OccupyFdOpens
  <2>4. "CREATE" \in flagSet /\ FilesNamed(n) = {}
    BY <1>5 DEF OpenNew
  <2> QED BY <2>1, <2>2, <2>3, <2>4 DEF OpensNew
<1>6. CASE OpenExisting(n, flagSet, Plenty)
  <2>1. PICK f \in FilesNamed(n) :
          /\ ~del_flag[f]
          /\ UNCHANGED << dirVars, data >>
          /\ OccupyFd(f, flagSet, Heap0(Plenty))
    BY <1>1, <1>6 DEF OpenExisting
  <2>2. f \in Files
    BY <1>1 DEF FilesNamed, IInv, TypeOK
  <2>3. Heap0(Plenty) > 1
    BY <1>3
  <2>4. table' = "ready" /\ \E d \in Fds : OpensFd(d, f, flagSet)
    BY <1>1, <1>3, <2>1, <2>2, <2>3, OccupyFdOpens
  <2>5. "CREATE" \notin flagSet
    BY <1>6 DEF OpenExisting
  <2> QED BY <2>1, <2>4, <2>5 DEF OpensOld
<1>7. CASE OpenMissing(n, flagSet)
  <2>1. table' = "ready"
    BY <1>1, <1>7 DEF OpenMissing
  <2>2. OpensNothing(n, flagSet)
    BY <1>7 DEF OpenMissing, OpensNothing
  <2> QED BY <2>1, <2>2
<1> QED BY <1>2, <1>4, <1>5, <1>6, <1>7 DEF Open

LEMMA OpenAppendInv ==
  ASSUME AppendInv, NEW n \in Names, NEW flagSet,
         "CREATE" \in flagSet => FilesNamed(n) = {}, Open(n, flagSet, Plenty)
  PROVE  AppendInv'
<1>1. IInv' /\ DataInv'
  BY OpenIInv, OpenDataInv DEF AppendInv
<1>2. table' = "ready" /\ (OpensNothing(n, flagSet) \/ OpensOld(n, flagSet) \/ OpensNew(n, flagSet))
  BY OpenDoes
<1>3. data' = data /\ fault' = fault
  BY <1>2 DEF OpensNothing, OpensOld, OpensNew, OpensFd, Fails, Succeeds
<1>4. FilesAreDense' /\ ~fault' /\ table' # "no_array"
  BY <1>2, <1>3 DEF AppendInv, FilesAreDense
<1>5. FreedAreEmpty'
  <2>1. file_list \subseteq file_list'
    BY <1>2 DEF OpensNothing, OpensOld, OpensNew, Links, dirVars
  <2> QED BY <1>3, <2>1 DEF AppendInv, FreedAreEmpty
<1>6. ListedHaveNames'
  <2>1. name \in [Files -> Names \cup {NULL}] /\ file_list \subseteq Files
    BY DEF AppendInv, IInv, TypeOK
  <2>2. CASE UNCHANGED dirVars
    BY <2>2 DEF dirVars, AppendInv, ListedHaveNames
  <2>3. CASE \E f \in Files : Links(f, n)
    BY <2>1, <2>3 DEF Links, AppendInv, ListedHaveNames
  <2> QED BY <1>2, <2>2, <2>3 DEF OpensNothing, OpensOld, OpensNew
<1>7. OffsetsAreInside'
  <2>1. file \in [Fds -> Files \cup {NULL}] /\ offset \in [Fds -> Int]
    BY DEF AppendInv, IInv, TypeOK, DataInv
  <2>2. CASE UNCHANGED << file, offset >>
    BY <1>3, <2>2 DEF AppendInv, OffsetsAreInside
  <2>3. CASE \E f \in Files, d \in Fds : /\ file' = [file EXCEPT ![d] = f]
                                         /\ offset' = [offset EXCEPT ![d] = 0]
    <3>1. PICK f \in Files, d \in Fds : /\ file' = [file EXCEPT ![d] = f]
                                        /\ offset' = [offset EXCEPT ![d] = 0]
      BY <2>3
    <3>2. 0 \in 0..data[f].size
      BY MaxFileSizeAssumption DEF AppendInv, FilesAreDense, Dense
    <3> SUFFICES ASSUME NEW e \in Fds, file'[e] # NULL
                 PROVE  offset'[e] \in 0..data[file'[e]].size
      BY <1>3 DEF OffsetsAreInside
    <3>3. CASE e = d
      BY <2>1, <3>1, <3>2, <3>3
    <3>4. CASE e # d
      BY <2>1, <3>1, <3>4 DEF AppendInv, OffsetsAreInside
    <3> QED BY <3>3, <3>4
  <2>4. FilesNamed(n) \subseteq Files
    BY DEF FilesNamed, AppendInv, IInv, TypeOK
  <2> QED BY <1>2, <2>2, <2>3, <2>4 DEF OpensNothing, OpensOld, OpensNew, OpensFd
<1> QED BY <1>1, <1>4, <1>5, <1>6, <1>7 DEF AppendInv

-----------------------------------------------------------------------------
(***************************************************************************)
(* The refinement mapping: a name stands for its file unless that is a     *)
(* ghost, and the files that can be reached are those of the list.         *)
(***************************************************************************)
DirIsRight ==
  /\ Dir \in [Names -> Files \cup {NULL}]
  /\ \A n \in Names :
       /\ \A f \in FilesNamed(n) : ~del_flag[f] => Dir[n] = f
       /\ Dir[n] # NULL => Dir[n] \in FilesNamed(n) /\ ~del_flag[Dir[n]]

LEMMA DirLemma == AppendInv => DirIsRight
<1> SUFFICES ASSUME AppendInv PROVE DirIsRight
  OBVIOUS
<1>1. /\ file_list \subseteq Files
      /\ \A f, g \in file_list : name[f] = name[g] => f = g
  BY DEF AppendInv, IInv, TypeOK, NamesAreUnique
<1>2. ASSUME NEW n \in Names, NEW f \in FilesNamed(n), ~del_flag[f]
      PROVE  Dir[n] = f
  <2>1. \E g \in FilesNamed(n) : ~del_flag[g]
    BY <1>2
  <2>2. Dir[n] = CHOOSE g \in FilesNamed(n) : ~del_flag[g]
    BY <2>1 DEF Dir
  <2>3. Dir[n] \in FilesNamed(n)
    BY <2>1, <2>2
  <2> QED BY <1>1, <1>2, <2>3 DEF FilesNamed
<1>3. ASSUME NEW n \in Names, \A f \in FilesNamed(n) : del_flag[f]
      PROVE  Dir[n] = NULL
  BY <1>3 DEF Dir
<1>4. \A n \in Names : Dir[n] = NULL \/ \E f \in FilesNamed(n) : ~del_flag[f] /\ Dir[n] = f
  BY <1>2, <1>3
<1>5. Dir \in [Names -> Files \cup {NULL}]
  <2>1. \A n \in Names : Dir[n] \in Files \cup {NULL}
    BY <1>1, <1>4 DEF FilesNamed
  <2>2. Dir = [n \in Names |-> Dir[n]]
    BY DEF Dir
  <2> QED BY <2>1, <2>2
<1> QED BY <1>2, <1>4, <1>5 DEF DirIsRight

LivingAreListed == \A f \in Files : Flat!Lives(f) <=> f \in file_list

LEMMA LivesLemma == AppendInv => LivingAreListed
<1> SUFFICES ASSUME AppendInv, NEW f \in Files
             PROVE  Flat!Lives(f) <=> f \in file_list
  BY DEF LivingAreListed
<1>1. DirIsRight
  BY DirLemma
<1>2. f # NULL
  BY NullAssumption
<1>3. ASSUME NEW n \in Names, Dir[n] = f PROVE f \in file_list
  BY <1>1, <1>2, <1>3 DEF DirIsRight, FilesNamed
<1>4. ASSUME NEW d \in Fds, file[d] = f PROVE f \in file_list
  BY <1>2, <1>4 DEF AppendInv, IInv, NoDanglingDescriptor
<1>5. ASSUME f \in file_list, ~del_flag[f] PROVE \E n \in Names : Dir[n] = f
  <2>1. name[f] \in Names /\ f \in FilesNamed(name[f])
    BY <1>5 DEF AppendInv, ListedHaveNames, FilesNamed
  <2> QED BY <1>1, <1>5, <2>1 DEF DirIsRight
<1>6. ASSUME f \in file_list, del_flag[f] PROVE \E d \in Fds : file[d] = f
  <2>1. refs[f] > 0 /\ refs[f] = Cardinality(DescriptorsOf(f))
    BY <1>6 DEF AppendInv, IInv, GhostsAreOpen, RefsCountDescriptors
  <2>2. DescriptorsOf(f) # {}
    BY <2>1, FS_EmptySet
  <2> QED BY <2>2 DEF DescriptorsOf
<1> QED BY <1>3, <1>4, <1>5, <1>6 DEF Flat!Lives

LEMMA ContentLemma ==
  /\ Content = [f \in Files |-> ContentOf(data[f])]
  /\ Content' = [f \in Files |-> ContentOf(data'[f])]
  BY DEF Content, ContentOf

(* The same of the next state. *)
LEMMA NextMapping == AppendInv' => DirIsRight' /\ LivingAreListed'
  BY DirLemma, LivesLemma, PTL

LEMMA OpenIsFlat ==
  ASSUME AppendInv, NEW n \in Names, NEW flagSet,
         "CREATE" \in flagSet => FilesNamed(n) = {}, Open(n, flagSet, Plenty)
  PROVE  Flat!OpenFile(n, flagSet)
<1>1. AppendInv'
  BY OpenAppendInv
<1>2. DirIsRight /\ LivingAreListed /\ DirIsRight' /\ file_list \subseteq Files
  BY <1>1, DirLemma, LivesLemma, NextMapping DEF AppendInv, IInv, TypeOK
<1>3. Dir \in [Names -> Files \cup {NULL}] /\ Dir' \in [Names -> Files \cup {NULL}]
  BY <1>2 DEF DirIsRight
<1>4. data' = data => Content' = Content
  BY ContentLemma
<1>5. CASE OpensNothing(n, flagSet)
  <2>1. UNCHANGED << Dir, file, offset, flags >> /\ Dir[n] = NULL
    <3>1. Dir' = Dir
      <4>1. FilesNamed(n)' = FilesNamed(n) /\ \A m \in Names : FilesNamed(m)' = FilesNamed(m)
        BY <1>5 DEF OpensNothing, dirVars, FilesNamed
      <4>2. del_flag' = del_flag
        BY <1>5 DEF OpensNothing, dirVars
      <4> QED BY <4>1, <4>2 DEF Dir
    <3>2. Dir[n] = NULL
      BY <1>2, <1>5 DEF OpensNothing, DirIsRight
    <3> QED BY <1>5, <3>1, <3>2 DEF OpensNothing
  <2>2. Content' = Content /\ "CREATE" \notin flagSet
    BY <1>4, <1>5 DEF OpensNothing
  <2>3. result' = [value |-> -1, bytes |-> << >>] /\ ufs_error_code' = "NO_FILE"
    BY <1>5 DEF OpensNothing, Fails, Returns
  <2> QED BY <2>1, <2>2, <2>3 DEF Flat!OpenFile, Flat!Errs, Flat!NoEffect
<1>6. CASE OpensOld(n, flagSet)
  <2>1. PICK f \in FilesNamed(n), d \in Fds : ~del_flag[f] /\ OpensFd(d, f, flagSet)
    BY <1>6 DEF OpensOld
  <2>2. UNCHANGED << dirVars, data >>
    BY <1>6 DEF OpensOld
  <2>3. Dir' = Dir
    <3>1. \A m \in Names : FilesNamed(m)' = FilesNamed(m)
      BY <2>2 DEF dirVars, FilesNamed
    <3> QED BY <2>2, <3>1 DEF Dir, dirVars
  <2>4. Dir[n] = f /\ f # NULL
    BY <1>2, <2>1, NullAssumption DEF DirIsRight, FilesNamed
  <2>5. Content' = Content
    BY <1>4, <2>2
  <2>6. /\ file[d] = NULL
        /\ file' = [file EXCEPT ![d] = Dir'[n]]
        /\ offset' = [offset EXCEPT ![d] = 0]
        /\ flags' = [flags EXCEPT ![d] = flagSet \cup {"READ_WRITE"}]
        /\ Flat!Answers(d)
    BY <2>1, <2>3, <2>4 DEF OpensFd, Succeeds, Returns, Flat!Answers
  <2> QED BY <2>1, <2>3, <2>4, <2>5, <2>6 DEF Flat!OpenFile
<1>7. CASE OpensNew(n, flagSet)
  <2>1. PICK f \in Files \ file_list, d \in Fds : Links(f, n) /\ OpensFd(d, f, flagSet)
    BY <1>7 DEF OpensNew
  <2>2. FilesNamed(n) = {} /\ "CREATE" \in flagSet /\ data' = data
    BY <1>7 DEF OpensNew
  <2>3. /\ name \in [Files -> Names \cup {NULL}] /\ del_flag \in [Files -> BOOLEAN]
    BY DEF AppendInv, IInv, TypeOK
  <2>4. FilesNamed(n)' = {f} /\ ~del_flag'[f]
    BY <1>2, <2>1, <2>2, <2>3 DEF Links, FilesNamed
  <2>5. ASSUME NEW m \in Names, m # n
        PROVE  FilesNamed(m)' = FilesNamed(m) /\ \A g \in FilesNamed(m) : del_flag'[g] = del_flag[g]
    BY <1>2, <2>1, <2>3, <2>5 DEF Links, FilesNamed
  <2>6. Dir[n] = NULL
    BY <1>2, <2>2 DEF DirIsRight
  <2>7. Dir'[n] = f
    BY <1>2, <2>4 DEF DirIsRight
  <2>8. ASSUME NEW m \in Names, m # n PROVE Dir'[m] = Dir[m]
    <3>1. CASE \E g \in FilesNamed(m) : ~del_flag[g]
      <4>1. PICK g \in FilesNamed(m) : ~del_flag[g]
        BY <3>1
      <4>2. g \in FilesNamed(m)' /\ ~del_flag'[g]
        BY <2>5, <2>8, <4>1
      <4> QED BY <1>2, <4>1, <4>2 DEF DirIsRight
    <3>2. CASE ~\E g \in FilesNamed(m) : ~del_flag[g]
      <4>1. Dir[m] = NULL
        BY <1>2, <3>2 DEF DirIsRight
      <4>2. Dir'[m] = NULL
        BY <1>2, <2>5, <2>8, <3>2 DEF DirIsRight
      <4> QED BY <4>1, <4>2
    <3> QED BY <3>1, <3>2
  <2>9. Dir' = [Dir EXCEPT ![n] = f]
    BY <1>3, <2>7, <2>8
  <2>10. ~Flat!Lives(f)
    BY <1>2, <2>1 DEF LivingAreListed
  <2>11. Content' = Content
    BY <1>4, <2>2
  <2>12. /\ file[d] = NULL
         /\ file' = [file EXCEPT ![d] = Dir'[n]]
         /\ offset' = [offset EXCEPT ![d] = 0]
         /\ flags' = [flags EXCEPT ![d] = flagSet \cup {"READ_WRITE"}]
         /\ Flat!Answers(d)
    BY <2>1, <2>7 DEF OpensFd, Succeeds, Returns, Flat!Answers
  <2> QED BY <2>1, <2>2, <2>6, <2>9, <2>10, <2>11, <2>12 DEF Flat!OpenFile
<1> QED BY <1>5, <1>6, <1>7, OpenDoes

-----------------------------------------------------------------------------
(***************************************************************************)
(* The calls through a descriptor.  One argument behind the table, and -1, *)
(* stand for all numbers that are no descriptor.                           *)
(***************************************************************************)
FlatFd(d) == IF d \in Fds THEN d ELSE -1

LEMMA SameDescriptors ==
  ASSUME AppendInv, table = "ready", NEW d \in FdArguments
  PROVE  /\ ~LookupFaults(d)
         /\ FlatFd(d) \in Fds \cup {-1}
         /\ Flat!IsOpen(FlatFd(d)) <=> IsOpen(d)
         /\ IsOpen(d) => d \in Fds /\ FlatFd(d) = d /\ file[d] \in file_list /\ file[d] \in Files
<1>1. ~LookupFaults(d) /\ FlatFd(d) \in Fds \cup {-1}
  BY DEF LookupFaults, FlatFd
<1>2. capacity \in 0..MaxCapacity /\ file_list \subseteq Files
  BY DEF AppendInv, IInv, TypeOK
<1>3. IsOpen(d) => d \in Fds /\ FlatFd(d) = d /\ file[d] \in file_list /\ file[d] \in Files
  BY <1>2, OpenHasFile DEF FlatFd, IsOpen, AppendInv, IInv, NoDanglingDescriptor
<1>4. ASSUME Flat!IsOpen(FlatFd(d)) PROVE IsOpen(d)
  <2>1. d \in Fds /\ file[d] # NULL
    BY <1>4, CapacityAssumption DEF Flat!IsOpen, FlatFd, Fds
  <2>2. d < capacity
    BY <2>1 DEF AppendInv, IInv, TableAccounts
  <2>3. d \in Nat /\ capacity \in Nat
    BY <1>2, <2>1, CapacityAssumption DEF Fds
  <2> QED BY <2>1, <2>2, <2>3 DEF IsOpen
<1>5. IsOpen(d) => Flat!IsOpen(FlatFd(d))
  BY <1>3 DEF Flat!IsOpen, IsOpen
<1> QED BY <1>1, <1>3, <1>4, <1>5

(* Calls that change nothing but the error and the result. *)
OnlyErrs(error) ==
  /\ Fails(error)
  /\ UNCHANGED << dirVars, refs, data, tableVars, offset, flags >>

LEMMA SameMapping ==
  ASSUME UNCHANGED dirVars
  PROVE  UNCHANGED Dir
<1>1. \A m \in Names : FilesNamed(m)' = FilesNamed(m)
  BY DEF dirVars, FilesNamed
<1> QED BY <1>1 DEF Dir, dirVars

LEMMA ErrsIsFlat ==
  ASSUME NEW error, OnlyErrs(error)
  PROVE  Flat!Errs(error) /\ Flat!NoEffect
<1>1. UNCHANGED << Dir, Content >>
  BY SameMapping, ContentLemma DEF OnlyErrs
<1> QED BY <1>1 DEF OnlyErrs, Fails, Returns, Flat!Errs, Flat!NoEffect, tableVars

LEMMA ErrsAppendInv ==
  ASSUME AppendInv, NEW error, OnlyErrs(error)
  PROVE  AppendInv'
<1>1. IInv'
  <2>1. UNCHANGED dirState /\ fault' \in BOOLEAN
    BY DEF AppendInv, IInv, TypeOK, OnlyErrs, Fails, dirState, dirVars, tableVars
  <2> QED BY <2>1, UnchangedIInv DEF AppendInv
<1>2. DataInv'
  BY DataChanges DEF AppendInv, OnlyErrs
<1>3. UNCHANGED << file_list, name, data, table, file, offset, fault >>
  BY DEF OnlyErrs, Fails, dirVars, tableVars
<1>4. ~fault' /\ table' # "no_array" /\ FilesAreDense' /\ FreedAreEmpty' /\ ListedHaveNames'
  BY <1>3 DEF AppendInv, FilesAreDense, FreedAreEmpty, ListedHaveNames
<1>5. OffsetsAreInside'
  BY <1>3 DEF AppendInv, OffsetsAreInside
<1> QED BY <1>1, <1>2, <1>4, <1>5 DEF AppendInv

LEMMA BadFdErrs ==
  ASSUME AppendInv, table = "ready", NEW d \in FdArguments, BadFd(d)
  PROVE  ~IsOpen(d) /\ OnlyErrs("NO_FILE")
  BY SameDescriptors DEF BadFd, OnlyErrs

(* What ufs_write does that reaches its file. *)
Stores(d, buf, x, m, k) ==
  /\ Dense(x) /\ HasStored(x, data[file[d]], offset[d], buf, m)
  /\ data' = [data EXCEPT ![file[d]] = x]
  /\ offset' = [offset EXCEPT ![d] = offset[d] + k]
  /\ \/ Succeeds(Len(buf)) /\ m = Len(buf) /\ k = m
     \/ Fails("NO_MEM")
  /\ UNCHANGED << dirVars, refs, tableVars, flags >>

LEMMA WriteDoes ==
  ASSUME AppendInv, table = "ready", NEW d \in FdArguments, NEW buf \in Buffers,
         NEW spare \in Heaps, ReachesTheEnd(d, buf), Write(d, buf, spare)
  PROVE  \/ ~IsOpen(d) /\ OnlyErrs("NO_FILE")
         \/ IsOpen(d) /\ "READ_ONLY" \in flags[d] /\ OnlyErrs("NO_PERMISSION")
         \/ /\ IsOpen(d) /\ "READ_ONLY" \notin flags[d]
            /\ \E x, m, k : /\ m \in 0..Len(buf) /\ k \in 0..m
                            /\ Stores(d, buf, x, m, k)
<1>1. CASE BadFd(d)
  BY <1>1, BadFdErrs
<1>2. CASE IsOpen(d) /\ "READ_ONLY" \in flags[d] /\ ~BadFd(d)
  BY <1>2 DEF Write, OnlyErrs
<1>3. CASE IsOpen(d) /\ "READ_ONLY" \notin flags[d] /\ ~BadFd(d)
  <2>1. d \in Fds /\ file[d] \in Files
    BY <1>3, SameDescriptors
  <2>2. PICK old : old = data[file[d]]
    OBVIOUS
  <2>3. Dense(old)
    BY <2>1, <2>2 DEF AppendInv, FilesAreDense
  <2>4. PICK size \in Nat : size = old.size
    BY <2>3, MaxFileSizeAssumption DEF Dense
  <2>5. PICK off \in 0..size : off = offset[d]
    BY <1>3, <2>1, <2>2, <2>4 DEF AppendInv, OffsetsAreInside, IsOpen
  <2>6. off = LesserOf(off, old.size) /\ off \in 0..old.size /\ off \in Int
    BY <2>4, <2>5 DEF LesserOf
  <2>7. buf \in Seq(Byte) /\ spare \in Nat
    BY BuffersAssumption, HeapAssumption
  <2>8. old.size <= off + Len(buf)
    BY <1>3, <2>2, <2>4, <2>5, <2>6, <2>7 DEF ReachesTheEnd
  <2>9. PICK w : w = Written(old, off, buf, spare) /\ ReachesEnd(old, off, off, buf)
    BY <2>6, <2>8 DEF ReachesEnd
  <2>10. w.status # "fault" /\ Dense(w.data) /\ PartStored(w, old, off, buf)
    BY <2>3, <2>6, <2>7, <2>9, WrittenAppends
  <2>11. PICK m \in 0..Len(buf) :
           /\ HasStored(w.data, old, off, buf, m)
           /\ w.offset \in off..(off + m)
           /\ w.status # "nomem" => m = Len(buf) /\ w.offset = off + m
    BY <2>10 DEF PartStored
  <2>12. PICK k \in 0..m : w.offset = off + k
    <3>1. PICK i \in Nat : i = m
      BY <2>7
    <3>2. PICK o \in Int : o = w.offset /\ off <= o /\ o <= off + i
      BY <2>5, <2>11, <3>1
    <3>3. o - off \in 0..i /\ w.offset = off + (o - off)
      BY <2>5, <3>2
    <3> QED BY <3>1, <3>3
  <2>13. w.status # "nomem" => k = m
    BY <2>5, <2>7, <2>11, <2>12
  <2>14. /\ data' = [data EXCEPT ![file[d]] = w.data]
         /\ offset' = [offset EXCEPT ![d] = w.offset]
         /\ IF w.status = "nomem" THEN Fails("NO_MEM") ELSE Succeeds(Len(buf))
         /\ UNCHANGED << dirVars, refs, tableVars, flags >>
    BY <1>3, <2>2, <2>5, <2>9, <2>10 DEF Write
  <2>15. Stores(d, buf, w.data, m, k)
    BY <2>2, <2>5, <2>10, <2>11, <2>12, <2>13, <2>14 DEF Stores
  <2> QED BY <1>3, <2>15
<1> QED BY <1>1, <1>2, <1>3 DEF Write

LEMMA WriteAppendInv ==
  ASSUME AppendInv, table = "ready", NEW d \in FdArguments, NEW buf \in Buffers,
         NEW spare \in Heaps, ReachesTheEnd(d, buf), Write(d, buf, spare)
  PROVE  AppendInv'
<1>1. CASE OnlyErrs("NO_FILE") \/ OnlyErrs("NO_PERMISSION")
  BY <1>1, ErrsAppendInv
<1>2. ASSUME NEW x, NEW m \in 0..Len(buf), NEW k \in 0..m, IsOpen(d), Stores(d, buf, x, m, k)
      PROVE  AppendInv'
  <2>1. IInv' /\ DataInv'
    BY HeapAssumption, WriteIInv, WriteDataInv DEF AppendInv
  <2>2. /\ d \in Fds /\ file[d] \in Files /\ file[d] \in file_list
        /\ data \in [Files -> FileData] /\ offset \in [Fds -> Int]
        /\ file \in [Fds -> Files \cup {NULL}]
    BY <1>2, SameDescriptors DEF AppendInv, DataInv, IInv, TypeOK
  <2>3. UNCHANGED << file_list, name, table, file, fault >>
    BY <1>2 DEF Stores, Succeeds, Fails, dirVars, tableVars
  <2>4. ~fault' /\ table' # "no_array" /\ ListedHaveNames'
    BY <2>3 DEF AppendInv, ListedHaveNames
  <2>5. FilesAreDense'
    BY <1>2, <2>2 DEF Stores, AppendInv, FilesAreDense
  <2>6. FreedAreEmpty'
    BY <1>2, <2>2, <2>3 DEF Stores, AppendInv, FreedAreEmpty
  <2>7. OffsetsAreInside'
    <3>1. PICK l \in Nat : l = Len(buf)
      BY BuffersAssumption
    <3>2. PICK size \in Nat : size = data[file[d]].size
      BY <2>2, MaxFileSizeAssumption DEF AppendInv, FilesAreDense, Dense
    <3>3. PICK off \in 0..size : off = offset[d]
      BY <1>2, <2>2, <3>2 DEF AppendInv, OffsetsAreInside, IsOpen
    <3>4. PICK new \in Nat : new = x.size /\ new >= size /\ off + k <= new
      <4>1. x.size = IF off + m > size THEN off + m ELSE size
        BY <1>2, <3>2, <3>3 DEF Stores, HasStored
      <4> QED BY <3>1, <4>1
    <3> SUFFICES ASSUME NEW e \in Fds, file[e] # NULL
                 PROVE  offset'[e] \in 0..data'[file[e]].size
      BY <2>3 DEF OffsetsAreInside
    <3>5. file[e] \in Files /\ offset[e] \in 0..data[file[e]].size
      BY <2>2 DEF AppendInv, OffsetsAreInside
    <3>6. CASE e = d
      BY <1>2, <2>2, <3>1, <3>3, <3>4, <3>6 DEF Stores
    <3>7. CASE e # d /\ file[e] = file[d]
      BY <1>2, <2>2, <3>2, <3>4, <3>5, <3>7 DEF Stores
    <3>8. CASE e # d /\ file[e] # file[d]
      BY <1>2, <2>2, <3>5, <3>8 DEF Stores
    <3> QED BY <3>6, <3>7, <3>8
  <2> QED BY <2>1, <2>4, <2>5, <2>6, <2>7 DEF AppendInv
<1> QED BY <1>1, <1>2, WriteDoes

LEMMA WriteIsFlat ==
  ASSUME AppendInv, table = "ready", NEW d \in FdArguments, NEW buf \in Buffers,
         NEW spare \in Heaps, ReachesTheEnd(d, buf), Write(d, buf, spare)
  PROVE  Flat!Write(FlatFd(d), buf)
<1>1. CASE ~IsOpen(d) /\ OnlyErrs("NO_FILE")
  <2>1. ~Flat!IsOpen(FlatFd(d))
    BY <1>1, SameDescriptors
  <2> QED BY <1>1, <2>1, ErrsIsFlat DEF Flat!Write
<1>2. CASE IsOpen(d) /\ "READ_ONLY" \in flags[d] /\ OnlyErrs("NO_PERMISSION")
  <2>1. Flat!IsOpen(FlatFd(d)) /\ FlatFd(d) = d
    BY <1>2, SameDescriptors
  <2> QED BY <1>2, <2>1, ErrsIsFlat DEF Flat!Write
<1>3. ASSUME IsOpen(d), "READ_ONLY" \notin flags[d],
             NEW x, NEW m \in 0..Len(buf), NEW k \in 0..m, Stores(d, buf, x, m, k)
      PROVE  Flat!Write(FlatFd(d), buf)
  <2>1. /\ Flat!IsOpen(FlatFd(d)) /\ FlatFd(d) = d
        /\ d \in Fds /\ file[d] \in Files /\ data \in [Files -> FileData]
    BY <1>3, SameDescriptors DEF AppendInv, DataInv
  <2>2. Dense(data[file[d]]) /\ Dense(x) /\ buf \in Seq(Byte)
    BY <1>3, <2>1, BuffersAssumption DEF AppendInv, FilesAreDense, Stores
  <2>3. offset[d] \in 0..data[file[d]].size
    BY <1>3, <2>1 DEF AppendInv, OffsetsAreInside, IsOpen
  <2>4. HasStored(x, data[file[d]], offset[d], buf, m)
    BY <1>3 DEF Stores
  <2>5. ContentOf(x) = Flat!Over(ContentOf(data[file[d]]), offset[d], SubSeq(buf, 1, m))
    BY <2>2, <2>3, <2>4, StoredIsOver
  <2>6. Content[file[d]] = ContentOf(data[file[d]]) /\ DOMAIN Content = Files
    BY <2>1, ContentLemma
  <2>7. Content' = [Content EXCEPT ![file[d]] = ContentOf(x)]
    <3>1. data' = [data EXCEPT ![file[d]] = x]
      BY <1>3 DEF Stores
    <3>2. \A f \in Files : data'[f] = IF f = file[d] THEN x ELSE data[f]
      BY <2>1, <3>1
    <3> QED BY <2>1, <3>2, ContentLemma
  <2>8. Content'[file[d]] = ContentOf(x)
    BY <2>1, <2>6, <2>7
  <2>9. Len(Content'[file[d]]) <= MaxFileSize
    <3>1. x.size \in 0..MaxFileSize /\ x.size \in Nat
      BY <2>2, MaxFileSizeAssumption DEF Dense
    <3>2. Len(ContentOf(x)) = x.size
      BY <2>2, <3>1, ContentIsBytes
    <3> QED BY <2>8, <3>1, <3>2, MaxFileSizeAssumption
  <2>10. UNCHANGED << Dir, file, flags >>
    BY <1>3, SameMapping DEF Stores, tableVars
  <2>11. offset' = [offset EXCEPT ![d] = @ + k]
    BY <1>3 DEF Stores
  <2>12. Content' = [Content EXCEPT ![file[d]] = Flat!Over(@, offset[d], SubSeq(buf, 1, m))]
    BY <2>5, <2>6, <2>7
  <2>13. CASE Succeeds(Len(buf)) /\ m = Len(buf) /\ k = m
    <3>1. SubSeq(buf, 1, m) = buf
      BY <2>2, <2>13
    <3>2. Content' = [Content EXCEPT ![file[d]] = Flat!Over(@, offset[d], buf)]
      BY <2>12, <3>1
    <3>3. offset' = [offset EXCEPT ![d] = @ + Len(buf)]
      BY <2>11, <2>13
    <3>4. Flat!Answers(Len(buf))
      BY <2>13 DEF Succeeds, Returns, Flat!Answers
    <3> QED BY <1>3, <2>1, <2>9, <2>10, <3>2, <3>3, <3>4 DEF Flat!Write
  <2>14. CASE Fails("NO_MEM")
    <3>1. Flat!Errs("NO_MEM")
      BY <2>14 DEF Fails, Returns, Flat!Errs
    <3> QED BY <1>3, <2>1, <2>9, <2>10, <2>11, <2>12, <3>1 DEF Flat!Write
  <2> QED BY <1>3, <2>13, <2>14 DEF Stores
<1> QED BY <1>1, <1>2, <1>3, WriteDoes

(* What ufs_read does that finds its file. *)
Finds(d, bytes) ==
  /\ result' = [value |-> Len(bytes), bytes |-> bytes]
  /\ offset' = [offset EXCEPT ![d] = offset[d] + Len(bytes)]
  /\ UNCHANGED << dirVars, refs, data, tableVars, flags, ufs_error_code, fault >>

EndOf(size, off, n) == IF off + n < size THEN off + n ELSE size

LEMMA ReadDoes ==
  ASSUME AppendInv, table = "ready", NEW d \in FdArguments, NEW n \in Counts, Read(d, n)
  PROVE  \/ ~IsOpen(d) /\ OnlyErrs("NO_FILE")
         \/ IsOpen(d) /\ "WRITE_ONLY" \in flags[d] /\ OnlyErrs("NO_PERMISSION")
         \/ /\ IsOpen(d) /\ "WRITE_ONLY" \notin flags[d]
            /\ \E bytes :
                 /\ Finds(d, bytes)
                 /\ bytes = SubSeq(ContentOf(data[file[d]]), offset[d] + 1,
                                   EndOf(data[file[d]].size, offset[d], n))
                 /\ Len(bytes) \in 0..(data[file[d]].size - offset[d])
<1>1. CASE BadFd(d)
  BY <1>1, BadFdErrs
<1>2. CASE IsOpen(d) /\ "WRITE_ONLY" \in flags[d] /\ ~BadFd(d)
  BY <1>2 DEF Read, OnlyErrs
<1>3. CASE IsOpen(d) /\ "WRITE_ONLY" \notin flags[d] /\ ~BadFd(d)
  <2>1. d \in Fds /\ file[d] \in Files
    BY <1>3, SameDescriptors
  <2>2. PICK x : x = data[file[d]]
    OBVIOUS
  <2>3. Dense(x) /\ n \in Nat
    BY <2>1, <2>2, SizesAssumption DEF AppendInv, FilesAreDense
  <2>4. PICK off \in 0..x.size : off = offset[d]
    BY <1>3, <2>1, <2>2 DEF AppendInv, OffsetsAreInside, IsOpen
  <2>5. PICK end : end = EndOf(x.size, off, n)
    OBVIOUS
  <2>6. PICK bytes : bytes = ReadBytes(x, off, n)
    OBVIOUS
  <2>7. /\ ~ReadFaults(x, off, n)
        /\ bytes = SubSeq(ContentOf(x), off + 1, end)
        /\ Len(bytes) \in 0..(x.size - off)
    BY <2>3, <2>5, <2>6, ReadIsPart DEF EndOf
  <2>8. Finds(d, bytes)
    <3>1. /\ result' = [value |-> Len(bytes), bytes |-> bytes]
          /\ offset' = [offset EXCEPT ![d] = @ + Len(bytes)]
          /\ UNCHANGED << dirVars, refs, data, tableVars, flags, ufs_error_code, fault >>
      BY <1>3, <2>2, <2>4, <2>6, <2>7 DEF Read
    <3> QED BY <3>1 DEF Finds
  <2> QED BY <1>3, <2>2, <2>4, <2>5, <2>7, <2>8
<1> QED BY <1>1, <1>2, <1>3 DEF Read

LEMMA ReadAppendInv ==
  ASSUME AppendInv, table = "ready", NEW d \in FdArguments, NEW n \in Counts, Read(d, n)
  PROVE  AppendInv'
<1>1. CASE OnlyErrs("NO_FILE") \/ OnlyErrs("NO_PERMISSION")
  BY <1>1, ErrsAppendInv
<1>2. ASSUME NEW bytes, IsOpen(d), Finds(d, bytes),
             Len(bytes) \in 0..(data[file[d]].size - offset[d])
      PROVE  AppendInv'
  <2>1. IInv' /\ DataInv'
    BY ReadIInv, ReadDataInv DEF AppendInv
  <2>2. /\ d \in Fds /\ file[d] \in Files /\ offset \in [Fds -> Int]
    BY <1>2, SameDescriptors DEF AppendInv, DataInv
  <2>3. UNCHANGED << file_list, name, data, table, file, fault >>
    BY <1>2 DEF Finds, dirVars, tableVars
  <2>4. ~fault' /\ table' # "no_array" /\ FilesAreDense' /\ FreedAreEmpty' /\ ListedHaveNames'
    BY <2>3 DEF AppendInv, FilesAreDense, FreedAreEmpty, ListedHaveNames
  <2>5. OffsetsAreInside'
    <3>1. PICK size \in Nat : size = data[file[d]].size
      BY <2>2, MaxFileSizeAssumption DEF AppendInv, FilesAreDense, Dense
    <3>2. PICK off \in 0..size : off = offset[d]
      BY <1>2, <2>2, <3>1 DEF AppendInv, OffsetsAreInside, IsOpen
    <3>3. offset[d] + Len(bytes) \in 0..size
      BY <1>2, <3>1, <3>2
    <3> SUFFICES ASSUME NEW e \in Fds, file[e] # NULL
                 PROVE  offset'[e] \in 0..data[file[e]].size
      BY <2>3 DEF OffsetsAreInside
    <3>4. offset[e] \in 0..data[file[e]].size
      BY DEF AppendInv, OffsetsAreInside
    <3> QED BY <1>2, <2>2, <3>1, <3>3, <3>4 DEF Finds
  <2> QED BY <2>1, <2>4, <2>5 DEF AppendInv
<1> QED BY <1>1, <1>2, ReadDoes

LEMMA ReadIsFlat ==
  ASSUME AppendInv, table = "ready", NEW d \in FdArguments, NEW n \in Counts, Read(d, n)
  PROVE  Flat!Read(FlatFd(d), n)
<1>1. CASE ~IsOpen(d) /\ OnlyErrs("NO_FILE")
  <2>1. ~Flat!IsOpen(FlatFd(d))
    BY <1>1, SameDescriptors
  <2> QED BY <1>1, <2>1, ErrsIsFlat DEF Flat!Read
<1>2. CASE IsOpen(d) /\ "WRITE_ONLY" \in flags[d] /\ OnlyErrs("NO_PERMISSION")
  <2>1. Flat!IsOpen(FlatFd(d)) /\ FlatFd(d) = d
    BY <1>2, SameDescriptors
  <2> QED BY <1>2, <2>1, ErrsIsFlat DEF Flat!Read
<1>3. ASSUME IsOpen(d), "WRITE_ONLY" \notin flags[d], NEW bytes, Finds(d, bytes),
             bytes = SubSeq(ContentOf(data[file[d]]), offset[d] + 1,
                            EndOf(data[file[d]].size, offset[d], n))
      PROVE  Flat!Read(FlatFd(d), n)
  <2>1. /\ Flat!IsOpen(FlatFd(d)) /\ FlatFd(d) = d
        /\ d \in Fds /\ file[d] \in Files
    BY <1>3, SameDescriptors
  <2>2. Content[file[d]] = ContentOf(data[file[d]])
    BY <2>1, ContentLemma
  <2>3. Len(Content[file[d]]) = data[file[d]].size
    <3>1. Dense(data[file[d]]) /\ data[file[d]].size \in Nat
      BY <2>1, MaxFileSizeAssumption DEF AppendInv, FilesAreDense, Dense
    <3> QED BY <2>2, <3>1, ContentIsBytes
  <2>4. bytes = SubSeq(Content[file[d]], offset[d] + 1,
                       IF offset[d] + n < Len(Content[file[d]]) THEN offset[d] + n
                       ELSE Len(Content[file[d]]))
    BY <1>3, <2>2, <2>3 DEF EndOf
  <2>5. UNCHANGED << Dir, Content, file, flags, ufs_error_code >>
    BY <1>3, SameMapping, ContentLemma DEF Finds, tableVars
  <2>6. /\ result' = [value |-> Len(bytes), bytes |-> bytes]
        /\ offset' = [offset EXCEPT ![d] = @ + Len(bytes)]
    BY <1>3 DEF Finds
  <2> QED BY <1>3, <2>1, <2>4, <2>5, <2>6 DEF Flat!Read
<1> QED BY <1>1, <1>2, <1>3, ReadDoes

-----------------------------------------------------------------------------
(***************************************************************************)
(* ufs_close and ufs_delete.                                               *)
(***************************************************************************)

(* A call that frees at most one file, closes at most one descriptor and   *)
(* opens none. *)
Releases(f) ==
  /\ UNCHANGED << file_list, name, data >> \/ Destroy(f)
  /\ \A e \in Fds : file'[e] # NULL => file'[e] = file[e] /\ offset'[e] = offset[e]
  /\ UNCHANGED << table, fault >>

LEMMA ReleaseAppendInv ==
  ASSUME AppendInv, IInv', DataInv', NEW f \in Files, Releases(f)
  PROVE  AppendInv' /\ Content' = Flat!Kept(Content)
<1>1. /\ file_list \subseteq Files /\ name \in [Files -> Names \cup {NULL}]
      /\ data \in [Files -> FileData]
  BY DEF AppendInv, IInv, TypeOK, DataInv
<1>2. ~fault' /\ table' # "no_array"
  BY DEF Releases, AppendInv
<1>3. \A g \in Files : data'[g] = data[g] \/ (data'[g] = EmptyData /\ g \notin file_list')
  BY <1>1 DEF Releases, Destroy
<1>4. FilesAreDense'
  BY <1>3, EmptyIsDense DEF AppendInv, FilesAreDense
<1>5. FreedAreEmpty'
  <2>1. CASE UNCHANGED << file_list, name, data >>
    BY <2>1 DEF AppendInv, FreedAreEmpty
  <2>2. CASE Destroy(f)
    BY <1>1, <2>2 DEF Destroy, AppendInv, FreedAreEmpty
  <2> QED BY <2>1, <2>2 DEF Releases
<1>6. ListedHaveNames'
  <2>1. \A g \in file_list' : g \in file_list /\ name'[g] = name[g]
    BY <1>1 DEF Releases, Destroy
  <2> QED BY <2>1 DEF AppendInv, ListedHaveNames
<1>7. OffsetsAreInside'
  <2> SUFFICES ASSUME NEW e \in Fds, file'[e] # NULL
               PROVE  offset'[e] \in 0..data'[file'[e]].size
    BY DEF OffsetsAreInside
  <2>1. file'[e] = file[e] /\ offset'[e] = offset[e]
    BY DEF Releases
  <2>2. file'[e] \in file_list'
    BY DEF IInv, NoDanglingDescriptor
  <2>3. file'[e] \in Files
    BY <2>2 DEF IInv, TypeOK
  <2>4. data'[file'[e]] = data[file[e]]
    BY <1>3, <2>1, <2>2, <2>3
  <2>5. offset[e] \in 0..data[file[e]].size
    BY <2>1 DEF AppendInv, OffsetsAreInside
  <2> QED BY <2>1, <2>4, <2>5
<1>8. AppendInv'
  BY <1>2, <1>4, <1>5, <1>6, <1>7 DEF AppendInv
<1>9. Content' = Flat!Kept(Content)
  <2>1. \A g \in Files : Flat!Lives(g)' <=> g \in file_list'
    BY <1>8, NextMapping DEF LivingAreListed
  <2>2. ContentOf(EmptyData) = << >>
    <3>1. EmptyData.size = 0
      BY DEF EmptyData
    <3> QED BY <3>1, EmptyIsDense, ContentIsBytes
  <2>3. ASSUME NEW g \in Files
        PROVE  ContentOf(data'[g]) = IF Flat!Lives(g)' THEN Content[g] ELSE << >>
    <3>1. Content[g] = ContentOf(data[g])
      BY ContentLemma
    <3>2. CASE g \in file_list'
      BY <1>3, <2>1, <3>1, <3>2
    <3>3. CASE g \notin file_list'
      <4>1. data'[g] = EmptyData
        BY <1>8, <3>3 DEF AppendInv, FreedAreEmpty
      <4> QED BY <2>1, <2>2, <3>3, <4>1
    <3> QED BY <3>2, <3>3
  <2> QED BY <2>3, ContentLemma DEF Flat!Kept
<1> QED BY <1>8, <1>9

(* A name stands for the same file as before unless a file of that name    *)
(* is deleted.                                                             *)
LEMMA SameFile ==
  ASSUME DirIsRight, DirIsRight', NEW m \in Names,
         \A g : g \in FilesNamed(m)' /\ ~del_flag'[g] <=> g \in FilesNamed(m) /\ ~del_flag[g]
  PROVE  Dir'[m] = Dir[m]
<1>1. CASE \E g \in FilesNamed(m) : ~del_flag[g]
  <2>1. PICK g \in FilesNamed(m) : ~del_flag[g]
    BY <1>1
  <2>2. g \in FilesNamed(m)' /\ ~del_flag'[g]
    BY <2>1
  <2> QED BY <2>1, <2>2 DEF DirIsRight
<1>2. CASE ~\E g \in FilesNamed(m) : ~del_flag[g]
  <2>1. Dir[m] = NULL
    BY <1>2 DEF DirIsRight
  <2>2. Dir'[m] = NULL
    BY <1>2 DEF DirIsRight
  <2> QED BY <2>1, <2>2
<1> QED BY <1>1, <1>2

(* The descriptor goes, and with it its file if that is a ghost and has no *)
(* other: the file that is freed is the descriptor's.                      *)
LEMMA CloseDoes ==
  ASSUME AppendInv, table = "ready", NEW d \in FdArguments, Close(d)
  PROVE  \/ ~IsOpen(d) /\ OnlyErrs("NO_FILE")
         \/ /\ IsOpen(d) /\ FreeFd(d) /\ Succeeds(0)
            /\ \/ UNCHANGED << dirVars, data >>
               \/ del_flag[file[d]] /\ Destroy(file[d])
<1>1. CASE BadFd(d)
  BY <1>1, BadFdErrs
<1>2. CASE IsOpen(d) /\ ~BadFd(d)
  <2>1. d \in Fds /\ file[d] \in file_list /\ file[d] \in Files
    BY <1>2, SameDescriptors
  <2>2. PICK f \in Files : f = file[d] /\ f \in file_list
    BY <2>1
  <2>3. FreeFd(d) /\ Succeeds(0) /\ refs' = [refs EXCEPT ![f] = @ - 1]
    BY <1>2, <2>2 DEF Close
  <2>4. CASE ~LastClose(f)
    BY <1>2, <2>2, <2>3, <2>4 DEF Close
  <2>5. CASE LastClose(f)
    <3>1. refs'[f] = 0 /\ del_flag[f]
      BY <2>2, <2>3, <2>5 DEF LastClose, AppendInv, IInv, TypeOK
    <3>2. FilesNamed(name[f]) = {f}
      BY <2>2 DEF FilesNamed, AppendInv, IInv, NamesAreUnique
    <3>3. \E g \in FilesNamed(name[f]) :
            IF refs'[g] = 0 THEN Destroy(g)
            ELSE /\ del_flag' = [del_flag EXCEPT ![g] = TRUE]
                 /\ UNCHANGED << file_list, name, data >>
      BY <1>2, <2>2, <2>5 DEF Close
    <3>4. Destroy(f)
      BY <3>1, <3>2, <3>3
    <3> QED BY <1>2, <2>2, <2>3, <3>1, <3>4
  <2> QED BY <2>4, <2>5
<1> QED BY <1>1, <1>2 DEF Close

LEMMA CloseReleases ==
  ASSUME AppendInv, NEW d \in Fds, FreeFd(d), Succeeds(0),
         UNCHANGED << dirVars, data >> \/ Destroy(file[d])
  PROVE  Releases(file[d])
<1>1. file \in [Fds -> Files \cup {NULL}] /\ offset \in [Fds -> Int]
  BY DEF AppendInv, IInv, TypeOK, DataInv
<1>2. \A e \in Fds : file'[e] # NULL => file'[e] = file[e] /\ offset'[e] = offset[e]
  BY <1>1 DEF FreeFd
<1>3. UNCHANGED << table, fault >>
  BY DEF FreeFd, Succeeds
<1>4. UNCHANGED << file_list, name, data >> \/ Destroy(file[d])
  BY DEF dirVars
<1> QED BY <1>2, <1>3, <1>4 DEF Releases

LEMMA CloseAppendInv ==
  ASSUME AppendInv, table = "ready", NEW d \in FdArguments, Close(d)
  PROVE  AppendInv' /\ (IsOpen(d) => Content' = Flat!Kept(Content))
<1>1. CASE ~IsOpen(d) /\ OnlyErrs("NO_FILE")
  BY <1>1, ErrsAppendInv
<1>2. CASE IsOpen(d)
  <2>1. d \in Fds /\ file[d] \in Files
    BY <1>2, SameDescriptors
  <2>2. FreeFd(d) /\ Succeeds(0) /\ (UNCHANGED << dirVars, data >> \/ Destroy(file[d]))
    BY <1>2, CloseDoes
  <2>3. Releases(file[d])
    BY <2>1, <2>2, CloseReleases
  <2>4. IInv' /\ DataInv'
    BY CloseIInv, CloseDataInv DEF AppendInv
  <2> QED BY <2>1, <2>3, <2>4, ReleaseAppendInv
<1> QED BY <1>1, <1>2, CloseDoes

LEMMA CloseIsFlat ==
  ASSUME AppendInv, table = "ready", NEW d \in FdArguments, Close(d)
  PROVE  Flat!Close(FlatFd(d))
<1>1. CASE ~IsOpen(d) /\ OnlyErrs("NO_FILE")
  <2>1. ~Flat!IsOpen(FlatFd(d))
    BY <1>1, SameDescriptors
  <2> QED BY <1>1, <2>1, ErrsIsFlat DEF Flat!Close
<1>2. CASE IsOpen(d)
  <2>1. /\ Flat!IsOpen(FlatFd(d)) /\ FlatFd(d) = d
        /\ d \in Fds /\ file[d] \in Files
    BY <1>2, SameDescriptors
  <2>2. /\ FreeFd(d) /\ Succeeds(0)
        /\ \/ UNCHANGED << dirVars, data >>
           \/ del_flag[file[d]] /\ Destroy(file[d])
    BY <1>2, CloseDoes
  <2>3. AppendInv' /\ Content' = Flat!Kept(Content)
    BY <1>2, CloseAppendInv
  <2>4. DirIsRight /\ DirIsRight'
    BY <2>3, DirLemma, NextMapping
  <2>5. Dir' = Dir
    <3>1. CASE UNCHANGED dirVars
      BY <3>1, SameMapping
    <3>2. CASE del_flag[file[d]] /\ Destroy(file[d])
      <4>1. /\ name \in [Files -> Names \cup {NULL}] /\ del_flag \in [Files -> BOOLEAN]
            /\ file_list \subseteq Files
        BY DEF AppendInv, IInv, TypeOK
      <4>2. ASSUME NEW m \in Names, NEW g
            PROVE  g \in FilesNamed(m)' /\ ~del_flag'[g] <=> g \in FilesNamed(m) /\ ~del_flag[g]
        BY <3>2, <4>1 DEF Destroy, FilesNamed
      <4>3. \A m \in Names : Dir'[m] = Dir[m]
        BY <2>4, <4>2, SameFile
      <4>4. Dir \in [Names -> Files \cup {NULL}] /\ Dir' \in [Names -> Files \cup {NULL}]
        BY <2>4 DEF DirIsRight
      <4> QED BY <4>3, <4>4
    <3> QED BY <2>2, <3>1, <3>2
  <2>6. /\ file' = [file EXCEPT ![d] = NULL]
        /\ offset' = [offset EXCEPT ![d] = 0]
        /\ flags' = [flags EXCEPT ![d] = {}]
    BY <2>2 DEF FreeFd
  <2>7. Flat!Answers(0)
    BY <2>2 DEF Succeeds, Returns, Flat!Answers
  <2> QED BY <2>1, <2>3, <2>5, <2>6, <2>7 DEF Flat!Close
<1> QED BY <1>1, <1>2, CloseDoes

(* The file becomes a ghost, or goes at once when it has no descriptors.   *)
Deletes(f) ==
  /\ \/ /\ del_flag' = [del_flag EXCEPT ![f] = TRUE]
        /\ UNCHANGED << file_list, name, data >>
     \/ Destroy(f)
  /\ Succeeds(0)
  /\ UNCHANGED << refs, tableVars, offset, flags >>

LEMMA DeleteDoes ==
  ASSUME AppendInv, NEW n \in Names, ~IsGhost(n), Delete(n)
  PROVE  \/ FilesNamed(n) = {} /\ OnlyErrs("NO_FILE")
         \/ \E f \in FilesNamed(n) :
              f \in Files /\ FilesNamed(n) = {f} /\ ~del_flag[f] /\ Deletes(f)
<1>1. CASE FilesNamed(n) = {}
  BY <1>1 DEF Delete, OnlyErrs
<1>2. ASSUME NEW f \in FilesNamed(n), Deletes(f)
      PROVE  f \in Files /\ FilesNamed(n) = {f} /\ ~del_flag[f]
  BY DEF FilesNamed, IsGhost, AppendInv, IInv, TypeOK, NamesAreUnique
<1> QED BY <1>1, <1>2 DEF Delete, Deletes

LEMMA DeleteAppendInv ==
  ASSUME AppendInv, NEW n \in Names, ~IsGhost(n), Delete(n)
  PROVE  AppendInv' /\ (FilesNamed(n) # {} => Content' = Flat!Kept(Content))
<1>1. CASE FilesNamed(n) = {} /\ OnlyErrs("NO_FILE")
  BY <1>1, ErrsAppendInv
<1>2. ASSUME NEW f \in Files, Deletes(f)
      PROVE  AppendInv' /\ Content' = Flat!Kept(Content)
  <2>1. IInv' /\ DataInv'
    BY DeleteIInv, DeleteDataInv DEF AppendInv
  <2>2. Releases(f)
    BY <1>2 DEF Deletes, Releases, Succeeds, tableVars
  <2> QED BY <2>1, <2>2, ReleaseAppendInv
<1> QED BY <1>1, <1>2, DeleteDoes

LEMMA DeleteIsFlat ==
  ASSUME AppendInv, NEW n \in Names, ~IsGhost(n), Delete(n)
  PROVE  Flat!Delete(n)
<1>1. AppendInv' /\ (FilesNamed(n) # {} => Content' = Flat!Kept(Content))
  BY DeleteAppendInv
<1>2. DirIsRight /\ DirIsRight'
  BY <1>1, DirLemma, NextMapping
<1>3. CASE FilesNamed(n) = {} /\ OnlyErrs("NO_FILE")
  <2>1. Dir[n] = NULL
    BY <1>2, <1>3 DEF DirIsRight
  <2> QED BY <1>3, <2>1, ErrsIsFlat DEF Flat!Delete
<1>4. ASSUME NEW f \in Files, FilesNamed(n) = {f}, ~del_flag[f], Deletes(f)
      PROVE  Flat!Delete(n)
  <2>1. /\ name \in [Files -> Names \cup {NULL}] /\ del_flag \in [Files -> BOOLEAN]
        /\ file_list \subseteq Files /\ f \in file_list /\ name[f] = n /\ n # NULL
    BY <1>4, NullAssumption DEF AppendInv, IInv, TypeOK, FilesNamed
  <2>2. Dir[n] = f /\ f # NULL
    BY <1>2, <1>4, NullAssumption DEF DirIsRight
  <2>3. \A g \in FilesNamed(n)' : del_flag'[g]
    BY <1>4, <2>1 DEF Deletes, Destroy, FilesNamed
  <2>4. Dir'[n] = NULL
    BY <1>2, <2>3 DEF DirIsRight
  <2>5. ASSUME NEW m \in Names, m # n PROVE Dir'[m] = Dir[m]
    <3>1. ASSUME NEW g
          PROVE  g \in FilesNamed(m)' /\ ~del_flag'[g] <=> g \in FilesNamed(m) /\ ~del_flag[g]
      BY <1>4, <2>1, <2>5 DEF Deletes, Destroy, FilesNamed
    <3> QED BY <1>2, <3>1, SameFile
  <2>6. Dir' = [Dir EXCEPT ![n] = NULL]
    <3>1. Dir \in [Names -> Files \cup {NULL}] /\ Dir' \in [Names -> Files \cup {NULL}]
      BY <1>2 DEF DirIsRight
    <3> QED BY <2>4, <2>5, <3>1
  <2>7. UNCHANGED << file, offset, flags >> /\ Flat!Answers(0)
    BY <1>4 DEF Deletes, tableVars, Succeeds, Returns, Flat!Answers
  <2>8. Content' = Flat!Kept(Content)
    BY <1>1, <1>4
  <2> QED BY <2>2, <2>6, <2>7, <2>8 DEF Flat!Delete
<1> QED BY <1>3, <1>4, DeleteDoes

-----------------------------------------------------------------------------
LEMMA NextIsFlat ==
  AppendInv /\ [AppendNext]_vars => AppendInv' /\ [Flat!Next]_(Flat!vars)
<1> SUFFICES ASSUME AppendInv, [AppendNext]_vars
             PROVE  AppendInv' /\ [Flat!Next]_(Flat!vars)
  OBVIOUS
<1>1. ASSUME NEW n \in Names, NEW fl \in OpenFlags,
             "CREATE" \in fl => FilesNamed(n) = {}, Open(n, fl, Plenty)
      PROVE  AppendInv' /\ Flat!Next
  <2>1. AppendInv' /\ Flat!OpenFile(n, fl)
    BY <1>1, OpenAppendInv, OpenIsFlat
  <2> QED BY <2>1 DEF Flat!Next
<1>2. ASSUME table = "ready", NEW d \in FdArguments, NEW buf \in Buffers, NEW spare \in Heaps,
             ReachesTheEnd(d, buf), Write(d, buf, spare)
      PROVE  AppendInv' /\ Flat!Next
  <2>1. AppendInv' /\ Flat!Write(FlatFd(d), buf) /\ FlatFd(d) \in Fds \cup {-1}
    BY <1>2, WriteAppendInv, WriteIsFlat, SameDescriptors
  <2> QED BY <2>1 DEF Flat!Next
<1>3. ASSUME table = "ready", NEW d \in FdArguments, NEW n \in Counts, Read(d, n)
      PROVE  AppendInv' /\ Flat!Next
  <2>1. AppendInv' /\ Flat!Read(FlatFd(d), n) /\ FlatFd(d) \in Fds \cup {-1}
    BY <1>3, ReadAppendInv, ReadIsFlat, SameDescriptors
  <2> QED BY <2>1 DEF Flat!Next
<1>4. ASSUME table = "ready", NEW d \in FdArguments, Close(d)
      PROVE  AppendInv' /\ Flat!Next
  <2>1. AppendInv' /\ Flat!Close(FlatFd(d)) /\ FlatFd(d) \in Fds \cup {-1}
    BY <1>4, CloseAppendInv, CloseIsFlat, SameDescriptors
  <2> QED BY <2>1 DEF Flat!Next
<1>5. ASSUME NEW n \in Names, ~IsGhost(n), Delete(n)
      PROVE  AppendInv' /\ Flat!Next
  <2>1. AppendInv' /\ Flat!Delete(n)
    BY <1>5, DeleteAppendInv, DeleteIsFlat
  <2> QED BY <2>1 DEF Flat!Next
<1>6. CASE UNCHANGED vars
  <2>1. UNCHANGED << dirVars, refs, data, table, capacity, count, file, offset, flags,
                     ufs_error_code, result, fault >>
    BY <1>6 DEF vars, dirVars
  <2>2. AppendInv'
    <3>1. IInv' /\ DataInv'
      BY <1>6, NextIInv, NextDataInv DEF AppendInv
    <3>2. FilesAreDense' /\ FreedAreEmpty' /\ ListedHaveNames' /\ OffsetsAreInside'
      BY <1>6 DEF vars, AppendInv, FilesAreDense, FreedAreEmpty, ListedHaveNames,
                  OffsetsAreInside
    <3> QED BY <2>1, <3>1, <3>2 DEF AppendInv
  <2>3. UNCHANGED << Dir, Content >>
    BY <2>1, SameMapping, ContentLemma
  <2> QED BY <2>1, <2>2, <2>3 DEF Flat!vars
<1> QED BY <1>1, <1>2, <1>3, <1>4, <1>5, <1>6 DEF AppendNext

LEMMA InitIsFlat == Init => Flat!Init
<1> SUFFICES ASSUME Init PROVE Flat!Init
  OBVIOUS
<1>1. AppendInv
  BY InitAppendInv
<1>2. Dir = [n \in Names |-> NULL]
  <2>1. Dir \in [Names -> Files \cup {NULL}] /\ \A n \in Names : Dir[n] = NULL
    BY <1>1, DirLemma DEF DirIsRight, Init, FilesNamed
  <2> QED BY <2>1
<1>3. Content = [f \in Files |-> << >>]
  <2>1. EmptyData.size = 0
    BY DEF EmptyData
  <2>2. ContentOf(EmptyData) = << >>
    BY <2>1, EmptyIsDense, ContentIsBytes
  <2>3. \A f \in Files : ContentOf(data[f]) = << >>
    BY <2>2 DEF Init
  <2> QED BY <2>3, ContentLemma
<1> QED BY <1>2, <1>3 DEF Init, Flat!Init

(* For callers that append and never resize, ufs_open, ufs_write,          *)
(* ufs_read, ufs_close and ufs_delete are the calls of the flat file       *)
(* system, whatever the size of a block, of the buffers and of the reads,  *)
(* however many files and descriptors there are and wherever ufs_write     *)
(* runs out of memory or over the limit; and the process never dies.       *)
THEOREM AppendIsFlat == AppendSpec => FlatSpec
<1>1. Init => AppendInv /\ Flat!Init
  BY InitAppendInv, InitIsFlat
<1>2. AppendInv /\ [AppendNext]_vars => AppendInv' /\ [Flat!Next]_(Flat!vars)
  BY NextIsFlat
<1>3. AppendInv => ~fault
  BY DEF AppendInv
<1> QED BY <1>1, <1>2, <1>3, PTL DEF AppendSpec, FlatSpec, Flat!Spec
=============================================================================

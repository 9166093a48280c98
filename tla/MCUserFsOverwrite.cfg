SPECIFICATION OverwriteSpec
CONSTANTS
  n1 = n1
  f1 = f1
  NULL = NULL
  Names = {n1}
  Files = {f1}
  MaxCapacity = 2
  MaxBlocks = 3
  BlockSize = 2
  MaxFileSize = 4
  OpenFlags <- Flags
  Buffers <- ShortBuffers
  Counts = {2}
  NewSizes = {0, 5}
  Heaps = {1, 100}
  Plenty = 100
INVARIANTS
  LastBlockInList
  LastBlockIsLast
  SizeIsOccupied
  CallsStayInBlocks
CHECK_DEADLOCK FALSE

SPECIFICATION Spec
CONSTANTS
  n1 = n1
  f1 = f1
  NULL = NULL
  Names = {n1}
  Files = {f1}
  MaxCapacity = 2
  MaxBlocks = 4
  BlockSize = 2
  MaxFileSize = 4
  OpenFlags <- Flags
  Buffers <- DocBuffers
  Counts = {1}
  NewSizes = {0, 1, 5, 6}
  Heaps = {100}
PROPERTY OpensSpareGhosts
CHECK_DEADLOCK FALSE

SPECIFICATION AppendSpec
CONSTANTS
  n1 = n1
  f1 = f1
  NULL = NULL
  Names = {n1}
  Files = {f1}
  MaxCapacity = 2
  MaxBlocks = 0
  BlockSize = 2
  MaxFileSize = 3
  OpenFlags <- Flags
  Buffers <- AppendBuffers
  Counts = {2}
  NewSizes = {}
  Heaps = {0, 100}
  Plenty = 100
PROPERTY FlatSpec
CHECK_DEADLOCK FALSE

SPECIFICATION DirectorySpec
CONSTANTS
  n1 = n1
  n2 = n2
  n3 = n3
  f1 = f1
  f2 = f2
  f3 = f3
  NULL = NULL
  Names = {n1, n2, n3}
  Files = {f1, f2, f3}
  MaxCapacity = 4
  MaxBlocks = 3
  BlockSize = 1
  MaxFileSize = 1
  OpenFlags <- DirectoryFlags
  Buffers = {}
  Counts = {}
  NewSizes = {}
  Heaps <- DirectoryHeaps
SYMMETRY Symmetric
INVARIANTS
  TypeOK
  RefsCountDescriptors
  NoDanglingDescriptor
  GhostsAreOpen
  NamesAreUnique
  TableAccounts
  ListIsTheFiles
  PrevUndoesNext
  WalkFindsTheFile
CHECK_DEADLOCK FALSE

SPECIFICATION Spec
CONSTANTS
  num_files = 3
  MaxNumbers = 1
INVARIANTS
  TypeOK
  MergeSeesSortedArrays
  SlotsSuffice
  RequestsOutliveReads
PROPERTIES
  Terminates
  OthersAreSorted
CHECK_DEADLOCK FALSE

SPECIFICATION Spec
CONSTANTS
  num_arrays = 3
  MaxSize = 3
  Values = {1, 2, 3}
INVARIANT MergesAll
CHECK_DEADLOCK FALSE

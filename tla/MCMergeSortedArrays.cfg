SPECIFICATION Spec
CONSTANTS
  num_arrays = 3
  MaxSize = 3
  Values = {1, 2, 3}
INVARIANTS
  NeverDecreases
  AlwaysAnElement
  GoodUntilAGap
CHECK_DEADLOCK FALSE

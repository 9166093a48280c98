SPECIFICATION Spec
CONSTANTS
  IntMax = 7
  Numbers = {0, 1, 7}
  MaxLength = 5
  MaxNumbers = 7
INVARIANTS
  ArrayIsBigEnough
  RunsAreSorted
  KeepsNumbers
PROPERTY SortsTheNumbers
CHECK_DEADLOCK FALSE

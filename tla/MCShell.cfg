SPECIFICATION Spec
CONSTANTS
  Inputs <- MCInputs
  PipeCapacity = 1
  MaxJobs = 2
  MaxText = 4
INVARIANTS
  TypeOK
  QuotesAgree
  TokensAreTheLine
  QueryIsTheLine
  LeftToRightWhenAlternating
  ReadersSeeTheEnd
PROPERTIES
  EndsUnlessFlooded
CHECK_DEADLOCK FALSE

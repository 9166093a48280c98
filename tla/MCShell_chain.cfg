SPECIFICATION Spec
CONSTANTS
  Inputs <- Chains
  PipeCapacity = 1
  MaxJobs = 0
  MaxText = 4
INVARIANT RunsChains
CHECK_DEADLOCK FALSE

SPECIFICATION Spec
CONSTANTS
  MaxCoroutines = 4
  MaxReuses = 2
INVARIANTS
  TypeOK
  OneRunning
  LinksAreLive
  JumpJoinsAll
PROPERTIES
  NeverResumesFinished
  LowestSlotsFirst
CHECK_DEADLOCK FALSE

SPECIFICATION Spec
CONSTANTS
  L = 2
  FIFO_M = 2
  Builds = {TRUE}
  MaxStarts = 2
INVARIANT EveryRunRight
CHECK_DEADLOCK FALSE

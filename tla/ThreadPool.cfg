\* Two workers for two items.
CONSTANTS
  Items = {i1, i2}
  MaxWorkers = 2
SPECIFICATION Spec
INVARIANTS PoolInv JoinedMeansDone
PROPERTIES WorkGetsDone WorkersLeave
CHECK_DEADLOCK FALSE

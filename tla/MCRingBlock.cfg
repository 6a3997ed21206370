SPECIFICATION RbbSpec
CONSTANTS
  BufSize = 6
  MaxNum = 3
  AllocSizes = {1, 2, 3}
  Limits = {2, 4}
  NoQueue = NoQueue
INVARIANTS TypeOK OverlapOnlyHeld ListHoldsPending
PROPERTIES GetsOldest
CHECK_DEADLOCK FALSE

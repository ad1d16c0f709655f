SPECIFICATION Spec
CONSTANTS
  NumACs = 2
  NumFrames = 2
  StopLevel = 1
  NumBufs = 2
  NumExtBufs = 1
  MaxOqt = 3
  OwnPages = 1
  PubPages = 1
  MaxEvents = 4
CHECK_DEADLOCK FALSE
INVARIANTS TypeOK StopIsUndone PoolsConserved ChipHasRoom
PROPERTIES InOrder

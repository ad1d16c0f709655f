SPECIFICATION FairSpec
CONSTANTS
  WSize = 4
  FirstFrame = 4093
  MaxFrames = 5
  MaxAddba = 2
  Concurrent = TRUE
  MayStop = TRUE
  MayFree = TRUE
CHECK_DEADLOCK FALSE
PROPERTIES BufferedIsDelivered
INVARIANTS BufferedHasTimer

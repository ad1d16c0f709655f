SPECIFICATION Spec
CONSTANTS
  WSize = 4
  FirstFrame = 4093
  MaxFrames = 8
  MaxAddba = 2
  Concurrent = FALSE
  MayStop = TRUE
  MayFree = TRUE
CHECK_DEADLOCK FALSE
INVARIANTS TypeOK InOrder NoGap
PROPERTIES FreshIsTaken

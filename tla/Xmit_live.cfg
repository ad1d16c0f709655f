SPECIFICATION FairSpec
CONSTANTS
  NumACs = 1
  NumFrames = 2
  StopLevel = 1
  NumBufs = 1
  NumExtBufs = 1
  MaxOqt = 3
  OwnPages = 2
  PubPages = 2
  MaxEvents = 4
CHECK_DEADLOCK FALSE
PROPERTIES QueuedIsWritten ThreadsExit

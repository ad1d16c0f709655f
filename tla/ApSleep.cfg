SPECIFICATION FairSpec
CONSTANTS
  AgeLen = 1
  LenMod = 8
  MaxEvents = 4
CHECK_DEADLOCK FALSE
INVARIANTS TypeOK CountedQueues BufferedIsAnnounced InOrder
PROPERTIES BufferedIsSent GroupIsSent

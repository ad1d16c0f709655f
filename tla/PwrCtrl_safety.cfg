SPECIFICATION Spec
CONSTANTS
  Ctrls = {c1}
  WorkItem = wi
  NoOne = noone
  MaxJobs = 1
  MaxSema = 1
  MaxTimeouts = 1
  LevelIoctl = FALSE
  MayStop = TRUE
INVARIANTS IInv AwakeWhileAlive
PROPERTIES NoSleepUnderThreads

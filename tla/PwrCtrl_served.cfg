SPECIFICATION FairSpec
CONSTANTS
  Ctrls = {c1, c2}
  WorkItem = wi
  NoOne = noone
  MaxJobs = 1
  MaxSema = 1
  MaxTimeouts = 0
  LevelIoctl = FALSE
  MayStop = FALSE
INVARIANTS IOFindsFwAwake
PROPERTIES JobsServed

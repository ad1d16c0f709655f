SPECIFICATION FairSpec
CONSTANTS
  NumCh = 1
  RetryLimit = 1
  MaxRoam = 2
  MaxReqs = 2
  MaxLosses = 1
  MaxFaults = 1
CHECK_DEADLOCK FALSE
INVARIANTS TypeOK LinkedIsAssociated RoamGoesOn
PROPERTIES JoinEnds SurveyEnds ScanAnswered LossIsTold ConnectAnswered

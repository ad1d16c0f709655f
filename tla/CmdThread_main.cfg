SPECIFICATION FairSpec
CONSTANTS
  Cmds = {c1, c2}
  WaitCmds = {c1, c2}
  NoIoCmds = {c2}
  None = None
  MaxRefusals = 2
  MaxSessions = 2
  Signals = FALSE
CHECK_DEADLOCK FALSE
INVARIANTS IInv NoDanglingSctx NoFreedCmdWrite
PROPERTIES WaiterReturns AcceptedIsFreed ImplementsService

SPECIFICATION Spec
CONSTANTS
  Cmds = {c1, c2}
  WaitCmds = {c1, c2}
  NoIoCmds = {c2}
  None = None
  MaxRefusals = 1
  MaxSessions = 2
  Signals = TRUE
CHECK_DEADLOCK FALSE
INVARIANTS OwnedOnce

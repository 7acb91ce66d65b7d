SPECIFICATION Spec
CONSTANTS
  Requests = {r1, r2, r3}
  r1 = r1
  r2 = r2
  r3 = r3
  NULL = NULL
  NWin = 2
  NumReqs <- MCNumReqs
  MaxCmds = 2
  MayStop = FALSE
CHECK_DEADLOCK FALSE
INVARIANTS OneOwner QueuedOnlyIfBusy
SYMMETRY MCSymmetry

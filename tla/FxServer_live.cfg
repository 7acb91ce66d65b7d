SPECIFICATION FairSpec
CONSTANTS
  Requests = {r1, r2}
  r1 = r1
  r2 = r2
  NULL = NULL
  NWin = 1
  NumReqs <- MCOneReq
  MaxCmds = 1
  MayStop = TRUE
CHECK_DEADLOCK FALSE
PROPERTIES  ShutdownCompletes

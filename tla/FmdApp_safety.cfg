SPECIFICATION FairSpec
CONSTANTS
  a = a
  b = b
  f = f
  g = g
  Conns = {a, b}
  NULL = null
  Flags = {f, g}
  FlagOf <- MCDistinct
  FMD_MAX_APPS = 2
  DdSem = 2
  MayFail = TRUE
INVARIANTS SlotsExact FlagsRight
 
CHECK_DEADLOCK FALSE

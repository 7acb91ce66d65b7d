SPECIFICATION FairSpec
CONSTANTS
  Slaves = {s1, s2, s3}
  Master = m
  AppThr = app
  NULL = null
  Unknown = {s3}
  FMD_MAX_DEVS = 5
  MaxSes = 2
  MaxFlips = 2
  Restless = {s1, s2}
CONSTRAINT AddedInOrder
INVARIANTS DirectoryIsPeers  
 
CHECK_DEADLOCK FALSE

SPECIFICATION Spec
CONSTANTS
  NumPorts = 2
  GrpSz = 2
  MaxMasks = 3
  DevMasks = 2
  Fams = {"CPS", "RXS", "TSI57X"}
  OnPorts <- MCOnPorts
  Dflts <- MCDflts
  Vals <- MCVals
  RteValues <- MCRteValues
  Infos <- MCInfos
  Lefts <- MCLefts
  MaxOps = 4
INVARIANTS EntriesMirrored MasksInUse 
CHECK_DEADLOCK FALSE

CONSTANTS
  Switches <- MCSwitches
  Endpoints <- MCEndpoints
  Tags <- MCTags
  NPorts <- MCNPorts
  Fabrics <- MCFabrics
  MaxFail = 1
  MaxRival = 1
  MaxOps = 1
  MaxAcc = 80
SPECIFICATION Spec
INVARIANTS HandleReaches OneHandle  QuietUntilUp
PROPERTIES TraversalEnds

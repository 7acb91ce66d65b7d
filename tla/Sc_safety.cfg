SPECIFICATION Spec
CONSTANTS
  NumPorts <- MCNumPorts
  Nums = {1, 2}
  Lists <- MCLists
  Kinds <- MCKinds
  CtrMod = 3
  Lefts = {2, 9999}
  MaxOps <- MCMaxOps
  Bursts = {2}
INVARIANTS CountsExact
CHECK_DEADLOCK FALSE

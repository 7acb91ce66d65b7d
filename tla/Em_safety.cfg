SPECIFICATION Spec
CONSTANTS
  MaxThresh = 3
  DltUnit = 2
  T57Ports = 2
  T57DltUnit = 2
  RxsPorts = 2
  RxsDltUnit = 2
  RxsTtlUnit = 2
  CpsPorts = 2
  CpsTtlUnit = 2
  EvCfgs <- MCEvCfgs
  Created <- MCCreated
  SetLists <- MCSetLists
  Rooms = {1, 20}
  Lefts = {3, 9999}
  Budget = 5
  Rest = 3
  Late = 0
  SetNotfns = {"both", "0delta"}
INVARIANTS  StatusWhole 
 
CHECK_DEADLOCK FALSE

SPECIFICATION Spec
CONSTANTS
  Devices <- MCDevices
  Requests <- MCRequests
  Access <- MCAccess
  Resets <- MCResets
  Partners <- MCPartners
  Policies <- MCPolicies
  Links <- MCLinks
  Lefts <- MCLefts
  MaxOps <- MCMaxOps
INVARIANTS AccessPortKept  
PROPERTIES OthersKept 
CHECK_DEADLOCK FALSE

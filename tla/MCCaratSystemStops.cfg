CONSTANTS
  Modulus <- MCModulus
  Flag <- MCFlag
  NoRegion = NoRegion
  Process = {p1}
  Workload = {c1, c2}
  c1 = c1
  c2 = c2
  Access <- MCAccess
  PolicyList <- MCPolicyList
  Root = {t1, t2}
  Null = Null
  BufRegions = 2
  Value <- MCValue
  Def <- MCDef
  Function <- MCFunction
  Body <- MCBody
  Runs <- MCRuns
  AddressOf <- MCAddressOf
  PolicyFirst = TRUE
CHECK_DEADLOCK FALSE
SPECIFICATION SysSpec
INVARIANTS
  DisallowedAccessesAreStopped

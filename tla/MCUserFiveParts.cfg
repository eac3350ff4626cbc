CONSTANTS
  Modulus <- MCModulus
  TopSize <- MCTopSize
  Flag <- MCFlag
  NoRegion = NoRegion
  Process = {p1}
  Workload = {m1}
  Access <- MCAccess
  PolicyList <- OnlyFiveParts
  Root = {t1, t2}
  Null = Null
  BufRegions = 5
CHECK_DEADLOCK FALSE
SPECIFICATION Spec
INVARIANTS
  FivePartsVerdicts

CONSTANTS
  Modulus <- MCModulus
  TopSize <- MCTopSize
  Flag <- MCFlag
  NoRegion = NoRegion
  Process = {p1}
  Workload = {m1}
  Access <- MCAccess
  PolicyList <- OnlyEntireSpace
  Root = {t1, t2}
  Null = Null
  BufRegions = 1
CHECK_DEADLOCK FALSE
SPECIFICATION Spec
INVARIANTS
  EntireSpaceIsEntire

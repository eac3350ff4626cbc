CONSTANTS
  Modulus <- MCModulus
  Flag <- MCFlag
  NoRegion = NoRegion
  Process = {p1}
  Workload = {m1}
  Access <- MCAccess
  PolicyList <- TerminatedLists
  Root = {t1, t2}
  Null = Null
  BufRegions = 2
CHECK_DEADLOCK FALSE
SPECIFICATION Spec
INVARIANTS
  GuardsAreAnswered

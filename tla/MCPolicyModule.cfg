CONSTANTS
  Modulus <- MCModulus
  Flag <- MCFlag
  NoRegion = NoRegion
  Process = {p1, p2}
  Workload = {m1}
  Access <- MCAccess
  PolicyList <- AllLists
  Root = {t1, t2, t3}
  Null = Null
  BufRegions = 2
SYMMETRY Symmetry
\* Without an entry, and with every client dead, the module stays as it is.
CHECK_DEADLOCK FALSE
SPECIFICATION Spec
INVARIANTS
  TypeOK
  PolicyIsWhole
  TreesApart
  OutputInOrder
  NobodyInside
PROPERTIES
  SnapshotsHold
  StoreSpec

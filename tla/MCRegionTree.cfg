CONSTANTS
  Modulus <- MCModulus
  Flag <- MCFlag
  Candidate <- MCCandidate
  NoRegion = NoRegion
  Nil = Nil
  n1 = n1
  n2 = n2
  n3 = n3
  n4 = n4
  Node = {n1, n2, n3, n4}
SYMMETRY NodeSymmetry
SPECIFICATION Spec
INVARIANTS
  TypeOK
  TreeIsOrdered
  InsertPosition
  SearchKeepsCover
PROPERTIES
  LoopsDescend
  MapSpec

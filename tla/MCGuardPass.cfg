CONSTANTS
  Value <- MCValue
  Def <- MCDef
  Function <- MCFunction
  Body <- MCBody
\* The pass ends.
CHECK_DEADLOCK FALSE
SPECIFICATION FairSpec
INVARIANTS
  TypeOK
  GuardsInPlace
  GuardPrecedesAccess
PROPERTIES
  PassEnds

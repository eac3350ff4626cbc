CONSTANTS
  Parts = {"tree", "policy", "tx", "quiet", "rx", "irq", "life", "serdes"}
  NoRegion = NoRegion
  None = None
CHECK_DEADLOCK FALSE
SPECIFICATION Spec
PROPERTIES
  CallsReturn
  CallsEnd
  RemovalEnds
  DataMoves
  RingsAreCleaned
  OperationsFinish
  SerdesConverges

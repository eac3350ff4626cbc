CONSTANTS
  Parts = {"flash"}
  None = None
  TxMayNotMap = {2}
  RxMayNotMap = FALSE
  LifeMayFail = {"msi", "rx", "one", "nvm", "slot", "rings", "fires", "register"}
  PhyAlone = {"hv"}
  PassesSmbi = FALSE
  SectorWords = 2
  FlashMayFail = {"sum", "erase", "program", "mark", "void"}
  EepromRanges <- WholeRanges
  CopperMayFail = {"bmsr"}
  CopperOverlap = FALSE
  FilterCookies <- OwnCookies
  FilterOverlap = FALSE
  TimesMay = {}
  TestMay = {}
CHECK_DEADLOCK FALSE
SPECIFICATION Spec
INVARIANTS
  CommitKeepsABank

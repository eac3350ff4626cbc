CONSTANTS
  Parts = {"tx", "rx", "irq", "netpoll", "life", "plug", "fails", "resume", "runtime",
           "phy", "sem", "flash", "words", "copper", "serdes", "filters",
           "txtimes", "rxtimes", "selftest", "memory"}
  None = None
  TxMayNotMap = {2}
  RxMayNotMap = FALSE
  LifeMayFail = {"msi", "rx", "one", "nvm", "slot", "rings", "fires", "register"}
  PhyAlone = {"hv"}
  PassesSmbi = FALSE
  SectorWords = 6
  FlashMayFail = {"sum", "erase", "program", "mark", "void"}
  EepromRanges <- WholeRanges
  CopperMayFail = {"bmsr"}
  CopperOverlap = FALSE
  FilterCookies <- OwnCookies
  FilterOverlap = FALSE
  TimesMay = {}
  TestMay = {}
CHECK_DEADLOCK FALSE
SPECIFICATION Spec
INVARIANTS
  TypesOK
  TransmitRingIsSafe
  ReceiveRingIsSafe
  InterruptsAreSafe
  LifeIsOrderly
  
  SemaphoresExclude
  SettingsFollowLink
  FiltersFollowStack
  
PROPERTIES
  QueueSpec
  

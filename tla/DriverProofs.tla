---------------------------- MODULE DriverProofs ----------------------------
(***************************************************************************)
(* What is proved of the rings and their memory, the semaphores, the       *)
(* interrupts, the PHY's registers, the NVM, the receive filters, the      *)
(* copper link, the time stamps and the self-tests holds of their          *)
(* instances in the driver, the ones the run of MCDriver checks, and       *)
(* beside whatever other components are looked at: for any choice of       *)
(* Parts, and of the constants that turn other components.                 *)
(*                                                                         *)
(* Each component is instantiated a second time, with its proofs.  The two *)
(* instances have the same definitions; a behaviour of the driver is one   *)
(* of the component as long as `part' names it, and no step changes that.  *)
(***************************************************************************)
EXTENDS MCDriver, TLAPS

(* The substitutions are those of the components' instances in MCDriver. *)
HwP == INSTANCE HardwareProofs WITH
    scheme <- s1, smbi <- s2, swesmbi <- s3, sync <- s4, fwSync <- s5,
    flag <- s6, bit <- s7, req <- s8, fwNvm <- s9, thread <- s10,
    Threads <- {"t1", "t2"},
    Schemes <- {"82571", "80003", "82574", "ich8"},
    Resources <- [t \in {"t1", "t2"} |-> {"phy", "nvm"}], Tries <- 2,
    PassesSmbi <- PassesSmbi,
    mode <- s1, icr <- s2, ims <- s3, rx <- s4, tx <- s5, napi <- s6,
    missed <- s7, poll <- s8, changed <- s9, armed <- s10,
    resetTask <- s11, down <- s12, reset <- s13,
    Modes <- {"msix", "msi", "legacy"}, Most <- 3, Budget <- 2,
    Ecc <- TRUE, Netpoll <- FALSE,
    family <- s1, addr <- s2, lock <- s3, page <- s4, wuc <- s5,
    opcode <- s6, debug <- s7, call <- s8,
    Families <- {"m88", "igp", "bm", "bm2", "hv"},
    Accesses <- PhyAccesses, AddrReg <- 29,
    MayFail <- {0, 1, 2, 193, 768, 778}, Alone <- PhyAlone,
    kind <- s1, default <- s2, phy <- s3, partner <- s4, link <- s5, lsc <- s6,
    ctrl <- s7, water <- s8, k1 <- s9, lpi <- s10, glink <- s11, fc <- s12,
    ask <- s13, closed <- s14, wd <- s15, op <- s16, changes <- s17, asks <- s18,
    LinkKinds <- {"generic", "pchlan", "pch2", "lpt"}, Partners <- LinkPartners,
    NvmPause <- {"tx", "full"}, Advertise <- {1 .. 5, {3, 4}}, Forces <- {3},
    Pauses <- {"none", "full"}, Eees <- {{5, 4}, {}}, Refused <- FALSE,
    LinkMayFail <- CopperMayFail, LinkOverlap <- CopperOverlap, Changes <- 1,
    LinkAsks <- 1,
    cfg <- s1, tsync <- s2, told <- s3, skb <- s4, work <- s5, xmit <- s6,
    ring <- s7, txTime <- s8, txTold <- s9, packet <- s10, rxRing <- s11,
    rxTime <- s12, rxPoll <- s13, rxTold <- s14, frame <- s15, check <- s16,
    timeCalls <- s17, removal <- s18, Packets <- 3, Frames <- <<>>,
    TxTypes <- {"off", "on", "onestep"}, Filters <- {"none"}, TimeCalls <- 2,
    MayReset <- TRUE, Removes <- TRUE, MayRefuse <- TRUE,
    Slow <- "slow" \in TimesMay, Overlap <- "clear" \in TimesMay,
    LateXmit <- "late" \in TimesMay, None <- None,
    testAt <- s1, test <- s2, verdict <- s3, fault <- s4, ich <- s5, sharedInt <- s6,
    icrBits <- s7, testIms <- s8, test_icr <- s9, cause <- s10, testStep <- s11,
    heap <- s12, bad <- s13, misfreed <- s14, stray <- s15, loop <- s16,
    content <- s17, testReg <- s18, pos <- s19, Tested <- 4, Untested <- 1,
    RxSeq <- 2, Lsc <- 1, LinkChanges <- "link" \in TestMay, Count <- 4, Batch <- 2,
    Laps <- 2,
    TestMayFail <- {"irq", "info", "desc", "skb", "loop"} \cup (TestMay \cap {"map"}),
    BreaksLate <- "late" \in TestMay, OldFrames <- "old" \in TestMay,
    Cable <- "cable" \in TestMay,
    netifRunning <- s1, ringCount <- s2, descRing <- s3, tempRing <- s4,
    blockHeap <- s5, ringCall <- s6, ringErr <- s7, oldRing <- s8,
    RingAsks <- {0, 3, 9}, MinRing <- 2, MaxRing <- 6, RingMultiple <- 2, Blocks <- 4

TxP == INSTANCE TxRingProofs WITH
    next_to_use <- s1, next_to_clean <- s2, buffer <- s3, desc <- s4,
    head <- s5, tail <- s6, hung <- s7, stopped <- s8, carrier <- s9,
    down <- s10, cur <- s11, xmit <- s12, clean <- s13, detect <- s14,
    recheck <- s15, hangTask <- s16, resetTask <- s17, wire <- s18,
    freed <- s19, Count <- 7, Packets <- 4,
    Frags <- [p \in 1 .. 4 |-> IF p \in {1, 3} THEN 2 ELSE 1],
    Offload <- {1, 4}, MaxFrags <- 2, WakeThreshold <- 4, Batches <- TRUE,
    MayDrop <- {2}, MayNotMap <- TxMayNotMap, MayHang <- TRUE,
    DmaBurst <- TRUE, None <- None

RxP == INSTANCE RxRingProofs WITH
    mode <- s1, next_to_use <- s2, next_to_clean <- s3, buffer <- s4,
    desc <- s5, rx_skb_top <- s6, discarding <- s7, head <- s8,
    tail <- s9, frame <- s10, part <- s11, poll <- s12, live <- s13,
    up <- s14, failed <- s15, resets <- s16, Count <- 8, Frames <- 7,
    Parts <- [f \in 1 .. 7 |-> CASE f \in {2, 5} -> 3 [] f = 3 -> 2 [] OTHER -> 1],
    Bad <- {3}, Modes <- {"skb", "split", "jumbo"}, Write <- 4,
    Budget <- 3, Failures <- 1, MayNotMap <- RxMayNotMap, Resets <- 1,
    None <- None,
    kind <- s1, rctl <- s2, rar <- s3, shra <- s4, mta <- s5, vfta <- s6,
    flags <- s7, uc <- s8, mc <- s9, vlans <- s10, mac <- s11, laa <- s12,
    active <- s13, mng <- s14, cookie <- s15, control <- s16, todo <- s17,
    held <- s18, calls <- s19, Kinds <- {"82571", "82574", "pch2", "lpt"},
    Rars <- 4, Ucs <- {<<>>, <<"a">>, <<"b", "a">>, <<"a", "b", "c">>},
    Mcs <- {{}, {"m1", "m2"}, {"m2", "m3"}}, Macs <- {"p", "q"},
    Vids <- {1, 2, 6}, Cookies <- FilterCookies, Calls <- 4,
    Overlap <- FilterOverlap

PollP == INSTANCE HardwareProofs WITH
    scheme <- s1, smbi <- s2, swesmbi <- s3, sync <- s4, fwSync <- s5,
    flag <- s6, bit <- s7, req <- s8, fwNvm <- s9, thread <- s10,
    Threads <- {"t1", "t2"},
    Schemes <- {"82571", "80003", "82574", "ich8"},
    Resources <- [t \in {"t1", "t2"} |-> {"phy", "nvm"}], Tries <- 2,
    PassesSmbi <- PassesSmbi,
    mode <- s1, icr <- s2, ims <- s3, rx <- s4, tx <- s5, napi <- s6,
    missed <- s7, poll <- s8, changed <- s9, armed <- s10,
    resetTask <- s11, down <- s12, reset <- s13,
    Modes <- {"msix", "msi", "legacy"}, Most <- 3, Budget <- 2,
    Ecc <- TRUE, Netpoll <- TRUE,
    family <- s1, addr <- s2, lock <- s3, page <- s4, wuc <- s5,
    opcode <- s6, debug <- s7, call <- s8,
    Families <- {"m88", "igp", "bm", "bm2", "hv"},
    Accesses <- PhyAccesses, AddrReg <- 29,
    MayFail <- {0, 1, 2, 193, 768, 778}, Alone <- PhyAlone,
    kind <- s1, default <- s2, phy <- s3, partner <- s4, link <- s5, lsc <- s6,
    ctrl <- s7, water <- s8, k1 <- s9, lpi <- s10, glink <- s11, fc <- s12,
    ask <- s13, closed <- s14, wd <- s15, op <- s16, changes <- s17, asks <- s18,
    LinkKinds <- {"generic", "pchlan", "pch2", "lpt"}, Partners <- LinkPartners,
    NvmPause <- {"tx", "full"}, Advertise <- {1 .. 5, {3, 4}}, Forces <- {3},
    Pauses <- {"none", "full"}, Eees <- {{5, 4}, {}}, Refused <- FALSE,
    LinkMayFail <- CopperMayFail, LinkOverlap <- CopperOverlap, Changes <- 1,
    LinkAsks <- 1,
    cfg <- s1, tsync <- s2, told <- s3, skb <- s4, work <- s5, xmit <- s6,
    ring <- s7, txTime <- s8, txTold <- s9, packet <- s10, rxRing <- s11,
    rxTime <- s12, rxPoll <- s13, rxTold <- s14, frame <- s15, check <- s16,
    timeCalls <- s17, removal <- s18, Packets <- 0,
    Frames <- <<PtpFrame(2, "l2", "sync", TRUE), PtpFrame(2, "l4", "sync", FALSE),
                PtpFrame(2, "l2", "path", FALSE)>>,
    TxTypes <- {"off"},
    Filters <- {"none", "v1_l4_sync", "v1_l4_delay", "v1_l4_event", "v2_l2_sync",
                "v2_l2_delay", "v2_l4_sync", "v2_l4_delay", "v2_sync", "v2_delay",
                "v2_l2_event", "v2_l4_event", "v2_event", "ntp_all", "all"},
    TimeCalls <- 2, MayReset <- TRUE, Removes <- FALSE, MayRefuse <- FALSE,
    Slow <- FALSE, Overlap <- "clear" \in TimesMay, LateXmit <- FALSE,
    None <- None,
    testAt <- s1, test <- s2, verdict <- s3, fault <- s4, ich <- s5, sharedInt <- s6,
    icrBits <- s7, testIms <- s8, test_icr <- s9, cause <- s10, testStep <- s11,
    heap <- s12, bad <- s13, misfreed <- s14, stray <- s15, loop <- s16,
    content <- s17, testReg <- s18, pos <- s19, Tested <- 4, Untested <- 1,
    RxSeq <- 2, Lsc <- 1, LinkChanges <- "link" \in TestMay, Count <- 4, Batch <- 2,
    Laps <- 2,
    TestMayFail <- {"irq", "info", "desc", "skb", "loop"} \cup (TestMay \cap {"map"}),
    BreaksLate <- "late" \in TestMay, OldFrames <- "old" \in TestMay,
    Cable <- "cable" \in TestMay,
    netifRunning <- s1, ringCount <- s2, descRing <- s3, tempRing <- s4,
    blockHeap <- s5, ringCall <- s6, ringErr <- s7, oldRing <- s8,
    RingAsks <- {0, 3, 9}, MinRing <- 2, MaxRing <- 6, RingMultiple <- 2, Blocks <- 4

NvmP == INSTANCE NvmProofs WITH
    kind <- s1, flash <- s2, sig <- s3, hwBank <- s4, shadow <- s5,
    locked <- s6, op <- s7, read <- s8, crashes <- s9,
    Kinds <- {"spt", "bytes", "eecd"}, Words <- 6, ChecksumWord <- 3,
    SectorWords <- SectorWords, Images <- {Image},
    Writes <- {{<<1, 2>>, <<2, 2>>}, {<<4, 1>>}},
    Reads <- {<<0, 1>>, <<1, 1>>, <<2, 1>>}, Sum <- 2, EraseTries <- 2,
    MayFail <- FlashMayFail, Crashes <- 1,
    eepromKind <- s1, word <- s2, kept <- s3, before <- s4, call <- s5,
    calls <- s6, EepromKinds <- {"spi8", "spi16", "eewr", "flash"}, Size <- 12,
    PageSize <- 2, Half <- 6, Checksum <- 4, Ranges <- EepromRanges,
    Calls <- 2, EepromMayFail <- TRUE
-----------------------------------------------------------------------------
(* A step of a component is a step of it, and changes no other. *)
LEMMA PartStays == ASSUME [Next]_vars PROVE part' = part
BY DEF Next, vars, TxSteps, RxSteps, IrqSteps, NetpollSteps, LifeSteps,
       PhySteps, SemSteps, FlashSteps, WordsSteps, CopperSteps, SerdesSteps,
       FilterSteps, TimesSteps, TestSteps, MemorySteps

(* The steps of the one component that a behaviour is about. *)
LEMMA SemMoves == ASSUME part = "sem", [Next]_vars PROVE Sem!Next \/ UNCHANGED slots
BY DEF Next, vars, TxSteps, RxSteps, IrqSteps, NetpollSteps, LifeSteps,
       PhySteps, SemSteps, FlashSteps, WordsSteps, CopperSteps, SerdesSteps,
       FilterSteps, TimesSteps, TestSteps, MemorySteps

LEMMA TxMoves == ASSUME part = "tx", [Next]_vars PROVE Tx!Next \/ UNCHANGED slots
BY DEF Next, vars, TxSteps, RxSteps, IrqSteps, NetpollSteps, LifeSteps,
       PhySteps, SemSteps, FlashSteps, WordsSteps, CopperSteps, SerdesSteps,
       FilterSteps, TimesSteps, TestSteps, MemorySteps

LEMMA RxMoves == ASSUME part = "rx", [Next]_vars PROVE Rx!Next \/ UNCHANGED slots
BY DEF Next, vars, TxSteps, RxSteps, IrqSteps, NetpollSteps, LifeSteps,
       PhySteps, SemSteps, FlashSteps, WordsSteps, CopperSteps, SerdesSteps,
       FilterSteps, TimesSteps, TestSteps, MemorySteps

LEMMA NapiMoves == ASSUME part = "irq", [Next]_vars PROVE Napi!Next \/ UNCHANGED slots
BY DEF Next, vars, TxSteps, RxSteps, IrqSteps, NetpollSteps, LifeSteps,
       PhySteps, SemSteps, FlashSteps, WordsSteps, CopperSteps, SerdesSteps,
       FilterSteps, TimesSteps, TestSteps, MemorySteps

LEMMA PollMoves == ASSUME part = "netpoll", [Next]_vars PROVE Poll!Next \/ UNCHANGED slots
BY DEF Next, vars, TxSteps, RxSteps, IrqSteps, NetpollSteps, LifeSteps,
       PhySteps, SemSteps, FlashSteps, WordsSteps, CopperSteps, SerdesSteps,
       FilterSteps, TimesSteps, TestSteps, MemorySteps

LEMMA PhyMoves == ASSUME part = "phy", [Next]_vars PROVE Phy!Next \/ UNCHANGED slots
BY DEF Next, vars, TxSteps, RxSteps, IrqSteps, NetpollSteps, LifeSteps,
       PhySteps, SemSteps, FlashSteps, WordsSteps, CopperSteps, SerdesSteps,
       FilterSteps, TimesSteps, TestSteps, MemorySteps

LEMMA FiltMoves == ASSUME part = "filters", [Next]_vars PROVE Filt!Next \/ UNCHANGED slots
BY DEF Next, vars, TxSteps, RxSteps, IrqSteps, NetpollSteps, LifeSteps,
       PhySteps, SemSteps, FlashSteps, WordsSteps, CopperSteps, SerdesSteps,
       FilterSteps, TimesSteps, TestSteps, MemorySteps

LEMMA CopperMoves == ASSUME part = "copper", [Next]_vars PROVE Copper!Next \/ UNCHANGED slots
BY DEF Next, vars, TxSteps, RxSteps, IrqSteps, NetpollSteps, LifeSteps,
       PhySteps, SemSteps, FlashSteps, WordsSteps, CopperSteps, SerdesSteps,
       FilterSteps, TimesSteps, TestSteps, MemorySteps

LEMMA FlashMoves == ASSUME part = "flash", [Next]_vars PROVE Flash!Next \/ UNCHANGED slots
BY DEF Next, vars, TxSteps, RxSteps, IrqSteps, NetpollSteps, LifeSteps,
       PhySteps, SemSteps, FlashSteps, WordsSteps, CopperSteps, SerdesSteps,
       FilterSteps, TimesSteps, TestSteps, MemorySteps

LEMMA WordsMoves == ASSUME part = "words", [Next]_vars PROVE Eeprom!Next \/ UNCHANGED slots
BY DEF Next, vars, TxSteps, RxSteps, IrqSteps, NetpollSteps, LifeSteps,
       PhySteps, SemSteps, FlashSteps, WordsSteps, CopperSteps, SerdesSteps,
       FilterSteps, TimesSteps, TestSteps, MemorySteps

LEMMA TxTimesMoves == ASSUME part = "txtimes", [Next]_vars PROVE TxTimes!Next \/ UNCHANGED slots
BY DEF Next, vars, TxSteps, RxSteps, IrqSteps, NetpollSteps, LifeSteps,
       PhySteps, SemSteps, FlashSteps, WordsSteps, CopperSteps, SerdesSteps,
       FilterSteps, TimesSteps, TestSteps, MemorySteps

LEMMA RxTimesMoves == ASSUME part = "rxtimes", [Next]_vars PROVE RxTimes!Next \/ UNCHANGED slots
BY DEF Next, vars, TxSteps, RxSteps, IrqSteps, NetpollSteps, LifeSteps,
       PhySteps, SemSteps, FlashSteps, WordsSteps, CopperSteps, SerdesSteps,
       FilterSteps, TimesSteps, TestSteps, MemorySteps

LEMMA TestMoves == ASSUME part = "selftest", [Next]_vars PROVE Test!Next \/ UNCHANGED slots
BY DEF Next, vars, TxSteps, RxSteps, IrqSteps, NetpollSteps, LifeSteps,
       PhySteps, SemSteps, FlashSteps, WordsSteps, CopperSteps, SerdesSteps,
       FilterSteps, TimesSteps, TestSteps, MemorySteps

LEMMA MemoryMoves == ASSUME part = "memory", [Next]_vars PROVE Memory!Next \/ UNCHANGED slots
BY DEF Next, vars, TxSteps, RxSteps, IrqSteps, NetpollSteps, LifeSteps,
       PhySteps, SemSteps, FlashSteps, WordsSteps, CopperSteps, SerdesSteps,
       FilterSteps, TimesSteps, TestSteps, MemorySteps
-----------------------------------------------------------------------------
(* The semaphores: two threads, both resources, four schemes. *)

LEMMA SemConstants == ASSUME PassesSmbi \in BOOLEAN PROVE HwP!Assumption
BY DEF HwP!Assumption, HwP!Resource

LEMMA SemInit == ASSUME Sem!Init PROVE HwP!Init
BY DEF Sem!Init, HwP!Init, Sem!Out, HwP!Out

LEMMA SemNext == ASSUME Sem!Next PROVE HwP!Next
BY DEF Sem!Next, HwP!Next, Sem!Resource, HwP!Resource, Sem!sems, HwP!sems,
       Sem!syncs, HwP!syncs, Sem!flags, HwP!flags, Sem!nvm, HwP!nvm,
       Sem!Out, HwP!Out, Sem!At, HwP!At, Sem!Goto, HwP!Goto, Sem!GoOut,
       HwP!GoOut, Sem!PutSem, HwP!PutSem, Sem!Begin, HwP!Begin,
       Sem!ReadSmbi, HwP!ReadSmbi, Sem!SmbiTimesOut, HwP!SmbiTimesOut,
       Sem!Latch, HwP!Latch, Sem!LatchTimesOut, HwP!LatchTimesOut,
       Sem!ReadSync, HwP!ReadSync, Sem!SyncBusy, HwP!SyncBusy,
       Sem!WriteSync, HwP!WriteSync, Sem!PutAfterSync, HwP!PutAfterSync,
       Sem!NvmGranted, HwP!NvmGranted, Sem!GiveBack, HwP!GiveBack,
       Sem!NvmNotGranted, HwP!NvmNotGranted, Sem!Leave, HwP!Leave,
       Sem!TakeBit, HwP!TakeBit, Sem!BitTaken, HwP!BitTaken,
       Sem!SeesFlagFree, HwP!SeesFlagFree, Sem!SetFlag, HwP!SetFlag,
       Sem!FlagTimesOut, HwP!FlagTimesOut, Sem!ClearFlag, HwP!ClearFlag,
       Sem!Unlock, HwP!Unlock, Sem!Firmware, HwP!Firmware

SemInv == part = "sem" => HwP!IInv

LEMMA SemInvariance == ASSUME PassesSmbi \in BOOLEAN PROVE Spec => []SemInv
<1>1. Init => SemInv
  BY SemConstants, SemInit, HwP!Start DEF Init, SemInv
<1>2. ASSUME SemInv, [Next]_vars PROVE SemInv'
  <2>1. SUFFICES ASSUME part' = "sem" PROVE HwP!IInv'
    BY DEF SemInv
  <2>2. part = "sem" /\ HwP!IInv
    BY <1>2, <2>1, PartStays DEF SemInv
  <2>3. [HwP!Next]_(HwP!vars)
    BY <1>2, <2>2, SemMoves, SemNext DEF HwP!vars, slots
  <2>. QED BY <2>2, <2>3, SemConstants, HwP!Step
<1>. QED BY <1>1, <1>2, PTL DEF Spec

(***************************************************************************)
(* The semaphore schemes of the driver exclude threads, ports and the      *)
(* firmware from each other, and nothing is left set when the last thread  *)
(* has gone, if a thread of an 82571 waits for SMBI.                       *)
(***************************************************************************)
THEOREM SemaphoresInDriver ==
  ASSUME PassesSmbi = FALSE PROVE Spec => []SemaphoresExclude
<1>1. SemInv => SemaphoresExclude
  <2>1. SUFFICES ASSUME part = "sem", HwP!IInv PROVE Sem!Exclusive /\ Sem!NothingIsKept
    BY DEF SemInv, SemaphoresExclude
  <2>2. HwP!Exclusive
    BY <2>1, HwP!Excludes DEF HwP!Waits
  <2>3. HwP!NothingIsKept
    BY <2>1, SemConstants, HwP!KeepsNothing
  <2>4. Sem!Exclusive
    BY <2>2 DEF Sem!Exclusive, HwP!Exclusive, Sem!At, HwP!At, Sem!Conflict,
                HwP!Conflict
  <2>5. Sem!NothingIsKept
    BY <2>3 DEF Sem!NothingIsKept, HwP!NothingIsKept, Sem!At, HwP!At
  <2>. QED BY <2>4, <2>5
<1>2. Spec => []SemInv
  BY SemInvariance
<1>. QED BY <1>1, <1>2, PTL
-----------------------------------------------------------------------------
(* The transmit ring: seven descriptors, four packets. *)

LEMMA TxConstants == ASSUME None \notin 1 .. 4 PROVE TxP!Assumption
BY DEF TxP!Assumption, TxP!Packet

LEMMA TxInit == ASSUME Tx!Init PROVE TxP!Init
BY DEF Tx!Init, TxP!Init, Tx!Slot, TxP!Slot, Tx!NoBuffer, TxP!NoBuffer,
       Tx!NoDesc, TxP!NoDesc

(* The steps of e1000_xmit_frame, of e1000_clean_tx_irq, and of the controller, *)
(* the watchdog and the reset.                                                 *)
LEMMA TxXmit == ASSUME Tx!Xmit PROVE TxP!Xmit
BY DEF Tx!Xmit, TxP!Xmit, Tx!XmitDropped, TxP!XmitDropped, Tx!MayCall,
       TxP!MayCall, Tx!Drop, TxP!Drop, Tx!ring, TxP!ring, Tx!hw, TxP!hw,
       Tx!link, TxP!link, Tx!tasks, TxP!tasks, Tx!Goto, TxP!Goto,
       Tx!XmitFrame, TxP!XmitFrame, Tx!Roomy, TxP!Roomy, Tx!Need, TxP!Need,
       Tx!DescUnused, TxP!DescUnused, Tx!XmitStop, TxP!XmitStop,
       Tx!XmitRecheck, TxP!XmitRecheck, Tx!SecondLook, TxP!SecondLook,
       Tx!Unused, TxP!Unused, Tx!XmitContext, TxP!XmitContext, Tx!After,
       TxP!After, Tx!XmitMap, TxP!XmitMap, Tx!TxMap, TxP!TxMap, Tx!Filled,
       TxP!Filled, Tx!Plus, TxP!Plus, Tx!Slot, TxP!Slot, Tx!Mapped,
       TxP!Mapped, Tx!XmitMapFails, TxP!XmitMapFails, Tx!Unwound, TxP!Unwound,
       Tx!Unwind, TxP!Unwind, Tx!NoBuffer, TxP!NoBuffer, Tx!XmitQueue,
       TxP!XmitQueue, Tx!XmitReroom, TxP!XmitReroom, Tx!XmitKick, TxP!XmitKick

LEMMA TxClean == ASSUME Tx!Clean PROVE TxP!Clean
BY DEF Tx!Clean, TxP!Clean, Tx!CleanStart, TxP!CleanStart, Tx!Slot, TxP!Slot,
       Tx!ring, TxP!ring, Tx!hw, TxP!hw, Tx!link, TxP!link, Tx!tasks,
       TxP!tasks, Tx!CleanPacket, TxP!CleanPacket, Tx!After, TxP!After,
       Tx!Span, TxP!Span, Tx!NoBuffer, TxP!NoBuffer, Tx!ClearDone,
       TxP!ClearDone, Tx!Cardinality, TxP!Cardinality, Tx!CleanPublish,
       TxP!CleanPublish, Tx!CleanRoom, TxP!CleanRoom, Tx!Unused, TxP!Unused,
       Tx!DescUnused, TxP!DescUnused, Tx!CleanWake, TxP!CleanWake,
       Tx!CleanDetect, TxP!CleanDetect

LEMMA TxOthers ==
  ASSUME Tx!Next, ~Tx!Xmit, ~Tx!Clean PROVE TxP!Next
BY DEF Tx!Next, TxP!Next, Tx!Reset, TxP!Reset, Tx!HwSend, TxP!HwSend,
       Tx!Leading, TxP!Leading, Tx!After, TxP!After, Tx!link, TxP!link,
       Tx!tasks, TxP!tasks, Tx!Plus, TxP!Plus, Tx!HwHang, TxP!HwHang, Tx!ring,
       TxP!ring, Tx!WatchdogDetect, TxP!WatchdogDetect, Tx!hw, TxP!hw,
       Tx!WatchdogLinkDown, TxP!WatchdogLinkDown, Tx!Unused, TxP!Unused,
       Tx!DescUnused, TxP!DescUnused, Tx!WatchdogLinkUp, TxP!WatchdogLinkUp,
       Tx!PrintHwHang, TxP!PrintHwHang, Tx!TxTimeout, TxP!TxTimeout,
       Tx!ResetDown, TxP!ResetDown, Tx!ResetUp, TxP!ResetUp, Tx!Slot,
       TxP!Slot, Tx!NoBuffer, TxP!NoBuffer, Tx!NoDesc, TxP!NoDesc

LEMMA TxNext == ASSUME Tx!Next PROVE TxP!Next
BY TxXmit, TxClean, TxOthers DEF TxP!Next

TxInv == part = "tx" => TxP!IInv

LEMMA TxInvariance == ASSUME None \notin 1 .. 4 PROVE Spec => []TxInv
<1>1. Init => TxInv
  BY TxConstants, TxInit, TxP!Start DEF Init, TxInv
<1>2. ASSUME TxInv, [Next]_vars PROVE TxInv'
  <2>1. SUFFICES ASSUME part' = "tx" PROVE TxP!IInv'
    BY DEF TxInv
  <2>2. part = "tx" /\ TxP!IInv
    BY <1>2, <2>1, PartStays DEF TxInv
  <2>3. [TxP!Next]_(TxP!vars)
    BY <1>2, <2>2, TxMoves, TxNext
    DEF TxP!vars, TxP!ring, TxP!hw, TxP!link, TxP!tasks, slots
  <2>. QED BY <2>2, <2>3, TxConstants, TxP!Step
<1>. QED BY <1>1, <1>2, PTL DEF Spec

(***************************************************************************)
(* What the transmitter fetches is mapped until it is cleaned, no mapping  *)
(* outlives its packet and the queue stops before the ring overflows,      *)
(* while e1000_xmit_frame, e1000_clean_tx_irq, the watchdog and resets run *)
(* beside each other, if a packet of several buffers can be mapped.        *)
(***************************************************************************)
THEOREM TransmitRingInDriver ==
  ASSUME None \notin 1 .. 4, TxMayNotMap \cap {1, 3} = {}
  PROVE  Spec => []TransmitRingIsSafe
<1>1. TxInv => TransmitRingIsSafe
  <2>1. SUFFICES ASSUME part = "tx", TxP!IInv
                 PROVE  Tx!FetchedIsMapped /\ Tx!NoStrayMapping /\ Tx!TailKeepsOff
    BY DEF TxInv, TransmitRingIsSafe
  <2>2. TxP!FetchedIsMapped
    BY <2>1, TxConstants, TxP!Fetched
  <2>3. TxP!FailsAtFirst
    BY DEF TxP!FailsAtFirst, TxP!Packet
  <2>4. TxP!NoStrayMapping /\ TxP!TailKeepsOff
    BY <2>1, <2>3, TxConstants, TxP!Kept
  <2>5. Tx!FetchedIsMapped
    BY <2>2 DEF Tx!FetchedIsMapped, TxP!FetchedIsMapped, Tx!Span, TxP!Span
  <2>6. Tx!NoStrayMapping
    BY <2>4 DEF Tx!NoStrayMapping, TxP!NoStrayMapping, Tx!Slot, TxP!Slot,
                Tx!Span, TxP!Span
  <2>7. Tx!TailKeepsOff
    BY <2>4 DEF Tx!TailKeepsOff, TxP!TailKeepsOff, Tx!Mapped, TxP!Mapped,
                Tx!Plus, TxP!Plus, Tx!After, TxP!After
  <2>. QED BY <2>5, <2>6, <2>7
<1>. QED BY <1>1, TxInvariance, PTL
-----------------------------------------------------------------------------
(* The queue that the transmit ring implements. *)

LEMMA HeldInDriver == Tx!Held = TxP!Held
BY DEF Tx!Held, TxP!Held, Tx!PacketsOf, TxP!PacketsOf, Tx!Plus, TxP!Plus

(* While the transmit ring is looked at, the queue is that of the ring. *)
LEMMA QueueInit ==
  ASSUME part = "tx" => TxP!Queue!Init PROVE Queue!Init
BY HeldInDriver DEF Queue!Init, TxP!Queue!Init

LEMMA QueueIdles == ASSUME part # "tx", part' = part PROVE UNCHANGED Queue!vars
BY DEF Queue!vars

LEMMA QueueNext ==
  ASSUME part = "tx", part' = "tx", [TxP!Queue!Next]_(TxP!Queue!vars)
  PROVE  [Queue!Next]_(Queue!vars)
<1>1. Tx!Held = TxP!Held
  BY HeldInDriver
<1>2. Tx!Held' = TxP!Held'
  BY DEF Tx!Held, TxP!Held, Tx!PacketsOf, TxP!PacketsOf, Tx!Plus, TxP!Plus
<1>3. Queue!InFlight = TxP!Queue!InFlight
  BY <1>1 DEF Queue!InFlight, TxP!Queue!InFlight
<1>4. CASE TxP!Queue!Send
  BY <1>1, <1>2, <1>4 DEF Queue!Send, TxP!Queue!Send, Queue!Next
<1>5. CASE TxP!Queue!Complete
  BY <1>1, <1>2, <1>5 DEF Queue!Complete, TxP!Queue!Complete, Queue!Next
<1>6. CASE TxP!Queue!Lose
  BY <1>1, <1>2, <1>3, <1>6 DEF Queue!Lose, TxP!Queue!Lose, Queue!Next
<1>7. ASSUME NEW p \in 1 .. 4, TxP!Queue!Accept(p) PROVE Queue!Next
  BY <1>1, <1>2, <1>3, <1>7 DEF Queue!Accept, TxP!Queue!Accept, Queue!Next
<1>8. ASSUME NEW p \in 1 .. 4, TxP!Queue!Drop(p) PROVE Queue!Next
  BY <1>1, <1>2, <1>3, <1>8 DEF Queue!Drop, TxP!Queue!Drop, Queue!Next
<1>9. CASE UNCHANGED TxP!Queue!vars
  BY <1>1, <1>2, <1>9 DEF Queue!vars, TxP!Queue!vars
<1>. QED BY <1>4, <1>5, <1>6, <1>7, <1>8, <1>9 DEF TxP!Queue!Next, TxP!Packet

QueueInv == part = "tx" => TxP!IInv /\ TxP!Accounts

(***************************************************************************)
(* The transmit ring of the driver is the queue it promises to the stack.  *)
(***************************************************************************)
THEOREM QueueInDriver == ASSUME None \notin 1 .. 4 PROVE Spec => QueueSpec
<1>1. Init => QueueInv /\ Queue!Init
  <2>1. SUFFICES ASSUME Init, part = "tx" PROVE TxP!IInv /\ TxP!Accounts /\ TxP!Queue!Init
    BY QueueInit DEF QueueInv
  <2>2. TxP!Init
    BY <2>1, TxInit DEF Init
  <2>. QED BY <2>2, TxConstants, TxP!Start, TxP!QueueStart
<1>2. QueueInv /\ [Next]_vars => QueueInv' /\ [Queue!Next]_(Queue!vars)
  <2>1. SUFFICES ASSUME QueueInv, [Next]_vars
                 PROVE  QueueInv' /\ [Queue!Next]_(Queue!vars)
    OBVIOUS
  <2>2. CASE part = "tx"
    <3>1. part' = "tx"
      BY <2>1, <2>2, PartStays
    <3>2. [TxP!Next]_(TxP!vars)
      BY <2>1, <2>2, TxMoves, TxNext
      DEF TxP!vars, TxP!ring, TxP!hw, TxP!link, TxP!tasks, slots
    <3>3. TxP!IInv'
      BY <2>1, <2>2, <3>2, TxConstants, TxP!Step DEF QueueInv
    <3>4. TxP!Accounts' /\ [TxP!Queue!Next]_(TxP!Queue!vars)
      BY <2>1, <2>2, <3>2, <3>3, TxConstants, TxP!QueueStep DEF QueueInv
    <3>. QED BY <2>2, <3>1, <3>3, <3>4, QueueNext DEF QueueInv
  <2>3. CASE part # "tx"
    BY <2>1, <2>3, PartStays, QueueIdles DEF QueueInv
  <2>. QED BY <2>2, <2>3
<1>. QED BY <1>1, <1>2, PTL DEF Spec, QueueSpec, Queue!Spec
-----------------------------------------------------------------------------
(* The receive ring: eight slots, seven frames, three shapes. *)

LEMMA RxConstants ==
  ASSUME None \notin Rx!Skb \cup Rx!Chain, RxMayNotMap \in BOOLEAN PROVE RxP!Assumption
<1> DEFINE parts == [f \in 1 .. 7 |-> CASE f \in {2, 5} -> 3 [] f = 3 -> 2 [] OTHER -> 1]
<1>1. parts \in [1 .. 7 -> Nat \ {0}]
  OBVIOUS
<1>2. None \notin RxP!Skb \cup RxP!Chain
  BY DEF Rx!Skb, RxP!Skb, Rx!Chain, RxP!Chain
<1>. QED BY <1>1, <1>2 DEF RxP!Assumption, RxP!Frame

LEMMA RxInit == ASSUME Rx!Init PROVE RxP!Init
BY DEF Rx!Whole, RxP!Whole, Rx!Tell, RxP!Tell, Rx!Filled, RxP!Filled,
       Rx!FillSlot, RxP!FillSlot, Rx!Prepared, RxP!Prepared, Rx!WithNewSkb,
       RxP!WithNewSkb, Rx!WithSkb, RxP!WithSkb, Rx!KeepDma, RxP!KeepDma,
       Rx!NewSkb, RxP!NewSkb, Rx!Skb, RxP!Skb, Rx!After, RxP!After, Rx!Before,
       RxP!Before, Rx!Init, RxP!Init, Rx!Empty, RxP!Empty, Rx!Slot, RxP!Slot,
       Rx!NoBuffer, RxP!NoBuffer, Rx!NoDesc, RxP!NoDesc, Rx!Idle, RxP!Idle

LEMMA RxHwWrite == ASSUME Rx!HwWrite PROVE RxP!HwWrite
BY DEF Rx!HwWrite, RxP!HwWrite, Rx!After, RxP!After, Rx!chain, RxP!chain,
       Rx!counts, RxP!counts

LEMMA RxPollStart == ASSUME Rx!PollStart PROVE RxP!PollStart
BY DEF Rx!PollStart, RxP!PollStart, Rx!ring, RxP!ring, Rx!chain, RxP!chain,
       Rx!hw, RxP!hw, Rx!counts, RxP!counts

LEMMA RxPollClean == ASSUME Rx!PollClean PROVE RxP!PollClean
BY ZenonT(30) DEF Rx!PollClean, RxP!PollClean, Rx!CleanRx, RxP!CleanRx, Rx!CleanSkb,
       RxP!CleanSkb, Rx!CleanSplit, RxP!CleanSplit, Rx!CleanJumbo,
       RxP!CleanJumbo, Rx!Outcome, RxP!Outcome, Rx!Tossed, RxP!Tossed,
       Rx!HasError, RxP!HasError, Rx!Content, RxP!Content, Rx!Unmapped,
       RxP!Unmapped, Rx!MarkRead, RxP!MarkRead, Rx!Whole, RxP!Whole, Rx!Tell,
       RxP!Tell, Rx!Filled, RxP!Filled, Rx!FillSlot, RxP!FillSlot, Rx!Prepared,
       RxP!Prepared, Rx!WithNewSkb, RxP!WithNewSkb, Rx!WithSkb, RxP!WithSkb,
       Rx!KeepDma, RxP!KeepDma, Rx!NewSkb, RxP!NewSkb, Rx!Skb, RxP!Skb,
       Rx!After, RxP!After, Rx!Before, RxP!Before, Rx!Refill, RxP!Refill,
       Rx!Short, RxP!Short, Rx!Stuck, RxP!Stuck, Rx!NoMemory, RxP!NoMemory,
       Rx!NotMapped, RxP!NotMapped, Rx!Current, RxP!Current

LEMMA RxPollEnd == ASSUME Rx!PollEnd PROVE RxP!PollEnd
BY ZenonT(30) DEF Rx!PollEnd, RxP!PollEnd, Rx!AskUnused, RxP!AskUnused, Rx!DescUnused,
       RxP!DescUnused, Rx!Idle, RxP!Idle, Rx!chain, RxP!chain, Rx!Whole,
       RxP!Whole, Rx!Tell, RxP!Tell, Rx!Filled, RxP!Filled, Rx!FillSlot,
       RxP!FillSlot, Rx!Prepared, RxP!Prepared, Rx!WithNewSkb, RxP!WithNewSkb,
       Rx!WithSkb, RxP!WithSkb, Rx!KeepDma, RxP!KeepDma, Rx!NewSkb, RxP!NewSkb,
       Rx!Skb, RxP!Skb, Rx!After, RxP!After, Rx!Before, RxP!Before, Rx!Refill,
       RxP!Refill, Rx!Short, RxP!Short, Rx!Stuck, RxP!Stuck, Rx!NoMemory,
       RxP!NoMemory, Rx!NotMapped, RxP!NotMapped, Rx!Current, RxP!Current

LEMMA RxReset == ASSUME Rx!Reset PROVE RxP!Reset
BY DEF Rx!Whole, RxP!Whole, Rx!Tell, RxP!Tell, Rx!Filled, RxP!Filled,
       Rx!FillSlot, RxP!FillSlot, Rx!Prepared, RxP!Prepared, Rx!WithNewSkb,
       RxP!WithNewSkb, Rx!WithSkb, RxP!WithSkb, Rx!KeepDma, RxP!KeepDma,
       Rx!NewSkb, RxP!NewSkb, Rx!Skb, RxP!Skb, Rx!After, RxP!After, Rx!Before,
       RxP!Before, Rx!Reset, RxP!Reset, Rx!Empty, RxP!Empty, Rx!Slot, RxP!Slot,
       Rx!NoBuffer, RxP!NoBuffer, Rx!NoDesc, RxP!NoDesc

LEMMA RxNext == ASSUME Rx!Next PROVE RxP!Next
BY RxHwWrite, RxPollStart, RxPollClean, RxPollEnd, RxReset DEF Rx!Next, RxP!Next

RxInv == part = "rx" => RxP!IInv

LEMMA RxInvariance ==
  ASSUME None \notin Rx!Skb \cup Rx!Chain, RxMayNotMap \in BOOLEAN
  PROVE  Spec => []RxInv
<1>1. Init => RxInv
  BY RxConstants, RxInit, RxP!Start DEF Init, RxInv
<1>2. ASSUME RxInv, [Next]_vars PROVE RxInv'
  <2>1. SUFFICES ASSUME part' = "rx" PROVE RxP!IInv'
    BY DEF RxInv
  <2>2. part = "rx" /\ RxP!IInv
    BY <1>2, <2>1, PartStays DEF RxInv
  <2>3. [RxP!Next]_(RxP!vars)
    BY <1>2, <2>2, RxMoves, RxNext
    DEF RxP!vars, RxP!ring, RxP!chain, RxP!hw, RxP!counts, slots
  <2>. QED BY <2>2, <2>3, RxConstants, RxP!Step
<1>. QED BY <1>1, <1>2, PTL DEF Spec

(***************************************************************************)
(* The controller writes only to mapped buffers, every skb is with one     *)
(* owner and the stack receives whole, good frames in order, in the three  *)
(* shapes of the ring, with allocations that fail and a reset, if buffers  *)
(* can be mapped.                                                          *)
(***************************************************************************)
THEOREM ReceiveRingInDriver ==
  ASSUME None \notin Rx!Skb \cup Rx!Chain, RxMayNotMap = FALSE
  PROVE  Spec => []ReceiveRingIsSafe
<1>1. RxInv => ReceiveRingIsSafe
  <2>1. SUFFICES ASSUME part = "rx", RxP!IInv
                 PROVE  Rx!WritesAreMapped /\ Rx!SkbsAccounted /\ Rx!WholeFrames
    BY DEF RxInv, ReceiveRingIsSafe
  <2>2. RxP!WritesAreMapped
    BY <2>1, RxConstants, RxP!Mapped
  <2>3. RxP!SkbsAccounted
    BY <2>1, RxP!Owned
  <2>4. RxP!WholeFrames
    BY <2>1 DEF RxP!IInv, RxP!Between
  <2>5. Rx!WritesAreMapped
    BY <2>2 DEF Rx!WritesAreMapped, RxP!WritesAreMapped, Rx!Span, RxP!Span
  <2>6. Rx!SkbsAccounted
    BY <2>3 DEF Rx!SkbsAccounted, RxP!SkbsAccounted, Rx!Slot, RxP!Slot
  <2>7. Rx!WholeFrames
    BY <2>4 DEF Rx!WholeFrames, RxP!WholeFrames
  <2>. QED BY <2>5, <2>6, <2>7
<1>2. Spec => []RxInv
  BY RxInvariance
<1>. QED BY <1>1, <1>2, PTL
-----------------------------------------------------------------------------
(* Interrupts and polls: three modes, without netconsole and with it. *)

LEMMA NapiInit == ASSUME Napi!Init PROVE HwP!I!Init
BY DEF Napi!Init, HwP!I!Init, Napi!EnableMask, HwP!I!EnableMask,
       Napi!EiacMask, HwP!I!EiacMask

LEMMA NapiNext == ASSUME Napi!Next PROVE HwP!I!Next
BY DEF Napi!Next, HwP!I!Next, Napi!irq, HwP!I!irq, Napi!work, HwP!I!work,
       Napi!sched, HwP!I!sched, Napi!link, HwP!I!link, Napi!state,
       HwP!I!state, Napi!Hw, HwP!I!Hw, Napi!HwReceive, HwP!I!HwReceive,
       Napi!HwSent, HwP!I!HwSent, Napi!HwLinkChange, HwP!I!HwLinkChange,
       Napi!HwEccError, HwP!I!HwEccError, Napi!Handler, HwP!I!Handler,
       Napi!Interrupt, HwP!I!Interrupt, Napi!InterruptRx, HwP!I!InterruptRx,
       Napi!InterruptTx, HwP!I!InterruptTx, Napi!InterruptOther,
       HwP!I!InterruptOther, Napi!HandleAll, HwP!I!HandleAll, Napi!HandleRx,
       HwP!I!HandleRx, Napi!HandleTx, HwP!I!HandleTx, Napi!HandleOther,
       HwP!I!HandleOther, Napi!NapiSchedule, HwP!I!NapiSchedule,
       Napi!ArmUnlessDown, HwP!I!ArmUnlessDown, Napi!RaiseAgain,
       HwP!I!RaiseAgain, Napi!EiacMask, HwP!I!EiacMask, Napi!Poll,
       HwP!I!Poll, Napi!PollClean, HwP!I!PollClean, Napi!PollComplete,
       HwP!I!PollComplete, Napi!PollEnable, HwP!I!PollEnable, Napi!Done,
       HwP!I!Done, Napi!EnableAfterPoll, HwP!I!EnableAfterPoll,
       Napi!EnableMask, HwP!I!EnableMask, Napi!Watchdog, HwP!I!Watchdog,
       Napi!DownStart, HwP!I!DownStart, Napi!UpSteps, HwP!I!UpSteps,
       Napi!DownMask, HwP!I!DownMask, Napi!DownSync, HwP!I!DownSync, Napi!Up,
       HwP!I!Up, Napi!UpTrigger, HwP!I!UpTrigger, Napi!NetpollAll,
       HwP!I!NetpollAll, Napi!NetpollRx, HwP!I!NetpollRx, Napi!NetpollTx,
       HwP!I!NetpollTx, Napi!NetpollOther, HwP!I!NetpollOther

NapiInv == part = "irq" => HwP!IrqInv

LEMMA NapiInvariance == Spec => []NapiInv
<1>. HwP!I!Assumption
  BY DEF HwP!I!Assumption
<1>1. Init => NapiInv
  BY NapiInit, HwP!IrqStart DEF Init, NapiInv
<1>2. ASSUME NapiInv, [Next]_vars PROVE NapiInv'
  <2>1. SUFFICES ASSUME part' = "irq" PROVE HwP!IrqInv'
    BY DEF NapiInv
  <2>2. part = "irq" /\ HwP!IrqInv
    BY <1>2, <2>1, PartStays DEF NapiInv
  <2>3. [HwP!I!Next]_(HwP!I!vars)
    BY <1>2, <2>2, NapiMoves, NapiNext
    DEF HwP!I!vars, HwP!I!irq, HwP!I!work, HwP!I!sched, HwP!I!link, HwP!I!state, slots
  <2>. QED BY <2>2, <2>3, HwP!IrqStep
<1>. QED BY <1>1, <1>2, PTL DEF Spec

LEMMA PollInit == ASSUME Poll!Init PROVE PollP!I!Init
BY DEF Poll!Init, PollP!I!Init, Poll!EnableMask, PollP!I!EnableMask,
       Poll!EiacMask, PollP!I!EiacMask

LEMMA PollNext == ASSUME Poll!Next PROVE PollP!I!Next
BY DEF Poll!Next, PollP!I!Next, Poll!irq, PollP!I!irq, Poll!work, PollP!I!work,
       Poll!sched, PollP!I!sched, Poll!link, PollP!I!link, Poll!state,
       PollP!I!state, Poll!Hw, PollP!I!Hw, Poll!HwReceive, PollP!I!HwReceive,
       Poll!HwSent, PollP!I!HwSent, Poll!HwLinkChange, PollP!I!HwLinkChange,
       Poll!HwEccError, PollP!I!HwEccError, Poll!Handler, PollP!I!Handler,
       Poll!Interrupt, PollP!I!Interrupt, Poll!InterruptRx, PollP!I!InterruptRx,
       Poll!InterruptTx, PollP!I!InterruptTx, Poll!InterruptOther,
       PollP!I!InterruptOther, Poll!HandleAll, PollP!I!HandleAll, Poll!HandleRx,
       PollP!I!HandleRx, Poll!HandleTx, PollP!I!HandleTx, Poll!HandleOther,
       PollP!I!HandleOther, Poll!NapiSchedule, PollP!I!NapiSchedule,
       Poll!ArmUnlessDown, PollP!I!ArmUnlessDown, Poll!RaiseAgain,
       PollP!I!RaiseAgain, Poll!EiacMask, PollP!I!EiacMask, Poll!Poll,
       PollP!I!Poll, Poll!PollClean, PollP!I!PollClean, Poll!PollComplete,
       PollP!I!PollComplete, Poll!PollEnable, PollP!I!PollEnable, Poll!Done,
       PollP!I!Done, Poll!EnableAfterPoll, PollP!I!EnableAfterPoll,
       Poll!EnableMask, PollP!I!EnableMask, Poll!Watchdog, PollP!I!Watchdog,
       Poll!DownStart, PollP!I!DownStart, Poll!UpSteps, PollP!I!UpSteps,
       Poll!DownMask, PollP!I!DownMask, Poll!DownSync, PollP!I!DownSync, Poll!Up,
       PollP!I!Up, Poll!UpTrigger, PollP!I!UpTrigger, Poll!NetpollAll,
       PollP!I!NetpollAll, Poll!NetpollRx, PollP!I!NetpollRx, Poll!NetpollTx,
       PollP!I!NetpollTx, Poll!NetpollOther, PollP!I!NetpollOther

PollInv == part = "netpoll" => PollP!IrqInv

LEMMA PollInvariance == Spec => []PollInv
<1>. PollP!I!Assumption
  BY DEF PollP!I!Assumption
<1>1. Init => PollInv
  BY PollInit, PollP!IrqStart DEF Init, PollInv
<1>2. ASSUME PollInv, [Next]_vars PROVE PollInv'
  <2>1. SUFFICES ASSUME part' = "netpoll" PROVE PollP!IrqInv'
    BY DEF PollInv
  <2>2. part = "netpoll" /\ PollP!IrqInv
    BY <1>2, <2>1, PartStays DEF PollInv
  <2>3. [PollP!I!Next]_(PollP!I!vars)
    BY <1>2, <2>2, PollMoves, PollNext
    DEF PollP!I!vars, PollP!I!irq, PollP!I!work, PollP!I!sched, PollP!I!link, PollP!I!state, slots
  <2>. QED BY <2>2, <2>3, PollP!IrqStep
<1>. QED BY <1>1, <1>2, PTL DEF Spec

(***************************************************************************)
(* Work on the rings is always announced, what is masked will be enabled,  *)
(* and nothing touches the rings of an interface that is down, unless      *)
(* netconsole does.                                                        *)
(***************************************************************************)
THEOREM InterruptsInDriver == Spec => []InterruptsAreSafe
<1>1. NapiInv /\ PollInv => InterruptsAreSafe
  <2>1. ASSUME HwP!IrqInv PROVE Napi!QuietWhileDown
    BY <2>1 DEF HwP!IrqInv, HwP!Quiet, HwP!I!QuietWhileDown, Napi!QuietWhileDown
  <2>2. ASSUME PollP!IrqInv PROVE Poll!WorkIsAnnounced /\ Poll!MaskedIsTransient
    BY <2>2, PollP!Announces, PollP!Enables
    DEF PollP!I!WorkIsAnnounced, Poll!WorkIsAnnounced, PollP!I!MaskedIsTransient,
        Poll!MaskedIsTransient, PollP!I!EnableMask, Poll!EnableMask, PollP!I!EiacMask,
        Poll!EiacMask
  <2>. QED BY <2>1, <2>2 DEF NapiInv, PollInv, InterruptsAreSafe
<1>. QED BY <1>1, NapiInvariance, PollInvariance, PTL
-----------------------------------------------------------------------------
(* The PHY: two threads, five families, and pages whose accesses may fail. *)

LEMMA PhyConstants == HwP!P!Assumption
<1>. DEFINE Asks == [page : Nat, reg : Nat, session : BOOLEAN]
<1>1. \A p, r \in Nat : Access(p, r) \in Asks /\ InSession(p, r) \in Asks
  BY DEF Asks, Access, InSession
<1>. HIDE DEF Asks
<1>2. ASSUME NEW a \in PhyAccesses["m88"] PROVE a \in Asks /\ HwP!P!CanAsk("m88", a)
  <2>1. a \in Asks
    BY <1>1 DEF PhyAccesses
  <2>2. HwP!P!CanAsk("m88", a)
    BY DEF PhyAccesses, Access, HwP!P!CanAsk, HwP!P!WucPage
  <2>. QED BY <2>1, <2>2
<1>3. ASSUME NEW a \in PhyAccesses["igp"] PROVE a \in Asks /\ HwP!P!CanAsk("igp", a)
  <2>1. a \in Asks
    BY <1>1 DEF PhyAccesses
  <2>2. HwP!P!CanAsk("igp", a)
    BY DEF PhyAccesses, Access, HwP!P!CanAsk, HwP!P!WucPage
  <2>. QED BY <2>1, <2>2
<1>4. ASSUME NEW a \in PhyAccesses["bm"] PROVE a \in Asks /\ HwP!P!CanAsk("bm", a)
  <2>1. a \in Asks
    BY <1>1 DEF PhyAccesses
  <2>2. HwP!P!CanAsk("bm", a)
    BY DEF PhyAccesses, Access, HwP!P!CanAsk, HwP!P!WucPage
  <2>. QED BY <2>1, <2>2
<1>5. ASSUME NEW a \in PhyAccesses["bm2"] PROVE a \in Asks /\ HwP!P!CanAsk("bm2", a)
  <2>1. a \in Asks
    BY <1>1 DEF PhyAccesses
  <2>2. HwP!P!CanAsk("bm2", a)
    BY DEF PhyAccesses, Access, HwP!P!CanAsk, HwP!P!WucPage
  <2>. QED BY <2>1, <2>2
<1>6. ASSUME NEW a \in PhyAccesses["hv"] PROVE a \in Asks /\ HwP!P!CanAsk("hv", a)
  <2>1. a \in Asks
    BY <1>1, SMTT(30) DEF PhyAccesses
  <2>2. HwP!P!CanAsk("hv", a)
    BY DEF PhyAccesses, Access, InSession, HwP!P!CanAsk, HwP!P!WucPage,
            HwP!P!IntcFcPageStart, HwP!P!MultiPage
  <2>. QED BY <2>1, <2>2
<1>. QED BY <1>2, <1>3, <1>4, <1>5, <1>6 DEF Asks, HwP!P!Assumption

LEMMA PhyInit == ASSUME Phy!Init PROVE HwP!P!Init
BY DEF Phy!Init, HwP!P!Init, Phy!Idle, HwP!P!Idle, Phy!Access, HwP!P!Access

LEMMA PhyNext == ASSUME Phy!Next PROVE HwP!P!Next
BY DEF Phy!WucPage, HwP!P!WucPage, Phy!PortCtrlPage, HwP!P!PortCtrlPage,
       Phy!IntcFcPageStart, HwP!P!IntcFcPageStart, Phy!StatsPage,
       HwP!P!StatsPage, Phy!MultiPage, HwP!P!MultiPage, Phy!Shifted,
       HwP!P!Shifted, Phy!Offset, HwP!P!Offset, Phy!Access, HwP!P!Access,
       Phy!Addr, HwP!P!Addr, Phy!Back, HwP!P!Back, Phy!Put, HwP!P!Put,
       Phy!Make, HwP!P!Make, Phy!Save, HwP!P!Save, Phy!Open, HwP!P!Open,
       Phy!Restore, HwP!P!Restore, Phy!SetPageIgp, HwP!P!SetPageIgp,
       Phy!EnableWakeup, HwP!P!EnableWakeup, Phy!DisableWakeup, HwP!P!DisableWakeup,
       Phy!WakeupReg, HwP!P!WakeupReg, Phy!AccessWakeup, HwP!P!AccessWakeup,
       Phy!AccessDebug, HwP!P!AccessDebug, Phy!M88, HwP!P!M88, Phy!Igp,
       HwP!P!Igp, Phy!AddrForBmPage, HwP!P!AddrForBmPage, Phy!BmSelect,
       HwP!P!BmSelect, Phy!Bm, HwP!P!Bm, Phy!Bm2, HwP!P!Bm2,
       Phy!AddrForHvPage, HwP!P!AddrForHvPage, Phy!HvPaged, HwP!P!HvPaged, Phy!Hv, HwP!P!Hv,
       Phy!HvSession, HwP!P!HvSession, Phy!Program, HwP!P!Program,
       Phy!Reached, HwP!P!Reached, Phy!Named, HwP!P!Named, Phy!Selects,
       HwP!P!Selects, Phy!IsWuc, HwP!P!IsWuc, Phy!DevicePut, HwP!P!DevicePut,
       Phy!Device, HwP!P!Device, Phy!Begin, HwP!P!Begin, Phy!Acquire,
       HwP!P!Acquire, Phy!Refused, HwP!P!Refused, Phy!Running, HwP!P!Running,
       Phy!Assign, HwP!P!Assign, Phy!MdicWrite, HwP!P!MdicWrite, Phy!MdicSave,
       HwP!P!MdicSave, Phy!MdicAccess, HwP!P!MdicAccess, Phy!AfterFailure,
       HwP!P!AfterFailure, Phy!MdicFails, HwP!P!MdicFails, Phy!Release,
       HwP!P!Release, Phy!Return, HwP!P!Return, Phy!Asked, HwP!P!Asked,
       Phy!Next, HwP!P!Next, Phy!Idle, HwP!P!Idle

PagesInv == part = "phy" => HwP!PhyInv

LEMMA PagesInvariance == ASSUME "hv" \in PhyAlone PROVE Spec => []PagesInv
<1>. HwP!OneByOne
  BY DEF HwP!OneByOne
<1>1. Init => PagesInv
  BY PhyConstants, PhyInit, HwP!PhyStart DEF Init, PagesInv
<1>2. ASSUME PagesInv, [Next]_vars PROVE PagesInv'
  <2>1. SUFFICES ASSUME part' = "phy" PROVE HwP!PhyInv'
    BY DEF PagesInv
  <2>2. part = "phy" /\ HwP!PhyInv
    BY <1>2, <2>1, PartStays DEF PagesInv
  <2>3. [HwP!P!Next]_(HwP!P!vars)
    BY <1>2, <2>2, PhyMoves, PhyNext DEF HwP!P!vars, slots
  <2>. QED BY <2>2, <2>3, PhyConstants, HwP!PhyStep
<1>. QED BY <1>1, <1>2, PTL DEF Spec

(***************************************************************************)
(* A PHY access that succeeds reaches the page and the register it was     *)
(* asked for, and the bits that open the wakeup registers are closed again *)
(* when the semaphore is free, if the accesses of an hv PHY do not overlap *)
(* (its variants assign hw->phy.addr before they have the semaphore).      *)
(***************************************************************************)
THEOREM PhyInDriver == ASSUME "hv" \in PhyAlone PROVE Spec => []PhyAccessIsExact
<1>1. PagesInv => PhyAccessIsExact
  <2>1. SUFFICES ASSUME part = "phy", HwP!PhyInv
                 PROVE  Phy!AccessesReachTheirRegister /\ Phy!WakeupBitsAreRestored
    BY DEF PagesInv, PhyAccessIsExact
  <2>2. HwP!P!AccessesReachTheirRegister
    BY <2>1, HwP!Reaches
  <2>3. HwP!P!WakeupBitsAreRestored
    BY <2>1, PhyConstants, HwP!Restores
  <2>4. Phy!AccessesReachTheirRegister
    BY <2>2
    DEF Phy!AccessesReachTheirRegister, HwP!P!AccessesReachTheirRegister, Phy!Named, HwP!P!Named, Phy!WucPage, HwP!P!WucPage, Phy!AddrForBmPage,
       HwP!P!AddrForBmPage, Phy!Offset, HwP!P!Offset, Phy!Shifted,
       HwP!P!Shifted, Phy!AddrForHvPage, HwP!P!AddrForHvPage,
       Phy!IntcFcPageStart, HwP!P!IntcFcPageStart, Phy!MultiPage,
       HwP!P!MultiPage
  <2>5. Phy!WakeupBitsAreRestored
    BY <2>3 DEF Phy!WakeupBitsAreRestored, HwP!P!WakeupBitsAreRestored, Phy!WucPage,
                HwP!P!WucPage
  <2>. QED BY <2>4, <2>5
<1>. QED BY <1>1, PagesInvariance, PTL
-----------------------------------------------------------------------------
(* The NVM in flash: banks of six words, three ways to access them. *)

(* Banks of one sector or two, and no step that goes wrong unnoticed. *)
FlashIs == SectorWords \in {3, 6} /\ FlashMayFail \cap {"detect", "persist"} = {}

LEMMA ImageAddsUp == NvmP!Total(Image) = 2
<1>1. /\ Image[0] = 2 /\ Image[1] = 0 /\ Image[2] = 1 /\ Image[3] = 3
  BY DEF Image
<1>2. NvmP!SumTo(Image, 0) = 2
  <2>1. NvmP!SumsOf(Image, 0) = [w \in 0 .. 0 |-> IF w = 0 THEN Image[0]
                                                 ELSE NvmP!SumsOf(Image, 0)[w - 1] + Image[w]]
    BY NvmP!SumsEquation
  <2>. QED BY <1>1, <2>1, NvmP!SumToIs
<1>3. NvmP!SumTo(Image, 0 + 1) = 2
  BY <1>1, <1>2, NvmP!SumGrows
<1>4. NvmP!SumTo(Image, 1 + 1) = 3
  BY <1>1, <1>3, NvmP!SumGrows
<1>5. NvmP!SumTo(Image, 2 + 1) = 6
  BY <1>1, <1>4, NvmP!SumGrows
<1>. QED BY <1>5 DEF NvmP!Total

LEMMA FlashConstants ==
  ASSUME FlashIs
  PROVE  NvmP!Assumption /\ NvmP!TwoSectors /\ NvmP!Noticed /\ NvmP!OneByOne
<1>1. Image \in [0 .. 6 - 1 -> 0 .. 3]
  BY DEF Image
<1>2. 6 % SectorWords = 0 /\ SectorWords \in Nat /\ SectorWords > 1
  <2>1. 6 % 3 = 0 /\ 6 % 6 = 0
    OBVIOUS
  <2>. QED BY <2>1 DEF FlashIs
<1>3. NvmP!Assumption
  BY <1>1, <1>2, ImageAddsUp DEF NvmP!Assumption, NvmP!SigWord
<1>. QED BY <1>3 DEF FlashIs, NvmP!TwoSectors, NvmP!Noticed, NvmP!OneByOne

LEMMA FlashInit == ASSUME Flash!Init PROVE NvmP!Init
BY DEF Flash!Init, NvmP!Init, Flash!Idle, NvmP!Idle, Flash!Clean, NvmP!Clean,
       Flash!NotModified, NvmP!NotModified, Flash!Erased, NvmP!Erased

LEMMA FlashNext == ASSUME Flash!Next PROVE NvmP!Next
BY DEF Flash!Erased, NvmP!Erased, Flash!And, NvmP!And, Flash!SigWord,
       NvmP!SigWord, Flash!NotModified, NvmP!NotModified, Flash!Clean,
       NvmP!Clean, Flash!Start, NvmP!Start, Flash!Image, NvmP!Image,
       Flash!SumTo, NvmP!SumTo, Flash!Total, NvmP!Total, Flash!Valid,
       NvmP!Valid, Flash!SigRead, NvmP!SigRead, Flash!Detected, NvmP!Detected,
       Flash!Bank, NvmP!Bank, Flash!Overlaid, NvmP!Overlaid, Flash!Idle,
       NvmP!Idle, Flash!Loads, NvmP!Loads, Flash!Go, NvmP!Go, Flash!ReadWord,
       NvmP!ReadWord, Flash!ReadSpt, NvmP!ReadSpt, Flash!ReadNvmNoShadow,
       NvmP!ReadNvmNoShadow, Flash!ReadNvm, NvmP!ReadNvm, Flash!Read,
       NvmP!Read, Flash!Write, NvmP!Write, Flash!Fails, NvmP!Fails,
       Flash!UpdateSum, NvmP!UpdateSum, Flash!Detect, NvmP!Detect,
       Flash!EraseSector, NvmP!EraseSector, Flash!EraseEnds, NvmP!EraseEnds,
       Flash!Step, NvmP!Step, Flash!Program, NvmP!Program, Flash!MarkNew,
       NvmP!MarkNew, Flash!VoidOld, NvmP!VoidOld, Flash!ClearAndReload,
       NvmP!ClearAndReload, Flash!Crash, NvmP!Crash, Flash!Next, NvmP!Next

FlashInv == part = "flash" => NvmP!IInv /\ NvmP!Reading

LEMMA FlashStays ==
  ASSUME part = "flash", [Next]_vars PROVE [NvmP!Next]_(NvmP!vars)
BY FlashMoves, FlashNext DEF NvmP!vars, slots

LEMMA FlashInvariance == ASSUME FlashIs PROVE Spec => []FlashInv
<1>1. Init => FlashInv
  BY FlashConstants, FlashInit, NvmP!Begins, NvmP!ReadingBegins DEF Init, FlashInv
<1>2. ASSUME FlashInv, [Next]_vars PROVE FlashInv'
  <2>1. SUFFICES ASSUME part' = "flash" PROVE NvmP!IInv' /\ NvmP!Reading'
    BY DEF FlashInv
  <2>2. part = "flash" /\ NvmP!IInv /\ NvmP!Reading
    BY <1>2, <2>1, PartStays DEF FlashInv
  <2>3. [NvmP!Next]_(NvmP!vars)
    BY <1>2, <2>2, FlashStays
  <2>4. NvmP!IInv'
    BY <2>2, <2>3, FlashConstants, NvmP!Steps
  <2>5. NvmP!Reading'
    BY <2>2, <2>3, FlashConstants, NvmP!ReadingKeeps
  <2>. QED BY <2>4, <2>5
<1>. QED BY <1>1, <1>2, PTL DEF Spec
-----------------------------------------------------------------------------
(* The words of an EEPROM: twelve words, pages of two, four kinds. *)

(* What ethtool may write: no range goes beyond the last word, and none from *)
(* the words below the eighth address bit to those above.                    *)
RangesAre ==
  /\ EepromRanges \subseteq Nat \X (Nat \ {0})
  /\ \A r \in EepromRanges : r[1] + r[2] <= 24 /\ (r[1] < 12 => r[1] + r[2] <= 12)

LEMMA WordsConstants == ASSUME RangesAre PROVE NvmP!E!Assumption /\ NvmP!OneHalf
<1>1. NvmP!E!Assumption
  BY DEF RangesAre, NvmP!E!Assumption
<1>2. ASSUME NEW r \in EepromRanges, NvmP!E!FirstWord(r) < 6 PROVE NvmP!E!LastWord(r) < 6
  <2>1. r[1] \in Nat /\ r[2] \in Nat /\ (r[1] < 12 => r[1] + r[2] <= 12)
    BY DEF RangesAre
  <2>. QED BY <1>2, <2>1 DEF NvmP!E!FirstWord, NvmP!E!LastWord
<1>. QED BY <1>1, <1>2 DEF NvmP!OneHalf

LEMMA WordsInit == ASSUME Eeprom!Init PROVE NvmP!E!Init
BY DEF Eeprom!Init, NvmP!E!Init, Eeprom!Idle, NvmP!E!Idle, Eeprom!Word, NvmP!E!Word,
       Eeprom!Byte, NvmP!E!Byte, Eeprom!Covered, NvmP!E!Covered

LEMMA WordsNext == ASSUME Eeprom!Next PROVE NvmP!E!Next
BY DEF Eeprom!Byte, NvmP!E!Byte, Eeprom!Word, NvmP!E!Word, Eeprom!Covered,
       NvmP!E!Covered, Eeprom!Idle, NvmP!E!Idle, Eeprom!FirstWord,
       NvmP!E!FirstWord, Eeprom!LastWord, NvmP!E!LastWord, Eeprom!InRange,
       NvmP!E!InRange, Eeprom!Merged, NvmP!E!Merged, Eeprom!SetEeprom,
       NvmP!E!SetEeprom, Eeprom!Count, NvmP!E!Count, Eeprom!Address,
       NvmP!E!Address, Eeprom!DeviceWord, NvmP!E!DeviceWord, Eeprom!ToPageEnd,
       NvmP!E!ToPageEnd, Eeprom!InPage, NvmP!E!InPage, Eeprom!Stored,
       NvmP!E!Stored, Eeprom!WritePage, NvmP!E!WritePage, Eeprom!WriteWord,
       NvmP!E!WriteWord, Eeprom!WriteFails, NvmP!E!WriteFails, Eeprom!NeedsSum,
       NvmP!E!NeedsSum, Eeprom!WriteEnds, NvmP!E!WriteEnds, Eeprom!UpdateSum,
       NvmP!E!UpdateSum, Eeprom!AskCommit, NvmP!E!AskCommit, Eeprom!Committed,
       NvmP!E!Committed, Eeprom!Next, NvmP!E!Next

WordsInv == part = "words" => NvmP!EepromInv

LEMMA WordsInvariance == ASSUME RangesAre PROVE Spec => []WordsInv
<1>1. Init => WordsInv
  BY WordsConstants, WordsInit, NvmP!EepromBegins DEF Init, WordsInv
<1>2. ASSUME WordsInv, [Next]_vars PROVE WordsInv'
  <2>1. SUFFICES ASSUME part' = "words" PROVE NvmP!EepromInv'
    BY DEF WordsInv
  <2>2. part = "words" /\ NvmP!EepromInv
    BY <1>2, <2>1, PartStays DEF WordsInv
  <2>3. [NvmP!E!Next]_(NvmP!E!vars)
    BY <1>2, <2>2, WordsMoves, WordsNext DEF NvmP!E!vars, slots
  <2>. QED BY <2>2, <2>3, WordsConstants, NvmP!EepromSteps
<1>. QED BY <1>1, <1>2, PTL DEF Spec

(***************************************************************************)
(* Wherever the power is lost while the flash is updated, a bank is valid, *)
(* an update takes effect in one step, and reads see what has been         *)
(* written; and e1000_set_eeprom changes the bytes it was given and no     *)
(* others.                                                                 *)
(***************************************************************************)
THEOREM NvmInDriver ==
  ASSUME FlashIs, RangesAre PROVE Spec => NvmKeepsItsData
<1>1. FlashInv => (part = "flash" => Flash!ABankIsValid /\ Flash!ReadsSeeWrites)
  <2>1. ASSUME NvmP!IInv, NvmP!Reading PROVE Flash!ABankIsValid /\ Flash!ReadsSeeWrites
    BY <2>1
    DEF NvmP!IInv, NvmP!Reading, NvmP!ABankIsValid, Flash!ABankIsValid, NvmP!Valid,
        Flash!Valid, NvmP!Total, Flash!Total, NvmP!SumTo, Flash!SumTo, NvmP!Image,
        Flash!Image, NvmP!Start, Flash!Start, NvmP!ReadsSeeWrites, Flash!ReadsSeeWrites,
        NvmP!ReadWord, Flash!ReadWord, NvmP!Bank, Flash!Bank, NvmP!Detected,
        Flash!Detected, NvmP!SigRead, Flash!SigRead
  <2>. QED BY <2>1 DEF FlashInv
<1>2. WordsInv => (part = "words" => Eeprom!SetIsExact)
  BY DEF WordsInv, NvmP!EepromInv, NvmP!E!SetIsExact, Eeprom!SetIsExact, NvmP!E!InRange,
         Eeprom!InRange, NvmP!E!Byte, Eeprom!Byte, NvmP!E!FirstWord, Eeprom!FirstWord,
         NvmP!E!Covered, Eeprom!Covered
<1>3. FlashInv /\ [Next]_vars => [part = "flash" => Flash!CommitStep]_vars
  <2>1. SUFFICES ASSUME FlashInv, [Next]_vars, part = "flash" PROVE Flash!CommitStep
    OBVIOUS
  <2>2. NvmP!CommitStep
    BY <2>1, FlashStays, FlashConstants, NvmP!Commits DEF FlashInv
  <2>. QED BY <2>2
    DEF NvmP!CommitStep, Flash!CommitStep, NvmP!Image, Flash!Image, NvmP!Start,
        Flash!Start, NvmP!Overlaid, Flash!Overlaid, NvmP!Bank, Flash!Bank,
        NvmP!Detected, Flash!Detected, NvmP!SigRead, Flash!SigRead, NvmP!Valid,
        Flash!Valid
<1>. QED BY <1>1, <1>2, <1>3, FlashInvariance, WordsInvariance, PTL
         DEF Spec, NvmKeepsItsData
-----------------------------------------------------------------------------
(* The receive filters: four kinds of controllers, calls that do not overlap. *)

LEMMA FiltConstants ==
  ASSUME FilterCookies \subseteq Nat \cup {-1} PROVE RxP!F!Assumption
<1>1. <<"b", "a">> \in Seq({<<"b", "a">>[k] : k \in DOMAIN <<"b", "a">>})
  OBVIOUS
<1>2. <<"a", "b", "c">> \in Seq({<<"a", "b", "c">>[k] : k \in DOMAIN <<"a", "b", "c">>})
  OBVIOUS
<1>3. <<"a">> \in Seq({<<"a">>[k] : k \in DOMAIN <<"a">>})
  OBVIOUS
<1>4. <<>> \in Seq({<<>>[k] : k \in DOMAIN <<>>})
  OBVIOUS
<1>5. \A list \in {<<>>, <<"a">>, <<"b", "a">>, <<"a", "b", "c">>} :
         list \in Seq({list[k] : k \in DOMAIN list})
  BY <1>1, <1>2, <1>3, <1>4
<1>. QED BY <1>5 DEF RxP!F!Assumption, RxP!F!NoVid

LEMMA FiltInit == ASSUME Filt!Init PROVE RxP!F!Init
BY DEF Filt!Init, RxP!F!Init, Filt!Threads, RxP!F!Threads, Filt!NoVid, RxP!F!NoVid,
       Filt!NoAddress, RxP!F!NoAddress, Filt!RxMode, RxP!F!RxMode, Filt!Configure,
       RxP!F!Configure

LEMMA FiltNext == ASSUME Filt!Next PROVE RxP!F!Next
BY DEF Filt!table, RxP!F!table, Filt!asked, RxP!F!asked, Filt!vlan, RxP!F!vlan,
       Filt!Threads, RxP!F!Threads, Filt!NoVid, RxP!F!NoVid, Filt!NoAddress,
       RxP!F!NoAddress, Filt!Bits, RxP!F!Bits, Filt!Word, RxP!F!Word, Filt!Hash,
       RxP!F!Hash, Filt!HasVlan, RxP!F!HasVlan, Filt!Shared, RxP!F!Shared, Filt!Free,
       RxP!F!Free, Filt!RxMode, RxP!F!RxMode, Filt!Add, RxP!F!Add, Filt!Kill,
       RxP!F!Kill, Filt!Configure, RxP!F!Configure, Filt!Reset, RxP!F!Reset,
       Filt!Idle, RxP!F!Idle, Filt!Quiet, RxP!F!Quiet, Filt!MayBegin, RxP!F!MayBegin,
       Filt!Begin, RxP!F!Begin, Filt!SetRxMode, RxP!F!SetRxMode, Filt!AddVid,
       RxP!F!AddVid, Filt!KillVid, RxP!F!KillVid, Filt!SetMac, RxP!F!SetMac,
       Filt!ResetTask, RxP!F!ResetTask, Filt!WatchMng, RxP!F!WatchMng, Filt!WatchLaa,
       RxP!F!WatchLaa, Filt!OtherPortResets, RxP!F!OtherPortResets,
       Filt!FirmwareChanges, RxP!F!FirmwareChanges, Filt!KeepsLists,
       RxP!F!KeepsLists, Filt!Goes, RxP!F!Goes, Filt!Holds, RxP!F!Holds, Filt!RxRead,
       RxP!F!RxRead, Filt!Placed, RxP!F!Placed, Filt!Put, RxP!F!Put, Filt!Zeroed,
       RxP!F!Zeroed, Filt!UcFails, RxP!F!UcFails, Filt!WriteUc, RxP!F!WriteUc,
       Filt!MtaOf, RxP!F!MtaOf, Filt!WriteMc, RxP!F!WriteMc, Filt!FilterOff,
       RxP!F!FilterOff, Filt!FilterOn, RxP!F!FilterOn, Filt!RxLists, RxP!F!RxLists,
       Filt!RxWrite, RxP!F!RxWrite, Filt!IsCookie, RxP!F!IsCookie, Filt!AddRead,
       RxP!F!AddRead, Filt!AddWrite, RxP!F!AddWrite, Filt!KillRead, RxP!F!KillRead,
       Filt!KillWrite, RxP!F!KillWrite, Filt!Mng, RxP!F!Mng, Filt!MngIs, RxP!F!MngIs,
       Filt!Restore, RxP!F!Restore, Filt!RestoreFrom, RxP!F!RestoreFrom,
       Filt!MacFirst, RxP!F!MacFirst, Filt!MacLast, RxP!F!MacLast, Filt!ClearedVfta,
       RxP!F!ClearedVfta, Filt!Fresh, RxP!F!Fresh, Filt!Hw, RxP!F!Hw, Filt!Step,
       RxP!F!Step, Filt!Next, RxP!F!Next

FiltersInv == part = "filters" => RxP!FilterInv /\ RxP!MacInv

LEMMA FiltersInvariance ==
  ASSUME FilterOverlap = FALSE, FilterCookies \subseteq Nat \cup {-1},
         FilterCookies \cap {1, 2, 6} = {}
  PROVE  Spec => []FiltersInv
<1>1. Init => FiltersInv
  BY FiltConstants, FiltInit, RxP!FilterStart, RxP!MacStart DEF Init, FiltersInv
<1>2. ASSUME FiltersInv, [Next]_vars PROVE FiltersInv'
  <2>1. SUFFICES ASSUME part' = "filters" PROVE RxP!FilterInv' /\ RxP!MacInv'
    BY DEF FiltersInv
  <2>2. part = "filters" /\ RxP!FilterInv /\ RxP!MacInv
    BY <1>2, <2>1, PartStays DEF FiltersInv
  <2>3. [RxP!F!Next]_(RxP!F!vars)
    BY <1>2, <2>2, FiltMoves, FiltNext
    DEF RxP!F!vars, RxP!F!table, RxP!F!vlan, RxP!F!asked, slots
  <2>4. RxP!FilterTypes
    BY <2>2 DEF RxP!FilterInv
  <2>5. RxP!FilterInv'
    BY <2>2, <2>3, FiltConstants, RxP!FilterStays
  <2>6. RxP!MacInv'
    BY <2>2, <2>3, <2>4, FiltConstants, RxP!MacStays
  <2>. QED BY <2>5, <2>6
<1>. QED BY <1>1, <1>2, PTL DEF Spec

(***************************************************************************)
(* The controller hears the addresses, the groups and the VLANs that the   *)
(* stack asks for, no more than it has to, and the interface's own         *)
(* address, if calls do not overlap and the VLAN of the firmware is none   *)
(* of the stack's.                                                         *)
(***************************************************************************)
THEOREM FiltersInDriver ==
  ASSUME FilterOverlap = FALSE, FilterCookies \subseteq Nat \cup {-1},
         FilterCookies \cap {1, 2, 6} = {}
  PROVE  Spec => []FiltersFollowStack
<1>1. FiltersInv => FiltersFollowStack
  <2>1. SUFFICES ASSUME part = "filters", RxP!FilterInv, RxP!MacInv
                 PROVE  Filt!FiltersAgree /\ Filt!MacIsHeard
    BY DEF FiltersInv, FiltersFollowStack
  <2>2. RxP!F!FiltersAgree
    BY <2>1, FiltConstants, RxP!FiltersDoAgree
  <2>3. RxP!F!MacIsHeard
    BY <2>1, FiltConstants, RxP!MacIsWritten DEF RxP!FilterInv
  <2>. QED BY <2>2, <2>3
    DEF Filt!FiltersAgree, RxP!F!FiltersAgree, Filt!ListsAreHeard,
      RxP!F!ListsAreHeard, Filt!NothingElseIsHeard, RxP!F!NothingElseIsHeard,
      Filt!VlansAreKept, RxP!F!VlansAreKept, Filt!MacIsHeard, RxP!F!MacIsHeard,
      Filt!Heard, RxP!F!Heard, Filt!Quiet, RxP!F!Quiet, Filt!Idle, RxP!F!Idle,
      Filt!Threads, RxP!F!Threads, Filt!HasVlan, RxP!F!HasVlan, Filt!Free,
      RxP!F!Free, Filt!Shared, RxP!F!Shared, Filt!MtaOf, RxP!F!MtaOf, Filt!Hash,
      RxP!F!Hash, Filt!NoAddress, RxP!F!NoAddress
<1>. QED BY <1>1, FiltersInvariance, PTL
-----------------------------------------------------------------------------
(* The copper link: three partners, one change of partner and one call. *)

LEMMA CopperConstants == HwP!L!Assumption
BY DEF HwP!L!Assumption, HwP!L!End, HwP!L!Mode, HwP!L!FcMode, HwP!L!PauseBit, LinkPartners

LEMMA CopperInit == ASSUME Copper!Init PROVE HwP!L!Init
BY DEF Copper!Init, HwP!L!Init, Copper!NoPartner, HwP!L!NoPartner, Copper!NoLink, HwP!L!NoLink, Copper!Forced,
       HwP!L!Forced, Copper!Sends, HwP!L!Sends, Copper!Honours, HwP!L!Honours,
       Copper!Check, HwP!L!Check

LEMMA CopperNext == ASSUME Copper!Next PROVE HwP!L!Next
BY DEF Copper!device, HwP!L!device, Copper!config, HwP!L!config, Copper!Gigabit,
       HwP!L!Gigabit, Copper!Half, HwP!L!Half, Copper!Best, HwP!L!Best, Copper!SpeedOf,
       HwP!L!SpeedOf, Copper!NoPartner, HwP!L!NoPartner, Copper!NoLink, HwP!L!NoLink,
       Copper!Sends, HwP!L!Sends, Copper!Honours, HwP!L!Honours, Copper!Advertised,
       HwP!L!Advertised, Copper!DefaultFc, HwP!L!DefaultFc, Copper!Resolve,
       HwP!L!Resolve, Copper!Forced, HwP!L!Forced, Copper!Check, HwP!L!Check,
       Copper!Common, HwP!L!Common, Copper!LinkComesUp, HwP!L!LinkComesUp,
       Copper!PartnerChanges, HwP!L!PartnerChanges, Copper!Interrupt, HwP!L!Interrupt,
       Copper!Watch, HwP!L!Watch, Copper!CheckEnds, HwP!L!CheckEnds, Copper!KeepsRest,
       HwP!L!KeepsRest, Copper!CheckStarts, HwP!L!CheckStarts, Copper!ReadsLink,
       HwP!L!ReadsLink, Copper!SpeedNow, HwP!L!SpeedNow, Copper!K1GigHv, HwP!L!K1GigHv,
       Copper!K1LptLp, HwP!L!K1LptLp, Copper!K1Lv, HwP!L!K1Lv, Copper!AppliesK1,
       HwP!L!AppliesK1, Copper!ReadsEee, HwP!L!ReadsEee, Copper!WritesLpi,
       HwP!L!WritesLpi, Copper!StartsFc, HwP!L!StartsFc, Copper!ReadsAbilities,
       HwP!L!ReadsAbilities, Copper!ResolvesFc, HwP!L!ResolvesFc, Copper!KeepsMost,
       HwP!L!KeepsMost, Copper!Calls, HwP!L!Calls, Copper!SetLink, HwP!L!SetLink,
       Copper!SetPauseAuto, HwP!L!SetPauseAuto, Copper!SetPause, HwP!L!SetPause,
       Copper!ForcePause, HwP!L!ForcePause, Copper!SetEee, HwP!L!SetEee, Copper!Down,
       HwP!L!Down, Copper!ResetHw, HwP!L!ResetHw, Copper!StartAutoneg,
       HwP!L!StartAutoneg, Copper!ForceSpeedDuplex, HwP!L!ForceSpeedDuplex,
       Copper!SetWatermarks, HwP!L!SetWatermarks, Copper!Up, HwP!L!Up, Copper!Next,
       HwP!L!Next

CopperInv == part = "copper" => HwP!LinkInv

LEMMA CopperInvariance ==
  ASSUME {"k1", "eee", "fc"} \cap CopperMayFail = {} PROVE Spec => []CopperInv
<1>1. Init => CopperInv
  BY CopperConstants, CopperInit, HwP!LinkStarts DEF Init, CopperInv
<1>2. ASSUME CopperInv, [Next]_vars PROVE CopperInv'
  <2>1. SUFFICES ASSUME part' = "copper" PROVE HwP!LinkInv'
    BY DEF CopperInv
  <2>2. part = "copper" /\ HwP!LinkInv
    BY <1>2, <2>1, PartStays DEF CopperInv
  <2>3. [HwP!L!Next]_(HwP!L!vars)
    BY <1>2, <2>2, CopperMoves, CopperNext
    DEF HwP!L!vars, HwP!L!device, HwP!L!config, slots
  <2>. QED BY <2>2, <2>3, CopperConstants, HwP!LinkStays
<1>. QED BY <1>1, <1>2, PTL DEF Spec

(***************************************************************************)
(* Once the copper link has settled pause frames, K1 and EEE are those of  *)
(* the link there is, if no PHY access of the watchdog's check fails but   *)
(* the first; its checks may overlap a reset.                              *)
(***************************************************************************)
THEOREM CopperInDriver ==
  ASSUME {"k1", "eee", "fc"} \cap CopperMayFail = {}
  PROVE  Spec => []SettingsFollowLink
<1>1. CopperInv => SettingsFollowLink
  <2>1. SUFFICES ASSUME part = "copper", HwP!LinkInv PROVE Copper!SettingsFollowLink
    BY DEF CopperInv, SettingsFollowLink
  <2>2. HwP!L!SettingsFollowLink
    BY <2>1, HwP!SettingsAre
  <2>. QED BY <2>2
    DEF Copper!SettingsFollowLink, HwP!L!SettingsFollowLink, Copper!Settled,
        HwP!L!Settled, Copper!PauseAgrees, HwP!L!PauseAgrees, Copper!PartnerSends,
        HwP!L!PartnerSends, Copper!PartnerHonours, HwP!L!PartnerHonours,
        Copper!K1IsOffAtGigabit, HwP!L!K1IsOffAtGigabit, Copper!EeeAgrees,
        HwP!L!EeeAgrees, Copper!Gigabit, HwP!L!Gigabit, Copper!Best, HwP!L!Best,
        Copper!Half, HwP!L!Half
<1>. QED BY <1>1, CopperInvariance, PTL
-----------------------------------------------------------------------------
(* The times of packets and frames: three packets, or three frames under every *)
(* filter, with resets.                                                        *)

LEMMA TxTimesConstants == ASSUME None \notin Nat PROVE HwP!Stamps!Assumption
BY DEF HwP!Stamps!Assumption

LEMMA RxTimesConstants == ASSUME None \notin Nat PROVE PollP!Stamps!Assumption
<1>1. \A l \in {"l2", "l4"}, m \in {"sync", "path"}, b \in BOOLEAN :
        PtpFrame(2, l, m, b) \in [seen : PollP!Stamps!Frame, bad : BOOLEAN]
  BY DEF PtpFrame, PollP!Stamps!Frame
<1>2. <<PtpFrame(2, "l2", "sync", TRUE), PtpFrame(2, "l4", "sync", FALSE),
        PtpFrame(2, "l2", "path", FALSE)>> \in Seq([seen : PollP!Stamps!Frame, bad : BOOLEAN])
  <2>1. \A f, g, h \in [seen : PollP!Stamps!Frame, bad : BOOLEAN] :
          <<f, g, h>> \in Seq([seen : PollP!Stamps!Frame, bad : BOOLEAN])
    OBVIOUS
  <2>. QED BY <1>1, <2>1
<1>. QED BY <1>2 DEF PollP!Stamps!Assumption

LEMMA TxTimesInit == ASSUME TxTimes!Init PROVE HwP!Stamps!Init
BY DEF TxTimes!Init, HwP!Stamps!Init, TxTimes!Off, HwP!Stamps!Off, TxTimes!tx,
       HwP!Stamps!tx, TxTimes!rx, HwP!Stamps!rx, TxTimes!TsyncOff, HwP!Stamps!TsyncOff,
       TxTimes!RuleOf, HwP!Stamps!RuleOf, TxTimes!Rule, HwP!Stamps!Rule, TxTimes!Both,
       HwP!Stamps!Both, TxTimes!NoTime, HwP!Stamps!NoTime

LEMMA TxTimesNext == ASSUME TxTimes!Next PROVE HwP!Stamps!Next
BY DEF TxTimes!Next, HwP!Stamps!Next, TxTimes!XmitStart, HwP!Stamps!XmitStart,
       TxTimes!settings, HwP!Stamps!settings, TxTimes!rx, HwP!Stamps!rx,
       TxTimes!XmitMarks, HwP!Stamps!XmitMarks, TxTimes!XmitSkips, HwP!Stamps!XmitSkips,
       TxTimes!HwSend, HwP!Stamps!HwSend, TxTimes!Latched, HwP!Stamps!Latched,
       TxTimes!WorkReads, HwP!Stamps!WorkReads, TxTimes!Cleared, HwP!Stamps!Cleared,
       TxTimes!WorkTells, HwP!Stamps!WorkTells, TxTimes!Idle, HwP!Stamps!Idle,
       TxTimes!WorkTimesOut, HwP!Stamps!WorkTimesOut, TxTimes!OnRing, HwP!Stamps!OnRing,
       TxTimes!HwReceive, HwP!Stamps!HwReceive, TxTimes!Taken, HwP!Stamps!Taken,
       TxTimes!Both, HwP!Stamps!Both, TxTimes!Frame, HwP!Stamps!Frame, TxTimes!Events,
       HwP!Stamps!Events, TxTimes!AllMsgs, HwP!Stamps!AllMsgs, TxTimes!tx,
       HwP!Stamps!tx, TxTimes!RxPasses, HwP!Stamps!RxPasses, TxTimes!HasTime,
       HwP!Stamps!HasTime, TxTimes!RxLooks, HwP!Stamps!RxLooks, TxTimes!RxReads,
       HwP!Stamps!RxReads, TxTimes!WatchdogLooks, HwP!Stamps!WatchdogLooks,
       TxTimes!WatchdogClears, HwP!Stamps!WatchdogClears, TxTimes!MayClear,
       HwP!Stamps!MayClear, TxTimes!Waits, HwP!Stamps!Waits, TxTimes!SetRejected,
       HwP!Stamps!SetRejected, TxTimes!MaySet, HwP!Stamps!MaySet, TxTimes!Valid,
       HwP!Stamps!Valid, TxTimes!Supported, HwP!Stamps!Supported, TxTimes!Told,
       HwP!Stamps!Told, TxTimes!SetRefused, HwP!Stamps!SetRefused, TxTimes!Stored,
       HwP!Stamps!Stored, TxTimes!Widened, HwP!Stamps!Widened, TxTimes!SetHwtstamp,
       HwP!Stamps!SetHwtstamp, TxTimes!Written, HwP!Stamps!Written, TxTimes!RuleOf,
       HwP!Stamps!RuleOf, TxTimes!Rule, HwP!Stamps!Rule, TxTimes!Returned,
       HwP!Stamps!Returned, TxTimes!BothCleared, HwP!Stamps!BothCleared, TxTimes!Reset,
       HwP!Stamps!Reset, TxTimes!RemoveDown, HwP!Stamps!RemoveDown,
       TxTimes!RemoveCancels, HwP!Stamps!RemoveCancels, TxTimes!RemoveUnregisters,
       HwP!Stamps!RemoveUnregisters

LEMMA RxTimesInit == ASSUME RxTimes!Init PROVE PollP!Stamps!Init
BY DEF RxTimes!Init, PollP!Stamps!Init, RxTimes!Off, PollP!Stamps!Off, RxTimes!tx,
       PollP!Stamps!tx, RxTimes!rx, PollP!Stamps!rx, RxTimes!TsyncOff,
       PollP!Stamps!TsyncOff, RxTimes!RuleOf, PollP!Stamps!RuleOf, RxTimes!Rule,
       PollP!Stamps!Rule, RxTimes!Both, PollP!Stamps!Both, RxTimes!NoTime,
       PollP!Stamps!NoTime

LEMMA RxTimesNext == ASSUME RxTimes!Next PROVE PollP!Stamps!Next
BY DEF RxTimes!Next, PollP!Stamps!Next, RxTimes!XmitStart, PollP!Stamps!XmitStart,
       RxTimes!settings, PollP!Stamps!settings, RxTimes!rx, PollP!Stamps!rx,
       RxTimes!XmitMarks, PollP!Stamps!XmitMarks, RxTimes!XmitSkips,
       PollP!Stamps!XmitSkips, RxTimes!HwSend, PollP!Stamps!HwSend, RxTimes!Latched,
       PollP!Stamps!Latched, RxTimes!WorkReads, PollP!Stamps!WorkReads, RxTimes!Cleared,
       PollP!Stamps!Cleared, RxTimes!WorkTells, PollP!Stamps!WorkTells, RxTimes!Idle,
       PollP!Stamps!Idle, RxTimes!WorkTimesOut, PollP!Stamps!WorkTimesOut,
       RxTimes!OnRing, PollP!Stamps!OnRing, RxTimes!HwReceive, PollP!Stamps!HwReceive,
       RxTimes!Taken, PollP!Stamps!Taken, RxTimes!Both, PollP!Stamps!Both,
       RxTimes!Frame, PollP!Stamps!Frame, RxTimes!Events, PollP!Stamps!Events,
       RxTimes!AllMsgs, PollP!Stamps!AllMsgs, RxTimes!tx, PollP!Stamps!tx,
       RxTimes!RxPasses, PollP!Stamps!RxPasses, RxTimes!HasTime, PollP!Stamps!HasTime,
       RxTimes!RxLooks, PollP!Stamps!RxLooks, RxTimes!RxReads, PollP!Stamps!RxReads,
       RxTimes!WatchdogLooks, PollP!Stamps!WatchdogLooks, RxTimes!WatchdogClears,
       PollP!Stamps!WatchdogClears, RxTimes!MayClear, PollP!Stamps!MayClear,
       RxTimes!Waits, PollP!Stamps!Waits, RxTimes!SetRejected, PollP!Stamps!SetRejected,
       RxTimes!MaySet, PollP!Stamps!MaySet, RxTimes!Valid, PollP!Stamps!Valid,
       RxTimes!Supported, PollP!Stamps!Supported, RxTimes!Told, PollP!Stamps!Told,
       RxTimes!SetRefused, PollP!Stamps!SetRefused, RxTimes!Stored, PollP!Stamps!Stored,
       RxTimes!Widened, PollP!Stamps!Widened, RxTimes!SetHwtstamp,
       PollP!Stamps!SetHwtstamp, RxTimes!Written, PollP!Stamps!Written, RxTimes!RuleOf,
       PollP!Stamps!RuleOf, RxTimes!Rule, PollP!Stamps!Rule, RxTimes!Returned,
       PollP!Stamps!Returned, RxTimes!BothCleared, PollP!Stamps!BothCleared,
       RxTimes!Reset, PollP!Stamps!Reset, RxTimes!RemoveDown, PollP!Stamps!RemoveDown,
       RxTimes!RemoveCancels, PollP!Stamps!RemoveCancels, RxTimes!RemoveUnregisters,
       PollP!Stamps!RemoveUnregisters

TxTimesInv ==
  part = "txtimes" => HwP!StampTypes /\ HwP!TxInv /\ HwP!RxInv /\ HwP!SetInv

LEMMA TxTimesInvariance ==
  ASSUME None \notin Nat, {"slow", "clear", "late"} \cap TimesMay = {}
  PROVE  Spec => []TxTimesInv
<1>1. Init => TxTimesInv
  BY TxTimesConstants, TxTimesInit, HwP!StampTypesStart, HwP!TxStarts, HwP!RxStarts, HwP!SetStarts
  DEF Init, TxTimesInv
<1>2. ASSUME TxTimesInv, [Next]_vars PROVE TxTimesInv'
  <2>1. SUFFICES ASSUME part' = "txtimes"
                 PROVE  HwP!StampTypes' /\ HwP!TxInv' /\ HwP!RxInv' /\ HwP!SetInv'
    BY DEF TxTimesInv
  <2>2. part = "txtimes" /\ HwP!StampTypes /\ HwP!TxInv /\ HwP!RxInv /\ HwP!SetInv
    BY <1>2, <2>1, PartStays DEF TxTimesInv
  <2>3. [HwP!Stamps!Next]_(HwP!Stamps!vars)
    BY <1>2, <2>2, TxTimesMoves, TxTimesNext
    DEF HwP!Stamps!vars, HwP!Stamps!settings, HwP!Stamps!tx, HwP!Stamps!rx, slots
  <2>4. HwP!StampTypes' /\ HwP!TxInv'
    BY <2>2, <2>3, TxTimesConstants, HwP!StampTypesStays, HwP!TxStays
  <2>5. HwP!RxInv' /\ HwP!SetInv'
    BY <2>2, <2>3, TxTimesConstants, HwP!RxStays, HwP!SetStays
  <2>. QED BY <2>4, <2>5
<1>. QED BY <1>1, <1>2, PTL DEF Spec

RxTimesInv ==
  part = "rxtimes" => PollP!StampTypes /\ PollP!TxInv /\ PollP!RxInv /\ PollP!SetInv

LEMMA RxTimesInvariance ==
  ASSUME None \notin Nat, {"slow", "clear", "late"} \cap TimesMay = {}
  PROVE  Spec => []RxTimesInv
<1>1. Init => RxTimesInv
  BY RxTimesConstants, RxTimesInit, PollP!StampTypesStart, PollP!TxStarts, PollP!RxStarts, PollP!SetStarts
  DEF Init, RxTimesInv
<1>2. ASSUME RxTimesInv, [Next]_vars PROVE RxTimesInv'
  <2>1. SUFFICES ASSUME part' = "rxtimes"
                 PROVE  PollP!StampTypes' /\ PollP!TxInv' /\ PollP!RxInv' /\ PollP!SetInv'
    BY DEF RxTimesInv
  <2>2. part = "rxtimes" /\ PollP!StampTypes /\ PollP!TxInv /\ PollP!RxInv /\ PollP!SetInv
    BY <1>2, <2>1, PartStays DEF RxTimesInv
  <2>3. [PollP!Stamps!Next]_(PollP!Stamps!vars)
    BY <1>2, <2>2, RxTimesMoves, RxTimesNext
    DEF PollP!Stamps!vars, PollP!Stamps!settings, PollP!Stamps!tx, PollP!Stamps!rx, slots
  <2>4. PollP!StampTypes' /\ PollP!TxInv'
    BY <2>2, <2>3, RxTimesConstants, PollP!StampTypesStays, PollP!TxStays
  <2>5. PollP!RxInv' /\ PollP!SetInv'
    BY <2>2, <2>3, RxTimesConstants, PollP!RxStays, PollP!SetStays
  <2>. QED BY <2>4, <2>5
<1>. QED BY <1>1, <1>2, PTL DEF Spec
-----------------------------------------------------------------------------
(* The self-tests: five causes, rings of four descriptors. *)

LEMMA TestConstants == HwP!Test!Assumption
BY DEF HwP!Test!Assumption

LEMMA TestInit == ASSUME Test!Init PROVE HwP!Test!Init
BY DEF Test!Init, HwP!Test!Init, Test!Faults, HwP!Test!Faults, Test!Fault,
       HwP!Test!Fault, Test!Cause, HwP!Test!Cause, Test!Slot, HwP!Test!Slot,
       Test!NoRegs, HwP!Test!NoRegs, Test!Start, HwP!Test!Start

LEMMA TestNext == ASSUME Test!Next PROVE HwP!Test!Next
BY DEF Test!Next, HwP!Test!Next, Test!BeginIntr, HwP!Test!BeginIntr, Test!mem,
       HwP!Test!mem, Test!lb, HwP!Test!lb, Test!NoHandler, HwP!Test!NoHandler,
       Test!intr, HwP!Test!intr, Test!TryMask, HwP!Test!TryMask, Test!Answer,
       HwP!Test!Answer, Test!Raised, HwP!Test!Raised, Test!Interrupts,
       HwP!Test!Interrupts, Test!TryPost, HwP!Test!TryPost, Test!TryOthers,
       HwP!Test!TryOthers, Test!Others, HwP!Test!Others, Test!Cause, HwP!Test!Cause,
       Test!LinkChange, HwP!Test!LinkChange, Test!Skip, HwP!Test!Skip, Test!FirstStep,
       HwP!Test!FirstStep, Test!NextCause, HwP!Test!NextCause, Test!EndIntr,
       HwP!Test!EndIntr, Test!LookFails, HwP!Test!LookFails, Test!Code, HwP!Test!Code,
       Test!LookPasses, HwP!Test!LookPasses, Test!BeginLoopback, HwP!Test!BeginLoopback,
       Test!Allocate, HwP!Test!Allocate, Test!Program, HwP!Test!Program, Test!Ring,
       HwP!Test!Ring, Test!Buffers, HwP!Test!Buffers, Test!Asked, HwP!Test!Asked,
       Test!Fresh, HwP!Test!Fresh, Test!AllocateFails, HwP!Test!AllocateFails,
       Test!NoMemory, HwP!Test!NoMemory, Test!AllocateUndone, HwP!Test!AllocateUndone,
       Test!FreeDescRings, HwP!Test!FreeDescRings, Test!Freed, HwP!Test!Freed,
       Test!Whole, HwP!Test!Whole, Test!Owned, HwP!Test!Owned, Test!Slot, HwP!Test!Slot,
       Test!SetupLoopback, HwP!Test!SetupLoopback, Test!SetupLoopbackFails,
       HwP!Test!SetupLoopbackFails, Test!Send, HwP!Test!Send, Test!HwLoops,
       HwP!Test!HwLoops, Test!LoopBreaks, HwP!Test!LoopBreaks, Test!CheckFrame,
       HwP!Test!CheckFrame, Test!RoundPasses, HwP!Test!RoundPasses, Test!Rounds,
       HwP!Test!Rounds, Test!RoundFails, HwP!Test!RoundFails, Test!Cleanup,
       HwP!Test!Cleanup, Test!FreeRings, HwP!Test!FreeRings, Test!ResetAdapter,
       HwP!Test!ResetAdapter, Test!NoRegs, HwP!Test!NoRegs, Test!CableFrame,
       HwP!Test!CableFrame, Test!Cardinality, HwP!Test!Cardinality

LEMMA TestStays == ASSUME part = "selftest", [Next]_vars PROVE [HwP!Test!Next]_(HwP!Test!vars)
BY TestMoves, TestNext DEF HwP!Test!vars, HwP!Test!intr, HwP!Test!mem, HwP!Test!lb, slots

(* What a test sees, and what it holds. *)
TestInv == part = "selftest" => HwP!IntrInv /\ HwP!LoopInv
HoldsInv == part = "selftest" => HwP!HeldInv

LEMMA TestInvariance ==
  ASSUME {"link", "late", "old"} \cap TestMay = {} PROVE Spec => []TestInv
<1>1. Init => TestInv
  BY TestConstants, TestInit, HwP!IntrStarts, HwP!LoopStarts DEF Init, TestInv
<1>2. ASSUME TestInv, [Next]_vars PROVE TestInv'
  <2>1. SUFFICES ASSUME part' = "selftest" PROVE HwP!IntrInv' /\ HwP!LoopInv'
    BY DEF TestInv
  <2>2. part = "selftest" /\ HwP!IntrInv /\ HwP!LoopInv
    BY <1>2, <2>1, PartStays DEF TestInv
  <2>3. [HwP!Test!Next]_(HwP!Test!vars)
    BY <1>2, <2>2, TestStays
  <2>4. HwP!IntrInv'
    BY <2>2, <2>3, TestConstants, HwP!IntrStays
  <2>5. HwP!LoopInv'
    BY <2>2, <2>3, TestConstants, HwP!LoopStays DEF HwP!IntrInv
  <2>. QED BY <2>4, <2>5
<1>. QED BY <1>1, <1>2, PTL DEF Spec

LEMMA HoldsInvariance ==
  ASSUME {"map", "cable"} \cap TestMay = {} PROVE Spec => []HoldsInv
<1>1. Init => HoldsInv
  BY TestConstants, TestInit, HwP!HeldStarts DEF Init, HoldsInv
<1>2. ASSUME HoldsInv, [Next]_vars PROVE HoldsInv'
  <2>1. SUFFICES ASSUME part' = "selftest" PROVE HwP!HeldInv'
    BY DEF HoldsInv
  <2>2. part = "selftest" /\ HwP!HeldInv
    BY <1>2, <2>1, PartStays DEF HoldsInv
  <2>3. [HwP!Test!Next]_(HwP!Test!vars)
    BY <1>2, <2>2, TestStays
  <2>. QED BY <2>2, <2>3, TestConstants, HwP!HeldStays
<1>. QED BY <1>1, <1>2, PTL DEF Spec
-----------------------------------------------------------------------------
(* The memory of the rings: requests for three sizes, four blocks. *)

LEMMA MemoryConstants == HwP!Memory!Assumption
BY DEF HwP!Memory!Assumption

LEMMA MemoryInit == ASSUME Memory!Init PROVE HwP!Memory!Init
BY DEF Memory!Init, HwP!Memory!Init, Memory!Kinds, HwP!Memory!Kinds, Memory!NoBlock,
       HwP!Memory!NoBlock, Memory!NoTemp, HwP!Memory!NoTemp, Memory!NoRing,
       HwP!Memory!NoRing, Memory!Block, HwP!Memory!Block, Memory!NoCall,
       HwP!Memory!NoCall

LEMMA MemoryNext == ASSUME Memory!Next PROVE HwP!Memory!Next
BY DEF Memory!Next, HwP!Memory!Next, Memory!Open, HwP!Memory!Open, Memory!Goes,
       HwP!Memory!Goes, Memory!OpenTx, HwP!Memory!OpenTx, Memory!SetUp,
       HwP!Memory!SetUp, Memory!Block, HwP!Memory!Block, Memory!Free, HwP!Memory!Free,
       Memory!Ends, HwP!Memory!Ends, Memory!NoCall, HwP!Memory!NoCall, Memory!Kinds,
       HwP!Memory!Kinds, Memory!OpenRx, HwP!Memory!OpenRx, Memory!Without,
       HwP!Memory!Without, Memory!NoBlock, HwP!Memory!NoBlock, Memory!Close,
       HwP!Memory!Close, Memory!SetRingparam, HwP!Memory!SetRingparam, Memory!Rounded,
       HwP!Memory!Rounded, Memory!Aligned, HwP!Memory!Aligned, Memory!Clamped,
       HwP!Memory!Clamped, Memory!NoTempMemory, HwP!Memory!NoTempMemory, Memory!SetTx,
       HwP!Memory!SetTx, Memory!Sets, HwP!Memory!Sets, Memory!SetUpTemp,
       HwP!Memory!SetUpTemp, Memory!SetTxFails, HwP!Memory!SetTxFails, Memory!SetRx,
       HwP!Memory!SetRx, Memory!SetRxFails, HwP!Memory!SetRxFails, Memory!NoTemp,
       HwP!Memory!NoTemp, Memory!NoRing, HwP!Memory!NoRing, Memory!CopyBack,
       HwP!Memory!CopyBack

BlocksInv == part = "memory" => HwP!MemoryInv

LEMMA BlocksInvariance == Spec => []BlocksInv
<1>1. Init => BlocksInv
  BY MemoryConstants, MemoryInit, HwP!MemoryStarts DEF Init, BlocksInv
<1>2. ASSUME BlocksInv, [Next]_vars PROVE BlocksInv'
  <2>1. SUFFICES ASSUME part' = "memory" PROVE HwP!MemoryInv'
    BY DEF BlocksInv
  <2>2. part = "memory" /\ HwP!MemoryInv
    BY <1>2, <2>1, PartStays DEF BlocksInv
  <2>3. [HwP!Memory!Next]_(HwP!Memory!vars)
    BY <1>2, <2>2, MemoryMoves, MemoryNext DEF HwP!Memory!vars, slots
  <2>. QED BY <2>2, <2>3, MemoryConstants, HwP!MemoryStays
<1>. QED BY <1>1, <1>2, PTL DEF Spec
-----------------------------------------------------------------------------
(***************************************************************************)
(* What the driver reports is so: the time told of a packet or a frame is  *)
(* its own, the answer to a call is what the controller does, and a        *)
(* self-test passes a card if and only if the test can find no fault; if   *)
(* no packet takes longer than the timeout or is sent after the adapter    *)
(* is removed, if nothing clears a time that a frame waits for, if no link *)
(* changes while its interrupt is tested, and if the loop breaks before a  *)
(* test and its buffers hold nothing from the one before.                  *)
(***************************************************************************)
THEOREM ReportsInDriver ==
  ASSUME None \notin Nat, {"slow", "clear", "late"} \cap TimesMay = {},
         {"link", "late", "old"} \cap TestMay = {}
  PROVE  Spec => []ReportsAreTrue
<1>1. TxTimesInv /\ RxTimesInv /\ TestInv => ReportsAreTrue
  <2>1. ASSUME part = "txtimes", TxTimesInv
        PROVE  TxTimes!TimesAreTheirs /\ TxTimes!OneIsMarked /\ RxTimes!AnswerIsTrue
    <3>1. HwP!TxInv /\ HwP!RxInv /\ HwP!SetInv
      BY <2>1 DEF TxTimesInv
    <3>2. HwP!Stamps!AnswerIsTrue
      BY <3>1, HwP!SetAnswers
    <3>3. RxTimes!AnswerIsTrue
      BY <3>2 DEF RxTimes!AnswerIsTrue, HwP!Stamps!AnswerIsTrue, RxTimes!Asked,
             HwP!Stamps!Asked, RxTimes!Events, HwP!Stamps!Events, RxTimes!Frame,
             HwP!Stamps!Frame, RxTimes!AllMsgs, HwP!Stamps!AllMsgs, RxTimes!Both,
             HwP!Stamps!Both, RxTimes!Taken, HwP!Stamps!Taken
    <3>4. TxTimes!TimesAreTheirs /\ TxTimes!OneIsMarked
      BY <3>1 DEF HwP!TxInv, HwP!RxInv, TxTimes!TimesAreTheirs, TxTimes!OneIsMarked,
           HwP!Stamps!OneIsMarked
    <3>. QED BY <3>3, <3>4
  <2>2. ASSUME part = "rxtimes", RxTimesInv
        PROVE  RxTimes!TimesAreTheirs /\ RxTimes!AnswerIsTrue
    <3>1. PollP!TxInv /\ PollP!RxInv /\ PollP!SetInv
      BY <2>2 DEF RxTimesInv
    <3>2. PollP!Stamps!AnswerIsTrue
      BY <3>1, PollP!SetAnswers
    <3>3. RxTimes!AnswerIsTrue
      BY <3>2 DEF RxTimes!AnswerIsTrue, PollP!Stamps!AnswerIsTrue, RxTimes!Asked,
             PollP!Stamps!Asked, RxTimes!Events, PollP!Stamps!Events, RxTimes!Frame,
             PollP!Stamps!Frame, RxTimes!AllMsgs, PollP!Stamps!AllMsgs, RxTimes!Both,
             PollP!Stamps!Both, RxTimes!Taken, PollP!Stamps!Taken
    <3>4. RxTimes!TimesAreTheirs
      BY <3>1 DEF PollP!TxInv, PollP!RxInv, RxTimes!TimesAreTheirs
    <3>. QED BY <3>3, <3>4
  <2>3. ASSUME part = "selftest", TestInv
        PROVE  Test!InterruptVerdict /\ Test!LoopbackVerdict
    <3>1. HwP!IntrInv /\ HwP!LoopInv
      BY <2>3 DEF TestInv
    <3>2. HwP!Test!InterruptVerdict /\ HwP!Test!LoopbackVerdict
      BY <3>1 DEF HwP!IntrInv, HwP!LoopInv, HwP!LoopEnd, HwP!Test!LoopbackVerdict
    <3>. QED
      BY <3>2 DEF Test!InterruptVerdict, HwP!Test!InterruptVerdict, Test!Detectable,
             HwP!Test!Detectable, Test!Looked, HwP!Test!Looked, Test!LoopbackVerdict,
             HwP!Test!LoopbackVerdict
  <2>. QED BY <2>1, <2>2, <2>3 DEF ReportsAreTrue
<1>. QED BY <1>1, TxTimesInvariance, RxTimesInvariance, TestInvariance, PTL

(***************************************************************************)
(* What is taken is given back, the part of LifeIsOrderly that is not      *)
(* about the life cycle: the rings of a running interface have a block of  *)
(* their size each, and no other block is in use; no test leaves memory    *)
(* behind or frees what it does not have; and a removed adapter keeps no   *)
(* packet whose time it waits for.  If no mapping of a test ring fails, no *)
(* frame comes in once it is freed, no packet takes longer than the        *)
(* timeout or is sent after the removal, and no time is cleared.           *)
(***************************************************************************)
THEOREM MemoryInDriver ==
  ASSUME None \notin Nat, {"slow", "clear", "late"} \cap TimesMay = {},
         {"map", "cable"} \cap TestMay = {}
  PROVE  Spec => [](/\ part = "memory" => Memory!RingsAreWhole
                    /\ part = "selftest" => Test!NothingIsHeld
                    /\ part = "txtimes" => TxTimes!NothingIsLeft)
<1>1. BlocksInv => (part = "memory" => Memory!RingsAreWhole)
  <2>1. SUFFICES ASSUME HwP!MemoryInv PROVE Memory!RingsAreWhole
    BY DEF BlocksInv
  <2>2. HwP!Memory!RingsAreWhole
    BY <2>1, MemoryConstants, HwP!WholeIs
  <2>. QED
    BY <2>2 DEF Memory!RingsAreWhole, HwP!Memory!RingsAreWhole, Memory!Kinds,
           HwP!Memory!Kinds, Memory!NoBlock, HwP!Memory!NoBlock, Memory!Block,
           HwP!Memory!Block, Memory!Free, HwP!Memory!Free
<1>2. HoldsInv => (part = "selftest" => Test!NothingIsHeld)
  BY DEF HoldsInv, HwP!HeldInv, Test!NothingIsHeld
<1>3. TxTimesInv => (part = "txtimes" => TxTimes!NothingIsLeft)
  BY DEF TxTimesInv, HwP!TxInv, TxTimes!NothingIsLeft
<1>. QED BY <1>1, <1>2, <1>3, BlocksInvariance, HoldsInvariance, TxTimesInvariance, PTL
=============================================================================

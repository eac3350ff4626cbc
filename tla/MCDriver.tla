------------------------------ MODULE MCDriver ------------------------------
(***************************************************************************)
(* The components of the e1000e driver side by side.  `part' says which of *)
(* them a behaviour is about; the variables of that component are the      *)
(* first of the slots s1 .. s19, the other slots stay 0.  Nothing is       *)
(* shared between components, so the states are those of the components    *)
(* one after the other.  The constants are the knobs that README.md turns. *)
(***************************************************************************)
EXTENDS Integers, FiniteSets, Sequences

CONSTANTS
  Parts,          \* the components to look at
  None,
  TxMayNotMap,    \* packets whose buffers may fail to be mapped
  RxMayNotMap,    \* a receive buffer may fail to be mapped
  LifeMayFail,    \* requests and steps that may fail while an adapter is opened
  PhyAlone,       \* families whose accesses are taken not to overlap
  PassesSmbi,     \* 82571: a thread goes on without SMBI
  SectorWords,    \* words of the NVM that are erased at a time
  FlashMayFail,   \* steps of a commit that may fail
  EepromRanges,   \* what ethtool may write
  CopperMayFail,  \* PHY accesses of the watchdog that may fail
  CopperOverlap,  \* the watchdog may run while the interface is reset
  FilterCookies,  \* VLANs of the management cookie
  FilterOverlap,  \* calls that change filters may overlap
  TimesMay,       \* what may come between a packet and its time
  TestMay         \* what may come between a self-test and its verdict

VARIABLES part, s1, s2, s3, s4, s5, s6, s7, s8, s9, s10,
          s11, s12, s13, s14, s15, s16, s17, s18, s19

slots == <<s1, s2, s3, s4, s5, s6, s7, s8, s9, s10,
           s11, s12, s13, s14, s15, s16, s17, s18, s19>>
vars == <<part, slots>>

(* ------------------------------------------------------------------------ *)
(* The data path: a ring of seven descriptors, the largest packet of which   *)
(* needs six with its context descriptor and the gap; eight receive buffers  *)
(* refilled in fours, and frames of one to three parts.                      *)

Tx == INSTANCE TxRing WITH
    next_to_use <- s1, next_to_clean <- s2, buffer <- s3, desc <- s4,
    head <- s5, tail <- s6, hung <- s7, stopped <- s8, carrier <- s9,
    down <- s10, cur <- s11, xmit <- s12, clean <- s13, detect <- s14,
    recheck <- s15, hangTask <- s16, resetTask <- s17, wire <- s18,
    freed <- s19, Count <- 7, Packets <- 4,
    Frags <- [p \in 1 .. 4 |-> IF p \in {1, 3} THEN 2 ELSE 1],
    Offload <- {1, 4}, MaxFrags <- 2, WakeThreshold <- 4, Batches <- TRUE,
    MayDrop <- {2}, MayNotMap <- TxMayNotMap, MayHang <- TRUE,
    DmaBurst <- TRUE, None <- None

Queue == INSTANCE TxQueue WITH
    Packet <- 1 .. 4,
    held <- IF part = "tx" THEN Tx!Held ELSE <<>>,
    wire <- IF part = "tx" THEN s18 ELSE <<>>,
    freed <- IF part = "tx" THEN s19 ELSE {}

Rx == INSTANCE RxRing WITH
    mode <- s1, next_to_use <- s2, next_to_clean <- s3, buffer <- s4,
    desc <- s5, rx_skb_top <- s6, discarding <- s7, head <- s8,
    tail <- s9, frame <- s10, part <- s11, poll <- s12, live <- s13,
    up <- s14, failed <- s15, resets <- s16, Count <- 8, Frames <- 7,
    Parts <- [f \in 1 .. 7 |-> CASE f \in {2, 5} -> 3 [] f = 3 -> 2 [] OTHER -> 1],
    Bad <- {3}, Modes <- {"skb", "split", "jumbo"}, Write <- 4,
    Budget <- 3, Failures <- 1, MayNotMap <- RxMayNotMap, Resets <- 1,
    None <- None

(* Interrupts, and the life of an adapter under four mixes of operations.    *)

Napi == INSTANCE NapiIrq WITH
    mode <- s1, icr <- s2, ims <- s3, rx <- s4, tx <- s5, napi <- s6,
    missed <- s7, poll <- s8, changed <- s9, armed <- s10,
    resetTask <- s11, down <- s12, reset <- s13,
    Modes <- {"msix", "msi", "legacy"}, Most <- 3, Budget <- 2,
    Ecc <- TRUE, Netpoll <- FALSE

Poll == INSTANCE NapiIrq WITH
    mode <- s1, icr <- s2, ims <- s3, rx <- s4, tx <- s5, napi <- s6,
    missed <- s7, poll <- s8, changed <- s9, armed <- s10,
    resetTask <- s11, down <- s12, reset <- s13,
    Modes <- {"msix", "msi", "legacy"}, Most <- 3, Budget <- 2,
    Ecc <- TRUE, Netpoll <- TRUE

Life == INSTANCE Lifecycle WITH
    ad <- s1, irq <- s2, todo <- s3, rtnl <- s4, wd <- s5, link <- s6,
    rpm <- s7,
    Ops <- {"probe", "open", "close", "mtu", "features", "diag", "suspend", "resume"},
    MayFail <- {}, Mode <- "msix", Amt <- FALSE,
    NeedsRestart <- FALSE, Timeouts <- TRUE, LinkChanges <- FALSE

Plug == INSTANCE Lifecycle WITH
    ad <- s1, irq <- s2, todo <- s3, rtnl <- s4, wd <- s5, link <- s6,
    rpm <- s7, Ops <- {"probe", "open", "mtu"}, MayFail <- {},
    Mode <- "msix", Amt <- FALSE, NeedsRestart <- FALSE, Timeouts <- TRUE,
    LinkChanges <- TRUE

Fails == INSTANCE Lifecycle WITH
    ad <- s1, irq <- s2, todo <- s3, rtnl <- s4, wd <- s5, link <- s6,
    rpm <- s7, Ops <- {"probe", "open", "remove"}, MayFail <- LifeMayFail,
    Mode <- "msix", Amt <- FALSE, NeedsRestart <- FALSE,
    Timeouts <- FALSE, LinkChanges <- FALSE

Resume == INSTANCE Lifecycle WITH
    ad <- s1, irq <- s2, todo <- s3, rtnl <- s4, wd <- s5, link <- s6,
    rpm <- s7, Ops <- {"probe", "open", "suspend", "resume"},
    MayFail <- {"rx", "one", "msix", "shutdown"}, Mode <- "msix",
    Amt <- FALSE, NeedsRestart <- FALSE, Timeouts <- FALSE,
    LinkChanges <- FALSE

Runtime == INSTANCE Lifecycle WITH
    ad <- s1, irq <- s2, todo <- s3, rtnl <- s4, wd <- s5, link <- s6,
    rpm <- s7, Ops <- {"probe", "open", "close", "runtimeSuspend"},
    MayFail <- {"shutdown"}, Mode <- "msix", Amt <- FALSE,
    NeedsRestart <- FALSE, Timeouts <- FALSE, LinkChanges <- FALSE

(* What threads and ports share: PHY registers and semaphores.  Every family  *)
(* is read on its first page and on those the driver has to switch to.       *)

Access(p, r) == [page |-> p, reg |-> r, session |-> FALSE]
InSession(p, r) == [page |-> p, reg |-> r, session |-> TRUE]
PhyAccesses ==
    [f \in {"m88", "igp", "bm", "bm2", "hv"} |->
       CASE f = "m88" -> {Access(0, 1), Access(0, 17)}
         [] f = "igp" -> {Access(0, 1), Access(0, 18), Access(2, 20)}
         [] f = "bm2" -> {Access(0, 1), Access(0, 18), Access(193, 17), Access(800, 1)}
         [] f = "bm"  -> {Access(0, 1), Access(0, 17), Access(2, 21), Access(769, 17),
                          Access(800, 1)}
         [] OTHER     -> {Access(0, 1), Access(0, 17), Access(1, 5), Access(768, 19),
                          Access(770, 17), Access(800, 1), InSession(800, 2),
                          InSession(778, 17)}]

Phy == INSTANCE PhyAccess WITH
    family <- s1, addr <- s2, lock <- s3, page <- s4, wuc <- s5,
    opcode <- s6, debug <- s7, call <- s8, Threads <- {"t1", "t2"},
    Families <- {"m88", "igp", "bm", "bm2", "hv"},
    Accesses <- PhyAccesses, AddrReg <- 29,
    MayFail <- {0, 1, 2, 193, 768, 778}, Alone <- PhyAlone

Sem == INSTANCE HwSemaphores WITH
    scheme <- s1, smbi <- s2, swesmbi <- s3, sync <- s4, fwSync <- s5,
    flag <- s6, bit <- s7, req <- s8, fwNvm <- s9, thread <- s10,
    Threads <- {"t1", "t2"},
    Schemes <- {"82571", "80003", "82574", "ich8"},
    Resources <- [t \in {"t1", "t2"} |-> {"phy", "nvm"}], Tries <- 2,
    PassesSmbi <- PassesSmbi

(* The NVM: two banks of six words the fourth of which is the checksum, and  *)
(* a serial EEPROM of twelve words with pages of two.                        *)

Image == [w \in 0 .. 5 |-> CASE w = 0 -> 2 [] w = 2 -> 1 [] w = 3 -> 3 [] OTHER -> 0]

Flash == INSTANCE NvmFlash WITH
    kind <- s1, flash <- s2, sig <- s3, hwBank <- s4, shadow <- s5,
    locked <- s6, op <- s7, read <- s8, crashes <- s9,
    Kinds <- {"spt", "bytes", "eecd"}, Words <- 6, ChecksumWord <- 3,
    SectorWords <- SectorWords, Images <- {Image},
    Writes <- {{<<1, 2>>, <<2, 2>>}, {<<4, 1>>}},
    Reads <- {<<0, 1>>, <<1, 1>>, <<2, 1>>}, Sum <- 2, EraseTries <- 2,
    MayFail <- FlashMayFail, Crashes <- 1

Eeprom == INSTANCE NvmWords WITH
    kind <- s1, word <- s2, kept <- s3, before <- s4, call <- s5,
    calls <- s6, Kinds <- {"spi8", "spi16", "eewr", "flash"}, Size <- 12,
    PageSize <- 2, Half <- 6, Checksum <- 4, Ranges <- EepromRanges,
    Calls <- 2, MayFail <- TRUE

(* The link, and the filters for what comes over it.                         *)

LinkPartners ==
    {[pause |-> {"pause", "asym"}, modes |-> 1 .. 5, eee |-> {5, 4}],
     [pause |-> {"asym"}, modes |-> {5, 4}, eee |-> {}],
     [pause |-> {"pause"}, modes |-> {3, 1}, eee |-> {}]}

Copper == INSTANCE CopperLink WITH
    kind <- s1, nvm <- s2, phy <- s3, partner <- s4, link <- s5,
    lsc <- s6, ctrl <- s7, water <- s8, k1 <- s9, lpi <- s10,
    glink <- s11, fc <- s12, ask <- s13, down <- s14, wd <- s15,
    op <- s16, changes <- s17, asks <- s18,
    Kinds <- {"generic", "pchlan", "pch2", "lpt"},
    Partners <- LinkPartners, NvmPause <- {"tx", "full"},
    Advertise <- {1 .. 5, {3, 4}}, Force <- {3},
    Pauses <- {"none", "full"}, Eees <- {{5, 4}, {}}, Refused <- FALSE,
    MayFail <- CopperMayFail, Overlap <- CopperOverlap, Changes <- 1,
    Asks <- 1

Serdes == INSTANCE SerdesLink WITH
    kind <- s1, partner <- s2, ane <- s3, slu <- s4, an <- s5, c <- s6,
    state <- s7, hasLink <- s8, failed <- s9, polling <- s10,
    changes <- s11, resets <- s12, Kinds <- {"82571", "generic"},
    Partners <- {"absent", "an", "noan", "noisy"}, Changes <- 3,
    Resets <- 1

Filt == INSTANCE Filters WITH
    kind <- s1, rctl <- s2, rar <- s3, shra <- s4, mta <- s5, vfta <- s6,
    flags <- s7, uc <- s8, mc <- s9, vlans <- s10, mac <- s11, laa <- s12,
    active <- s13, mng <- s14, cookie <- s15, control <- s16, todo <- s17,
    held <- s18, calls <- s19, Kinds <- {"82571", "82574", "pch2", "lpt"},
    Rars <- 4, Ucs <- {<<>>, <<"a">>, <<"b", "a">>, <<"a", "b", "c">>},
    Mcs <- {{}, {"m1", "m2"}, {"m2", "m3"}}, Macs <- {"p", "q"},
    Vids <- {1, 2, 6}, Cookies <- FilterCookies, Calls <- 4,
    Overlap <- FilterOverlap

(* What the driver reports: the times of packets, the verdicts of its tests; *)
(* and the memory of its rings.                                              *)

PtpFrame(v, l, m, b) == [seen |-> [ver |-> v, layer |-> l, msg |-> m], bad |-> b]

TxTimes == INSTANCE Timestamps WITH
    cfg <- s1, tsync <- s2, told <- s3, skb <- s4, work <- s5, xmit <- s6,
    ring <- s7, txTime <- s8, txTold <- s9, packet <- s10, rxRing <- s11,
    rxTime <- s12, poll <- s13, rxTold <- s14, frame <- s15, check <- s16,
    calls <- s17, removal <- s18, Packets <- 3, Frames <- <<>>,
    TxTypes <- {"off", "on", "onestep"}, Filters <- {"none"}, Calls <- 2,
    Resets <- TRUE, Removes <- TRUE, MayRefuse <- TRUE,
    Slow <- "slow" \in TimesMay, Overlap <- "clear" \in TimesMay,
    LateXmit <- "late" \in TimesMay, None <- None

RxTimes == INSTANCE Timestamps WITH
    cfg <- s1, tsync <- s2, told <- s3, skb <- s4, work <- s5, xmit <- s6,
    ring <- s7, txTime <- s8, txTold <- s9, packet <- s10, rxRing <- s11,
    rxTime <- s12, poll <- s13, rxTold <- s14, frame <- s15, check <- s16,
    calls <- s17, removal <- s18, Packets <- 0,
    Frames <- <<PtpFrame(2, "l2", "sync", TRUE), PtpFrame(2, "l4", "sync", FALSE),
                PtpFrame(2, "l2", "path", FALSE)>>,
    TxTypes <- {"off"},
    Filters <- {"none", "v1_l4_sync", "v1_l4_delay", "v1_l4_event", "v2_l2_sync",
                "v2_l2_delay", "v2_l4_sync", "v2_l4_delay", "v2_sync", "v2_delay",
                "v2_l2_event", "v2_l4_event", "v2_event", "ntp_all", "all"},
    Calls <- 2, Resets <- TRUE, Removes <- FALSE, MayRefuse <- FALSE,
    Slow <- FALSE, Overlap <- "clear" \in TimesMay, LateXmit <- FALSE,
    None <- None

Test == INSTANCE SelfTest WITH
    at <- s1, test <- s2, verdict <- s3, fault <- s4, ich <- s5,
    shared <- s6, icr <- s7, ims <- s8, test_icr <- s9, cause <- s10,
    step <- s11, heap <- s12, bad <- s13, misfreed <- s14, stray <- s15,
    loop <- s16, content <- s17, reg <- s18, pos <- s19, Tested <- 4,
    Untested <- 1, RxSeq <- 2, Lsc <- 1, LinkChanges <- "link" \in TestMay,
    Count <- 4, Batch <- 2, Laps <- 2,
    MayFail <- {"irq", "info", "desc", "skb", "loop"} \cup (TestMay \cap {"map"}),
    BreaksLate <- "late" \in TestMay, OldFrames <- "old" \in TestMay,
    Cable <- "cable" \in TestMay

Memory == INSTANCE RingMemory WITH
    running <- s1, count <- s2, ring <- s3, temp <- s4, heap <- s5,
    call <- s6, err <- s7, old <- s8, Asks <- {0, 3, 9}, Min <- 2, Max <- 6,
    Multiple <- 2, Blocks <- 4

WholeRanges == {<<0, 1>>, <<1, 2>>, <<2, 4>>, <<3, 5>>, <<9, 3>>, <<13, 3>>, <<16, 8>>, <<23, 1>>}
CrossingRanges == {<<10, 8>>}
OwnCookies == {-1, 5}
UserCookies == {-1, 1}

(* ------------------------------------------------------------------------ *)
(* A behaviour is one of the component chosen at the start.                  *)

\* The slots from a number on that are not used.
Zero19 == s19 = 0
Zero17 == s17 = 0 /\ s18 = 0 /\ Zero19
Zero13 == s13 = 0 /\ s14 = 0 /\ s15 = 0 /\ s16 = 0 /\ Zero17
Zero9 == s9 = 0 /\ s10 = 0 /\ s11 = 0 /\ s12 = 0 /\ Zero13

Init == /\ part \in Parts
        /\ \/ part = "tx" /\ Tx!Init
           \/ part = "rx" /\ Rx!Init /\ Zero17
           \/ part = "irq" /\ Napi!Init /\ s14 = 0 /\ s15 = 0 /\ s16 = 0 /\ Zero17
           \/ part = "netpoll" /\ Poll!Init /\ s14 = 0 /\ s15 = 0 /\ s16 = 0 /\ Zero17
           \/ part = "life" /\ Life!Init /\ s8 = 0 /\ Zero9
           \/ part = "plug" /\ Plug!Init /\ s8 = 0 /\ Zero9
           \/ part = "fails" /\ Fails!Init /\ s8 = 0 /\ Zero9
           \/ part = "resume" /\ Resume!Init /\ s8 = 0 /\ Zero9
           \/ part = "runtime" /\ Runtime!Init /\ s8 = 0 /\ Zero9
           \/ part = "phy" /\ Phy!Init /\ Zero9
           \/ part = "sem" /\ Sem!Init /\ s11 = 0 /\ s12 = 0 /\ Zero13
           \/ part = "flash" /\ Flash!Init /\ s10 = 0 /\ s11 = 0 /\ s12 = 0 /\ Zero13
           \/ part = "words" /\ Eeprom!Init /\ s7 = 0 /\ s8 = 0 /\ Zero9
           \/ part = "copper" /\ Copper!Init /\ Zero19
           \/ part = "serdes" /\ Serdes!Init /\ Zero13
           \/ part = "filters" /\ Filt!Init
           \/ part = "txtimes" /\ TxTimes!Init /\ Zero19
           \/ part = "rxtimes" /\ RxTimes!Init /\ Zero19
           \/ part = "selftest" /\ Test!Init
           \/ part = "memory" /\ Memory!Init /\ Zero9

unused7 == <<s7, s8, s9, s10, s11, s12, s13, s14, s15, s16, s17, s18, s19>>
unused8 == <<s8, s9, s10, s11, s12, s13, s14, s15, s16, s17, s18, s19>>
unused9 == <<s9, s10, s11, s12, s13, s14, s15, s16, s17, s18, s19>>
unused10 == <<s10, s11, s12, s13, s14, s15, s16, s17, s18, s19>>
unused11 == <<s11, s12, s13, s14, s15, s16, s17, s18, s19>>
unused13 == <<s13, s14, s15, s16, s17, s18, s19>>
unused14 == <<s14, s15, s16, s17, s18, s19>>

TxSteps == part = "tx" /\ Tx!Next /\ UNCHANGED part
RxSteps == part = "rx" /\ Rx!Next /\ UNCHANGED <<part, s17, s18, s19>>
IrqSteps == part = "irq" /\ Napi!Next /\ UNCHANGED <<part, unused14>>
NetpollSteps == part = "netpoll" /\ Poll!Next /\ UNCHANGED <<part, unused14>>
LifeSteps ==
    /\ \/ part = "life" /\ Life!Next
       \/ part = "plug" /\ Plug!Next
       \/ part = "fails" /\ Fails!Next
       \/ part = "resume" /\ Resume!Next
       \/ part = "runtime" /\ Runtime!Next
    /\ UNCHANGED <<part, unused8>>
PhySteps == part = "phy" /\ Phy!Next /\ UNCHANGED <<part, unused9>>
SemSteps == part = "sem" /\ Sem!Next /\ UNCHANGED <<part, unused11>>
FlashSteps == part = "flash" /\ Flash!Next /\ UNCHANGED <<part, unused10>>
WordsSteps == part = "words" /\ Eeprom!Next /\ UNCHANGED <<part, unused7>>
CopperSteps == part = "copper" /\ Copper!Next /\ UNCHANGED <<part, s19>>
SerdesSteps == part = "serdes" /\ Serdes!Next /\ UNCHANGED <<part, unused13>>
FilterSteps == part = "filters" /\ Filt!Next /\ UNCHANGED part
TimesSteps ==
    /\ \/ part = "txtimes" /\ TxTimes!Next
       \/ part = "rxtimes" /\ RxTimes!Next
    /\ UNCHANGED <<part, s19>>
TestSteps == part = "selftest" /\ Test!Next /\ UNCHANGED part
MemorySteps == part = "memory" /\ Memory!Next /\ UNCHANGED <<part, unused9>>

Next ==
    \/ TxSteps \/ RxSteps \/ IrqSteps \/ NetpollSteps \/ LifeSteps
    \/ PhySteps \/ SemSteps \/ FlashSteps \/ WordsSteps
    \/ CopperSteps \/ SerdesSteps \/ FilterSteps
    \/ TimesSteps \/ TestSteps \/ MemorySteps

Spec == Init /\ [][Next]_vars

(* ------------------------------------------------------------------------ *)

\* The types of every component's variables.
TypesOK ==
    CASE part = "tx"  -> Tx!TypeOK
      [] part = "rx"  -> Rx!TypeOK
      [] part \in {"irq", "netpoll"} -> Poll!TypeOK
      [] part \in {"life", "plug", "fails", "resume", "runtime"} -> Life!TypeOK
      [] part = "phy" -> Phy!TypeOK
      [] part = "sem" -> Sem!TypeOK
      [] part = "flash" -> Flash!TypeOK
      [] part = "words" -> Eeprom!TypeOK
      [] part = "copper" -> Copper!TypeOK
      [] part = "serdes" -> Serdes!TypeOK
      [] part = "filters" -> Filt!TypeOK
      [] part = "txtimes" -> TxTimes!TypeOK
      [] part = "rxtimes" -> RxTimes!TypeOK
      [] part = "selftest" -> Test!TypeOK
      [] OTHER -> Memory!TypeOK

\* What the transmitter fetches is mapped until it is cleaned, no mapping outlives
\* its packet, and the queue stops before the ring overflows: e1000_tx_map,
\* e1000_clean_tx_irq and the rules for stopping and waking the queue.
TransmitRingIsSafe ==
    part = "tx" => Tx!FetchedIsMapped /\ Tx!NoStrayMapping /\ Tx!TailKeepsOff

\* The transmit ring implements a queue: what e1000_xmit_frame accepts is sent once
\* and in order, or dropped by a reset, and freed once.
QueueSpec == Queue!Spec

\* The controller writes only to mapped buffers, every skb is with one owner, and
\* the stack receives whole, good frames in order, whatever the shape of the
\* receive buffers and with allocations that fail.
ReceiveRingIsSafe ==
    part = "rx" => Rx!WritesAreMapped /\ Rx!SkbsAccounted /\ Rx!WholeFrames

\* Waiting work is always announced: an interrupt is enabled and pending, a poll is
\* scheduled, or the device is down; what is masked will be unmasked.  Without
\* netconsole nothing touches the rings of an interface that is down.
InterruptsAreSafe ==
    /\ part = "irq" => Napi!QuietWhileDown
    /\ part = "netpoll" => Poll!WorkIsAnnounced /\ Poll!MaskedIsTransient

\* Whatever operations the user, power management, the reset task and the watchdog
\* interleave: an open interface has what it needs, its rings' memory included,
\* every handler has its vector, a sleeping adapter is down, nobody resets beside
\* a reset, and what a self-test or the transmit timestamps hold is given back.
LifeIsOrderly ==
    /\ part \in {"life", "plug", "fails", "resume"} =>
           Life!OpenIsComplete /\ Life!HandlersHaveVectors
    /\ part \in {"life", "plug"} =>
           /\ Life!SystemSleepIsDown /\ Life!ClosedPhyIsOff
           /\ Life!NobodyResetsMeanwhile
    /\ part \in {"life", "plug", "runtime"} => Life!DriverIsAnnounced
    /\ part = "memory" => Memory!RingsAreWhole
    /\ part = "selftest" => Test!NothingIsHeld
    /\ part = "txtimes" => TxTimes!NothingIsLeft

\* A PHY access reaches the page and the register it was asked for, and the bits
\* that open the wakeup registers are closed again, with pages shared by threads
\* and MDIC transactions that fail.
PhyAccessIsExact ==
    part = "phy" => Phy!AccessesReachTheirRegister /\ Phy!WakeupBitsAreRestored

\* The four semaphore schemes exclude threads, ports and firmware, and a failed
\* acquisition keeps nothing.
SemaphoresExclude == part = "sem" => Sem!Exclusive /\ Sem!NothingIsKept

\* A commit of the NVM leaves a valid bank at every step, power lost or a step
\* failed; readers see what was written; the contents change as a whole; and
\* ethtool's write of any byte range changes exactly the bytes it names, whatever
\* the page size and the address bits.
NvmKeepsItsData ==
    /\ [](part = "flash" => Flash!ABankIsValid /\ Flash!ReadsSeeWrites)
    /\ [](part = "words" => Eeprom!SetIsExact)
    /\ [][part = "flash" => Flash!CommitStep]_vars

\* Once the watchdog has settled, pause frames, K1 and EEE are those of the link
\* there is.
SettingsFollowLink == part = "copper" => Copper!SettingsFollowLink

\* The filters accept what the stack asks for and, where the code intends it,
\* nothing else; the address survives resets of the other port.
FiltersFollowStack == part = "filters" => Filt!FiltersAgree /\ Filt!MacIsHeard

\* What the driver reports is so: the stack gets the time of the packet or frame it
\* is told of, the settings returned are those of the controller, and a self-test
\* passes a card if and only if it is sound as far as the test can tell.
ReportsAreTrue ==
    /\ part = "txtimes" => TxTimes!TimesAreTheirs /\ TxTimes!OneIsMarked
    /\ part = "rxtimes" => RxTimes!TimesAreTheirs
    /\ part \in {"txtimes", "rxtimes"} => RxTimes!AnswerIsTrue
    /\ part = "selftest" => Test!InterruptVerdict /\ Test!LoopbackVerdict

\* "The start index for the nth Hw sector can be calculated as = bank * 4096 +
\* n * 256": a commit leaves a valid bank with sectors smaller than a bank.
CommitKeepsABank == part = "flash" => Flash!ABankIsValid

\* "helper to enable HW VLAN filtering": outside promiscuous mode it is enabled.
VlanFilterIsOn == part = "filters" => Filt!VlanFilterIsOn
=============================================================================

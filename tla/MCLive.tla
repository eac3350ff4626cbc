------------------------------- MODULE MCLive -------------------------------
(***************************************************************************)
(* What must happen in the end, for every component that states fairness.  *)
(* As in MCDriver `part' says which component a behaviour is about, and    *)
(* the variables of that component are the first of the slots.             *)
(***************************************************************************)
EXTENDS Integers, FiniteSets, Sequences

CONSTANTS Parts, NoRegion, None

VARIABLES part, s1, s2, s3, s4, s5, s6, s7, s8, s9, s10,
          s11, s12, s13, s14, s15, s16, s17, s18, s19

slots == <<s1, s2, s3, s4, s5, s6, s7, s8, s9, s10,
           s11, s12, s13, s14, s15, s16, s17, s18, s19>>
vars == <<part, slots>>

(* ------------------------------------------------------------------------ *)
(* The policy module: a tree of three nodes on three addresses, and two      *)
(* processes that pass lists of which one runs into a bad pointer.           *)

Span(a, l, f) == [addr |-> a, len |-> l, protect |-> f]
TreeRegions == {Span(0, 1, {"r"}), Span(1, 1, {"r"})}
Policies == {[nodes |-> <<Span(4, 1, {"r"}), Span(0, 2, {"r"})>>, tail |-> "null"],
             [nodes |-> <<Span(4, 3, {"w"})>>, tail |-> "bad"]}

Tree == INSTANCE RegionTree WITH
    tree <- s1, region <- s2, used <- s3, pc <- s4, new <- s5, slot <- s6,
    addr <- s7, n <- s8, reply <- s9, Modulus <- 3, Flag <- {"r"},
    Candidate <- TreeRegions, NoRegion <- NoRegion, Nil <- "nil",
    Node <- {"n1", "n2", "n3"}

Policy == INSTANCE PolicyModule WITH
    module <- s1, entry <- s2, policy <- s3, content <- s4, used <- s5,
    clients <- s6, pc <- s7, file <- s8, list <- s9, at <- s10,
    root <- s11, out <- s12, reply <- s13, guard <- s14, access <- s15,
    map <- s16, verdict <- s17, Modulus <- 8, Flag <- {"r", "w"},
    NoRegion <- NoRegion, Process <- {"p1", "p2"}, Workload <- {"m1"},
    Access <- {[addr |-> 5, flags |-> {"w"}]}, PolicyList <- Policies,
    Root <- {"t1"}, Null <- "null", BufRegions <- 2

(* ------------------------------------------------------------------------ *)
(* The driver.  Two packets fill a ring of which the controller may hang and   *)
(* the link may be lost; three fill one where neither happens, and where       *)
(* nothing but the driver starts a stopped queue again.  Five frames for a     *)
(* ring of four, two descriptors to clean in each direction, operations on an  *)
(* adapter, a cable that comes and goes.                                       *)

Tx == INSTANCE TxRing WITH
    next_to_use <- s1, next_to_clean <- s2, buffer <- s3, desc <- s4,
    head <- s5, tail <- s6, hung <- s7, stopped <- s8, carrier <- s9,
    down <- s10, cur <- s11, xmit <- s12, clean <- s13, detect <- s14,
    recheck <- s15, hangTask <- s16, resetTask <- s17, wire <- s18,
    freed <- s19, None <- None,
    Count <- 6, Packets <- 2, Frags <- [p \in 1 .. 2 |-> 3 - p],
    Offload <- {}, MaxFrags <- 2, WakeThreshold <- 4, Batches <- FALSE,
    MayDrop <- {}, MayNotMap <- {2}, MayHang <- TRUE, DmaBurst <- FALSE

Quiet == INSTANCE TxRing WITH
    next_to_use <- s1, next_to_clean <- s2, buffer <- s3, desc <- s4,
    head <- s5, tail <- s6, hung <- s7, stopped <- s8, carrier <- s9,
    down <- s10, cur <- s11, xmit <- s12, clean <- s13, detect <- s14,
    recheck <- s15, hangTask <- s16, resetTask <- s17, wire <- s18,
    freed <- s19, None <- None,
    Count <- 7, Packets <- 3, Frags <- [p \in 1 .. 3 |-> IF p = 1 THEN 1 ELSE 2],
    Offload <- {2}, MaxFrags <- 2, WakeThreshold <- 4, Batches <- FALSE,
    MayDrop <- {1}, MayNotMap <- {2}, MayHang <- FALSE, DmaBurst <- TRUE

Rx == INSTANCE RxRing WITH
    mode <- s1, next_to_use <- s2, next_to_clean <- s3, buffer <- s4,
    desc <- s5, rx_skb_top <- s6, discarding <- s7, head <- s8,
    tail <- s9, frame <- s10, part <- s11, poll <- s12, live <- s13,
    up <- s14, failed <- s15, resets <- s16, Count <- 4, Frames <- 5,
    Parts <- [f \in 1 .. 5 |-> CASE f \in {2, 5} -> 3 [] f = 3 -> 2 [] OTHER -> 1],
    Bad <- {3}, Modes <- {"skb", "split", "jumbo"}, Write <- 2,
    Budget <- 3, Failures <- 2, MayNotMap <- FALSE, Resets <- 0,
    None <- None

Napi == INSTANCE NapiIrq WITH
    mode <- s1, icr <- s2, ims <- s3, rx <- s4, tx <- s5, napi <- s6,
    missed <- s7, poll <- s8, changed <- s9, armed <- s10,
    resetTask <- s11, down <- s12, reset <- s13,
    Modes <- {"msix", "legacy"}, Most <- 2, Budget <- 2,
    Ecc <- TRUE, Netpoll <- FALSE

Life == INSTANCE Lifecycle WITH
    ad <- s1, irq <- s2, todo <- s3, rtnl <- s4, wd <- s5, link <- s6,
    rpm <- s7, Ops <- {"probe", "open", "close"}, MayFail <- {},
    Mode <- "msix", Amt <- FALSE, NeedsRestart <- FALSE, Timeouts <- TRUE,
    LinkChanges <- FALSE

Serdes == INSTANCE SerdesLink WITH
    kind <- s1, partner <- s2, ane <- s3, slu <- s4, an <- s5, c <- s6,
    state <- s7, hasLink <- s8, failed <- s9, polling <- s10,
    changes <- s11, resets <- s12, Kinds <- {"82571", "generic"},
    Partners <- {"absent", "an", "noan", "noisy"}, Changes <- 3,
    Resets <- 1

(* ------------------------------------------------------------------------ *)

Zero13 == s13 = 0 /\ s14 = 0 /\ s15 = 0 /\ s16 = 0 /\ s17 = 0 /\ s18 = 0 /\ s19 = 0
Init ==
    /\ part \in Parts
    /\ \/ part = "tree" /\ Tree!Init /\ s10 = 0 /\ s11 = 0 /\ s12 = 0 /\ Zero13
       \/ part = "policy" /\ Policy!Init /\ s18 = 0 /\ s19 = 0
       \/ part = "tx" /\ Tx!Init
       \/ part = "quiet" /\ Quiet!Init
       \/ part = "rx" /\ Rx!Init /\ s17 = 0 /\ s18 = 0 /\ s19 = 0
       \/ /\ part = "irq" /\ Napi!Init
          /\ s14 = 0 /\ s15 = 0 /\ s16 = 0 /\ s17 = 0 /\ s18 = 0 /\ s19 = 0
       \/ /\ part = "life" /\ Life!Init
          /\ s8 = 0 /\ s9 = 0 /\ s10 = 0 /\ s11 = 0 /\ s12 = 0 /\ Zero13
       \/ part = "serdes" /\ Serdes!Init /\ Zero13

unused8 == <<s8, s9, s10, s11, s12, s13, s14, s15, s16, s17, s18, s19>>
unused10 == <<s10, s11, s12, s13, s14, s15, s16, s17, s18, s19>>
unused13 == <<s13, s14, s15, s16, s17, s18, s19>>
unused14 == <<s14, s15, s16, s17, s18, s19>>

TreeSteps == part = "tree" /\ Tree!Next /\ UNCHANGED <<part, unused10>>
PolicySteps == part = "policy" /\ Policy!Next /\ UNCHANGED <<part, s18, s19>>
TxSteps == part = "tx" /\ Tx!Next /\ UNCHANGED part
QuietSteps == part = "quiet" /\ Quiet!Next /\ UNCHANGED part
RxSteps == part = "rx" /\ Rx!Next /\ UNCHANGED <<part, s17, s18, s19>>
IrqSteps == part = "irq" /\ Napi!Next /\ UNCHANGED <<part, unused14>>
LifeSteps == part = "life" /\ Life!Next /\ UNCHANGED <<part, unused8>>
SerdesSteps == part = "serdes" /\ Serdes!Next /\ UNCHANGED <<part, unused13>>

Next == \/ TreeSteps \/ PolicySteps \/ TxSteps \/ QuietSteps
        \/ RxSteps \/ IrqSteps \/ LifeSteps \/ SerdesSteps

(* The fairness of each component, as its module states it: the k-th action   *)
(* that its scheduling is weakly fair to, and those it is strongly fair to.   *)
(* `part' never changes, so that fairness to the disjunction over the parts   *)
(* is fairness to each of them.                                              *)

WeaklyFair(k) ==
  \/ part = "tree" /\ k = 1 /\ Tree!Step /\ UNCHANGED unused10
  \/ /\ part = "policy"
     /\ \/ k = 1 /\ Policy!HandlerStep("p1")
        \/ k = 2 /\ Policy!HandlerStep("p2")
        \/ k = 3 /\ Policy!GuardReturn("m1")
        \/ k = 4 /\ Policy!Removed
     /\ UNCHANGED <<s18, s19>>
  \/ /\ part = "tx"
     /\ \/ k = 1 /\ Tx!Xmit
        \/ k = 2 /\ Tx!HwSend
        \/ k = 3 /\ Tx!Clean
        \/ k = 4 /\ Tx!Reset
        \/ k = 5 /\ Tx!WatchdogDetect
        \/ k = 6 /\ Tx!WatchdogLinkUp
        \/ k = 7 /\ Tx!PrintHwHang
        \/ k = 8 /\ Tx!TxTimeout
        \/ k = 9 /\ ~s9 /\ Tx!WatchdogLinkDown
  \/ /\ part = "quiet"
     /\ \/ k = 1 /\ Quiet!Xmit
        \/ k = 2 /\ Quiet!HwSend
        \/ k = 3 /\ Quiet!Clean
  \/ /\ part = "rx"
     /\ \/ k = 1 /\ Rx!HwWrite
        \/ k = 2 /\ (Rx!PollStart \/ Rx!PollClean \/ Rx!PollEnd)
     /\ UNCHANGED <<s17, s18, s19>>
  \/ /\ part = "irq"
     /\ \/ k = 1 /\ Napi!Interrupt
        \/ k = 2 /\ Napi!InterruptRx
        \/ k = 3 /\ Napi!InterruptTx
        \/ k = 4 /\ Napi!InterruptOther
        \/ k = 5 /\ Napi!Poll
        \/ k = 6 /\ Napi!UpSteps
        \/ k = 7 /\ s11 /\ Napi!DownStart
     /\ UNCHANGED unused14
  \/ part = "life" /\ k = 1 /\ Life!Watchdog /\ UNCHANGED unused8
  \/ /\ part = "serdes"
     /\ \/ k = 1 /\ Serdes!Watchdog
        \/ k = 2 /\ Serdes!PolledUp
        \/ k = 3 /\ Serdes!PolledTooLong
        \/ k = 4 /\ Serdes!HearConfig
        \/ k = 5 /\ Serdes!AnCompletes
     /\ UNCHANGED unused13

StronglyFair(k) ==
  \/ /\ part = "irq"
     /\ \/ k = 1 /\ Napi!PollClean /\ s5' = 0 /\ s4' < 2
        \/ k = 2 /\ Napi!InterruptTx /\ s5' = 0
     /\ UNCHANGED unused14
  \/ /\ part = "life"
     /\ \/ k = 1 /\ Life!Acts("user")
        \/ k = 2 /\ Life!Acts("task")
        \/ k = 3 /\ Life!Acts("pm")
     /\ UNCHANGED unused8

Spec == /\ Init /\ [][Next]_vars
        /\ \A k \in 1 .. 9 : WF_slots(WeaklyFair(k))
        /\ \A k \in 1 .. 3 : SF_slots(StronglyFair(k))

(* ------------------------------------------------------------------------ *)

\* Every call of the region tree returns, in trees of any shape the insertions and
\* rotations produce.
CallsReturn ==
    (part = "tree" /\ Tree!Calling) ~> (part = "tree" /\ ~Tree!Calling)

\* input_policy and output_policy end, or the process dies in them, while the other
\* process and the guards go on.
CallsEnd ==
    \A p \in {"p1", "p2"} :
      (part = "policy" /\ Policy!InHandler(p)) ~> (part = "policy" /\ ~Policy!InHandler(p))

\* A removal that has begun ends, unless a process has died with the file open.
RemovalEnds ==
    (part = "policy" /\ Policy!Leaving) ~> (part = "policy" /\ Policy!LeftOrStuck)

\* Every packet the driver takes is freed, whether it is sent, a reset drops it or
\* the controller hangs; a stopped queue is started again, by the reset or, where
\* there is none, by the reclaim or the second look; and no failed allocation
\* leaves the receiver without room for the next frame.
DataMoves ==
    /\ (part = "tx" /\ \E p \in 1 .. 2 : Tx!Taken(p) /\ ~Tx!Freed(p))
         ~> (part = "tx" /\ \A p \in 1 .. 2 : Tx!Taken(p) => Tx!Freed(p))
    /\ (part = "tx" /\ Tx!QueueIsStopped) ~> (part = "tx" /\ ~Tx!QueueIsStopped)
    /\ (part = "quiet") ~> (part = "quiet" /\ \A p \in 1 .. 3 : Quiet!Freed(p))
    /\ (part = "rx") ~> (part = "rx" /\ Rx!AllArrived)

\* Descriptors that wait are cleaned, in every interrupt mode and across resets,
\* and the watchdog's timer is set again after each of them.
RingsAreCleaned ==
    /\ (part = "irq" /\ s4 > 0) ~> (part = "irq" /\ s4 = 0)
    /\ (part = "irq" /\ s5 > 0) ~> (part = "irq" /\ s5 = 0)
    /\ (part = "irq" /\ ~Napi!WatchdogIsSet) ~> (part = "irq" /\ Napi!WatchdogIsSet)

\* No operation on an adapter waits for ever for another one, for the reset flag,
\* the rtnl lock or a worker it cancels.
OperationsFinish ==
    \A t \in {"user", "task"} :
      (part = "life" /\ Life!Busy(t)) ~> (part = "life" /\ ~Life!Busy(t))

\* The SerDes link converges to what the last partner makes possible.
SerdesConverges == (part = "serdes") ~> [](part = "serdes" /\ Serdes!Converged)
=============================================================================

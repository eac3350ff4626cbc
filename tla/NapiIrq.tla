------------------------------ MODULE NapiIrq ------------------------------
(***************************************************************************)
(* Interrupts and polling of the e1000e driver (netdev.c): the handlers of *)
(* the three interrupt modes, e1000e_poll, and e1000e_down and e1000e_up   *)
(* as far as they switch interrupts off and on.  The rings are reduced to  *)
(* the number of descriptors that wait to be cleaned.                      *)
(***************************************************************************)
EXTENDS Integers, FiniteSets

CONSTANTS
  Modes,      \* the interrupt modes in use: "msix", "msi", "legacy"
  Most,       \* the most descriptors that wait in a ring
  Budget,     \* what one poll may clean of the receive ring
  Netpoll,    \* netconsole calls the handlers too
  Ecc         \* memory errors are reported (pch_lpt and later)

VARIABLES
  mode,
  icr, ims,         \* causes raised, causes enabled
  rx, tx,           \* descriptors done and not cleaned
  napi, missed,     \* NAPI_STATE_SCHED, NAPI_STATE_MISSED
  poll,             \* where e1000e_poll is
  changed, armed,   \* the link has changed, the watchdog timer is set
  resetTask, down, reset

irq == <<icr, ims>>
work == <<rx, tx>>
sched == <<napi, missed, poll>>
link == <<changed, armed>>
state == <<resetTask, down, reset>>
vars == <<mode, irq, work, sched, link, state>>

Assumption ==
  /\ Modes \subseteq {"msix", "msi", "legacy"} /\ Most \in Nat /\ Budget \in Nat
  /\ Netpoll \in BOOLEAN /\ Ecc \in BOOLEAN

Cause == {"rx", "tx", "other", "lsc", "ecc"}

(* adapter->eiac_mask, the causes e1000_configure_msix gives a vector of   *)
(* their own.                                                              *)
EiacMask == {"rx", "tx"}

(* What e1000_irq_enable writes to IMS. *)
EnableMask ==
  IF mode = "msix" THEN EiacMask \cup {"other", "lsc"}
  ELSE {"rx", "tx", "lsc"} \cup (IF Ecc THEN {"ecc"} ELSE {})

Init ==
  /\ mode \in Modes
  /\ icr = {} /\ ims = EnableMask
  /\ rx = 0 /\ tx = 0
  /\ napi = FALSE /\ missed = FALSE /\ poll = "idle"
  /\ changed = FALSE /\ armed = TRUE
  /\ resetTask = FALSE /\ down = FALSE /\ reset = "idle"

-----------------------------------------------------------------------------
(* The controller finishes a descriptor, loses the link or finds an error. *)
HwReceive ==
  /\ ~down /\ rx < Most
  /\ rx' = rx + 1 /\ icr' = icr \cup {"rx"}
  /\ UNCHANGED <<mode, ims, tx, sched, link, state>>

HwSent ==
  /\ ~down /\ tx < Most
  /\ tx' = tx + 1 /\ icr' = icr \cup {"tx"}
  /\ UNCHANGED <<mode, ims, rx, sched, link, state>>

HwLinkChange ==
  /\ ~changed
  /\ changed' = TRUE /\ icr' = icr \cup {"lsc"}
  /\ UNCHANGED <<mode, ims, work, sched, armed, state>>

HwEccError ==
  /\ Ecc /\ mode # "msix" /\ "ecc" \notin icr /\ ~resetTask /\ ~down
  /\ icr' = icr \cup {"ecc"}
  /\ UNCHANGED <<mode, ims, work, sched, link, state>>

-----------------------------------------------------------------------------
(* napi_schedule_prep and __napi_schedule.  A poll that is about to enable *)
(* interrupts does so before the next one begins.                          *)
NapiSchedule ==
  IF napi THEN missed' = TRUE /\ UNCHANGED <<napi, poll>>
  ELSE /\ napi' = TRUE /\ UNCHANGED missed
       /\ poll' = IF poll = "enable" THEN poll ELSE "clean"

ArmUnlessDown(c) == armed' = (armed \/ ("lsc" \in c /\ ~down))

(* e1000_intr_msi and e1000_intr.  When the controller has asserted an     *)
(* interrupt, reading ICR clears it and masks all causes.  An ECC error    *)
(* schedules a reset and leaves them masked.  Only e1000_intr looks at the *)
(* state, and whether the interrupt was its own.                           *)
HandleAll ==
  LET asserted == icr \cap ims # {} IN
  /\ icr' = (IF asserted THEN {} ELSE icr)
  /\ ims' = (IF asserted THEN {} ELSE ims)
  /\ IF mode = "legacy" /\ (down \/ ~asserted)
     THEN UNCHANGED <<sched, armed, resetTask>>
     ELSE /\ ArmUnlessDown(icr)
          /\ IF "ecc" \in icr
             THEN resetTask' = TRUE /\ UNCHANGED sched
             ELSE NapiSchedule /\ UNCHANGED resetTask
  /\ UNCHANGED <<mode, work, changed, down, reset>>

Interrupt ==
  /\ mode # "msix" /\ icr \cap ims # {}
  /\ HandleAll

(* e1000_intr_msix_rx; the message clears and masks its own cause. *)
HandleRx ==
  /\ NapiSchedule
  /\ UNCHANGED <<mode, work, link, state>>

InterruptRx ==
  /\ mode = "msix" /\ "rx" \in icr \cap ims
  /\ icr' = icr \ {"rx"} /\ ims' = ims \ {"rx"}
  /\ HandleRx

(* e1000_intr_msix_tx cleans in the handler and asks for another interrupt *)
(* when it did not get through the ring.                                   *)
HandleTx(raised, enabled) ==
  /\ \E left \in {0, tx} :
       /\ tx' = left
       /\ icr' = raised \cup (IF left > 0 THEN {"tx"} ELSE {})
  /\ ims' = enabled \cup (IF down THEN {} ELSE {"tx"})
  /\ UNCHANGED <<mode, rx, sched, link, state>>

InterruptTx ==
  /\ mode = "msix" /\ "tx" \in icr \cap ims
  /\ HandleTx(icr \ {"tx"}, ims \ {"tx"})

(* e1000_msix_other reads ICR, which clears the causes of the two other    *)
(* vectors as well: it raises those again.                                 *)
RaiseNone(c) == {}
RaiseAgain(c) == c \cap EiacMask

HandleOther ==
  /\ icr' = RaiseAgain(icr)
  /\ ims' = (ims \ {"other", "lsc"}) \cup (IF down THEN {} ELSE {"other", "lsc"})
  /\ ArmUnlessDown(icr)
  /\ UNCHANGED <<mode, work, sched, changed, state>>

InterruptOther ==
  /\ mode = "msix" /\ "lsc" \in icr \cap ims
  /\ HandleOther

(* e1000_netpoll calls the handlers, whatever was raised. *)
NetpollAll == Netpoll /\ mode # "msix" /\ HandleAll
NetpollRx == Netpoll /\ mode = "msix" /\ UNCHANGED irq /\ HandleRx
NetpollTx == Netpoll /\ mode = "msix" /\ HandleTx(icr, ims)
NetpollOther == Netpoll /\ mode = "msix" /\ HandleOther

-----------------------------------------------------------------------------
(* What adapter->clean_rx leaves in work_done. *)
DoneBudget == Budget
Done == IF rx > Budget THEN Budget ELSE rx

(* e1000e_poll: the transmit ring, unless it has its own vector, and up to *)
(* Budget of the receive ring.  A poll that may have left something goes   *)
(* on polling.                                                             *)
PollClean ==
  /\ poll = "clean"
  /\ \E left \in IF mode = "msix" THEN {tx} ELSE {0, tx} :
       LET again == (mode # "msix" /\ left > 0) \/ Done = Budget
       IN /\ tx' = left /\ rx' = rx - Done
          /\ poll' = IF again THEN "clean" ELSE "complete"
  /\ UNCHANGED <<mode, irq, napi, missed, link, state>>

(* napi_complete_done: an interrupt that came meanwhile asks for another   *)
(* poll.                                                                   *)
PollComplete ==
  /\ poll = "complete"
  /\ missed' = FALSE /\ napi' = missed
  /\ poll' = IF missed THEN "clean" ELSE "enable"
  /\ UNCHANGED <<mode, irq, work, link, state>>

(* Interrupts are enabled again.  Between the two steps another interrupt  *)
(* may have scheduled a poll.                                              *)
EnableRxOnly == {"rx"}
EnableAfterPoll == IF mode = "msix" THEN {"rx"} ELSE EnableMask

PollEnableAlways ==
  /\ poll = "enable"
  /\ poll' = IF napi THEN "clean" ELSE "idle"
  /\ ims' = ims \cup EnableAfterPoll
  /\ UNCHANGED <<mode, icr, work, napi, missed, link, state>>

PollEnable ==
  /\ poll = "enable"
  /\ poll' = IF napi THEN "clean" ELSE "idle"
  /\ ims' = ims \cup (IF down THEN {} ELSE EnableAfterPoll)
  /\ UNCHANGED <<mode, icr, work, napi, missed, link, state>>

(* e1000_watchdog_task looks at the link and sets its timer again, and     *)
(* raises an interrupt so that the receive ring is cleaned.                *)
Watchdog ==
  /\ armed
  /\ IF down THEN armed' = FALSE /\ UNCHANGED <<changed, icr>>
     ELSE /\ changed' = FALSE /\ UNCHANGED armed
          /\ icr' = icr \cup {"rx"}
  /\ UNCHANGED <<mode, ims, work, sched, state>>

-----------------------------------------------------------------------------
(* e1000_reset_task, or any other caller of e1000e_down and e1000e_up *)
DownStart ==
  /\ reset = "idle"
  /\ reset' = "mask" /\ down' = TRUE /\ resetTask' = FALSE
  /\ UNCHANGED <<mode, irq, work, sched, link>>

(* e1000_irq_disable *)
DownMask ==
  /\ reset = "mask"
  /\ ims' = {} /\ reset' = "sync"
  /\ UNCHANGED <<mode, icr, work, sched, link, resetTask, down>>

DownAtOnce ==
  /\ reset = "sync"
  /\ armed' = FALSE
  /\ rx' = 0 /\ tx' = 0 /\ icr' = {}
  /\ reset' = "up"
  /\ UNCHANGED <<mode, ims, sched, changed, resetTask, down>>

(* napi_synchronize, del_timer_sync, the reset and the emptied rings *)
DownSync ==
  /\ reset = "sync" /\ ~napi /\ poll = "idle"
  /\ armed' = FALSE
  /\ rx' = 0 /\ tx' = 0 /\ icr' = {}
  /\ reset' = "up"
  /\ UNCHANGED <<mode, ims, sched, changed, resetTask, down>>

(* The flag cleared only after interrupts are on. *)
UpDownLater ==
  /\ reset = "up"
  /\ reset' = "trigger"
  /\ UNCHANGED <<mode, irq, work, sched, link, resetTask, down>>

(* e1000e_up: down is cleared, and only then are interrupts enabled and a  *)
(* link change raised that will start the watchdog.                        *)
Up ==
  /\ reset = "up"
  /\ down' = FALSE /\ reset' = "trigger"
  /\ UNCHANGED <<mode, irq, work, sched, link, resetTask>>
UpTrigger ==
  /\ reset = "trigger"
  /\ ims' = ims \cup EnableMask
  /\ icr' = icr \cup {"lsc"}
  /\ reset' = "idle"
  /\ UNCHANGED <<mode, work, sched, link, resetTask, down>>

Hw == HwReceive \/ HwSent \/ HwLinkChange \/ HwEccError
Handler == Interrupt \/ InterruptRx \/ InterruptTx \/ InterruptOther
Poll == PollClean \/ PollComplete \/ PollEnable
UpSteps == DownMask \/ DownSync \/ Up \/ UpTrigger

Next ==
  \/ Hw \/ Handler \/ Poll \/ Watchdog \/ DownStart \/ UpSteps
  \/ NetpollAll \/ NetpollRx \/ NetpollTx \/ NetpollOther

Spec == Init /\ [][Next]_vars

(* Interrupts are delivered, polls run, a reset that was asked for or has  *)
(* begun goes on.  The watchdog's own interrupt is not relied on.          *)
FairSpec ==
  /\ Spec
  /\ WF_vars(Interrupt) /\ WF_vars(InterruptRx) /\ WF_vars(InterruptTx)
  /\ WF_vars(InterruptOther) /\ SF_vars(PollClean /\ tx' = 0 /\ rx' < Budget)
  /\ SF_vars(InterruptTx /\ tx' = 0)
  /\ WF_vars(Poll) /\ WF_vars(UpSteps) /\ WF_vars(DownStart /\ resetTask)

-----------------------------------------------------------------------------
TypeOK ==
  /\ mode \in Modes /\ icr \subseteq Cause /\ ims \subseteq Cause
  /\ rx \in 0 .. Most /\ tx \in 0 .. Most
  /\ napi \in BOOLEAN /\ missed \in BOOLEAN /\ changed \in BOOLEAN
  /\ armed \in BOOLEAN /\ resetTask \in BOOLEAN /\ down \in BOOLEAN
  /\ poll \in {"idle", "clean", "complete", "enable"}
  /\ reset \in {"idle", "mask", "sync", "up", "trigger"}

(* While the adapter is down and its rings are taken apart nothing polls   *)
(* them, and no timer, handler or poll has switched interrupts on again.   *)
QuietWhileDown ==
  reset = "up" => ims = {} /\ ~napi /\ poll = "idle" /\ ~armed

(* Whatever is on a ring will be looked at: it has raised its cause, or a  *)
(* poll is due, or a reset is.                                             *)
WorkIsAnnounced ==
  /\ rx > 0 => "rx" \in icr \/ napi \/ poll = "enable" \/ down \/ resetTask
  /\ tx > 0 => "tx" \in icr \/ napi \/ poll = "enable" \/ down \/ resetTask

(* A cause that is masked is enabled again by the poll or the reset that   *)
(* is under way: interrupts never stay off.                                *)
MaskedIsTransient ==
  \A c \in EnableMask \ ims :
    napi \/ poll # "idle" \/ reset # "idle" \/ resetTask

(* Every descriptor the controller is done with is cleaned in the end,     *)
(* without the help of the watchdog.                                       *)
RingsAreCleaned == /\ (rx > 0) ~> (rx = 0)
                   /\ (tx > 0) ~> (tx = 0)

(* The watchdog starts again after every reset that is not itself cut      *)
(* short by another one.                                                   *)
WatchdogIsSet == armed \/ reset # "idle"
WatchdogRestarts == ~WatchdogIsSet ~> WatchdogIsSet
=============================================================================

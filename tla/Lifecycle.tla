----------------------------- MODULE Lifecycle -----------------------------
(***************************************************************************)
(* The life of an e1000e adapter (netdev.c): probe and remove, open and    *)
(* close, changes that take it down and up again, system and runtime       *)
(* suspend, PCI error recovery, and the two workers that run beside them,  *)
(* the watchdog and the reset task.                                        *)
(*                                                                         *)
(* An operation is a script, a sequence of named steps; "todo" holds what  *)
(* each thread still has to do.  Threads interleave between the steps.     *)
(***************************************************************************)
EXTENDS IrqSetup, Sequences

CONSTANTS
  Ops,          \* the operations that happen
  MayFail,      \* the requests and steps that may fail
  Mode,         \* the interrupt mode asked for
  Amt,          \* FLAG_HAS_AMT
  NeedsRestart, \* FLAG_RX_NEEDS_RESTART
  Timeouts,     \* the network stack may report a transmit timeout
  LinkChanges   \* the cable is plugged and unplugged

VARIABLES
  ad,     \* the adapter, its net_device and its registers
  irq,    \* what it has of interrupts
  todo,   \* for every thread the steps it has still to take
  rtnl,   \* the holder of the rtnl lock, or "free"
  wd,     \* where the watchdog task is
  link, rpm   \* there is a link; a runtime suspend is scheduled

vars == <<ad, irq, todo, rtnl, wd, link, rpm>>

(* "user" runs the callbacks of the network stack, "pm" those of the power *)
(* management, the PCI core and the driver core, "task" the reset task.    *)
Thread == {"user", "pm", "task"}

(* What the kernel refuses of the interrupt requests during one operation. *)
Fails == SUBSET (MayFail \cap (MsixLines \cup {"msix", "msi", "one", "test"}))

Unbound ==
  [bound |-> FALSE, ptp |-> FALSE, drv |-> FALSE,  \* DRV_LOAD
   down |-> TRUE, resetting |-> "no", testing |-> FALSE,
   running |-> FALSE, up |-> FALSE,   \* netif_running, IFF_UP
   frozen |-> FALSE,                  \* user space sleeps
   present |-> TRUE, asleep |-> "no", held |-> 0, warned |-> FALSE,
   rings |-> FALSE, napi |-> FALSE, irqOn |-> FALSE, phy |-> FALSE,
   carrier |-> FALSE, queue |-> FALSE, tctl |-> FALSE,
   timer |-> FALSE, lsc |-> FALSE, work |-> FALSE, reset |-> FALSE,
   restart |-> FALSE]

Init ==
  /\ ad = Unbound /\ irq = NoIrq(Mode)
  /\ todo = [t \in Thread |-> <<>>]
  /\ rtnl = "free" /\ wd = "idle" /\ link = TRUE /\ rpm = FALSE

-----------------------------------------------------------------------------
(* The scripts.  e1000e_down and e1000e_up: *)
Down == <<"mark", "quiet", "clean">>
DownNoReset == <<"mark", "quiet", "cleanOnly">>
Up == <<"clear", "enable">>

(* e1000e_reinit_locked *)
ReinitKeepsReset == <<"takeReset">> \o Down \o Up
Reinit == <<"takeReset">> \o Down \o Up \o <<"dropReset">>

OpenSteps == <<"get", "setup", "request", "enableNapi", "enable", "put">>
CloseSteps == <<"waitReset", "get", "ifPresentDown", "freeRings", "put">>
ReconfigureSteps == <<"takeReset", "get", "ifRunningReinit", "put", "dropReset">>

(* e1000e_pm_freeze and e1000e_pm_thaw *)
FreezeUnlocked == <<"detach", "resetCapability">>
Freeze == <<"rtnl", "detach", "unrtnl", "resetCapability">>
Thaw == <<"setCapability", "rtnl", "ifRunningRequest", "attach", "unrtnl", "thawed">>

(* A callback of the network stack is called with the rtnl lock held. *)
Script(op) ==
  CASE op = "open" -> <<"start">> \o OpenSteps \o <<"opened", "unrtnl">>
    [] op = "close" -> <<"stop">> \o CloseSteps \o <<"closed", "unrtnl">>
    [] op = "mtu" -> ReconfigureSteps \o <<"unrtnl">>
    [] op = "features" -> <<"ifRunningFeatures", "unrtnl">>
    [] op = "diag" -> <<"get", "testing", "ifRunningClose", "test", "tested",
                        "ifRunningOpen", "put", "unrtnl">>
    [] op = "probe" -> <<"swInit", "nvm", "ptp", "register">>
    [] op = "remove" -> <<"removeStart", "cancelTask", "cancelWatchdog", "rtnl",
                          "unregister", "unlist", "unrtnl", "free">>
    [] op = "suspend" -> Freeze \o <<"shutdown", "sleepSystem">>
    [] op = "resume" -> <<"wake">> \o Thaw
    [] op = "runtimeSuspend" -> <<"ifUpDown", "shutdownRuntime", "sleepRuntime", "rpmDone">>
    [] op = "runtimeResume" -> <<"wake", "ifUpUp", "rpmDone">>
    [] op = "error" -> Freeze \o <<"slotReset">> \o Thaw \o <<"control">>

-----------------------------------------------------------------------------
At(t, s) == t \in Thread /\ todo[t] # <<>> /\ Head(todo[t]) = s

(* Thread t takes step s: the adapter becomes d, the interrupts q, and the *)
(* steps in more come before those already on the script.                  *)
Takes(t, s, d, q, more) ==
  /\ At(t, s)
  /\ ad' = d /\ irq' = q
  /\ todo' = [todo EXCEPT ![t] = more \o Tail(@)]

Step(t, s, d) == Takes(t, s, d, irq, <<>>) /\ UNCHANGED <<rtnl, wd, link, rpm>>
StepIrq(t, s, d, q) == Takes(t, s, d, q, <<>>) /\ UNCHANGED <<rtnl, wd, link, rpm>>
Branch(t, s, more) == Takes(t, s, ad, irq, more) /\ UNCHANGED <<rtnl, wd, link, rpm>>
If(c, more) == IF c THEN more ELSE <<>>

(* An operation gives up: the rest of its script is replaced. *)
Abort(t, s, d, q, rest) ==
  /\ At(t, s)
  /\ ad' = d /\ irq' = q /\ todo' = [todo EXCEPT ![t] = rest]
  /\ UNCHANGED <<rtnl, wd, link, rpm>>

Lock(t) ==
  /\ At(t, "rtnl") /\ rtnl = "free" /\ rtnl' = t
  /\ todo' = [todo EXCEPT ![t] = Tail(@)]
  /\ UNCHANGED <<ad, irq, wd, link, rpm>>

Unlock(t) ==
  /\ At(t, "unrtnl") /\ rtnl' = "free"
  /\ todo' = [todo EXCEPT ![t] = Tail(@)]
  /\ UNCHANGED <<ad, irq, wd, link, rpm>>

(* e1000e_reset: the controller stops and masks its interrupts, the driver *)
(* takes control from AMT firmware, and a closed adapter's PHY sleeps.     *)
ResetKeepsPhy(d) ==
  [d EXCEPT !.tctl = FALSE, !.irqOn = FALSE, !.lsc = FALSE, !.drv = @ \/ Amt]
Reset(d) ==
  [d EXCEPT !.tctl = FALSE, !.irqOn = FALSE, !.lsc = FALSE,
            !.drv = @ \/ Amt, !.phy = @ /\ (d.running \/ d.testing)]

(* e1000e_down: mark the adapter down and stop the traffic, mask the       *)
(* interrupts and stop the timers, reset and empty the rings.              *)
Mark(t) ==
  Step(t, "mark", [ad EXCEPT !.down = TRUE, !.carrier = FALSE,
                             !.queue = FALSE, !.tctl = FALSE])

Quiet(t) == Step(t, "quiet", [ad EXCEPT !.irqOn = FALSE, !.timer = FALSE])
Clean(t) == Step(t, "clean", Reset(ad))
CleanOnly(t) == Step(t, "cleanOnly", ad)

(* e1000e_up: configure (which forgets a restart that was asked for) and   *)
(* clear DOWN, then interrupts on and a link change raised.                *)
Clear(t) == Step(t, "clear", [ad EXCEPT !.down = FALSE, !.restart = FALSE])
Enable(t) == Step(t, "enable", [ad EXCEPT !.irqOn = TRUE, !.lsc = TRUE])

(* test_and_set_bit(__E1000_RESETTING), and the bounded wait for it: half  *)
(* a second, which outlasts any thread that can go on.                     *)
TakeReset(t) ==
  /\ ad.resetting = "no"
  /\ Step(t, "takeReset", [ad EXCEPT !.resetting = t])

DropReset(t) == Step(t, "dropReset", [ad EXCEPT !.resetting = "no"])

Gone(holder) == holder \in Thread /\ todo[holder] = <<>>
WaitReset(t) ==
  LET holder == ad.resetting IN
  /\ holder = "no" \/ (t = "pm" /\ At(holder, "get")) \/ Gone(holder)
  /\ Step(t, "waitReset", [ad EXCEPT !.warned = @ \/ holder # "no"])

(* pm_runtime_get_sync: wait for the power management and wake the device; *)
(* pm_runtime_put asks for a suspend when there is no link                 *)
(* (e1000e_pm_runtime_idle).                                               *)
InRuntime == \E k \in 1 .. Len(todo["pm"]) : todo["pm"][k] = "rpmDone"
AskResume ==
  /\ ad.asleep = "runtime" /\ todo["pm"] = <<>>
  /\ todo' = [todo EXCEPT !["pm"] = Script("runtimeResume")]
  /\ UNCHANGED <<ad, irq, rtnl, wd, link, rpm>>

GetSync(t) ==
  \/ /\ ad.asleep # "runtime"
     /\ ~InRuntime
     /\ Step(t, "get", [ad EXCEPT !.held = @ + 1])
  \/ At(t, "get") /\ AskResume

PutForgets(t) ==
  /\ Takes(t, "put", ad, irq, <<>>)
  /\ rpm' = (rpm \/ ("runtimeSuspend" \in Ops /\ (~link \/ ~ad.running)))
  /\ UNCHANGED <<rtnl, wd, link>>
Put(t) ==
  /\ Takes(t, "put", [ad EXCEPT !.held = @ - 1], irq, <<>>)
  /\ rpm' = (rpm \/ ("runtimeSuspend" \in Ops /\ (~link \/ ~ad.running)))
  /\ UNCHANGED <<rtnl, wd, link>>

-----------------------------------------------------------------------------
(* e1000e_open.  __dev_open has set netif_running before it calls, and     *)
(* sets IFF_UP or takes netif_running back when it has returned.           *)
OpenStart(t) == Step(t, "start", [ad EXCEPT !.running = TRUE])

Opened(t) == Step(t, "opened", [ad EXCEPT !.up = TRUE])

(* After an error: err_req_irq releases the hardware, err_setup_rx and     *)
(* err_setup_tx free what was allocated and reset.  e1000_diag_test does   *)
(* not look at the result: its caller has netif_running still set.         *)
OpenFailed(d, released) ==
  Reset([d EXCEPT !.rings = FALSE, !.held = @ - 1,
                  !.drv = @ /\ ~released, !.phy = @ /\ ~released])
AfterFailure(t) ==
  IF \E k \in 1 .. Len(todo[t]) : todo[t][k] = "opened"
  THEN <<"notOpened", "unrtnl">> ELSE <<"put", "unrtnl">>

NotOpened(t) == Step(t, "notOpened", [ad EXCEPT !.running = FALSE])

OpenSetup(t) ==
  LET d == [ad EXCEPT !.rings = TRUE, !.phy = TRUE] IN
  \/ Step(t, "setup", [(IF Amt THEN Reset(d) ELSE d) EXCEPT !.phy = TRUE])
  \/ /\ "rings" \in MayFail
     /\ Abort(t, "setup", OpenFailed(ad, FALSE), irq, AfterFailure(t))

OpenRequest(t) ==
  \E fail \in Fails, fires \in {TRUE, "fires" \notin MayFail} :
    LET q == OpenIrq(irq, fail, fires) IN
    IF q.err THEN Abort(t, "request", OpenFailed(ad, TRUE), q, AfterFailure(t))
    ELSE StepIrq(t, "request", ad, q)

EnableNapi(t) ==
  Step(t, "enableNapi", [ad EXCEPT !.down = FALSE, !.restart = FALSE, !.napi = TRUE])

(* e1000e_close *)
CloseStart(t) == Step(t, "stop", [ad EXCEPT !.running = FALSE])
Closed(t) == Step(t, "closed", [ad EXCEPT !.up = FALSE])

IfPresentDown(t) ==
  Branch(t, "ifPresentDown", If(ad.present, Down \o <<"freeIrq">>))

FreeIrqs(t) == StepIrq(t, "freeIrq", ad, FreeIrq(irq))

FreeRings(t) ==
  Step(t, "freeRings", [ad EXCEPT !.napi = FALSE, !.rings = FALSE,
                                  !.drv = @ /\ (~Amt \/ ad.testing)])

(* e1000_change_mtu, e1000_set_pauseparam and the other settings that take *)
(* the interface down and up, or reset a closed one; e1000_set_features    *)
(* does so without waking the device.                                      *)
IfRunningReinit(t) ==
  Branch(t, "ifRunningReinit", IF ad.running THEN Down \o Up ELSE <<"reset">>)
IfRunningFeatures(t) ==
  Branch(t, "ifRunningFeatures", IF ad.running THEN Reinit ELSE <<"reset">>)
ResetOnly(t) == Step(t, "reset", Reset(ad))

(* e1000_diag_test, the offline test *)
Testing(t) ==
  LET d == [ad EXCEPT !.testing = TRUE] IN
  Step(t, "testing", IF ad.running THEN d ELSE Reset([d EXCEPT !.phy = TRUE]))
IfRunningClose(t) == Branch(t, "ifRunningClose", If(ad.running, CloseSteps))
Test(t) == Step(t, "test", Reset(ad))
Tested(t) == Step(t, "tested", [ad EXCEPT !.testing = FALSE])
IfRunningOpen(t) ==
  Branch(t, "ifRunningOpen", IF ad.running THEN OpenSteps ELSE <<"reset", "release">>)
Release(t) == Step(t, "release", [ad EXCEPT !.drv = @ /\ ~Amt])

-----------------------------------------------------------------------------
(* e1000_reset_task *)
CheckDown(t) ==
  Branch(t, "checkDown", If(~ad.down, Reinit))

TaskStart ==
  /\ ad.reset /\ todo["task"] = <<>>
  /\ ad' = [ad EXCEPT !.reset = FALSE]
  /\ todo' = [todo EXCEPT !["task"] = <<"rtnl", "checkDown", "unrtnl">>]
  /\ UNCHANGED <<irq, rtnl, wd, link, rpm>>

TxTimeout ==
  /\ Timeouts /\ ad.running /\ ad.carrier /\ ad.present /\ ~ad.reset
  /\ ad' = [ad EXCEPT !.reset = TRUE]
  /\ UNCHANGED <<irq, todo, rtnl, wd, link, rpm>>

(* The link changes; the handler of the interrupt starts the watchdog.     *)
LinkChange ==
  /\ LinkChanges /\ link' = ~link
  /\ ad' = [ad EXCEPT !.lsc = TRUE]
  /\ UNCHANGED <<irq, todo, rtnl, wd, rpm>>

Interrupt ==
  /\ ad.irqOn /\ ad.lsc /\ irq.lines # {}
  /\ ad' = [ad EXCEPT !.lsc = FALSE, !.timer = @ \/ ~ad.down]
  /\ UNCHANGED <<irq, todo, rtnl, wd, link, rpm>>

(* e1000_watchdog *)
TimerFires ==
  /\ ad.timer
  /\ ad' = [ad EXCEPT !.timer = FALSE, !.work = TRUE]
  /\ UNCHANGED <<irq, todo, rtnl, wd, link, rpm>>

(* e1000_watchdog_task, which takes no lock and looks at DOWN only when it *)
(* starts and before it sets a timer.                                      *)
Watches(from, to, d) ==
  /\ wd = from /\ wd' = to /\ ad' = d
  /\ UNCHANGED <<irq, todo, rtnl, link, rpm>>

WatchStart ==
  /\ ad.work
  /\ Watches("idle", IF ad.down THEN "idle"
                     ELSE IF link THEN "resume"
                     ELSE IF ad.carrier THEN "lost" ELSE "tail",
             [ad EXCEPT !.work = FALSE])

(* pm_runtime_resume; then a link that was there before needs nothing but  *)
(* its receiver, and a new one the transmitter.                            *)
WatchResume ==
  \/ /\ ad.asleep # "runtime" /\ ~InRuntime
     /\ IF ad.carrier THEN Watches("resume", "tail", [ad EXCEPT !.restart = FALSE])
        ELSE Watches("resume", "transmit", ad)
  \/ wd = "resume" /\ AskResume

WatchTransmit == Watches("transmit", "carrier", [ad EXCEPT !.tctl = TRUE])
WatchCarrier ==
  Watches("carrier", "tail", [ad EXCEPT !.queue = TRUE, !.carrier = TRUE])

WatchLost ==
  /\ wd = "lost" /\ wd' = "tail"
  /\ ad' = [ad EXCEPT !.carrier = FALSE, !.queue = FALSE, !.restart = @ \/ NeedsRestart]
  /\ rpm' = (rpm \/ ("runtimeSuspend" \in Ops /\ ~NeedsRestart))
  /\ UNCHANGED <<irq, todo, rtnl, link>>

(* Packets left on the ring of a dead link ask for a reset too. *)
WatchTail ==
  \E left \in {FALSE, ~ad.carrier} :
    IF ad.restart \/ left
    THEN Watches("tail", "idle", [ad EXCEPT !.restart = TRUE, !.reset = TRUE])
    ELSE Watches("tail", IF ad.down THEN "idle" ELSE "arm", ad)

WatchArm == Watches("arm", "idle", [ad EXCEPT !.timer = TRUE])

-----------------------------------------------------------------------------
(* e1000_probe and e1000_remove *)
ProbeInit(t) ==
  \E fail \in Fails :
    StepIrq(t, "swInit", [ad EXCEPT !.down = TRUE],
            SetCapability(NoIrq(Mode), fail))

ProbeFailed(d) == [Unbound EXCEPT !.ptp = d.ptp]
ProbeNvm(t) ==
  \/ Step(t, "nvm", ad)
  \/ "nvm" \in MayFail /\ Abort(t, "nvm", ProbeFailed(ad), NoIrq(Mode), <<>>)

ProbePtp(t) ==
  Step(t, "ptp", [Reset([ad EXCEPT !.ptp = TRUE]) EXCEPT !.drv = TRUE])

ProbeRegister(t) ==
  \/ Step(t, "register", [ad EXCEPT !.bound = TRUE])
  \/ /\ "register" \in MayFail
     /\ Abort(t, "register", ProbeFailed(ad), NoIrq(Mode), <<>>)

RemoveStart(t) ==
  Step(t, "removeStart", [ad EXCEPT !.ptp = FALSE, !.down = TRUE, !.timer = FALSE])

CancelTask(t) ==
  todo["task"] = <<>> /\ Step(t, "cancelTask", [ad EXCEPT !.reset = FALSE])
CancelWatchdog(t) ==
  wd = "idle" /\ Step(t, "cancelWatchdog", [ad EXCEPT !.work = FALSE])

Unregister(t) ==
  Branch(t, "unregister",
         If(ad.up, <<"stop">> \o CloseSteps \o <<"closed">>))

Unlist(t) == Step(t, "unlist", [ad EXCEPT !.bound = FALSE])

(* The memory the timers and the work live in is freed. *)
Free(t) ==
  StepIrq(t, "free", [Unbound EXCEPT !.timer = ad.timer, !.work = ad.work, !.reset = ad.reset],
          [ResetCapability(irq) EXCEPT !.mode = Mode])

-----------------------------------------------------------------------------
(* e1000e_pm_freeze *)
Detach(t) ==
  Takes(t, "detach", [ad EXCEPT !.present = FALSE], irq,
        If(ad.present /\ ad.running,
           <<"waitReset">> \o DownNoReset \o <<"freeIrq">>))
    /\ UNCHANGED <<rtnl, wd, link, rpm>>
DropCapability(t) == StepIrq(t, "resetCapability", ad, ResetCapability(irq))

(* e1000e_pm_thaw *)
GetCapability(t) ==
  \E fail \in Fails : StepIrq(t, "setCapability", ad, SetCapability(irq, fail))

ThawWithoutUp(t) ==
  \E fail \in Fails :
    LET q == RequestIrq(irq, fail) IN
    IF ~ad.running THEN Branch(t, "ifRunningRequest", <<>>)
    ELSE IF q.err THEN Abort(t, "ifRunningRequest", ad, q, <<"unrtnl", "thawed">>)
    ELSE StepIrq(t, "ifRunningRequest", ad, q)
ThawRequest(t) ==
  \E fail \in Fails :
    LET q == RequestIrq(irq, fail) IN
    IF ~ad.running THEN Branch(t, "ifRunningRequest", <<>>)
    ELSE IF q.err THEN Abort(t, "ifRunningRequest", ad, q, <<"unrtnl", "thawed">>)
    ELSE Takes(t, "ifRunningRequest", ad, q, Up) /\ UNCHANGED <<rtnl, wd, link, rpm>>

Thawed(t) == Step(t, "thawed", [ad EXCEPT !.frozen = FALSE])
Attach(t) == Step(t, "attach", [ad EXCEPT !.present = TRUE])

(* __e1000_shutdown; when it fails, the way back. *)
Shutdown(t) ==
  \/ Step(t, "shutdown", [ad EXCEPT !.drv = FALSE, !.phy = FALSE])
  \/ "shutdown" \in MayFail /\ Abort(t, "shutdown", ad, irq, Thaw)
ShutdownRuntime(t) ==
  \/ Step(t, "shutdownRuntime", [ad EXCEPT !.drv = FALSE])
  \/ "shutdown" \in MayFail
       /\ Abort(t, "shutdownRuntime", ad, irq, Script("runtimeResume"))
SleepSystem(t) == Step(t, "sleepSystem", [ad EXCEPT !.asleep = "system"])
SleepRuntime(t) == Step(t, "sleepRuntime", [ad EXCEPT !.asleep = "runtime"])

(* __e1000_resume *)
ResumedNoControl(d) == [Reset([d EXCEPT !.phy = TRUE]) EXCEPT !.asleep = "no"]
Resumed(d) == [Reset([d EXCEPT !.phy = TRUE]) EXCEPT !.drv = TRUE, !.asleep = "no"]
Wake(t) == Step(t, "wake", Resumed(ad))

(* e1000e_pm_runtime_suspend and e1000e_pm_runtime_resume, without rtnl *)
IfUpDown(t) ==
  Branch(t, "ifUpDown", If(ad.up, <<"waitReset">> \o DownNoReset))
IfUpUp(t) == Branch(t, "ifUpUp", If(ad.up, Up))

(* e1000_io_slot_reset and e1000_io_resume *)
SlotReset(t) ==
  \/ Step(t, "slotReset", Reset([ad EXCEPT !.drv = FALSE]))
  \/ "slot" \in MayFail /\ Abort(t, "slotReset", [ad EXCEPT !.drv = FALSE], irq, <<>>)
RpmDone(t) == Step(t, "rpmDone", ad)
Control(t) == Step(t, "control", [ad EXCEPT !.drv = TRUE])

-----------------------------------------------------------------------------
(* Which operation may start: one at a time of the user's, under the rtnl  *)
(* lock, and one of the power management's.                                *)
Begins(t, op) ==
  /\ op \in Ops /\ todo[t] = <<>>
  /\ todo' = [todo EXCEPT ![t] = Script(op)]
  /\ UNCHANGED <<irq, wd, link>>

UserBegins ==
  /\ ad.bound /\ ~ad.frozen /\ rtnl = "free" /\ rtnl' = "user"
  /\ \/ ~ad.up /\ ad.present /\ Begins("user", "open")
     \/ ad.up /\ Begins("user", "close")
     \/ ad.present /\ (Begins("user", "mtu") \/ Begins("user", "diag"))
     \/ ad.present /\ ad.asleep = "no" /\ ~rpm /\ Begins("user", "features")
  /\ UNCHANGED <<ad, rpm>>

(* The system freezes user space before it suspends, and keeps the other   *)
(* callbacks away from a sleeping device.                                  *)
PmBegins ==
  /\ \/ ~ad.bound /\ ad = Unbound /\ Begins("pm", "probe")
     \/ ad.bound /\ ad.asleep = "no" /\ (Begins("pm", "remove") \/ Begins("pm", "error"))
     \/ ad.frozen /\ ad.asleep = "system" /\ Begins("pm", "resume")
  /\ UNCHANGED <<ad, rtnl, rpm>>

Suspends ==
  /\ ad.bound /\ ad.asleep = "no" /\ todo["user"] = <<>>
  /\ Begins("pm", "suspend")
  /\ ad' = [ad EXCEPT !.frozen = TRUE]
  /\ UNCHANGED <<rtnl, rpm>>

(* A scheduled suspend comes seconds later: not before an open is through. *)
RuntimeSuspends ==
  /\ \A k \in 1 .. Len(todo["user"]) : todo["user"][k] # "opened"
  /\ ad.bound /\ ad.asleep = "no" /\ ad.held = 0 /\ rpm /\ rpm' = FALSE
  /\ Begins("pm", "runtimeSuspend")
  /\ UNCHANGED <<ad, rtnl>>

Steps(t) ==
  \/ Lock(t) \/ Unlock(t) \/ Mark(t) \/ Quiet(t) \/ Clean(t) \/ CleanOnly(t)
  \/ Clear(t) \/ Enable(t) \/ TakeReset(t) \/ DropReset(t) \/ WaitReset(t)
  \/ GetSync(t) \/ Put(t) \/ FreeIrqs(t) \/ ResetOnly(t)

OpenClose(t) ==
  \/ OpenStart(t) \/ Opened(t) \/ NotOpened(t) \/ OpenSetup(t) \/ OpenRequest(t)
  \/ EnableNapi(t) \/ CloseStart(t) \/ Closed(t) \/ IfPresentDown(t) \/ FreeRings(t)
  \/ IfRunningReinit(t) \/ IfRunningFeatures(t)
  \/ Testing(t) \/ IfRunningClose(t) \/ Test(t) \/ Tested(t) \/ IfRunningOpen(t) \/ Release(t)

PmSteps(t) ==
  \/ ProbeInit(t) \/ ProbeNvm(t) \/ ProbePtp(t) \/ ProbeRegister(t)
  \/ RemoveStart(t) \/ CancelTask(t) \/ CancelWatchdog(t) \/ Unregister(t) \/ Free(t)
  \/ Unlist(t) \/ Thawed(t) \/ RpmDone(t)
  \/ Detach(t) \/ DropCapability(t) \/ GetCapability(t)
  \/ ThawRequest(t) \/ Attach(t) \/ Shutdown(t) \/ ShutdownRuntime(t)
  \/ SleepSystem(t) \/ SleepRuntime(t) \/ Wake(t) \/ IfUpDown(t) \/ IfUpUp(t)
  \/ SlotReset(t) \/ Control(t)

Watchdog ==
  \/ WatchStart \/ WatchResume \/ WatchTransmit \/ WatchCarrier
  \/ WatchLost \/ WatchTail \/ WatchArm

Next ==
  \/ UserBegins \/ PmBegins \/ Suspends \/ RuntimeSuspends \/ TaskStart \/ TxTimeout \/ LinkChange
  \/ Interrupt \/ TimerFires \/ Watchdog
  \/ CheckDown("task")
  \/ \E t \in Thread : Steps(t)
  \/ OpenClose("user") \/ OpenClose("pm") \/ PmSteps("pm")

Spec == Init /\ [][Next]_vars

(* Every thread gets its turn, also at the lock; the watchdog does. *)
Acts(t) ==
  \/ Steps(t) \/ (t # "task" /\ OpenClose(t))
  \/ (t = "pm" /\ PmSteps(t)) \/ (t = "task" /\ CheckDown(t))
FairSpec == Spec /\ WF_vars(Watchdog) /\ \A t \in Thread : SF_vars(Acts(t))

-----------------------------------------------------------------------------
TypeOK ==
  /\ irq.lines \subseteq Line /\ irq.mode \in {"msix", "msi", "legacy"}
  /\ rtnl \in Thread \cup {"free"} /\ ad.resetting \in Thread \cup {"no"}
  /\ wd \in {"idle", "resume", "transmit", "carrier", "lost", "tail", "arm"}
  /\ ad.asleep \in {"no", "runtime", "system"} /\ ad.held \in 0 .. 2

AtRest == \A t \in Thread : todo[t] = <<>>

(* An interface that is up can be used and closed, whatever operations and *)
(* failures came before: it has its rings, its NAPI context and exactly    *)
(* the handlers its interrupt mode calls for, and is not down.             *)
OpenIsComplete ==
  AtRest /\ ad.bound /\ ad.running /\ ad.present /\ ad.asleep = "no" =>
    ad.rings /\ ad.napi /\ irq.lines = Wanted(irq) /\ ~ad.down

(* No handler is registered at a vector the device does not have. *)
HandlersHaveVectors == AtRest => irq.lines \subseteq Exist(irq)

(* MSI is relied on only after its test (open), or not at all. *)
MsiIsTested == AtRest /\ ad.running /\ irq.msi => ~irq.untested

(* While the system sleeps the adapter is down, and has given back its     *)
(* interrupts: the reset task and the watchdog find it down.               *)
SystemSleepIsDown ==
  ad.asleep = "system" =>
    ad.down /\ ~ad.irqOn /\ irq.lines = {} /\ ~irq.entries /\ ~irq.msi

(* The same of a device that the power management put to sleep while idle. *)
RuntimeSleepIsDown == ad.asleep = "runtime" /\ ad.up => ad.down /\ ~ad.irqOn

(* Carrier is reported only by a controller that transmits. *)
CarrierTransmits ==
  AtRest /\ wd = "idle" /\ ad.carrier => ad.tctl

(* The firmware is told that a driver is in charge as long as one is bound *)
(* to an adapter without AMT, and awake.                                   *)
DriverIsAnnounced ==
  AtRest /\ ad.bound /\ ad.present /\ ad.asleep = "no" /\ ~Amt => ad.drv

(* AMT firmware is told so only while the interface is open. *)
AmtAnnouncedWhenOpen ==
  AtRest /\ ad.bound /\ Amt /\ ad.drv => ad.running

(* The PHY of a closed interface is off, so that its partner sees no link. *)
ClosedPhyIsOff ==
  AtRest /\ ad.bound /\ ~ad.running /\ ad.asleep = "no" => ~ad.phy

(* WARN_ON(test_bit(__E1000_RESETTING)): whoever takes the adapter down    *)
(* has waited for the one who is resetting it.                             *)
NobodyResetsMeanwhile == ~ad.warned

(* What a removed, or never quite bound, device leaves: nothing that       *)
(* refers to it.                                                           *)
NothingLeft ==
  AtRest /\ ~ad.bound =>
    ~ad.ptp /\ ~ad.timer /\ ~ad.work /\ ~ad.reset /\ wd = "idle" /\ irq.lines = {}

(* No operation waits for ever. *)
Busy(t) == todo[t] # <<>>
OperationsFinish == \A t \in Thread : Busy(t) ~> ~Busy(t)
=============================================================================

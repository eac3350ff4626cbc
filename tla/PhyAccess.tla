----------------------------- MODULE PhyAccess -----------------------------
(***************************************************************************)
(* How e1000e reads and writes the registers of its PHY.  A register is    *)
(* named by a page and a number; the MDIC interface reaches 32 registers   *)
(* of one PHY address at a time, so an access is a short program: put an   *)
(* address in hw->phy.addr, select the page, make the access.  Host wake-  *)
(* up registers (page 800) are reached through two more registers, after   *)
(* register 769.17 has been saved and opened, and it is restored after.    *)
(* The programs differ with the family of the PHY: m88, igp, bm, bm2 and   *)
(* hv.  All callers share hw->phy.addr, the pages the PHY has selected and *)
(* the semaphore that orders them (phy.ops.acquire).                       *)
(*                                                                         *)
(* One step is one assignment or one MDIC transaction.  A transaction may  *)
(* fail (time out, error bit), which ends the program at that place.       *)
(***************************************************************************)
EXTENDS Naturals, Sequences

CONSTANTS Threads,      \* callers: the watchdog, the PHY task, ethtool
          Families,     \* families of PHY to look at
          Accesses,     \* what a caller may ask for, see Access
          AddrReg,      \* port of the debug registers: 29 (82578) or 16
          MayFail,      \* pages: MDIC transactions of accesses to these may fail
          Alone         \* families whose accesses are taken not to overlap

VARIABLES family,       \* of this PHY
          addr,         \* hw->phy.addr
          lock,         \* the semaphore: the thread that holds it, or "free"
          page,         \* device: page selected at each PHY address
          wuc,          \* device: register 769.17
          opcode,       \* device: wakeup register that 800.18 reaches
          debug,        \* device: debug register the data port reaches
          call          \* of each thread: what it asks, what is left to do

vars == <<family, addr, lock, page, wuc, opcode, debug, call>>

WucPage == 800
PortCtrlPage == 769
IntcFcPageStart == 768
StatsPage == 778
MultiPage == 15        \* MAX_PHY_MULTI_PAGE_REG

\* page << IGP_PAGE_SHIFT, for the page register of PHY address 1.
Shifted(p) == 32 * p
Offset(a) == Shifted(a.page) + a.reg

\* An access by itself, or as part of a session: its caller holds the lock and
\* has selected the page (the _page variants).
Access(p, r, session) == [page |-> p, reg |-> r, session |-> session]

(* Steps of a program: an assignment to hw->phy.addr, one that is made even  *)
(* when the transaction before it failed, and MDIC transactions.             *)
Addr(a) == [do |-> "addr", reg |-> 0, value |-> a]
Back(a) == [do |-> "back", reg |-> 0, value |-> a]
Put(r, v) == [do |-> "put", reg |-> r, value |-> v]
Make(r) == [do |-> "make", reg |-> r, value |-> 0]
Save == [do |-> "save", reg |-> 17, value |-> 0]
Open == [do |-> "put", reg |-> 17, value |-> "open"]
Restore == [do |-> "restore", reg |-> 17, value |-> 0]

SetPageIgp(p) == <<Addr(1), Put(31, Shifted(p))>>

EnableWakeup == <<Addr(1)>> \o SetPageIgp(PortCtrlPage) \o <<Save, Open>> \o SetPageIgp(WucPage)
DisableWakeupForgets == SetPageIgp(PortCtrlPage)
DisableWakeup == SetPageIgp(PortCtrlPage) \o <<Restore>>
WakeupReg(r) == <<Put(17, r), Make(18)>>
AccessWakeup(r) == EnableWakeup \o WakeupReg(r) \o DisableWakeup

AccessDebug(r) == <<Addr(2), Put(AddrReg, r), Make(AddrReg + 1)>>

(* ------------------------------------------------------------------------ *)
(* The programs of the families.                                             *)

M88(a) == <<Make(a.reg)>>

Igp(a) ==
    (IF Offset(a) > MultiPage THEN <<Put(31, Offset(a))>> ELSE <<>>) \o <<Make(a.reg)>>

AddrForBmPage(p, r) == IF p >= 768 \/ (p = 0 /\ r = 25) \/ r = 31 THEN 1 ELSE 2

BmSelect(a) ==
    IF Offset(a) <= MultiPage THEN <<>>
    ELSE IF AddrForBmPage(a.page, Offset(a)) = 1 THEN <<Put(31, Shifted(a.page))>>
    ELSE <<Put(22, a.page)>>

Bm(a) ==
    IF a.page = WucPage THEN AccessWakeup(a.reg)
    ELSE <<Addr(AddrForBmPage(a.page, Offset(a)))>> \o BmSelect(a) \o <<Make(a.reg)>>

Bm2(a) ==
    IF a.page = WucPage THEN AccessWakeup(a.reg)
    ELSE <<Addr(1)>> \o (IF Offset(a) > MultiPage THEN <<Put(22, a.page)>> ELSE <<>>)
         \o <<Make(a.reg)>>

AddrForHvPage(p) == IF p >= IntcFcPageStart THEN 1 ELSE 2

HvPagedNoBack(a) ==
    LET p == IF a.page = IntcFcPageStart THEN 0 ELSE a.page
    IN (IF a.reg > MultiPage THEN SetPageIgp(p) ELSE <<>>) \o <<Make(a.reg)>>

HvPaged(a) ==
    LET p == IF a.page = IntcFcPageStart THEN 0 ELSE a.page
    IN (IF a.reg > MultiPage THEN SetPageIgp(p) \o <<Back(AddrForHvPage(a.page))>> ELSE <<>>)
       \o <<Make(a.reg)>>

Hv(a) ==
    CASE a.page = WucPage -> AccessWakeup(a.reg)
      [] 0 < a.page /\ a.page < IntcFcPageStart -> AccessDebug(a.reg)
      [] OTHER -> HvPaged(a)

\* The wakeup page is opened, its registers accessed and the page closed
\* (e1000_copy_rx_addrs_to_phy_ich8lan); the statistics page is selected and
\* read (e1000e_update_phy_stats).
HvSession(a) ==
    IF a.page = WucPage
    THEN EnableWakeup \o <<Addr(AddrForHvPage(a.page))>> \o WakeupReg(a.reg) \o DisableWakeup
    ELSE <<Addr(1), Make(31)>> \o SetPageIgp(a.page)
         \o <<Addr(AddrForHvPage(a.page)), Make(a.reg)>>

Program(a) ==
    CASE family = "m88" -> M88(a)
      [] family = "igp" -> Igp(a)
      [] family = "bm"  -> Bm(a)
      [] family = "bm2" -> Bm2(a)
      [] family = "hv" /\ a.session -> HvSession(a)
      [] OTHER -> Hv(a)

(* ------------------------------------------------------------------------ *)
(* The device.                                                               *)

\* The register an MDIC transaction reaches.
Reached(r) ==
    IF family = "m88" \/ r <= MultiPage THEN <<addr, 0, r>>
    ELSE CASE addr = 1 /\ page[1] = WucPage /\ r = 18 -> <<1, WucPage, opcode>>
           [] addr = 2 /\ family = "hv" ->
                IF r = AddrReg + 1 THEN <<"debug", 0, debug>> ELSE <<2, 0, r>>
           [] OTHER -> <<addr, page[addr], r>>

\* The register an access names.
Named(a) ==
    LET paged == IF a.reg <= MultiPage THEN 0 ELSE a.page
    IN IF a.page = WucPage THEN <<1, WucPage, a.reg>>
       ELSE CASE family = "m88" -> <<1, 0, a.reg>>
              [] family = "bm" -> <<AddrForBmPage(a.page, Offset(a)), paged, a.reg>>
              [] family = "hv" /\ AddrForHvPage(a.page) = 1 ->
                   <<1, IF a.page = IntcFcPageStart THEN 0 ELSE a.page, a.reg>>
              [] family = "hv" /\ AddrForHvPage(a.page) = 2 ->
                   IF a.page > 0 THEN <<"debug", 0, a.reg>> ELSE <<2, 0, a.reg>>
              [] OTHER -> <<1, paged, a.reg>>

\* What writing v to register r does to the device.
Selects(r) == r = 31 \/ (r = 22 /\ (addr = 2 \/ family = "bm2"))
IsWuc(r) == Reached(r) = <<1, PortCtrlPage, 17>>

DevicePut(r, v) ==
    IF family # "m88" /\ Selects(r) /\ ~(family = "hv" /\ addr = 2)
    THEN /\ page' = [page EXCEPT ![addr] = IF r = 31 THEN v \div 32 ELSE v]
         /\ UNCHANGED <<wuc, opcode, debug>>
    ELSE /\ wuc' = IF IsWuc(r) THEN v ELSE wuc
         /\ opcode' = IF Reached(r) = <<1, WucPage, 17>> THEN v ELSE opcode
         /\ debug' = IF family = "hv" /\ addr = 2 /\ r = AddrReg THEN v ELSE debug
         /\ UNCHANGED page

(* ------------------------------------------------------------------------ *)

\* What the constants may be.  Page 800 is the wakeup page where there is one;
\* other pages have 32 registers, of which an hv PHY's above page 768 use those
\* from 16 on.  The port of the debug data is no register of its own; sessions
\* are for the pages above 768.
CanAsk(f, a) ==
    /\ a.page = WucPage => f \in {"bm", "bm2", "hv"}
    /\ a.page # WucPage => a.reg <= 31
    /\ f = "hv" =>
         /\ a.page > IntcFcPageStart /\ a.page # WucPage => a.reg > MultiPage
         /\ a.page = 0 => a.reg # AddrReg + 1
         /\ a.session => a.page > IntcFcPageStart

Assumption ==
    /\ "free" \notin Threads
    /\ Families \subseteq {"m88", "igp", "bm", "bm2", "hv"}
    /\ AddrReg \in {16, 29}
    /\ \A f \in Families :
          \A a \in Accesses[f] :
             a \in [page : Nat, reg : Nat, session : BOOLEAN] /\ CanAsk(f, a)

Idle == [at |-> "idle", ask |-> Access(0, 0, FALSE), todo |-> <<>>, got |-> <<>>,
         saved |-> "found", failed |-> FALSE]

Init == /\ family \in Families
        /\ addr = IF family \in {"bm", "hv"} THEN 2 ELSE 1
        /\ lock = "free"
        /\ page = [a \in 1..2 |-> 0]
        /\ wuc = "found" /\ opcode = 0 /\ debug = 0
        /\ call = [t \in Threads |-> Idle]

Device == <<page, wuc, opcode, debug>>

\* An access begins.  Outside a session the hv variants assign hw->phy.addr
\* before they ask for the semaphore.
Begin(t, a) ==
    /\ call[t].at = "idle"
    /\ family \in Alone => \A u \in Threads : call[u].at = "idle"
    /\ call' = [call EXCEPT ![t] = [Idle EXCEPT !.at = "ask", !.ask = a]]
    /\ addr' = IF family = "hv" /\ ~a.session THEN AddrForHvPage(a.page) ELSE addr
    /\ UNCHANGED <<family, lock, Device>>

Acquire(t) ==
    /\ call[t].at = "ask" /\ lock = "free"
    /\ lock' = t
    /\ call' = [call EXCEPT ![t].at = "run", ![t].todo = Program(call[t].ask)]
    /\ UNCHANGED <<family, addr, Device>>

\* The semaphore is refused: another thread has it ("contention for Phy
\* access"), or the firmware keeps it until the wait is over.
Refused(t) ==
    /\ call[t].at = "ask"
    /\ call' = [call EXCEPT ![t] = Idle]
    /\ UNCHANGED <<family, addr, lock, Device>>

Running(t, kinds) ==
    /\ call[t].at = "run" /\ call[t].todo # <<>>
    /\ Head(call[t].todo).do \in kinds

Assign(t) ==
    /\ Running(t, {"addr", "back"})
    /\ addr' = Head(call[t].todo).value
    /\ call' = [call EXCEPT ![t].todo = Tail(@)]
    /\ UNCHANGED <<family, lock, Device>>

MdicWrite(t) ==
    /\ Running(t, {"put", "restore"})
    /\ LET s == Head(call[t].todo)
       IN DevicePut(s.reg, IF s.do = "restore" THEN call[t].saved ELSE s.value)
    /\ call' = [call EXCEPT ![t].todo = Tail(@)]
    /\ UNCHANGED <<family, addr, lock>>

MdicSave(t) ==
    /\ Running(t, {"save"})
    /\ call' = [call EXCEPT ![t].todo = Tail(@), ![t].saved = IF IsWuc(17) THEN wuc ELSE "other"]
    /\ UNCHANGED <<family, addr, lock, Device>>

\* The access itself, a read or a write.
MdicAccess(t) ==
    /\ Running(t, {"make"})
    /\ call' = [call EXCEPT ![t].todo = Tail(@), ![t].got = Reached(Head(call[t].todo).reg)]
    /\ UNCHANGED <<family, addr, lock, Device>>

\* A transaction fails: the program ends here, but for the assignment that
\* follows the selection of a page in the hv variants.
AfterFailure(todo) ==
    IF Tail(todo) # <<>> /\ Head(Tail(todo)).do = "back" THEN <<Head(Tail(todo))>> ELSE <<>>

MdicFails(t) ==
    /\ call[t].ask.page \in MayFail
    /\ Running(t, {"put", "restore", "save", "make"})
    /\ call' = [call EXCEPT ![t].todo = AfterFailure(@), ![t].failed = TRUE]
    /\ UNCHANGED <<family, addr, lock, Device>>

Release(t) ==
    /\ call[t].at = "run" /\ call[t].todo = <<>>
    /\ lock' = "free"
    /\ call' = [call EXCEPT ![t].at = "done", ![t].saved = "found"]
    /\ UNCHANGED <<family, addr, Device>>

Return(t) ==
    /\ call[t].at = "done"
    /\ call' = [call EXCEPT ![t] = Idle]
    /\ UNCHANGED <<family, addr, lock, Device>>

Asked(a) == a.session => family = "hv"

Next ==
    \E t \in Threads :
       \/ \E a \in Accesses[family] : Asked(a) /\ Begin(t, a)
       \/ Acquire(t) \/ Refused(t)
       \/ Assign(t) \/ MdicWrite(t) \/ MdicSave(t) \/ MdicAccess(t) \/ MdicFails(t)
       \/ Release(t) \/ Return(t)

Spec == Init /\ [][Next]_vars

(* ------------------------------------------------------------------------ *)

\* The states the variables can be in.
TypeOK ==
    /\ family \in Families
    /\ addr \in 1..2
    /\ lock \in Threads \cup {"free"}
    /\ page \in [1..2 -> Nat]
    /\ wuc \in {"found", "open"} /\ opcode \in Nat /\ debug \in Nat
    /\ \A t \in Threads :
          /\ call[t].at \in {"idle", "ask", "run", "done"} /\ call[t].failed \in BOOLEAN
          /\ call[t].ask \in [page : Nat, reg : Nat, session : BOOLEAN]
          /\ call[t].saved \in {"found", "open"}

\* An access that succeeds has reached the register its caller names, whatever
\* the accesses before it left in hw->phy.addr and in the page registers.
AccessesReachTheirRegister ==
    \A t \in Threads :
       call[t].at = "done" /\ ~call[t].failed => call[t].got = Named(call[t].ask)

\* Register 769.17, whose bits let firmware and host be woken, is back to what
\* it was whenever the semaphore is free, as long as no transaction of an access
\* to the wakeup page fails.
WakeupBitsAreRestored ==
    lock = "free" /\ WucPage \notin MayFail => wuc = "found"
============================================================================

------------------------------- MODULE Filters -------------------------------
(***************************************************************************)
(* Which frames the controller accepts.  The stack keeps lists of unicast  *)
(* and multicast addresses, flags and VLANs; the driver copies them into   *)
(* RCTL, the receive address registers, the multicast hash table and the   *)
(* VLAN table, loses the copies at every reset and writes them again.      *)
(*                                                                         *)
(*   rtnl    holds rtnl_lock: VLANs, the address, resets                   *)
(*   stack   holds the address lock: e1000e_set_rx_mode                    *)
(*   wd      the watchdog: management VLAN, address of the 82571           *)
(*                                                                         *)
(* Every call is the sequence of its accesses to shared registers.  Only   *)
(* with Overlap may the calls of two threads be interleaved.               *)
(***************************************************************************)
EXTENDS Integers, Sequences

CONSTANTS Kinds,     \* among 82571, 82574, pch2, lpt
          Rars,      \* receive address registers
          Ucs, Mcs,  \* unicast lists, and sets of multicast addresses
          Macs,      \* addresses of the interface; "factory" is in the NVM
          Vids,      \* VLANs the stack adds
          Cookies,   \* VLANs of the management cookie; -1 stands for none
          Calls,     \* calls to look at
          Overlap

VARIABLES kind,
          rctl,      \* UPE, MPE, VFE
          rar,       \* 0 .. Rars-1
          shra,      \* pch2: where the addresses from 1 on are
          mta, vfta,
          flags, uc, mc, vlans,   \* what the stack asks for
          mac, laa,  \* hw.mac.addr, laa_is_present
          active,    \* active_vlans
          mng,       \* mng_vlan_id
          cookie,    \* what the firmware offers
          control,   \* the driver has told the firmware that it is there
          todo,      \* the accesses a thread still has to make
          held,      \* the register a thread has read
          calls

table == <<rctl, rar, shra, mta>>
asked == <<flags, uc, mc, vlans>>
vlan == <<vfta, active, mng, control>>
vars == <<kind, table, vlan, asked, mac, laa, cookie, todo, held, calls>>

Threads == {"rtnl", "stack", "wd"}
NoVid == -1
NoAddress == "none"
Bits == 4                        \* VLANs in a word of VFTA
Word(v) == {w \in 0 .. 7 : w \div Bits = v \div Bits}
\* e1000_hash_mc_addr keeps twelve bits: addresses share an entry.
Hash(m) == IF m \in {"m1", "m2"} THEN 1 ELSE 2

HasVlan == kind \in {"82571", "82574"}
Shared == kind \in {"pch2", "lpt"}        \* the firmware shares the addresses
FreeNoLaa == Rars - 1
Free == IF kind = "82571" THEN Rars - 2 ELSE Rars - 1

\* The steps of the calls.
RxMode == << <<"rxRead">>, <<"rxLists">>, <<"rxWrite">> >>
Add(v) == << <<"addRead", v>>, <<"addWrite", v>> >>
Kill(v) == << <<"killRead", v>>, <<"killWrite", v>> >>
ConfigureForgets == RxMode
Configure == RxMode \o << <<"restore">> >>
Reset == << <<"hw">>, <<"mng">> >> \o Configure

\* What the constants may be: the controllers looked at, two receive addresses at
\* least, lists that are sequences, and VLANs by their numbers.
Assumption ==
    /\ Kinds \subseteq {"82571", "82574", "pch2", "lpt"}
    /\ Rars \in Nat /\ Rars > 1
    /\ \A list \in Ucs : list \in Seq({list[k] : k \in DOMAIN list})
    /\ Vids \subseteq Nat /\ Cookies \subseteq Nat \union {NoVid}

Init == /\ kind \in Kinds
        /\ rctl = {} /\ mta = {} /\ vfta = {}
        /\ rar = [i \in 0 .. Rars - 1 |-> IF i = 0 THEN "factory" ELSE NoAddress]
        /\ shra = [i \in 1 .. Rars - 1 |-> NoAddress]
        /\ flags = {} /\ uc = <<>> /\ mc = {} /\ vlans = {}
        /\ mac = "factory" /\ laa = FALSE
        /\ active = {} /\ mng = NoVid /\ cookie = NoVid /\ control = TRUE
        /\ todo = [t \in Threads |-> IF t = "rtnl" THEN Configure ELSE <<>>]
        /\ held = [t \in Threads |-> {}]
        /\ calls = 0

(* ------------------------------------------------------------------------ *)
(* Calls.                                                                    *)

Idle(t) == todo[t] = <<>>
Quiet == \A t \in Threads : Idle(t)
MayBegin(t) == Idle(t) /\ (Overlap \/ Quiet)
Begin(t, steps) == /\ calls < Calls /\ MayBegin(t)
                   /\ calls' = calls + 1
                   /\ todo' = [todo EXCEPT ![t] = steps]
                   /\ UNCHANGED <<kind, table, vlan, cookie, held>>

\* The stack changes a list or a flag and calls e1000e_set_rx_mode.
SetRxMode ==
    /\ Begin("stack", RxMode)
    /\ \/ flags' \in SUBSET {"promisc", "allmulti"} /\ UNCHANGED <<uc, mc>>
       \/ uc' \in Ucs /\ UNCHANGED <<flags, mc>>
       \/ mc' \in Mcs /\ UNCHANGED <<flags, uc>>
    /\ UNCHANGED <<vlans, mac, laa>>

AddVid(v) == /\ HasVlan /\ v \notin vlans
             /\ Begin("rtnl", Add(v))
             /\ vlans' = vlans \union {v}
             /\ UNCHANGED <<flags, uc, mc, mac, laa>>

KillVid(v) == /\ v \in vlans
              /\ Begin("rtnl", Kill(v))
              /\ vlans' = vlans \ {v}
              /\ UNCHANGED <<flags, uc, mc, mac, laa>>

\* e1000_set_mac
SetMac == /\ Begin("rtnl", << <<"mac0">> >> \o
                           IF kind = "82571" THEN << <<"macLast">> >> ELSE <<>>)
          /\ mac' \in Macs
          /\ UNCHANGED <<asked, laa>>

ResetTask == /\ Begin("rtnl", Reset)
             /\ UNCHANGED <<asked, mac, laa>>

\* The watchdog finds no link, and a cookie that is not the one it knows.
WatchMng == /\ HasVlan /\ mng # cookie
            /\ Begin("wd", << <<"mng">> >>)
            /\ UNCHANGED <<asked, mac, laa>>

\* With a link it writes the address again.
WatchLaa == /\ laa /\ MayBegin("wd")
            /\ rar[0] # mac /\ rar' = [rar EXCEPT ![0] = mac]
            /\ UNCHANGED <<kind, rctl, shra, mta, vlan, asked, mac, laa, cookie, todo, held, calls>>

\* A reset of the other port of the 82571 reloads RAR[0] from the NVM.
OtherPortResets ==
    /\ kind = "82571" /\ calls < Calls
    /\ calls' = calls + 1
    /\ rar' = [rar EXCEPT ![0] = "factory"]
    /\ UNCHANGED <<kind, rctl, shra, mta, vlan, asked, mac, laa, cookie, todo, held>>

FirmwareChanges ==
    /\ HasVlan /\ calls < Calls
    /\ calls' = calls + 1
    /\ cookie' \in Cookies \ {cookie}
    /\ UNCHANGED <<kind, table, vlan, asked, mac, laa, todo, held>>

(* ------------------------------------------------------------------------ *)
(* e1000e_set_rx_mode                                                        *)

KeepsLists == UNCHANGED <<kind, asked, mac, laa, cookie, calls>>
Goes(t) == todo' = [todo EXCEPT ![t] = Tail(@)]
Holds(t, reg) == held' = [held EXCEPT ![t] = reg]

RxRead(t) == /\ Holds(t, rctl \ {"UPE", "MPE"}) /\ Goes(t)
             /\ UNCHANGED <<table, vlan>>

\* e1000e_write_uc_addr_list: from the last register down, the rest is zeroed.
\* fails is the position of the address that cannot be written.
Placed(list, n) == {<<Free - k + 1, list[k]>> : k \in 1 .. n}
Put(f, pairs) == [i \in DOMAIN f |->
                    IF \E p \in pairs : p[1] = i
                    THEN (CHOOSE p \in pairs : p[1] = i)[2] ELSE f[i]]
Zeroed(f, n) == [i \in DOMAIN f |-> IF i \in 1 .. n THEN NoAddress ELSE f[i]]

UcFailsNever(fails) == fails <= Len(uc)
UcFails(fails) == Len(uc) > Free \/ fails <= Len(uc)
WriteUc(fails) ==
    IF Len(uc) > Free THEN UNCHANGED <<rar, shra>>
    ELSE LET n == IF fails <= Len(uc) THEN fails - 1 ELSE Len(uc)
             put == Placed(uc, n)
             zero == IF fails <= Len(uc) THEN 0 ELSE Free - n
         IN  IF kind = "pch2"
             THEN shra' = Put(shra, put) /\ rar' = Zeroed(rar, zero)
             ELSE rar' = Zeroed(Put(rar, put), zero) /\ UNCHANGED shra

\* e1000e_write_mc_addr_list
MtaOf(list) == {Hash(m) : m \in list}
WriteMc(noMemory) == mta' = IF noMemory THEN mta ELSE MtaOf(mc)

\* e1000e_vlan_filter_disable gives the management VLAN up.
FilterOff == /\ IF HasVlan THEN rctl' = rctl \ {"VFE"} ELSE UNCHANGED rctl
             /\ IF ~HasVlan \/ mng = NoVid THEN UNCHANGED vlan
                ELSE /\ mng' = NoVid
                     /\ IF cookie # NoVid
                        THEN control' = FALSE /\ UNCHANGED <<vfta, active>>
                        ELSE /\ vfta' = vfta \ {mng} /\ active' = active \ {mng}
                             /\ UNCHANGED control
FilterOn == rctl' = IF HasVlan THEN rctl \union {"VFE"} ELSE rctl

RxLists(t) ==
    /\ Goes(t)
    /\ IF "promisc" \in flags
       THEN FilterOff /\ Holds(t, held[t] \union {"UPE", "MPE"}) /\ UNCHANGED <<rar, shra, mta>>
       ELSE \E noMemory \in IF "allmulti" \notin flags /\ mc # {} THEN BOOLEAN ELSE {FALSE},
               fails \in IF Shared THEN 1 .. Len(uc) + 1 ELSE {Len(uc) + 1} :
              /\ IF "allmulti" \in flags THEN UNCHANGED mta ELSE WriteMc(noMemory)
              /\ WriteUc(fails) /\ FilterOn
              /\ Holds(t, held[t]
                          \union (IF "allmulti" \in flags \/ noMemory THEN {"MPE"} ELSE {})
                          \union (IF UcFails(fails) THEN {"UPE"} ELSE {}))
              /\ UNCHANGED vlan

RxWrite(t) == /\ rctl' = held[t] /\ Holds(t, {}) /\ Goes(t)
              /\ UNCHANGED <<rar, shra, mta, vlan>>

(* ------------------------------------------------------------------------ *)
(* VLANs: a word of the table is read, changed and written back.             *)

IsCookie(v) == cookie # NoVid /\ v = mng

AddRead(t, v) ==
    /\ IF IsCookie(v)
       THEN todo' = [todo EXCEPT ![t] = Tail(Tail(@))] /\ UNCHANGED held
       ELSE Holds(t, vfta \intersect Word(v)) /\ Goes(t)
    /\ UNCHANGED <<table, vlan>>

AddWriteForgetsWord(t, v) ==
    /\ vfta' = (vfta \ Word(v)) \union {v}
    /\ active' = active \union {v}
    /\ Goes(t) /\ Holds(t, {})
    /\ UNCHANGED <<table, mng, control>>
AddWrite(t, v) ==
    /\ vfta' = IF HasVlan THEN (vfta \ Word(v)) \union held[t] \union {v} ELSE vfta
    /\ active' = active \union {v}
    /\ Goes(t) /\ Holds(t, {})
    /\ UNCHANGED <<table, mng, control>>

KillRead(t, v) ==
    /\ IF IsCookie(v)
       THEN /\ todo' = [todo EXCEPT ![t] = Tail(Tail(@))] /\ UNCHANGED held
            /\ control' = FALSE
       ELSE Holds(t, vfta \intersect Word(v)) /\ Goes(t) /\ UNCHANGED control
    /\ UNCHANGED <<table, vfta, active, mng>>

KillWrite(t, v) ==
    /\ vfta' = (vfta \ Word(v)) \union (held[t] \ {v})
    /\ active' = active \ {v}
    /\ Goes(t) /\ Holds(t, {})
    /\ UNCHANGED <<table, mng, control>>

\* e1000_update_mng_vlan
Mng(t) ==
    /\ todo' = [todo EXCEPT ![t] =
                  (IF HasVlan /\ cookie # NoVid
                   THEN Add(cookie) \o << <<"mngIs", cookie>> >> ELSE <<>>)
                  \o (IF mng # NoVid /\ cookie # mng THEN Kill(mng) ELSE <<>>)
                  \o Tail(@)]
    /\ UNCHANGED <<table, vlan, held>>

MngIs(t, v) == mng' = v /\ Goes(t) /\ UNCHANGED <<table, vfta, active, control, held>>

\* e1000_restore_vlan adds VLAN 0, then every VLAN that is active when it comes
\* to it, in ascending order.
Restore(t) ==
    /\ todo' = [todo EXCEPT ![t] = Add(0) \o << <<"restoreFrom", 0>> >> \o Tail(@)]
    /\ UNCHANGED <<table, vlan, held>>

RestoreFrom(t, v) ==
    /\ \/ (\A w \in active : w < v) /\ Goes(t)
       \/ \E w \in active :
             /\ v <= w /\ \A u \in active : v <= u => w <= u
             /\ todo' = [todo EXCEPT ![t] = Add(w) \o << <<"restoreFrom", w + 1>> >> \o Tail(@)]
    /\ UNCHANGED <<table, vlan, held>>

(* ------------------------------------------------------------------------ *)
(* The address, and what a reset does.                                       *)

MacFirst(t) == /\ rar' = [rar EXCEPT ![0] = mac] /\ Goes(t)
               /\ UNCHANGED <<rctl, shra, mta, vlan, held, laa>>
MacLast(t) == /\ rar' = [rar EXCEPT ![Rars - 1] = mac] /\ laa' = TRUE /\ Goes(t)
              /\ UNCHANGED <<rctl, shra, mta, vlan, held>>

\* clear_vfta keeps on some controllers the VLAN of the cookie, init_rx_addrs the
\* copy of the 82571's address; a shared register the firmware has locked keeps
\* its address.
ClearedVfta == IF kind = "82574" /\ cookie # NoVid THEN {cookie} ELSE {}
Fresh(f, locked) == [i \in DOMAIN f |->
                       CASE i = 0 -> mac
                         [] i \in locked \/ (laa /\ i = Rars - 1) -> f[i]
                         [] OTHER -> NoAddress]
Hw(t) ==
    /\ rctl' = {} /\ mta' = {}
    /\ vfta' = ClearedVfta
    /\ control' = (control \/ kind = "82574")       \* FLAG_HAS_AMT
    /\ \E locked \in IF Shared THEN SUBSET (1 .. Rars - 1) ELSE {{}} :
         IF kind = "pch2"
         THEN shra' = Fresh(shra, locked) /\ rar' = [rar EXCEPT ![0] = mac]
         ELSE rar' = Fresh(rar, locked) /\ UNCHANGED shra
    /\ Goes(t)
    /\ UNCHANGED <<active, mng, held>>

Step(t) ==
    /\ ~Idle(t)
    /\ UNCHANGED <<kind, asked, mac, cookie, calls>>
    /\ LET do == Head(todo[t])[1]
           v == Head(todo[t])[2]
       IN  \/ do = "mac0" /\ MacFirst(t)
           \/ do = "macLast" /\ MacLast(t)
           \/ /\ UNCHANGED laa
              /\ \/ do = "rxRead" /\ RxRead(t)
                 \/ do = "rxLists" /\ RxLists(t)
                 \/ do = "rxWrite" /\ RxWrite(t)
                 \/ do = "addRead" /\ AddRead(t, v)
                 \/ do = "addWrite" /\ AddWrite(t, v)
                 \/ do = "killRead" /\ KillRead(t, v)
                 \/ do = "killWrite" /\ KillWrite(t, v)
                 \/ do = "mng" /\ Mng(t)
                 \/ do = "mngIs" /\ MngIs(t, v)
                 \/ do = "restore" /\ Restore(t)
                 \/ do = "restoreFrom" /\ RestoreFrom(t, v)
                 \/ do = "hw" /\ Hw(t)

Next == \/ SetRxMode \/ SetMac \/ ResetTask \/ WatchMng \/ WatchLaa
        \/ OtherPortResets \/ FirmwareChanges
        \/ \E v \in Vids : AddVid(v) \/ KillVid(v)
        \/ \E t \in Threads : Step(t)

Spec == Init /\ [][Next]_vars

(* ------------------------------------------------------------------------ *)

\* The values the registers and the driver's copies take.
TypeOK ==
    /\ rctl \subseteq {"UPE", "MPE", "VFE"}
    /\ mta \subseteq {1, 2}
    /\ vfta \subseteq 0 .. 7 /\ active \subseteq 0 .. 7
    /\ mng \in {NoVid} \union 0 .. 7
    /\ laa \in BOOLEAN /\ control \in BOOLEAN
    /\ \A i \in DOMAIN rar : rar[i] \in Macs \union {"factory", "a", "b", "c", NoAddress}

Heard == {rar[i] : i \in DOMAIN rar} \union {shra[i] : i \in DOMAIN shra}

\* When no call is under way the controller accepts every unicast and multicast
\* address of the stack's lists, after any sequence of list changes, failures and
\* resets ...
ListsAreHeard ==
    Quiet => /\ "promisc" \in flags => {"UPE", "MPE"} \subseteq rctl
             /\ \A k \in DOMAIN uc : "UPE" \in rctl \/ uc[k] \in Heard
             /\ \A a \in mc : "MPE" \in rctl \/ Hash(a) \in mta

\* ... and not more than it has to: promiscuous modes end when their reason does,
\* and addresses that have left the list leave the registers.  On the 82579 they
\* do not: they are written to SHRA and erased in RAR.
NothingElseIsHeard ==
    Quiet =>
    /\ "UPE" \in rctl => "promisc" \in flags \/ Len(uc) > Free \/ Shared
    /\ "MPE" \notin rctl => mta = MtaOf(mc)
    /\ ("UPE" \notin rctl /\ kind # "pch2") =>
           \A i \in 1 .. Free : rar[i] \in {NoAddress} \union {uc[k] : k \in DOMAIN uc}

\* The VLANs of the stack stay in the table through resets and changes of the
\* management VLAN.
VlansAreKept == Quiet => (vlans \subseteq vfta \/ ~HasVlan)

\* The address of the interface is heard whatever the other port does.
MacIsHeard == Idle("rtnl") => mac \in Heard

FiltersAgree == ListsAreHeard /\ NothingElseIsHeard /\ VlansAreKept

\* "helper to enable HW VLAN filtering": outside promiscuous mode it is on.
VlanFilterIsOn == (Quiet /\ HasVlan /\ "promisc" \notin flags) => "VFE" \in rctl

\* The driver keeps the control of the hardware while the interface is up.
DriverKeepsControl == control
=============================================================================

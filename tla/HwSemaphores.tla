---------------------------- MODULE HwSemaphores ----------------------------
(***************************************************************************)
(* The semaphores that order accesses to the PHY, the NVM and shared       *)
(* registers, between threads of the driver, the other port of the         *)
(* controller and the firmware.  Each kind of controller has its own:      *)
(*                                                                         *)
(*   82571  SWSM.SMBI, which reading sets, orders software; SWSM.SWESMBI   *)
(*          orders software and firmware.  One for PHY and NVM.            *)
(*   80003  the same two bits guard SW_FW_SYNC, which has a bit for each   *)
(*          resource, for software and for firmware.                       *)
(*   82574  a mutex, and EXTCNF_CTRL.MDIO_SW_OWNERSHIP for the firmware.   *)
(*   ich8   a bit of adapter->state, and EXTCNF_CTRL.SWFLAG.               *)
(*                                                                         *)
(* The NVM must then be granted by EECD (82571 and 80003).                 *)
(***************************************************************************)
EXTENDS Naturals

CONSTANTS Threads,     \* of both ports
          Schemes,     \* the semaphores to look at
          Resources,   \* for each thread, what it may ask for
          Tries,       \* SW_FW_SYNC is looked at so often (50 in the code)
          PassesSmbi   \* 82571: a thread may wait too long for SMBI, and goes on

(* What a thread may ask for, and what the constants are. *)
Resource == {"phy", "nvm"}
Assumption ==
  /\ "free" \notin Threads
  /\ Schemes \subseteq {"82571", "80003", "82574", "ich8"}
  /\ Resources \in [Threads -> SUBSET Resource]
  /\ Tries \in Nat \ {0} /\ PassesSmbi \in BOOLEAN

VARIABLES scheme, smbi, swesmbi, sync, fwSync, flag, bit, req, fwNvm, thread

vars == <<scheme, smbi, swesmbi, sync, fwSync, flag, bit, req, fwNvm, thread>>
sems == <<smbi, swesmbi>>
syncs == <<sync, fwSync>>
flags == <<flag, bit>>
nvm == <<req, fwNvm>>

Out == [at |-> "out", wants |-> "none", copy |-> {}, tries |-> 0, leaving |-> FALSE]

Init == /\ scheme \in Schemes
        /\ smbi = FALSE /\ swesmbi = "free"
        /\ sync = {} /\ fwSync = {}
        /\ flag = "free" /\ bit = "free"
        /\ req = FALSE /\ fwNvm = FALSE
        /\ thread = [t \in Threads |-> Out]

At(t, a) == thread[t].at = a
Goto(t, a) == thread' = [thread EXCEPT ![t].at = a]
GoOut(t) == thread' = [thread EXCEPT ![t] = Out]

\* Clears both bits of SWSM; it does not take SWESMBI from the firmware.
PutSemKeepsSmbi == /\ swesmbi' = IF swesmbi = "sw" THEN "free" ELSE swesmbi
                   /\ UNCHANGED smbi
PutSem == smbi' = FALSE /\ swesmbi' = IF swesmbi = "sw" THEN "free" ELSE swesmbi

Begin(t, r) ==
    /\ At(t, "out")
    /\ thread' = [thread EXCEPT ![t].wants = r,
                                ![t].at = IF scheme \in {"82571", "80003"} THEN "smbi" ELSE "bit"]
    /\ UNCHANGED <<scheme, sems, syncs, flags, nvm>>

(* ------------------------------------------------------------------------ *)
(* SWSM, used by 82571 and, around each look at SW_FW_SYNC, by 80003.        *)

\* Reading SWSM with SMBI clear sets it.
ReadSmbi(t) ==
    /\ At(t, "smbi") /\ ~smbi
    /\ smbi' = TRUE
    /\ Goto(t, "fw")
    /\ UNCHANGED <<scheme, swesmbi, syncs, flags, nvm>>

\* The wait for SMBI is over.  82571 goes on without it; 80003 reports an error,
\* and asks again when it is about to release a resource.
SmbiTimesOutGoesOn(t) ==
    /\ At(t, "smbi") /\ smbi
    /\ Goto(t, "fw")
    /\ UNCHANGED <<scheme, sems, syncs, flags, nvm>>
SmbiTimesOut(t) ==
    /\ At(t, "smbi") /\ smbi
    /\ IF scheme = "82571" THEN PassesSmbi /\ Goto(t, "fw")
       ELSE IF thread[t].leaving THEN UNCHANGED thread ELSE GoOut(t)
    /\ UNCHANGED <<scheme, sems, syncs, flags, nvm>>

\* SWESMBI is written and read back.  It reads as latched also when another
\* thread has set it; the read sets SMBI.
Latch(t) ==
    /\ At(t, "fw") /\ swesmbi # "fw"
    /\ smbi' = TRUE /\ swesmbi' = "sw"
    /\ Goto(t, IF scheme = "80003" THEN "sync"
               ELSE IF thread[t].wants = "nvm" THEN "grant" ELSE "in")
    /\ UNCHANGED <<scheme, syncs, flags, nvm>>

LatchTimesOut(t) ==
    /\ At(t, "fw") /\ swesmbi = "fw"
    /\ PutSem
    /\ IF thread[t].leaving THEN Goto(t, "smbi") ELSE GoOut(t)
    /\ UNCHANGED <<scheme, syncs, flags, nvm>>

(* ------------------------------------------------------------------------ *)
(* SW_FW_SYNC (80003): read, then written, under the two bits of SWSM.       *)

ReadSync(t) ==
    /\ At(t, "sync")
    /\ thread[t].leaving \/ thread[t].wants \notin sync \cup fwSync
    /\ thread' = [thread EXCEPT ![t].at = "write", ![t].copy = sync]
    /\ UNCHANGED <<scheme, sems, syncs, flags, nvm>>

SyncBusy(t) ==
    /\ At(t, "sync")
    /\ ~thread[t].leaving /\ thread[t].wants \in sync \cup fwSync
    /\ PutSem
    /\ IF thread[t].tries + 1 = Tries THEN GoOut(t)
       ELSE thread' = [thread EXCEPT ![t].at = "smbi", ![t].tries = @ + 1]
    /\ UNCHANGED <<scheme, syncs, flags, nvm>>

WriteSync(t) ==
    /\ At(t, "write")
    /\ sync' = IF thread[t].leaving THEN thread[t].copy \ {thread[t].wants}
               ELSE thread[t].copy \cup {thread[t].wants}
    /\ Goto(t, "put")
    /\ UNCHANGED <<scheme, sems, fwSync, flags, nvm>>

PutAfterSync(t) ==
    /\ At(t, "put")
    /\ PutSem
    /\ IF thread[t].leaving THEN GoOut(t)
       ELSE Goto(t, IF thread[t].wants = "nvm" THEN "grant" ELSE "in")
    /\ UNCHANGED <<scheme, syncs, flags, nvm>>

(* ------------------------------------------------------------------------ *)
(* The grant of the NVM.                                                     *)

NvmGranted(t) ==
    /\ At(t, "grant") /\ ~fwNvm
    /\ req' = TRUE
    /\ Goto(t, "in")
    /\ UNCHANGED <<scheme, sems, syncs, flags, fwNvm>>

\* Gives back a resource: 82571 clears SWSM, 80003 has a bit to clear.
GiveBack(t) ==
    IF scheme = "82571" THEN PutSem /\ GoOut(t)
    ELSE /\ thread' = [thread EXCEPT ![t].at = "smbi", ![t].leaving = TRUE]
         /\ UNCHANGED sems

NvmNotGranted(t) ==
    /\ At(t, "grant") /\ fwNvm
    /\ req' = FALSE
    /\ GiveBack(t)
    /\ UNCHANGED <<scheme, syncs, flags, fwNvm>>

Leave(t) ==
    /\ At(t, "in") /\ scheme \in {"82571", "80003"}
    /\ req' = IF thread[t].wants = "nvm" THEN FALSE ELSE req
    /\ GiveBack(t)
    /\ UNCHANGED <<scheme, syncs, flags, fwNvm>>

(* ------------------------------------------------------------------------ *)
(* A bit or mutex of the driver, then a flag of the controller.              *)

TakeBit(t) ==
    /\ At(t, "bit") /\ bit = "free"
    /\ bit' = t
    /\ Goto(t, IF scheme = "ich8" THEN "look" ELSE "set")
    /\ UNCHANGED <<scheme, sems, syncs, flag, nvm>>

\* "contention for Phy access": there is no wait for the bit.
BitTaken(t) ==
    /\ At(t, "bit") /\ bit # "free" /\ scheme = "ich8"
    /\ GoOut(t)
    /\ UNCHANGED <<scheme, sems, syncs, flags, nvm>>

SeesFlagFree(t) ==
    /\ At(t, "look") /\ flag = "free"
    /\ Goto(t, "set")
    /\ UNCHANGED <<scheme, sems, syncs, flags, nvm>>

SetFlag(t) ==
    /\ At(t, "set") /\ flag # "fw"
    /\ flag' = "sw"
    /\ Goto(t, "in")
    /\ UNCHANGED <<scheme, sems, syncs, bit, nvm>>

FlagTimesOut(t) ==
    /\ \/ At(t, "look") /\ flag # "free"
       \/ At(t, "set") /\ flag = "fw"
    /\ bit' = "free"
    /\ GoOut(t)
    /\ UNCHANGED <<scheme, sems, syncs, flag, nvm>>

\* The flag is cleared first, the bit or mutex last.
ClearFlag(t) ==
    /\ At(t, "in") /\ scheme \in {"82574", "ich8"}
    /\ flag' = "free"
    /\ Goto(t, "unlock")
    /\ UNCHANGED <<scheme, sems, syncs, bit, nvm>>

Unlock(t) ==
    /\ At(t, "unlock")
    /\ bit' = "free"
    /\ GoOut(t)
    /\ UNCHANGED <<scheme, sems, syncs, flag, nvm>>

(* ------------------------------------------------------------------------ *)
(* The firmware keeps to the same rules.                                     *)

Firmware ==
    \/ /\ scheme \in {"82571", "80003"}
       /\ swesmbi' = CASE swesmbi = "free" -> "fw" [] swesmbi = "fw" -> "free" [] OTHER -> "sw"
       /\ UNCHANGED <<smbi, syncs, flags, nvm>>
    \/ /\ scheme = "80003" /\ swesmbi = "fw"
       /\ \E r \in Resource :
             fwSync' = IF r \in fwSync THEN fwSync \ {r}
                       ELSE IF r \in sync THEN fwSync ELSE fwSync \cup {r}
       /\ UNCHANGED <<sems, sync, flags, nvm>>
    \/ /\ scheme \in {"82571", "80003"} /\ ~req
       /\ fwNvm' = ~fwNvm
       /\ UNCHANGED <<sems, syncs, flags, req>>
    \/ /\ scheme \in {"82574", "ich8"}
       /\ flag' = CASE flag = "free" -> "fw" [] flag = "fw" -> "free" [] OTHER -> "sw"
       /\ UNCHANGED <<sems, syncs, bit, nvm>>

Next ==
    \/ \E t \in Threads :
          \/ \E r \in Resources[t] : Begin(t, r)
          \/ ReadSmbi(t) \/ SmbiTimesOut(t) \/ Latch(t) \/ LatchTimesOut(t)
          \/ ReadSync(t) \/ SyncBusy(t) \/ WriteSync(t) \/ PutAfterSync(t)
          \/ NvmGranted(t) \/ NvmNotGranted(t) \/ Leave(t)
          \/ TakeBit(t) \/ BitTaken(t) \/ SeesFlagFree(t) \/ SetFlag(t) \/ FlagTimesOut(t)
          \/ ClearFlag(t) \/ Unlock(t)
    \/ Firmware /\ UNCHANGED <<scheme, thread>>

Spec == Init /\ [][Next]_vars

(* ------------------------------------------------------------------------ *)

\* The states the registers can be in.
TypeOK ==
    /\ smbi \in BOOLEAN /\ req \in BOOLEAN /\ fwNvm \in BOOLEAN
    /\ swesmbi \in {"free", "sw", "fw"} /\ flag \in {"free", "sw", "fw"}
    /\ bit \in Threads \cup {"free"}

Conflict(t, u) == scheme = "80003" => thread[t].wants = thread[u].wants

\* Two threads are never inside for the same resource, nor is a thread inside
\* while the firmware is.
Exclusive ==
    /\ \A t, u \in Threads : At(t, "in") /\ At(u, "in") /\ Conflict(t, u) => t = u
    /\ \A t \in Threads : At(t, "in") =>
          CASE scheme = "82571" -> swesmbi # "fw"
            [] scheme = "80003" -> thread[t].wants \notin fwSync
            [] OTHER -> flag # "fw"
    /\ (\E t \in Threads : At(t, "in") /\ thread[t].wants = "nvm" /\ scheme \notin {"82574", "ich8"})
          => ~fwNvm

\* When no thread is inside or on its way, no bit of a semaphore is left set by
\* the driver, whichever waits have timed out before.
NothingIsKept ==
    (\A t \in Threads : At(t, "out"))
       => ~smbi /\ swesmbi # "sw" /\ sync = {} /\ flag # "sw" /\ bit = "free" /\ ~req
=============================================================================

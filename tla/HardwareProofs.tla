--------------------------- MODULE HardwareProofs ---------------------------
(***************************************************************************)
(* What threads, handlers and the firmware share through registers.        *)
(*                                                                         *)
(* The semaphores of HwSemaphores, for any threads, any resources they ask *)
(* for and any patience:                                                   *)
(*   - no two threads are inside for the same resource, nor a thread and   *)
(*     the firmware, as long as a thread of an 82571 does not go on        *)
(*     without SMBI;                                                       *)
(*   - nothing is left set when the last thread has gone, whether or not   *)
(*     it does.                                                            *)
(* Each semaphore is related to the threads that hold it: a bit is set     *)
(* only if one of them does, and where exclusion holds it is set for       *)
(* exactly one.                                                            *)
(*                                                                         *)
(* The interrupts of NapiIrq, for any modes, any rings and budget:         *)
(*   - what is on a ring has been announced;                               *)
(*   - a cause that is masked will be enabled again;                       *)
(*   - while the rings are taken apart nothing polls them, if netconsole   *)
(*     does not.                                                           *)
(*                                                                         *)
(* The PHY registers of PhyAccess, for any accesses the families have:     *)
(*   - an access that succeeds reaches the register its caller names;      *)
(*   - the wakeup bits are restored.                                       *)
(* Each access is at some step of its program, and what the steps before   *)
(* have assigned and selected is still there: nobody else makes a step     *)
(* that matters before the program ends.                                   *)
(*                                                                         *)
(* The copper link of CopperLink, for any partners, any settings and any   *)
(* number of changes and calls:                                            *)
(*   - once it has settled pause frames, K1 and EEE are those of the link  *)
(*     there is, if no PHY access of the watchdog fails but its first;     *)
(*   - and the PHY advertises the flow control asked for, if no check of   *)
(*     the watchdog overlaps a reset.                                      *)
(* What does not agree yet is still to be looked at: LSC is set, the flag  *)
(* of the watchdog is, a reset is under way, or a check is before the step *)
(* that puts it right.                                                     *)
(*                                                                         *)
(* The time stamps of Timestamps, for any packets and frames:              *)
(*   - what a call is told of the filter is what the controller does;      *)
(*   - the time told of a packet or a frame is its own, if no timeout, no  *)
(*     late transmit and no clear comes between.                           *)
(* One packet is marked, and the time in the register is that packet's;    *)
(* one frame is timed, and the register holds its time.                    *)
(*                                                                         *)
(* The self-tests of SelfTest, for any causes and rings of any size:       *)
(*   - the verdict on the interrupts is what can be found of the fault,    *)
(*     and the verdict on the loop is whether it is good;                  *)
(*   - the memory of the test rings is given back, and only that.          *)
(* The memory of RingMemory, for any sizes and any number of blocks:       *)
(*   - running rings have one block each of their size, and no other is    *)
(*     allocated; a call that fails leaves what there was.                 *)
(***************************************************************************)
EXTENDS HwSemaphores, Integers, SequenceTheorems, FiniteSetTheorems, TLAPS

(* Where a thread may be, and what it may hold there. *)
Place == {"out", "smbi", "fw", "sync", "write", "put", "grant", "in",
          "bit", "look", "set", "unlock"}

(* The bits of SWSM: SMBI is taken first, SWESMBI with it. *)
Owns(t) ==
  \/ thread[t].at \in {"fw", "sync", "write", "put"}
  \/ scheme = "82571" /\ thread[t].at \in {"grant", "in"}
Latched(t) == Owns(t) /\ thread[t].at # "fw"

(* Its bit of SW_FW_SYNC, until it has written it back on its way out. *)
HasSync(t) ==
  /\ scheme = "80003"
  /\ thread[t].at \in IF thread[t].leaving THEN {"smbi", "fw", "sync", "write"}
                      ELSE {"put", "grant", "in"}

HasNvm(t) ==
  scheme \in {"82571", "80003"} /\ thread[t].at = "in" /\ thread[t].wants = "nvm"

(* The bit of the driver, and the flag behind it. *)
HasBit(t) ==
  scheme \in {"82574", "ich8"} /\ thread[t].at \in {"look", "set", "in", "unlock"}
HasFlag(t) ==
  scheme \in {"82574", "ich8"} /\ thread[t].at = "in"

(* 82571: no thread goes on without SMBI. *)
Waits == scheme = "82571" => ~PassesSmbi
-----------------------------------------------------------------------------
ThreadState ==
  [Threads -> [at : Place, wants : Resource \cup {"none"}, copy : SUBSET Resource,
               tries : Nat, leaving : BOOLEAN]]

Types ==
  /\ TypeOK
  /\ scheme \in {"82571", "80003", "82574", "ich8"}
  /\ sync \in SUBSET Resource /\ fwSync \in SUBSET Resource
  /\ thread \in ThreadState

(* Where the threads of each scheme may be. *)
Places ==
  \A t \in Threads :
    /\ thread[t].at \in CASE scheme = "82571" -> {"out", "smbi", "fw", "grant", "in"}
                          [] scheme = "80003" -> {"out", "smbi", "fw", "sync", "write",
                                                  "put", "grant", "in"}
                          [] OTHER -> {"out", "bit", "look", "set", "in", "unlock"}
    /\ thread[t].leaving =>
         scheme = "80003" /\ thread[t].at \in {"smbi", "fw", "sync", "write", "put"}
    /\ thread[t].at = "grant" => thread[t].wants = "nvm"
    /\ thread[t].at # "out" => thread[t].wants \in Resource

(* SWSM is set only for a thread, and where threads wait for SMBI for one. *)
SwsmIsHeld ==
  /\ smbi => \E t \in Threads : Owns(t)
  /\ swesmbi = "sw" => \E t \in Threads : Latched(t)
SwsmExcludes ==
  Waits =>
    /\ \A t, u \in Threads : Owns(t) /\ Owns(u) => t = u
    /\ \A t \in Threads : Owns(t) => smbi
    /\ \A t \in Threads : Latched(t) => swesmbi = "sw"

(* SW_FW_SYNC: a bit stands for one thread or for the firmware, and what a *)
(* thread is about to write back is what it is.                            *)
SyncIsHeld ==
  /\ \A r \in sync : \E t \in Threads : HasSync(t) /\ thread[t].wants = r
  /\ \A t \in Threads : HasSync(t) => thread[t].wants \in sync
  /\ \A t, u \in Threads :
       HasSync(t) /\ HasSync(u) /\ thread[t].wants = thread[u].wants => t = u
  /\ sync \cap fwSync = {}
CopyIsFresh ==
  \A t \in Threads :
    thread[t].at = "write" =>
      /\ thread[t].copy = sync
      /\ ~thread[t].leaving => thread[t].wants \notin sync \cup fwSync

NvmIsHeld ==
  /\ ~(req /\ fwNvm)
  /\ req => \E t \in Threads : HasNvm(t)
  /\ Waits => \A t \in Threads : HasNvm(t) => req

FlagIsHeld ==
  /\ bit # "free" => HasBit(bit)
  /\ \A t \in Threads : HasBit(t) => bit = t
  /\ flag = "sw" <=> \E t \in Threads : HasFlag(t)

(* The inductive invariant. *)
IInv ==
  /\ Types /\ Places
  /\ SwsmIsHeld /\ SwsmExcludes
  /\ SyncIsHeld /\ CopyIsFresh
  /\ NvmIsHeld /\ FlagIsHeld
-----------------------------------------------------------------------------
(* What a step does to the threads. *)
LEMMA GotoTyped ==
  ASSUME thread \in ThreadState, NEW t \in Threads, NEW a \in Place, Goto(t, a)
  PROVE  thread' \in ThreadState
BY DEF ThreadState, Goto

LEMMA OutTyped ==
  ASSUME thread \in ThreadState, NEW t \in Threads, GoOut(t)
  PROVE  thread' \in ThreadState
BY DEF ThreadState, GoOut, Out, Place, Resource

LEMMA BeginKeeps ==
  ASSUME Assumption, IInv, NEW t \in Threads, NEW r \in Resources[t], Begin(t, r)
  PROVE  IInv'
<1>. USE DEF IInv, Types, ThreadState, Begin, At, sems, syncs, flags, nvm
<1>1. Types'
  <2>1. thread' \in ThreadState
    BY DEF Place, Assumption, Resource
  <2>. QED BY <2>1 DEF TypeOK
<1>2. Places'
  BY DEF Places, Resource, Assumption
<1>3. SwsmIsHeld'
  BY DEF SwsmIsHeld, Owns, Latched
<1>4. SwsmExcludes'
  BY DEF SwsmExcludes, Waits, Owns, Latched
<1>5. SyncIsHeld'
  BY DEF SyncIsHeld, HasSync
<1>6. CopyIsFresh'
  BY DEF CopyIsFresh
<1>7. NvmIsHeld'
  BY DEF NvmIsHeld, HasNvm, Waits, TypeOK
<1>8. FlagIsHeld'
  BY DEF FlagIsHeld, HasBit, HasFlag
<1>. QED BY <1>1, <1>2, <1>3, <1>4, <1>5, <1>6, <1>7, <1>8 DEF IInv

LEMMA ReadSmbiKeeps ==
  ASSUME Assumption, IInv, NEW t \in Threads, ReadSmbi(t)
  PROVE  IInv'
<1>. USE DEF IInv, Types, ThreadState, ReadSmbi, At, Goto, syncs, flags, nvm
<1>1. Types'
  <2>1. thread' \in ThreadState
    BY GotoTyped DEF Place
  <2>. QED BY <2>1 DEF TypeOK
<1>2. Places'
  BY DEF Places, Resource
<1>3. SwsmIsHeld'
  BY DEF SwsmIsHeld, Owns, Latched
<1>4. SwsmExcludes'
  BY DEF SwsmExcludes, Waits, Owns, Latched
<1>5. SyncIsHeld'
  BY DEF SyncIsHeld, HasSync
<1>6. CopyIsFresh'
  BY DEF CopyIsFresh
<1>7. NvmIsHeld'
  BY DEF NvmIsHeld, HasNvm, Waits, TypeOK
<1>8. FlagIsHeld'
  BY DEF FlagIsHeld, HasBit, HasFlag
<1>. QED BY <1>1, <1>2, <1>3, <1>4, <1>5, <1>6, <1>7, <1>8 DEF IInv

LEMMA SmbiTimesOutKeeps ==
  ASSUME Assumption, IInv, NEW t \in Threads, SmbiTimesOut(t)
  PROVE  IInv'
<1>. USE DEF IInv, Types, ThreadState, SmbiTimesOut, At, Goto, GoOut, sems,
       syncs, flags, nvm, Out
<1>1. Types'
  <2>1. thread' \in ThreadState
    BY GotoTyped, OutTyped DEF Place
  <2>. QED BY <2>1 DEF TypeOK
<1>2. Places'
  BY DEF Places, Resource
<1>3. SwsmIsHeld'
  BY DEF SwsmIsHeld, Owns, Latched
<1>4. SwsmExcludes'
  BY DEF SwsmExcludes, Waits, Owns, Latched
<1>5. SyncIsHeld'
  BY DEF SyncIsHeld, HasSync
<1>6. CopyIsFresh'
  BY DEF CopyIsFresh
<1>7. NvmIsHeld'
  BY DEF NvmIsHeld, HasNvm, Waits, TypeOK
<1>8. FlagIsHeld'
  BY DEF FlagIsHeld, HasBit, HasFlag, Places
<1>. QED BY <1>1, <1>2, <1>3, <1>4, <1>5, <1>6, <1>7, <1>8 DEF IInv

LEMMA LatchKeeps ==
  ASSUME Assumption, IInv, NEW t \in Threads, Latch(t)
  PROVE  IInv'
<1> DEFINE a == IF scheme = "80003" THEN "sync"
                ELSE IF thread[t].wants = "nvm" THEN "grant" ELSE "in"
<1>1. Goto(t, a)
  BY DEF Latch
<1>2. scheme \in {"82571", "80003"} /\ thread[t].at = "fw"
  BY DEF IInv, Types, Places, Latch, At
<1>3. Types'
  <2>1. thread' \in ThreadState
    BY <1>1, GotoTyped DEF IInv, Types, Place
  <2>. QED BY <2>1 DEF IInv, Types, TypeOK, Latch, syncs, flags, nvm
<1>4. Places'
  BY <1>1, <1>2 DEF IInv, Places, Resource, Types, ThreadState, Latch, Goto
<1>5. SwsmIsHeld'
  <2>1. Latched(t)'
    BY <1>1, <1>2 DEF IInv, Types, ThreadState, Owns, Latched, Latch, Goto
  <2>. QED BY <2>1 DEF SwsmIsHeld, Latched
<1>6. SwsmExcludes'
  BY <1>1, <1>2 DEF IInv, SwsmExcludes, Waits, Owns, Latched, Types, ThreadState,
       Latch, Goto
<1>7. SyncIsHeld'
  <2>1. \A u \in Threads :
          (HasSync(u))' = HasSync(u) /\ thread'[u].wants = thread[u].wants
    BY <1>1, <1>2 DEF IInv, Places, HasSync, Types, ThreadState, Latch, Goto
  <2>. QED BY <2>1 DEF IInv, SyncIsHeld, Latch, syncs
<1>8. CopyIsFresh'
  BY <1>1, <1>2 DEF IInv, CopyIsFresh, Types, ThreadState, Latch, Goto, syncs
<1>9. NvmIsHeld'
  BY <1>1, <1>2 DEF IInv, NvmIsHeld, HasNvm, Waits, TypeOK, Places, SwsmExcludes, Types,
       ThreadState, Latch, Goto, nvm
<1>10. FlagIsHeld'
  BY <1>1, <1>2 DEF IInv, FlagIsHeld, HasBit, HasFlag, Types, ThreadState, Latch,
       Goto, flags
<1>. QED BY <1>3, <1>4, <1>5, <1>6, <1>7, <1>8, <1>9, <1>10 DEF IInv

LEMMA LatchTimesOutKeeps ==
  ASSUME Assumption, IInv, NEW t \in Threads, LatchTimesOut(t)
  PROVE  IInv'
<1>. USE DEF IInv, Types, ThreadState, LatchTimesOut, At, Goto, GoOut, PutSem,
       syncs, flags, nvm, Out
<1>1. Types'
  <2>1. thread' \in ThreadState
    BY GotoTyped, OutTyped DEF Place
  <2>. QED BY <2>1 DEF TypeOK
<1>2. Places'
  BY DEF Places, Resource
<1>3. SwsmIsHeld'
  BY DEF SwsmIsHeld, Owns, Latched
<1>4. SwsmExcludes'
  BY DEF SwsmExcludes, Waits, Owns, Latched
<1>5. SyncIsHeld'
  BY DEF SyncIsHeld, HasSync
<1>6. CopyIsFresh'
  BY DEF CopyIsFresh
<1>7. NvmIsHeld'
  BY DEF NvmIsHeld, HasNvm, Waits, TypeOK
<1>8. FlagIsHeld'
  BY DEF FlagIsHeld, HasBit, HasFlag, Places
<1>. QED BY <1>1, <1>2, <1>3, <1>4, <1>5, <1>6, <1>7, <1>8 DEF IInv

LEMMA ReadSyncKeeps ==
  ASSUME Assumption, IInv, NEW t \in Threads, ReadSync(t)
  PROVE  IInv'
<1>. USE DEF IInv, Types, ThreadState, ReadSync, At, sems, syncs, flags, nvm
<1>1. Types'
  <2>1. thread' \in ThreadState
    <3> DEFINE r == [thread[t] EXCEPT !.at = "write", !.copy = sync]
    <3>1. thread' = [thread EXCEPT ![t] = r]
      OBVIOUS
    <3>2. r \in [at : Place, wants : Resource \cup {"none"}, copy : SUBSET Resource,
                 tries : Nat, leaving : BOOLEAN]
      BY DEF Place
    <3>. HIDE DEF r
    <3>. QED BY <3>1, <3>2
  <2>. QED BY <2>1 DEF TypeOK
<1>2. Places'
  BY DEF Places, Resource
<1>3. SwsmIsHeld'
  BY DEF SwsmIsHeld, Owns, Latched
<1>4. SwsmExcludes'
  BY DEF SwsmExcludes, Waits, Owns, Latched
<1>5. SyncIsHeld'
  BY DEF SyncIsHeld, HasSync
<1>6. CopyIsFresh'
  BY DEF CopyIsFresh
<1>7. NvmIsHeld'
  BY DEF NvmIsHeld, HasNvm, Waits, TypeOK
<1>8. FlagIsHeld'
  BY DEF FlagIsHeld, HasBit, HasFlag, Places
<1>. QED BY <1>1, <1>2, <1>3, <1>4, <1>5, <1>6, <1>7, <1>8 DEF IInv

LEMMA SyncBusyKeeps ==
  ASSUME Assumption, IInv, NEW t \in Threads, SyncBusy(t)
  PROVE  IInv'
<1>. USE DEF IInv, Types, ThreadState, SyncBusy, At, GoOut, PutSem, syncs,
       flags, nvm, Out
<1>1. Types'
  <2>1. thread' \in ThreadState
    BY OutTyped DEF Place
  <2>. QED BY <2>1 DEF TypeOK
<1>2. Places'
  BY DEF Places, Resource
<1>3. SwsmIsHeld'
  BY DEF SwsmIsHeld, Owns, Latched
<1>4. SwsmExcludes'
  BY DEF SwsmExcludes, Waits, Owns, Latched
<1>5. SyncIsHeld'
  BY DEF SyncIsHeld, HasSync
<1>6. CopyIsFresh'
  BY DEF CopyIsFresh
<1>7. NvmIsHeld'
  BY DEF NvmIsHeld, HasNvm, Waits, TypeOK
<1>8. FlagIsHeld'
  BY DEF FlagIsHeld, HasBit, HasFlag, Places
<1>. QED BY <1>1, <1>2, <1>3, <1>4, <1>5, <1>6, <1>7, <1>8 DEF IInv

LEMMA WriteSyncKeeps ==
  ASSUME Assumption, IInv, NEW t \in Threads, WriteSync(t)
  PROVE  IInv'
<1>. USE DEF IInv, Types, ThreadState, WriteSync, At, Goto, sems, flags, nvm
<1>1. Types'
  <2>1. thread' \in ThreadState
    BY GotoTyped DEF Place
  <2>. QED BY <2>1 DEF TypeOK, Places, Resource
<1>2. Places'
  BY DEF Places, Resource
<1>3. SwsmIsHeld'
  BY DEF SwsmIsHeld, Owns, Latched
<1>4. SwsmExcludes'
  BY DEF SwsmExcludes, Waits, Owns, Latched
<1>5. SyncIsHeld'
  BY DEF SyncIsHeld, HasSync, Places, SwsmIsHeld, SwsmExcludes, Waits, Owns,
         Latched, TypeOK, CopyIsFresh
<1>6. CopyIsFresh'
  BY DEF CopyIsFresh, Places, SwsmIsHeld, SwsmExcludes, Waits, Owns, Latched,
         TypeOK
<1>7. NvmIsHeld'
  BY DEF NvmIsHeld, HasNvm, Waits, TypeOK
<1>8. FlagIsHeld'
  BY DEF FlagIsHeld, HasBit, HasFlag
<1>. QED BY <1>1, <1>2, <1>3, <1>4, <1>5, <1>6, <1>7, <1>8 DEF IInv

LEMMA PutAfterSyncKeeps ==
  ASSUME Assumption, IInv, NEW t \in Threads, PutAfterSync(t)
  PROVE  IInv'
<1>1. scheme = "80003" /\ thread[t].at = "put"
  BY DEF IInv, Types, Places, PutAfterSync, At
<1>2. \/ thread[t].leaving /\ GoOut(t)
      \/ ~thread[t].leaving /\ thread[t].wants = "nvm" /\ Goto(t, "grant")
      \/ ~thread[t].leaving /\ thread[t].wants # "nvm" /\ Goto(t, "in")
  BY DEF PutAfterSync
<1>3. Types'
  <2>1. thread' \in ThreadState
    BY <1>2, GotoTyped, OutTyped DEF IInv, Types, Place
  <2>. QED BY <2>1 DEF IInv, Types, TypeOK, PutAfterSync, PutSem, syncs, flags, nvm
<1>4. Places'
  BY <1>1, <1>2 DEF IInv, Places, Resource, Types, ThreadState, PutAfterSync, Goto,
       GoOut, Out
<1>5. SwsmIsHeld'
  BY DEF IInv, SwsmIsHeld, Types, TypeOK, PutAfterSync, PutSem
<1>6. SwsmExcludes'
  BY <1>1, <1>2 DEF IInv, SwsmExcludes, Waits, Owns, Latched, Types, ThreadState,
       PutAfterSync, PutSem, Goto, GoOut, Out
<1>7. SyncIsHeld'
  BY <1>1, <1>2 DEF IInv, SyncIsHeld, HasSync, Types, ThreadState, PutAfterSync,
       Goto, GoOut, Out, syncs
<1>8. CopyIsFresh'
  BY <1>1, <1>2 DEF IInv, CopyIsFresh, Types, ThreadState, PutAfterSync, Goto, GoOut,
       Out, syncs
<1>9. NvmIsHeld'
  <2>1. \A u \in Threads : (HasNvm(u))' = HasNvm(u)
    BY <1>1, <1>2 DEF IInv, HasNvm, Types, ThreadState, PutAfterSync, Goto, GoOut, Out
  <2>. QED BY <2>1 DEF IInv, NvmIsHeld, Waits, PutAfterSync, nvm
<1>10. FlagIsHeld'
  BY <1>1, <1>2 DEF IInv, FlagIsHeld, HasBit, HasFlag, Types, ThreadState,
       PutAfterSync, Goto, GoOut, Out, flags
<1>. QED BY <1>3, <1>4, <1>5, <1>6, <1>7, <1>8, <1>9, <1>10 DEF IInv

LEMMA NvmGrantedKeeps ==
  ASSUME Assumption, IInv, NEW t \in Threads, NvmGranted(t)
  PROVE  IInv'
<1>. USE DEF IInv, Types, ThreadState, NvmGranted, At, Goto, sems, syncs,
       flags
<1>1. Types'
  <2>1. thread' \in ThreadState
    BY GotoTyped DEF Place
  <2>. QED BY <2>1 DEF TypeOK
<1>2. Places'
  BY DEF Places, Resource
<1>3. SwsmIsHeld'
  BY DEF SwsmIsHeld, Owns, Latched
<1>4. SwsmExcludes'
  BY DEF SwsmExcludes, Waits, Owns, Latched
<1>5. SyncIsHeld'
  BY DEF SyncIsHeld, HasSync
<1>6. CopyIsFresh'
  BY DEF CopyIsFresh
<1>7. NvmIsHeld'
  BY DEF NvmIsHeld, HasNvm, Waits, TypeOK, Places
<1>8. FlagIsHeld'
  BY DEF FlagIsHeld, HasBit, HasFlag, Places
<1>. QED BY <1>1, <1>2, <1>3, <1>4, <1>5, <1>6, <1>7, <1>8 DEF IInv

LEMMA NvmNotGrantedKeeps ==
  ASSUME Assumption, IInv, NEW t \in Threads, NvmNotGranted(t)
  PROVE  IInv'
<1>. USE DEF IInv, Types, ThreadState, NvmNotGranted, At, GiveBack, syncs,
       flags, GoOut, PutSem, sems, Out
<1>1. Types'
  <2>1. thread' \in ThreadState
    BY OutTyped DEF Place
  <2>. QED BY <2>1 DEF TypeOK
<1>2. Places'
  BY DEF Places, Resource
<1>3. SwsmIsHeld'
  BY DEF SwsmIsHeld, Owns, Latched
<1>4. SwsmExcludes'
  BY DEF SwsmExcludes, Waits, Owns, Latched
<1>5. SyncIsHeld'
  BY DEF SyncIsHeld, HasSync, Places
<1>6. CopyIsFresh'
  BY DEF CopyIsFresh
<1>7. NvmIsHeld'
  BY DEF NvmIsHeld, HasNvm, Waits, TypeOK
<1>8. FlagIsHeld'
  BY DEF FlagIsHeld, HasBit, HasFlag, Places
<1>. QED BY <1>1, <1>2, <1>3, <1>4, <1>5, <1>6, <1>7, <1>8 DEF IInv

LEMMA LeaveKeeps ==
  ASSUME Assumption, IInv, NEW t \in Threads, Leave(t)
  PROVE  IInv'
<1>. USE DEF IInv, Types, ThreadState, Leave, At, GiveBack, syncs, flags, nvm,
       GoOut, PutSem, sems, Out
<1>1. Types'
  <2>1. thread' \in ThreadState
    BY OutTyped DEF Place
  <2>. QED BY <2>1 DEF TypeOK
<1>2. Places'
  BY DEF Places, Resource
<1>3. SwsmIsHeld'
  BY DEF SwsmIsHeld, Owns, Latched
<1>4. SwsmExcludes'
  BY DEF SwsmExcludes, Waits, Owns, Latched
<1>5. SyncIsHeld'
  BY DEF SyncIsHeld, HasSync, Places
<1>6. CopyIsFresh'
  BY DEF CopyIsFresh
<1>7. NvmIsHeld'
  BY DEF NvmIsHeld, HasNvm, Waits, TypeOK, Places, SwsmIsHeld, SwsmExcludes,
         Owns, Latched
<1>8. FlagIsHeld'
  BY DEF FlagIsHeld, HasBit, HasFlag
<1>. QED BY <1>1, <1>2, <1>3, <1>4, <1>5, <1>6, <1>7, <1>8 DEF IInv

LEMMA TakeBitKeeps ==
  ASSUME Assumption, IInv, NEW t \in Threads, TakeBit(t)
  PROVE  IInv'
<1>. USE DEF IInv, Types, ThreadState, TakeBit, At, Goto, sems, syncs, nvm
<1>1. Types'
  <2>1. thread' \in ThreadState
    BY GotoTyped DEF Place
  <2>. QED BY <2>1 DEF TypeOK
<1>2. Places'
  BY DEF Places, Resource
<1>3. SwsmIsHeld'
  BY DEF SwsmIsHeld, Owns, Latched
<1>4. SwsmExcludes'
  BY DEF SwsmExcludes, Waits, Owns, Latched
<1>5. SyncIsHeld'
  BY DEF SyncIsHeld, HasSync
<1>6. CopyIsFresh'
  BY DEF CopyIsFresh
<1>7. NvmIsHeld'
  BY DEF NvmIsHeld, HasNvm, Waits, TypeOK
<1>8. FlagIsHeld'
  BY DEF FlagIsHeld, HasBit, HasFlag, Places, TypeOK, Assumption
<1>. QED BY <1>1, <1>2, <1>3, <1>4, <1>5, <1>6, <1>7, <1>8 DEF IInv

LEMMA BitTakenKeeps ==
  ASSUME Assumption, IInv, NEW t \in Threads, BitTaken(t)
  PROVE  IInv'
<1>. USE DEF IInv, Types, ThreadState, BitTaken, At, GoOut, sems, syncs,
       flags, nvm, Out
<1>1. Types'
  <2>1. thread' \in ThreadState
    BY OutTyped DEF Place
  <2>. QED BY <2>1 DEF TypeOK
<1>2. Places'
  BY DEF Places, Resource
<1>3. SwsmIsHeld'
  BY DEF SwsmIsHeld, Owns, Latched
<1>4. SwsmExcludes'
  BY DEF SwsmExcludes, Waits, Owns, Latched
<1>5. SyncIsHeld'
  BY DEF SyncIsHeld, HasSync
<1>6. CopyIsFresh'
  BY DEF CopyIsFresh
<1>7. NvmIsHeld'
  BY DEF NvmIsHeld, HasNvm, Waits, TypeOK
<1>8. FlagIsHeld'
  BY DEF FlagIsHeld, HasBit, HasFlag
<1>. QED BY <1>1, <1>2, <1>3, <1>4, <1>5, <1>6, <1>7, <1>8 DEF IInv

LEMMA SeesFlagFreeKeeps ==
  ASSUME Assumption, IInv, NEW t \in Threads, SeesFlagFree(t)
  PROVE  IInv'
<1>. USE DEF IInv, Types, ThreadState, SeesFlagFree, At, Goto, sems, syncs,
       flags, nvm
<1>1. Types'
  <2>1. thread' \in ThreadState
    BY GotoTyped DEF Place
  <2>. QED BY <2>1 DEF TypeOK
<1>2. Places'
  BY DEF Places, Resource
<1>3. SwsmIsHeld'
  BY DEF SwsmIsHeld, Owns, Latched
<1>4. SwsmExcludes'
  BY DEF SwsmExcludes, Waits, Owns, Latched
<1>5. SyncIsHeld'
  BY DEF SyncIsHeld, HasSync
<1>6. CopyIsFresh'
  BY DEF CopyIsFresh
<1>7. NvmIsHeld'
  BY DEF NvmIsHeld, HasNvm, Waits, TypeOK
<1>8. FlagIsHeld'
  BY DEF FlagIsHeld, HasBit, HasFlag
<1>. QED BY <1>1, <1>2, <1>3, <1>4, <1>5, <1>6, <1>7, <1>8 DEF IInv

LEMMA SetFlagKeeps ==
  ASSUME Assumption, IInv, NEW t \in Threads, SetFlag(t)
  PROVE  IInv'
<1>. USE DEF IInv, Types, ThreadState, SetFlag, At, Goto, sems, syncs, nvm
<1>1. Types'
  <2>1. thread' \in ThreadState
    BY GotoTyped DEF Place
  <2>. QED BY <2>1 DEF TypeOK
<1>2. Places'
  BY DEF Places, Resource
<1>3. SwsmIsHeld'
  BY DEF SwsmIsHeld, Owns, Latched
<1>4. SwsmExcludes'
  BY DEF SwsmExcludes, Waits, Owns, Latched, Places
<1>5. SyncIsHeld'
  BY DEF SyncIsHeld, HasSync, Places
<1>6. CopyIsFresh'
  BY DEF CopyIsFresh
<1>7. NvmIsHeld'
  BY DEF NvmIsHeld, HasNvm, Waits, TypeOK, Places
<1>8. FlagIsHeld'
  BY DEF FlagIsHeld, HasBit, HasFlag, Places
<1>. QED BY <1>1, <1>2, <1>3, <1>4, <1>5, <1>6, <1>7, <1>8 DEF IInv

LEMMA FlagTimesOutKeeps ==
  ASSUME Assumption, IInv, NEW t \in Threads, FlagTimesOut(t)
  PROVE  IInv'
<1>. USE DEF IInv, Types, ThreadState, FlagTimesOut, At, GoOut, sems, syncs,
       nvm, Out
<1>1. Types'
  <2>1. thread' \in ThreadState
    BY OutTyped DEF Place
  <2>. QED BY <2>1 DEF TypeOK
<1>2. Places'
  BY DEF Places, Resource
<1>3. SwsmIsHeld'
  BY DEF SwsmIsHeld, Owns, Latched
<1>4. SwsmExcludes'
  BY DEF SwsmExcludes, Waits, Owns, Latched
<1>5. SyncIsHeld'
  BY DEF SyncIsHeld, HasSync
<1>6. CopyIsFresh'
  BY DEF CopyIsFresh
<1>7. NvmIsHeld'
  BY DEF NvmIsHeld, HasNvm, Waits, TypeOK
<1>8. FlagIsHeld'
  BY DEF FlagIsHeld, HasBit, HasFlag
<1>. QED BY <1>1, <1>2, <1>3, <1>4, <1>5, <1>6, <1>7, <1>8 DEF IInv

LEMMA ClearFlagKeeps ==
  ASSUME Assumption, IInv, NEW t \in Threads, ClearFlag(t)
  PROVE  IInv'
<1>. USE DEF IInv, Types, ThreadState, ClearFlag, At, Goto, sems, syncs, nvm
<1>1. Types'
  <2>1. thread' \in ThreadState
    BY GotoTyped DEF Place
  <2>. QED BY <2>1 DEF TypeOK
<1>2. Places'
  BY DEF Places, Resource
<1>3. SwsmIsHeld'
  BY DEF SwsmIsHeld, Owns, Latched
<1>4. SwsmExcludes'
  BY DEF SwsmExcludes, Waits, Owns, Latched
<1>5. SyncIsHeld'
  BY DEF SyncIsHeld, HasSync
<1>6. CopyIsFresh'
  BY DEF CopyIsFresh
<1>7. NvmIsHeld'
  BY DEF NvmIsHeld, HasNvm, Waits, TypeOK
<1>8. FlagIsHeld'
  BY DEF FlagIsHeld, HasBit, HasFlag
<1>. QED BY <1>1, <1>2, <1>3, <1>4, <1>5, <1>6, <1>7, <1>8 DEF IInv

LEMMA UnlockKeeps ==
  ASSUME Assumption, IInv, NEW t \in Threads, Unlock(t)
  PROVE  IInv'
<1>. USE DEF IInv, Types, ThreadState, Unlock, At, GoOut, sems, syncs, nvm,
       Out
<1>1. Types'
  <2>1. thread' \in ThreadState
    BY OutTyped DEF Place
  <2>. QED BY <2>1 DEF TypeOK
<1>2. Places'
  BY DEF Places, Resource
<1>3. SwsmIsHeld'
  BY DEF SwsmIsHeld, Owns, Latched
<1>4. SwsmExcludes'
  BY DEF SwsmExcludes, Waits, Owns, Latched
<1>5. SyncIsHeld'
  BY DEF SyncIsHeld, HasSync
<1>6. CopyIsFresh'
  BY DEF CopyIsFresh
<1>7. NvmIsHeld'
  BY DEF NvmIsHeld, HasNvm, Waits, TypeOK
<1>8. FlagIsHeld'
  BY DEF FlagIsHeld, HasBit, HasFlag
<1>. QED BY <1>1, <1>2, <1>3, <1>4, <1>5, <1>6, <1>7, <1>8 DEF IInv

LEMMA FirmwareKeeps ==
  ASSUME Assumption, IInv, Firmware, UNCHANGED <<scheme, thread>>
  PROVE  IInv'
<1>. USE DEF Firmware, sems, syncs, flags, nvm
<1>1. Types'
  BY DEF IInv, Types, TypeOK, Resource
<1>2. Places'
  BY DEF IInv, Places
<1>3. SwsmIsHeld' /\ SwsmExcludes'
  BY DEF IInv, Types, TypeOK, SwsmIsHeld, SwsmExcludes, Waits, Owns, Latched
<1>4. SyncIsHeld'
  BY DEF IInv, SyncIsHeld, HasSync
<1>5. CopyIsFresh'
  <2>1. ASSUME NEW t \in Threads, thread[t].at = "write" PROVE swesmbi = "sw" /\ scheme = "80003"
    BY <2>1 DEF IInv, Places, Types, SwsmExcludes, Waits, Owns, Latched
  <2>2. (\E t \in Threads : thread[t].at = "write") => UNCHANGED syncs
    BY <2>1
  <2>. QED BY <2>2 DEF IInv, CopyIsFresh
<1>6. NvmIsHeld'
  BY DEF IInv, Types, TypeOK, NvmIsHeld, HasNvm, Waits
<1>7. FlagIsHeld'
  BY DEF IInv, Types, TypeOK, FlagIsHeld, HasBit, HasFlag
<1>. QED BY <1>1, <1>2, <1>3, <1>4, <1>5, <1>6, <1>7 DEF IInv
-----------------------------------------------------------------------------
(* The invariant holds at the start, and every step keeps it. *)
LEMMA Start == ASSUME Assumption, Init PROVE IInv
<1>. USE DEF Init, Assumption, Out
<1>1. Types
  BY DEF Types, TypeOK, ThreadState, Place, Resource
<1>2. Places /\ CopyIsFresh
  BY DEF Places, CopyIsFresh
<1>3. SwsmIsHeld /\ SwsmExcludes /\ SyncIsHeld
  BY DEF SwsmIsHeld, SwsmExcludes, Owns, Latched, SyncIsHeld, HasSync
<1>4. NvmIsHeld /\ FlagIsHeld
  BY DEF NvmIsHeld, HasNvm, FlagIsHeld, HasBit, HasFlag
<1>. QED BY <1>1, <1>2, <1>3, <1>4 DEF IInv

LEMMA Step == ASSUME Assumption, IInv, [Next]_vars PROVE IInv'
<1>1. CASE UNCHANGED vars
  BY <1>1 DEF vars, IInv, Types, TypeOK, Places, SwsmIsHeld, SwsmExcludes, Waits, Owns,
       Latched, SyncIsHeld, HasSync, CopyIsFresh, NvmIsHeld, HasNvm, FlagIsHeld, HasBit,
       HasFlag
<1>2. CASE Next
  BY <1>2, BeginKeeps, ReadSmbiKeeps, SmbiTimesOutKeeps, LatchKeeps, LatchTimesOutKeeps,
     ReadSyncKeeps, SyncBusyKeeps, WriteSyncKeeps, PutAfterSyncKeeps, NvmGrantedKeeps,
     NvmNotGrantedKeeps, LeaveKeeps, TakeBitKeeps, BitTakenKeeps, SeesFlagFreeKeeps,
     SetFlagKeeps, FlagTimesOutKeeps, ClearFlagKeeps, UnlockKeeps, FirmwareKeeps DEF Next
<1>. QED BY <1>1, <1>2

LEMMA Invariance == ASSUME Assumption PROVE Spec => []IInv
<1>1. Init => IInv
  BY Start
<1>2. IInv /\ [Next]_vars => IInv'
  BY Step
<1>. QED BY <1>1, <1>2, PTL DEF Spec

(* What the invariant says of the threads inside, and of those that have gone. *)
LEMMA Excludes == ASSUME IInv, Waits PROVE Exclusive
<1>1. ASSUME NEW t \in Threads, NEW u \in Threads, At(t, "in"), At(u, "in"), Conflict(t, u)
      PROVE  t = u
  <2>1. CASE scheme = "82571"
    BY <1>1, <2>1 DEF IInv, SwsmExcludes, Owns, At
  <2>2. CASE scheme = "80003"
    BY <1>1, <2>2 DEF IInv, Types, ThreadState, Places, SyncIsHeld, HasSync, At, Conflict
  <2>3. CASE scheme \in {"82574", "ich8"}
    BY <1>1, <2>3 DEF IInv, FlagIsHeld, HasBit, At
  <2>. QED BY <2>1, <2>2, <2>3 DEF IInv, Types
<1>2. ASSUME NEW t \in Threads, At(t, "in")
      PROVE  /\ scheme = "82571" => swesmbi # "fw"
             /\ scheme = "80003" => thread[t].wants \notin fwSync
             /\ scheme \in {"82574", "ich8"} => flag # "fw"
  <2>1. scheme = "82571" => swesmbi = "sw"
    BY <1>2 DEF IInv, SwsmExcludes, Owns, Latched, At
  <2>2. scheme = "80003" => thread[t].wants \in sync
    BY <1>2 DEF IInv, Places, SyncIsHeld, HasSync, At
  <2>3. scheme \in {"82574", "ich8"} => flag = "sw"
    BY <1>2 DEF IInv, FlagIsHeld, HasFlag, At
  <2>. QED BY <2>1, <2>2, <2>3 DEF IInv, SyncIsHeld
<1>3. ASSUME NEW t \in Threads, At(t, "in"), thread[t].wants = "nvm",
             scheme \notin {"82574", "ich8"}
      PROVE  ~fwNvm
  BY <1>3 DEF IInv, Types, NvmIsHeld, HasNvm, At
<1>. QED BY <1>1, <1>2, <1>3 DEF Exclusive, IInv, Types

LEMMA KeepsNothing == ASSUME Assumption, IInv PROVE NothingIsKept
<1>. SUFFICES ASSUME \A t \in Threads : thread[t].at = "out"
              PROVE  ~smbi /\ swesmbi # "sw" /\ sync = {} /\ flag # "sw" /\ bit = "free" /\ ~req
  BY DEF NothingIsKept, At
<1>1. ~smbi /\ swesmbi # "sw"
  BY DEF IInv, SwsmIsHeld, Owns, Latched
<1>2. sync = {}
  BY DEF IInv, SyncIsHeld, HasSync
<1>3. flag # "sw" /\ bit = "free"
  BY DEF IInv, FlagIsHeld, HasBit, HasFlag, Types, TypeOK
<1>4. ~req
  BY DEF IInv, NvmIsHeld, HasNvm
<1>. QED BY <1>1, <1>2, <1>3, <1>4
-----------------------------------------------------------------------------
(* The registers keep to their states (TypeOK of HwSemaphores). *)
THEOREM TypeCorrectness == ASSUME Assumption PROVE Spec => []TypeOK
<1>1. IInv => TypeOK
  BY DEF IInv, Types
<1>. QED BY <1>1, Invariance, PTL

(* Two threads are never inside for the same resource, nor a thread while  *)
(* the firmware is (e1000_acquire_swfw_sync_* and their like), unless a    *)
(* thread of an 82571 has gone on without SMBI (e1000_get_hw_semaphore).   *)
THEOREM Exclusion == ASSUME Assumption PROVE Spec => [](Waits => Exclusive)
<1>1. IInv => (Waits => Exclusive)
  BY Excludes
<1>. QED BY <1>1, Invariance, PTL

(* No bit is left set when no thread is inside or on its way, also when    *)
(* waits have timed out, and when a thread has gone on without SMBI.       *)
THEOREM NothingStays == ASSUME Assumption PROVE Spec => []NothingIsKept
<1>1. IInv => NothingIsKept
  BY KeepsNothing
<1>. QED BY <1>1, Invariance, PTL

-----------------------------------------------------------------------------
(* The interrupts and polls of one board. *)
CONSTANTS Modes, Most, Budget, Ecc, Netpoll
VARIABLES mode, icr, ims, rx, tx, napi, missed, poll, changed, armed, resetTask,
          down, reset

I == INSTANCE NapiIrq

(* A reset, from e1000e_down to e1000e_up, and the rings it empties. *)
ResetIs ==
  /\ down <=> reset \in {"mask", "sync", "up"}
  /\ reset = "up" => rx = 0 /\ tx = 0
  /\ ~Netpoll /\ reset \in {"sync", "up"} => ims = {}

(* NAPI holds a poll as long as one is asked for. *)
NapiIs ==
  /\ napi => poll # "idle"
  /\ poll \in {"clean", "complete"} \/ missed => napi

(* The receive ring will be looked at from its start. *)
Coming == missed \/ poll = "clean" \/ (poll = "enable" /\ napi)

(* A poll that has cleaned and not yet ended cannot be counted on.  With   *)
(* MSI-X polls leave the transmit ring alone.                              *)
Announced ==
  /\ rx > 0 => "rx" \in icr \/ Coming \/ down \/ resetTask
  /\ tx > 0 => "tx" \in icr \/ (mode # "msix" /\ Coming) \/ down \/ resetTask

(* Who enables what is masked: with MSI-X the handlers do it themselves,   *)
(* but that of the receive ring, which leaves it to the poll.              *)
Masked ==
  IF mode = "msix"
  THEN /\ {"tx", "other", "lsc"} \subseteq ims \/ reset # "idle"
       /\ "rx" \in ims \/ napi \/ poll = "enable" \/ reset # "idle"
  ELSE I!EnableMask \subseteq ims \/ napi \/ poll = "enable" \/ reset # "idle" \/ resetTask

Quiet == ~Netpoll => I!QuietWhileDown

(* The inductive invariant. *)
IrqInv == I!TypeOK /\ ResetIs /\ NapiIs /\ Announced /\ Masked /\ Quiet
-----------------------------------------------------------------------------
LEMMA IrqStart == ASSUME I!Assumption, I!Init PROVE IrqInv
<1>. USE DEF I!Assumption, I!Init
<1>1. I!TypeOK
  <2>1. rx \in 0 .. Most /\ tx \in 0 .. Most
    OBVIOUS
  <2>2. icr \subseteq I!Cause /\ ims \subseteq I!Cause
    BY DEF I!EnableMask, I!EiacMask, I!Cause
  <2>. QED BY <2>1, <2>2 DEF I!TypeOK
<1>2. Masked
  BY DEF Masked, I!EnableMask, I!EiacMask
<1>. QED BY <1>1, <1>2 DEF IrqInv, ResetIs, NapiIs, Announced, Quiet, I!QuietWhileDown

LEMMA HwKeeps == ASSUME I!Assumption, IrqInv, I!Hw PROVE IrqInv'
<1>. USE DEF I!Assumption, IrqInv, I!Hw, I!HwReceive, I!HwSent, I!HwLinkChange, I!HwEccError, I!work,
             I!sched, I!link, I!state
<1>1. I!TypeOK'
  <2>1. rx' \in 0 .. Most /\ tx' \in 0 .. Most
    BY DEF I!TypeOK
  <2>2. icr' \subseteq I!Cause /\ ims' \subseteq I!Cause
    BY DEF I!TypeOK, I!Cause
  <2>. QED BY <2>1, <2>2 DEF I!TypeOK
<1>2. ResetIs'
  BY DEF ResetIs, I!TypeOK
<1>3. NapiIs'
  BY DEF NapiIs
<1>4. Announced'
  BY DEF Announced, Coming
<1>5. Masked'
  BY DEF Masked, I!EnableMask
<1>6. Quiet'
  BY DEF Quiet, I!QuietWhileDown
<1>. QED BY <1>1, <1>2, <1>3, <1>4, <1>5, <1>6

(* e1000_intr_msi, e1000_intr, or netpoll in their place. *)
LEMMA HandleAllKeeps ==
  ASSUME I!Assumption, IrqInv, mode # "msix", I!HandleAll, Netpoll \/ icr \cap ims # {}
  PROVE  IrqInv'
<1>. USE DEF I!Assumption, IrqInv, I!HandleAll, I!NapiSchedule, I!ArmUnlessDown, I!sched
<1>1. I!TypeOK'
  BY DEF I!TypeOK, I!work
<1>2. ResetIs'
  BY DEF ResetIs, I!work
<1>3. NapiIs'
  BY DEF NapiIs, I!TypeOK
<1>4. Announced'
  BY DEF Announced, Coming, I!TypeOK, NapiIs, ResetIs, I!work
<1>5. Masked'
  BY DEF Masked, I!TypeOK, I!EnableMask, ResetIs
<1>6. Quiet'
  BY DEF Quiet, I!QuietWhileDown, ResetIs
<1>. QED BY <1>1, <1>2, <1>3, <1>4, <1>5, <1>6

LEMMA HandleRxKeeps ==
  ASSUME I!Assumption, IrqInv, I!HandleRx, mode = "msix",
         \/ I!InterruptRx
         \/ Netpoll /\ UNCHANGED I!irq
  PROVE  IrqInv'
<1>. USE DEF I!Assumption, IrqInv, I!HandleRx, I!InterruptRx, I!NapiSchedule, I!irq
<1>1. I!TypeOK'
  BY DEF I!TypeOK, I!work, I!link, I!state
<1>2. ResetIs'
  BY DEF ResetIs, I!work, I!state
<1>3. NapiIs'
  BY DEF NapiIs, I!TypeOK
<1>4. Announced'
  BY DEF Announced, Coming, I!TypeOK, NapiIs, ResetIs, I!work, I!state
<1>5. Masked'
  BY DEF Masked, I!TypeOK, I!EnableMask, I!state
<1>6. Quiet'
  BY DEF Quiet, I!QuietWhileDown, ResetIs, I!state
<1>. QED BY <1>1, <1>2, <1>3, <1>4, <1>5, <1>6

LEMMA HandleTxKeeps ==
  ASSUME I!Assumption, IrqInv, mode = "msix", NEW raised, NEW enabled,
         raised \cup {"tx"} = icr \cup {"tx"}, raised \subseteq icr,
         enabled \cup {"tx"} = ims \cup {"tx"}, enabled \subseteq ims,
         Netpoll \/ "tx" \in ims, I!HandleTx(raised, enabled)
  PROVE  IrqInv'
<1>. USE DEF I!Assumption, IrqInv, I!HandleTx, I!sched, I!link, I!state
<1>1. PICK left \in {0, tx} : tx' = left /\ icr' = raised \cup (IF left > 0 THEN {"tx"} ELSE {})
  OBVIOUS
<1>2. I!TypeOK'
  <2>1. icr' \subseteq I!Cause /\ ims' \subseteq I!Cause
    BY <1>1 DEF I!TypeOK, I!Cause
  <2>. QED BY <1>1, <2>1 DEF I!TypeOK
<1>3. ResetIs'
  BY <1>1 DEF ResetIs
<1>4. NapiIs'
  BY DEF NapiIs
<1>5. Announced'
  BY <1>1 DEF Announced, Coming, I!TypeOK, ResetIs
<1>6. Masked'
  BY <1>1 DEF Masked, I!TypeOK, ResetIs
<1>7. Quiet'
  BY DEF Quiet, I!QuietWhileDown, ResetIs
<1>. QED BY <1>2, <1>3, <1>4, <1>5, <1>6, <1>7

LEMMA HandleOtherKeeps ==
  ASSUME I!Assumption, IrqInv, mode = "msix", I!HandleOther, Netpoll \/ I!InterruptOther
  PROVE  IrqInv'
<1>. USE DEF I!Assumption, IrqInv, I!HandleOther, I!InterruptOther, I!RaiseAgain, I!EiacMask,
             I!ArmUnlessDown, I!work, I!sched, I!state
<1>1. I!TypeOK'
  BY DEF I!TypeOK, I!Cause
<1>2. ResetIs'
  BY DEF ResetIs
<1>3. NapiIs'
  BY DEF NapiIs
<1>4. Announced'
  BY DEF Announced, Coming
<1>5. Masked'
  BY DEF Masked, I!TypeOK, ResetIs
<1>6. Quiet'
  BY DEF Quiet, I!QuietWhileDown, ResetIs
<1>. QED BY <1>1, <1>2, <1>3, <1>4, <1>5, <1>6

LEMMA PollCleanKeeps == ASSUME I!Assumption, IrqInv, I!PollClean PROVE IrqInv'
<1>. USE DEF I!Assumption, IrqInv, I!PollClean, I!Done, I!irq, I!link, I!state
<1>1. I!TypeOK'
  BY DEF I!TypeOK
<1>2. ResetIs'
  BY DEF ResetIs, I!TypeOK
<1>3. NapiIs'
  BY DEF NapiIs
<1>4. Announced'
  BY DEF Announced, Coming, I!TypeOK
<1>5. Masked'
  BY DEF Masked, NapiIs, I!EnableMask
<1>6. Quiet'
  BY DEF Quiet, I!QuietWhileDown
<1>. QED BY <1>1, <1>2, <1>3, <1>4, <1>5, <1>6

LEMMA PollCompleteKeeps == ASSUME I!Assumption, IrqInv, I!PollComplete PROVE IrqInv'
BY
 DEF I!PollComplete, IrqInv, I!TypeOK, ResetIs, NapiIs, Announced, Masked, Quiet,
     I!QuietWhileDown,
       I!EnableMask, Coming, I!irq, I!work, I!link, I!state

LEMMA PollEnableKeeps == ASSUME I!Assumption, IrqInv, I!PollEnable PROVE IrqInv'
<1>. USE DEF I!Assumption, IrqInv, I!PollEnable, I!EnableAfterPoll, I!work, I!link, I!state
<1>1. I!TypeOK'
  BY DEF I!TypeOK, I!EnableMask, I!EiacMask, I!Cause
<1>2. ResetIs'
  BY DEF ResetIs
<1>3. NapiIs'
  BY DEF NapiIs
<1>4. Announced'
  BY DEF Announced, Coming
<1>5. Masked'
  BY DEF Masked, I!EnableMask, ResetIs, I!TypeOK
<1>6. Quiet'
  BY DEF Quiet, I!QuietWhileDown
<1>. QED BY <1>1, <1>2, <1>3, <1>4, <1>5, <1>6

LEMMA WatchdogKeeps == ASSUME I!Assumption, IrqInv, I!Watchdog PROVE IrqInv'
BY
 DEF I!Watchdog, IrqInv, I!TypeOK, ResetIs, NapiIs, Announced, Masked, Quiet,
     I!QuietWhileDown,
       I!EnableMask, Coming, I!Cause, I!work, I!sched, I!state

LEMMA ResetsKeep == ASSUME I!Assumption, IrqInv, I!DownStart \/ I!UpSteps PROVE IrqInv'
<1>1. CASE I!DownStart
  BY <1>1 DEF I!DownStart, IrqInv, I!TypeOK, ResetIs, NapiIs, Announced, Masked, Quiet,
              I!QuietWhileDown, I!EnableMask, Coming, I!irq, I!work, I!sched, I!link
<1>2. CASE I!DownMask
  BY <1>2 DEF I!DownMask, IrqInv, I!TypeOK, ResetIs, NapiIs, Announced, Masked, Quiet,
              I!QuietWhileDown, I!EnableMask, Coming, I!work, I!sched, I!link
<1>3. CASE I!DownSync
  <2>. USE DEF I!Assumption, IrqInv, I!DownSync, I!sched
  <2>1. I!TypeOK'
    <3>1. rx' \in 0 .. Most /\ tx' \in 0 .. Most
      BY <1>3
    <3>2. icr' \subseteq I!Cause /\ ims' \subseteq I!Cause
      BY <1>3 DEF I!TypeOK
    <3>. QED BY <1>3, <3>1, <3>2 DEF I!TypeOK
  <2>2. ResetIs'
    BY <1>3 DEF ResetIs
  <2>3. NapiIs'
    BY <1>3 DEF NapiIs
  <2>4. Announced'
    BY <1>3 DEF Announced
  <2>5. Masked'
    BY <1>3 DEF Masked, I!EnableMask
  <2>6. Quiet'
    BY <1>3 DEF Quiet, I!QuietWhileDown, ResetIs
  <2>. QED BY <2>1, <2>2, <2>3, <2>4, <2>5, <2>6
<1>4. CASE I!Up
  <2>. USE DEF I!Assumption, IrqInv, I!Up, I!irq, I!work, I!sched, I!link
  <2>1. I!TypeOK'
    BY <1>4 DEF I!TypeOK
  <2>2. ResetIs'
    BY <1>4 DEF ResetIs
  <2>3. NapiIs'
    BY <1>4 DEF NapiIs
  <2>4. Announced'
    BY <1>4 DEF Announced, Coming, ResetIs
  <2>5. Masked'
    BY <1>4 DEF Masked, I!EnableMask
  <2>6. Quiet'
    BY <1>4 DEF Quiet, I!QuietWhileDown
  <2>. QED BY <2>1, <2>2, <2>3, <2>4, <2>5, <2>6
<1>5. CASE I!UpTrigger
  BY <1>5 DEF I!UpTrigger, IrqInv, I!TypeOK, ResetIs, NapiIs, Announced, Masked, Quiet,
              I!QuietWhileDown, I!EnableMask, I!EiacMask, I!Cause, Coming, I!work,
              I!sched, I!link
<1>. QED BY <1>1, <1>2, <1>3, <1>4, <1>5 DEF I!UpSteps

LEMMA IrqStep == ASSUME I!Assumption, IrqInv, [I!Next]_(I!vars) PROVE IrqInv'
<1>1. CASE I!Hw
  BY <1>1, HwKeeps
<1>2. CASE I!Interrupt \/ I!NetpollAll
  BY <1>2, HandleAllKeeps DEF I!Interrupt, I!NetpollAll
<1>3. CASE I!InterruptRx \/ I!NetpollRx
  BY <1>3, HandleRxKeeps DEF I!InterruptRx, I!NetpollRx
<1>4. CASE I!InterruptTx \/ I!NetpollTx
  BY <1>4, HandleTxKeeps DEF I!InterruptTx, I!NetpollTx
<1>5. CASE I!InterruptOther \/ I!NetpollOther
  BY <1>5, HandleOtherKeeps DEF I!InterruptOther, I!NetpollOther
<1>6. CASE I!Poll
  BY <1>6, PollCleanKeeps, PollCompleteKeeps, PollEnableKeeps DEF I!Poll
<1>7. CASE I!Watchdog
  BY <1>7, WatchdogKeeps
<1>8. CASE I!DownStart \/ I!UpSteps
  BY <1>8, ResetsKeep
<1>9. CASE UNCHANGED I!vars
  BY <1>9
   DEF I!vars, IrqInv, I!TypeOK, ResetIs, NapiIs, Announced, Masked, Quiet,
       I!QuietWhileDown,
              I!EnableMask, Coming, I!irq, I!work, I!sched, I!link, I!state
<1>. QED BY <1>1, <1>2, <1>3, <1>4, <1>5, <1>6, <1>7, <1>8, <1>9 DEF I!Next, I!Handler

LEMMA IrqInvariance == ASSUME I!Assumption PROVE I!Spec => []IrqInv
BY IrqStart, IrqStep, PTL DEF I!Spec
-----------------------------------------------------------------------------
(* The variables keep their types. *)
THEOREM IrqTypes == ASSUME I!Assumption PROVE I!Spec => []I!TypeOK
<1>1. IrqInv => I!TypeOK
  BY DEF IrqInv
<1>. QED BY <1>1, IrqInvariance, PTL

LEMMA Announces == ASSUME IrqInv PROVE I!WorkIsAnnounced
BY DEF IrqInv, Announced, Coming, NapiIs, I!WorkIsAnnounced

(***************************************************************************)
(* What is on a ring will be looked at, whatever handlers, polls, netpoll  *)
(* and resets come between: its cause is raised, a poll is due or a reset. *)
(***************************************************************************)
THEOREM Announcement == ASSUME I!Assumption PROVE I!Spec => []I!WorkIsAnnounced
BY Announces, IrqInvariance, PTL

LEMMA Enables == ASSUME IrqInv PROVE I!MaskedIsTransient
BY DEF IrqInv, Masked, I!EnableMask, I!EiacMask, I!MaskedIsTransient

(***************************************************************************)
(* Interrupts never stay off: a poll, a reset or one that is asked for     *)
(* will enable what a handler has masked.                                  *)
(***************************************************************************)
THEOREM Unmasking == ASSUME I!Assumption PROVE I!Spec => []I!MaskedIsTransient
BY Enables, IrqInvariance, PTL

(***************************************************************************)
(* While e1000e_down takes the rings apart, no interrupt is enabled, and   *)
(* no poll and no timer is under way, if netconsole does not poll.         *)
(***************************************************************************)
THEOREM Quietness == ASSUME I!Assumption, ~Netpoll PROVE I!Spec => []I!QuietWhileDown
<1>1. IrqInv => I!QuietWhileDown
  BY DEF IrqInv, Quiet
<1>. QED BY <1>1, IrqInvariance, PTL
-----------------------------------------------------------------------------
(* The PHY registers of one port, and its callers. *)
CONSTANTS Families, Accesses, AddrReg, MayFail, Alone
VARIABLES family, addr, lock, page, wuc, opcode, debug, call

P == INSTANCE PhyAccess

Asks == [page : Nat, reg : Nat, session : BOOLEAN]
Steps == [do : {"addr", "back", "put", "make", "save", "restore"}, reg : Nat,
          value : Nat \cup {"open"}]
Registers == {<<>>} \cup ({1, 2, "debug"} \X Nat \X Nat)
Calls == [at : {"idle", "ask", "run", "done"}, ask : Asks, todo : Seq(Steps),
          got : Registers, saved : {"found", "open"}, failed : BOOLEAN]

PhyTypes == P!TypeOK /\ call \in [Threads -> Calls]

(* The address is only assigned to where there are two. *)
AddrIs == family \in {"m88", "igp"} => addr = 1

LockIs == \A t \in Threads : call[t].at = "run" <=> lock = t

AloneIs ==
  family = "hv" =>
    \A t, u \in Threads : call[t].at # "idle" /\ call[u].at # "idle" => t = u

(* What a caller may ask, and the assignment before the semaphore. *)
AskIs(t) ==
  /\ call[t].at # "idle" => /\ call[t].ask \in Accesses[family]
                            /\ call[t].ask.session => family = "hv"
  /\ call[t].at = "ask" =>
       /\ ~ call[t].failed
       /\ family = "hv" /\ ~ call[t].ask.session => addr = P!AddrForHvPage(call[t].ask.page)

Prog(t) == P!Program(call[t].ask)
Wakes(t) == call[t].ask.page = P!WucPage

(* Before step k of an access to the wakeup page.  A session has one step    *)
(* more, the eighth.                                                         *)
Turn(t, k) == IF call[t].ask.session /\ k > 8 THEN k - 1 ELSE k

WakesAt(t, j) ==
  /\ j >= 2 => addr = 1
  /\ j \in {4, 5, 12} => page[1] = P!PortCtrlPage
  /\ j \in {8, 9} => page[1] = P!WucPage
  /\ j = 9 => opcode = call[t].ask.reg
  /\ j >= 10 => call[t].got = P!Named(call[t].ask)
  /\ P!WucPage \notin MayFail =>
       /\ wuc = IF j \in 6 .. 12 THEN "open" ELSE "found"
       /\ j >= 5 => call[t].saved = "found"

(* Before step k of another access the step before has had its effect. *)
SelectsAt(t, k) ==
  /\ k = Len(Prog(t)) => P!Reached(Prog(t)[k].reg) = P!Named(call[t].ask)
  /\ k = Len(Prog(t)) + 1 => call[t].got = P!Named(call[t].ask)
  /\ k > 1 /\ Prog(t)[k - 1].do \in {"addr", "back"} => addr = Prog(t)[k - 1].value
  /\ k > 1 /\ Prog(t)[k - 1].do = "put" /\ Prog(t)[k - 1].reg = 31 =>
       page[1] = Prog(t)[k - 1].value \div 32

IsAt(t, k) == IF Wakes(t) THEN WakesAt(t, Turn(t, k)) ELSE SelectsAt(t, k)

Position(t, k) == call[t].todo = SubSeq(Prog(t), k, Len(Prog(t))) /\ IsAt(t, k)

(* After a failure one assignment may be left. *)
HasFailed(t) ==
  /\ call[t].ask.page \in MayFail
  /\ call[t].todo # <<>> => family = "hv" /\ call[t].todo \in {<<P!Back(1)>>, <<P!Back(2)>>}

RunIs(t) ==
  call[t].at = "run" =>
    IF call[t].failed THEN HasFailed(t)
    ELSE \E k \in 1 .. Len(Prog(t)) + 1 : Position(t, k)

DoneIs(t) == call[t].at = "done" /\ ~ call[t].failed => call[t].got = P!Named(call[t].ask)

(* The bits stand open during an access to the wakeup page only. *)
WucIs ==
  P!WucPage \notin MayFail /\ (\A t \in Threads : call[t].at = "run" => ~ Wakes(t)) =>
    wuc = "found"

CallIs(t) == AskIs(t) /\ RunIs(t) /\ DoneIs(t)

PhyInv == PhyTypes /\ AddrIs /\ LockIs /\ AloneIs /\ WucIs /\ \A t \in Threads : CallIs(t)

(* The hv variants assign hw->phy.addr before they have the semaphore, so    *)
(* their accesses are taken one by one.                                      *)
OneByOne == "hv" \in Families => "hv" \in Alone
-----------------------------------------------------------------------------
(* The programs. *)

LEMMA StepsAre ==
  /\ \A a \in 1 .. 2 : P!Addr(a) \in Steps /\ P!Back(a) \in Steps
  /\ \A r, v \in Nat : P!Put(r, v) \in Steps
  /\ \A r \in Nat : P!Make(r) \in Steps
  /\ P!Save \in Steps /\ P!Open \in Steps /\ P!Restore \in Steps
BY DEF Steps, P!Addr, P!Back, P!Put, P!Make, P!Save, P!Open, P!Restore

LEMMA SetPageIs ==
  ASSUME NEW p \in Nat
  PROVE  /\ P!SetPageIgp(p) = <<P!Addr(1), P!Put(31, 32 * p)>>
         /\ P!SetPageIgp(p) \in Seq(Steps)
BY StepsAre DEF P!SetPageIgp, P!Shifted

LEMMA PagesAre ==
  /\ P!SetPageIgp(P!PortCtrlPage) = <<P!Addr(1), P!Put(31, 32 * 769)>>
  /\ P!SetPageIgp(P!WucPage) = <<P!Addr(1), P!Put(31, 32 * 800)>>
BY SetPageIs DEF P!PortCtrlPage, P!WucPage

LEMMA Joined ==
  ASSUME NEW s \in Seq(Steps), NEW u \in Seq(Steps)
  PROVE  /\ s \o u \in Seq(Steps) /\ Len(s \o u) = Len(s) + Len(u)
         /\ Len(s) \in Nat /\ Len(u) \in Nat
         /\ \A i \in 1 .. Len(s) : (s \o u)[i] = s[i]
         /\ \A i \in 1 .. Len(u) : (s \o u)[Len(s) + i] = u[i]
<1>1. /\ s \o u \in Seq(Steps) /\ Len(s \o u) = Len(s) + Len(u)
      /\ \A i \in 1 .. Len(s) + Len(u) :
           (s \o u)[i] = IF i <= Len(s) THEN s[i] ELSE u[i - Len(s)]
  BY ConcatProperties
<1>2. Len(s) \in Nat /\ Len(u) \in Nat
  OBVIOUS
<1> HIDE DEF Steps
<1>3. ASSUME NEW i \in 1 .. Len(s) PROVE (s \o u)[i] = s[i]
  BY <1>1, <1>2
<1>4. ASSUME NEW i \in 1 .. Len(u) PROVE (s \o u)[Len(s) + i] = u[i]
  <2>1. /\ Len(s) + i \in 1 .. Len(s) + Len(u)
        /\ ~ (Len(s) + i <= Len(s)) /\ Len(s) + i - Len(s) = i
    BY <1>2
  <2>. QED BY <1>1, <2>1
<1>. QED BY <1>1, <1>2, <1>3, <1>4

LEMMA EnableIs ==
  /\ P!EnableWakeup \in Seq(Steps) /\ Len(P!EnableWakeup) = 7
  /\ P!EnableWakeup[1] = P!Addr(1) /\ P!EnableWakeup[2] = P!Addr(1)
  /\ P!EnableWakeup[3] = P!Put(31, 32 * 769)
  /\ P!EnableWakeup[4] = P!Save /\ P!EnableWakeup[5] = P!Open
  /\ P!EnableWakeup[6] = P!Addr(1) /\ P!EnableWakeup[7] = P!Put(31, 32 * 800)
<1> DEFINE s1 == <<P!Addr(1)>>
           s2 == <<P!Addr(1), P!Put(31, 32 * 769)>>
           s3 == <<P!Save, P!Open>>
           s4 == <<P!Addr(1), P!Put(31, 32 * 800)>>
<1>1. P!EnableWakeup = ((s1 \o s2) \o s3) \o s4
  <2>1. P!SetPageIgp(P!PortCtrlPage) = s2 /\ P!SetPageIgp(P!WucPage) = s4
    BY PagesAre
  <2>. QED BY <2>1, ZenonT(30) DEF P!EnableWakeup
<1>2. /\ s1 \in Seq(Steps) /\ s2 \in Seq(Steps) /\ s3 \in Seq(Steps) /\ s4 \in Seq(Steps)
      /\ Len(s1) = 1 /\ Len(s2) = 2 /\ Len(s3) = 2 /\ Len(s4) = 2
      /\ s1[1] = P!Addr(1) /\ s2[1] = P!Addr(1) /\ s2[2] = P!Put(31, 32 * 769)
      /\ s3[1] = P!Save /\ s3[2] = P!Open /\ s4[1] = P!Addr(1) /\ s4[2] = P!Put(31, 32 * 800)
  BY StepsAre
<1> HIDE DEF s1, s2, s3, s4
<1>3. /\ s1 \o s2 \in Seq(Steps) /\ Len(s1 \o s2) = 3
      /\ (s1 \o s2)[1] = s1[1] /\ (s1 \o s2)[2] = s2[1] /\ (s1 \o s2)[3] = s2[2]
  <2>1. /\ s1 \o s2 \in Seq(Steps) /\ Len(s1 \o s2) = 1 + 2
        /\ \A i \in 1 .. 1 : (s1 \o s2)[i] = s1[i]
        /\ \A i \in 1 .. 2 : (s1 \o s2)[1 + i] = s2[i]
    <3>1. s1 \in Seq(Steps) /\ s2 \in Seq(Steps) /\ Len(s1) = 1 /\ Len(s2) = 2
      BY <1>2
    <3>2. /\ s1 \o s2 \in Seq(Steps) /\ Len(s1 \o s2) = Len(s1) + Len(s2)
          /\ \A i \in 1 .. Len(s1) : (s1 \o s2)[i] = s1[i]
          /\ \A i \in 1 .. Len(s2) : (s1 \o s2)[Len(s1) + i] = s2[i]
      BY <3>1, Joined
    <3>. QED BY <3>1, <3>2, Zenon
  <2>2. (s1 \o s2)[1] = s1[1] /\ (s1 \o s2)[1 + 1] = s2[1] /\ (s1 \o s2)[1 + 2] = s2[2]
    BY <2>1
  <2>. QED BY <2>1, <2>2
<1>4. /\ (s1 \o s2) \o s3 \in Seq(Steps) /\ Len((s1 \o s2) \o s3) = 5
      /\ \A i \in 1 .. 3 : ((s1 \o s2) \o s3)[i] = (s1 \o s2)[i]
      /\ ((s1 \o s2) \o s3)[4] = s3[1] /\ ((s1 \o s2) \o s3)[5] = s3[2]
  BY <1>2, <1>3, Joined
<1>5. /\ ((s1 \o s2) \o s3) \o s4 \in Seq(Steps) /\ Len(((s1 \o s2) \o s3) \o s4) = 7
      /\ \A i \in 1 .. 5 : (((s1 \o s2) \o s3) \o s4)[i] = ((s1 \o s2) \o s3)[i]
      /\ (((s1 \o s2) \o s3) \o s4)[6] = s4[1] /\ (((s1 \o s2) \o s3) \o s4)[7] = s4[2]
  BY <1>2, <1>4, Joined
<1>. QED BY <1>1, <1>2, <1>3, <1>4, <1>5

AccessAfter(e, r) == (e \o P!WakeupReg(r)) \o P!DisableWakeup

EndsWith(s, e, r) ==
  /\ s \in Seq(Steps) /\ Len(s) = Len(e) + 5
  /\ \A i \in 1 .. Len(e) : s[i] = e[i]
  /\ s[Len(e) + 1] = P!Put(17, r) /\ s[Len(e) + 2] = P!Make(18) /\ s[Len(e) + 3] = P!Addr(1)
  /\ s[Len(e) + 4] = P!Put(31, 32 * 769) /\ s[Len(e) + 5] = P!Restore

LEMMA AccessIs ==
  ASSUME NEW e \in Seq(Steps), NEW r \in Nat
  PROVE  EndsWith(AccessAfter(e, r), e, r)
<1> DEFINE s1 == <<P!Put(17, r), P!Make(18)>>
           s2 == <<P!Addr(1), P!Put(31, 32 * 769)>>
           s3 == <<P!Restore>>
<1>1. P!WakeupReg(r) = s1 /\ P!DisableWakeup = s2 \o s3
  <2>1. P!SetPageIgp(P!PortCtrlPage) = s2
    BY PagesAre, Zenon
  <2>. QED BY <2>1, Zenon DEF P!WakeupReg, P!DisableWakeup
<1>2. /\ s1 \in Seq(Steps) /\ s2 \in Seq(Steps) /\ s3 \in Seq(Steps)
      /\ Len(s1) = 2 /\ Len(s2) = 2 /\ Len(s3) = 1
      /\ s1[1] = P!Put(17, r) /\ s1[2] = P!Make(18) /\ s2[1] = P!Addr(1)
      /\ s2[2] = P!Put(31, 32 * 769) /\ s3[1] = P!Restore
  BY StepsAre
<1> DEFINE d == s2 \o s3
           l == e \o s1
<1> HIDE DEF s1, s2, s3
<1>3. /\ d \in Seq(Steps) /\ Len(d) = 3
      /\ d[1] = s2[1] /\ d[2] = s2[2] /\ d[3] = s3[1]
  <2>1. /\ d \in Seq(Steps) /\ Len(d) = 2 + 1
        /\ \A i \in 1 .. 2 : d[i] = s2[i]
        /\ \A i \in 1 .. 1 : d[2 + i] = s3[i]
    <3>1. s2 \in Seq(Steps) /\ s3 \in Seq(Steps) /\ Len(s2) = 2 /\ Len(s3) = 1
      BY <1>2
    <3>2. /\ s2 \o s3 \in Seq(Steps) /\ Len(s2 \o s3) = Len(s2) + Len(s3)
          /\ \A i \in 1 .. Len(s2) : (s2 \o s3)[i] = s2[i]
          /\ \A i \in 1 .. Len(s3) : (s2 \o s3)[Len(s2) + i] = s3[i]
      BY <3>1, Joined
    <3>. QED BY <3>1, <3>2, Zenon
  <2>2. d[1] = s2[1] /\ d[2] = s2[2] /\ d[2 + 1] = s3[1]
    BY <2>1
  <2>. QED BY <2>1, <2>2
<1>4. /\ l \in Seq(Steps) /\ Len(l) = Len(e) + 2 /\ Len(e) \in Nat
      /\ \A i \in 1 .. Len(e) : l[i] = e[i]
      /\ l[Len(e) + 1] = s1[1] /\ l[Len(e) + 2] = s1[2]
  <2>1. /\ e \o s1 \in Seq(Steps) /\ Len(e \o s1) = Len(e) + Len(s1) /\ Len(e) \in Nat
        /\ \A i \in 1 .. Len(e) : (e \o s1)[i] = e[i]
        /\ \A i \in 1 .. Len(s1) : (e \o s1)[Len(e) + i] = s1[i]
    <3>1. s1 \in Seq(Steps)
      BY <1>2
    <3>. QED BY <3>1, Joined
  <2>. QED BY <1>2, <2>1
<1> HIDE DEF d, l
<1>5. /\ l \o d \in Seq(Steps) /\ Len(l \o d) = Len(e) + 5
      /\ \A i \in 1 .. Len(l) : (l \o d)[i] = l[i]
      /\ \A i \in 1 .. 3 : (l \o d)[Len(e) + 2 + i] = d[i]
  <2>1. /\ l \o d \in Seq(Steps) /\ Len(l \o d) = Len(l) + Len(d)
        /\ \A i \in 1 .. Len(l) : (l \o d)[i] = l[i]
        /\ \A i \in 1 .. Len(d) : (l \o d)[Len(l) + i] = d[i]
    BY <1>3, <1>4, Joined
  <2>. QED BY <1>3, <1>4, <2>1
<1>6. (l \o d)[Len(e) + 1] = P!Put(17, r) /\ (l \o d)[Len(e) + 2] = P!Make(18)
  BY <1>2, <1>4, <1>5, SMTT(30)
<1>7. /\ (l \o d)[Len(e) + 3] = P!Addr(1) /\ (l \o d)[Len(e) + 4] = P!Put(31, 32 * 769)
      /\ (l \o d)[Len(e) + 5] = P!Restore
  <2>1. /\ (l \o d)[Len(e) + 2 + 1] = d[1] /\ (l \o d)[Len(e) + 2 + 2] = d[2]
        /\ (l \o d)[Len(e) + 2 + 3] = d[3]
    BY <1>5
  <2>2. /\ Len(e) + 2 + 1 = Len(e) + 3 /\ Len(e) + 2 + 2 = Len(e) + 4
        /\ Len(e) + 2 + 3 = Len(e) + 5
    BY <1>4
  <2>. QED BY <1>2, <1>3, <2>1, <2>2, ZenonT(30)
<1>8. \A i \in 1 .. Len(e) : (l \o d)[i] = e[i]
  BY <1>4, <1>5
<1>9. (e \o P!WakeupReg(r)) \o P!DisableWakeup = l \o d
  BY <1>1 DEF l, d
<1>10. AccessAfter(e, r) = l \o d
  BY <1>9 DEF AccessAfter
<1>11. EndsWith(l \o d, e, r)
  BY <1>4, <1>5, <1>6, <1>7, <1>8 DEF EndsWith
<1>. QED BY <1>10, <1>11

Opens(p) ==
  /\ p[1] = P!Addr(1) /\ p[2] = P!Addr(1) /\ p[3] = P!Put(31, 32 * 769)
  /\ p[4] = P!Save /\ p[5] = P!Open /\ p[6] = P!Addr(1) /\ p[7] = P!Put(31, 32 * 800)

OneAccess(p, r) ==
  /\ p \in Seq(Steps) /\ Len(p) = 12 /\ Opens(p)
  /\ p[8] = P!Put(17, r) /\ p[9] = P!Make(18) /\ p[10] = P!Addr(1)
  /\ p[11] = P!Put(31, 32 * 769) /\ p[12] = P!Restore

LEMMA OneAccessIs ==
  ASSUME NEW r \in Nat
  PROVE  OneAccess(AccessAfter(P!EnableWakeup, r), r)
<1> DEFINE p == AccessAfter(P!EnableWakeup, r)
           e == P!EnableWakeup
<1>1. e \in Seq(Steps) /\ Len(e) = 7
  BY EnableIs
<1>2. /\ p \in Seq(Steps) /\ Len(p) = Len(e) + 5
      /\ \A i \in 1 .. Len(e) : p[i] = e[i]
      /\ p[Len(e) + 1] = P!Put(17, r) /\ p[Len(e) + 2] = P!Make(18)
      /\ p[Len(e) + 3] = P!Addr(1) /\ p[Len(e) + 4] = P!Put(31, 32 * 769)
      /\ p[Len(e) + 5] = P!Restore
  <2>1. EndsWith(p, e, r)
    BY <1>1, AccessIs
  <2> HIDE DEF p
  <2>. QED BY <2>1 DEF EndsWith
<1>3. /\ e[1] = P!Addr(1) /\ e[2] = P!Addr(1) /\ e[3] = P!Put(31, 32 * 769)
      /\ e[4] = P!Save /\ e[5] = P!Open /\ e[6] = P!Addr(1) /\ e[7] = P!Put(31, 32 * 800)
  BY EnableIs
<1> HIDE DEF p, e
<1>4. /\ p[1] = P!Addr(1) /\ p[2] = P!Addr(1) /\ p[3] = P!Put(31, 32 * 769)
      /\ p[4] = P!Save /\ p[5] = P!Open /\ p[6] = P!Addr(1) /\ p[7] = P!Put(31, 32 * 800)
  BY <1>1, <1>2, <1>3
<1>5. /\ p[8] = P!Put(17, r) /\ p[9] = P!Make(18) /\ p[10] = P!Addr(1)
      /\ p[11] = P!Put(31, 32 * 769) /\ p[12] = P!Restore /\ Len(p) = 12
  BY <1>1, <1>2
<1>6. OneAccess(p, r)
  BY <1>2, <1>4, <1>5 DEF OneAccess, Opens
<1>. QED BY <1>6 DEF p

(* The eighth step of a session is made by its caller. *)
InSession == P!EnableWakeup \o <<P!Addr(1)>>

Session(p, r) ==
  /\ p \in Seq(Steps) /\ Len(p) = 13 /\ Opens(p)
  /\ p[8] = P!Addr(1) /\ p[9] = P!Put(17, r) /\ p[10] = P!Make(18) /\ p[11] = P!Addr(1)
  /\ p[12] = P!Put(31, 32 * 769) /\ p[13] = P!Restore

LEMMA SessionIs ==
  ASSUME NEW r \in Nat
  PROVE  Session(AccessAfter(InSession, r), r)
<1> DEFINE p == AccessAfter(InSession, r)
           s1 == <<P!Addr(1)>>
           e == InSession
<1>1. s1 \in Seq(Steps) /\ Len(s1) = 1 /\ s1[1] = P!Addr(1)
  BY StepsAre
<1>2. P!EnableWakeup \in Seq(Steps) /\ Len(P!EnableWakeup) = 7
  BY EnableIs
<1>3. e = P!EnableWakeup \o s1
  BY DEF InSession
<1> HIDE DEF s1, e
<1>4. /\ e \in Seq(Steps) /\ Len(e) = 8
      /\ \A i \in 1 .. 7 : e[i] = P!EnableWakeup[i]
      /\ e[7 + 1] = P!Addr(1)
  <2>1. /\ P!EnableWakeup \o s1 \in Seq(Steps)
        /\ Len(P!EnableWakeup \o s1) = Len(P!EnableWakeup) + Len(s1)
        /\ \A i \in 1 .. Len(P!EnableWakeup) : (P!EnableWakeup \o s1)[i] = P!EnableWakeup[i]
        /\ \A i \in 1 .. Len(s1) : (P!EnableWakeup \o s1)[Len(P!EnableWakeup) + i] = s1[i]
    BY <1>1, <1>2, Joined
  <2>2. /\ e \in Seq(Steps) /\ Len(e) = 7 + 1
        /\ \A i \in 1 .. 7 : e[i] = P!EnableWakeup[i]
        /\ \A i \in 1 .. 1 : e[7 + i] = s1[i]
    BY <1>1, <1>2, <1>3, <2>1, Zenon
  <2>. QED BY <1>1, <2>2
<1>5. /\ e[1] = P!Addr(1) /\ e[2] = P!Addr(1) /\ e[3] = P!Put(31, 32 * 769)
      /\ e[4] = P!Save /\ e[5] = P!Open /\ e[6] = P!Addr(1) /\ e[7] = P!Put(31, 32 * 800)
      /\ e[8] = P!Addr(1)
  BY <1>4, EnableIs
<1>6. /\ p \in Seq(Steps) /\ Len(p) = Len(e) + 5
      /\ \A i \in 1 .. Len(e) : p[i] = e[i]
      /\ p[Len(e) + 1] = P!Put(17, r) /\ p[Len(e) + 2] = P!Make(18)
      /\ p[Len(e) + 3] = P!Addr(1) /\ p[Len(e) + 4] = P!Put(31, 32 * 769)
      /\ p[Len(e) + 5] = P!Restore
  <2>1. EndsWith(p, e, r)
    BY <1>4, AccessIs DEF e
  <2> HIDE DEF p
  <2>. QED BY <2>1 DEF EndsWith
<1> HIDE DEF p
<1>7. /\ p[1] = P!Addr(1) /\ p[2] = P!Addr(1) /\ p[3] = P!Put(31, 32 * 769)
      /\ p[4] = P!Save /\ p[5] = P!Open /\ p[6] = P!Addr(1) /\ p[7] = P!Put(31, 32 * 800)
      /\ p[8] = P!Addr(1)
  BY <1>4, <1>5, <1>6
<1>8. /\ p[9] = P!Put(17, r) /\ p[10] = P!Make(18) /\ p[11] = P!Addr(1)
      /\ p[12] = P!Put(31, 32 * 769) /\ p[13] = P!Restore /\ Len(p) = 13
  BY <1>4, <1>6
<1>9. Session(p, r)
  BY <1>6, <1>7, <1>8 DEF Session, Opens
<1>. QED BY <1>9 DEF p

WakeupRuns(a, p) == IF a.session THEN Session(p, a.reg) ELSE OneAccess(p, a.reg)

LEMMA WakeupProgram ==
  ASSUME family \in {"bm", "bm2", "hv"}, NEW a \in Asks, a.page = P!WucPage,
         a.session => family = "hv"
  PROVE  WakeupRuns(a, P!Program(a))
<1>0. a.reg \in Nat
  BY DEF Asks
<1>1. CASE ~ a.session
  <2>1. P!Program(a) = P!AccessWakeup(a.reg)
    BY <1>1 DEF P!Program, P!Bm, P!Bm2, P!Hv, P!WucPage, P!IntcFcPageStart
  <2>2. P!Program(a) = AccessAfter(P!EnableWakeup, a.reg)
    BY <2>1 DEF P!AccessWakeup, AccessAfter
  <2>. QED BY <1>0, <1>1, <2>2, OneAccessIs DEF WakeupRuns
<1>2. CASE a.session
  <2>1. P!AddrForHvPage(a.page) = 1
    BY DEF P!AddrForHvPage, P!IntcFcPageStart, P!WucPage
  <2>2. P!Program(a) = P!HvSession(a)
    BY <1>2 DEF P!Program
  <2>3. P!HvSession(a) = AccessAfter(InSession, a.reg)
    BY <2>1, Zenon DEF P!HvSession, AccessAfter, InSession
  <2>. QED BY <1>0, <1>2, <2>2, <2>3, SessionIs DEF WakeupRuns
<1>. QED BY <1>1, <1>2

(* Programs of one to six steps. *)
One(p, x) == p \in Seq(Steps) /\ Len(p) = 1 /\ p[1] = x
Two(p, x, y) == p \in Seq(Steps) /\ Len(p) = 2 /\ p[1] = x /\ p[2] = y
Three(p, x, y, z) ==
  p \in Seq(Steps) /\ Len(p) = 3 /\ p[1] = x /\ p[2] = y /\ p[3] = z
Four(p, x, y, z, u) ==
  p \in Seq(Steps) /\ Len(p) = 4 /\ p[1] = x /\ p[2] = y /\ p[3] = z /\ p[4] = u
Six(p, x, y, z, u, v, w) ==
  /\ p \in Seq(Steps) /\ Len(p) = 6
  /\ p[1] = x /\ p[2] = y /\ p[3] = z /\ p[4] = u /\ p[5] = v /\ p[6] = w

Added(p, s, y) ==
  /\ p \in Seq(Steps) /\ Len(p) = Len(s) + 1
  /\ \A i \in 1 .. Len(s) : p[i] = s[i]
  /\ p[Len(s) + 1] = y

LEMMA Adds ==
  ASSUME NEW s \in Seq(Steps), NEW y \in Steps
  PROVE  Added(s \o <<y>>, s, y)
<1> DEFINE u == <<y>>
<1>1. u \in Seq(Steps) /\ Len(u) = 1 /\ u[1] = y
  OBVIOUS
<1> HIDE DEF u
<1>2. /\ s \o u \in Seq(Steps) /\ Len(s \o u) = Len(s) + Len(u)
      /\ \A i \in 1 .. Len(s) : (s \o u)[i] = s[i]
      /\ \A i \in 1 .. Len(u) : (s \o u)[Len(s) + i] = u[i]
  BY <1>1, Joined
<1>3. /\ s \o u \in Seq(Steps) /\ Len(s \o u) = Len(s) + 1
      /\ \A i \in 1 .. Len(s) : (s \o u)[i] = s[i]
      /\ \A i \in 1 .. 1 : (s \o u)[Len(s) + i] = u[i]
  BY <1>1, <1>2, Zenon
<1>4. (s \o u)[Len(s) + 1] = y
  BY <1>1, <1>3
<1>. QED BY <1>3, <1>4 DEF Added, u

LEMMA OneIs == ASSUME NEW x \in Steps PROVE One(<<x>>, x) /\ One(<<>> \o <<x>>, x)
<1>1. One(<<x>>, x)
  BY DEF One
<1>2. <<>> \o <<x>> = <<x>>
  BY ConcatEmptySeq
<1>. QED BY <1>1, <1>2

LEMMA TwoIs ==
  ASSUME NEW x \in Steps, NEW y \in Steps
  PROVE  Two(<<x>> \o <<y>>, x, y) /\ Two((<<x>> \o <<>>) \o <<y>>, x, y)
<1> DEFINE s == <<x>>
<1>1. s \in Seq(Steps) /\ Len(s) = 1 /\ s[1] = x
  OBVIOUS
<1>2. <<x>> \o <<>> = s
  BY ConcatEmptySeq
<1> HIDE DEF s
<1>3. Added(s \o <<y>>, s, y)
  BY <1>1, Adds
<1> DEFINE p == s \o <<y>>
<1> HIDE DEF p
<1>4. ASSUME Added(p, s, y) PROVE Two(p, x, y)
  BY <1>1, <1>4 DEF Added, Two
<1>5. Two(s \o <<y>>, x, y)
  BY <1>3, <1>4 DEF p
<1>. QED BY <1>2, <1>5 DEF s

LEMMA PageIs ==
  ASSUME NEW p \in Nat PROVE Two(P!SetPageIgp(p), P!Addr(1), P!Put(31, 32 * p))
<1>1. Two(<<P!Addr(1), P!Put(31, 32 * p)>>, P!Addr(1), P!Put(31, 32 * p))
  BY StepsAre DEF Two
<1>. QED BY <1>1, SetPageIs

LEMMA ThreeIs ==
  ASSUME NEW s, NEW x, NEW y, Two(s, x, y), NEW z \in Steps
  PROVE  Three(s \o <<z>>, x, y, z)
<1> DEFINE p == s \o <<z>>
<1>1. Added(p, s, z)
  BY Adds DEF Two
<1> HIDE DEF p
<1>2. Three(p, x, y, z)
  BY <1>1 DEF Two, Added, Three
<1>. QED BY <1>2 DEF p

LEMMA FourIs ==
  ASSUME NEW s, NEW x, NEW y, NEW z, Three(s, x, y, z), NEW u \in Steps
  PROVE  Four(s \o <<u>>, x, y, z, u)
<1> DEFINE p == s \o <<u>>
<1>1. Added(p, s, u)
  BY Adds DEF Three
<1> HIDE DEF p
<1>2. Four(p, x, y, z, u)
  BY <1>1 DEF Three, Added, Four
<1>. QED BY <1>2 DEF p

LEMMA SixIs ==
  ASSUME NEW s, NEW x, NEW y, Two(s, x, y), NEW t, NEW z, NEW u, Two(t, z, u),
         NEW r, NEW v, NEW w, Two(r, v, w)
  PROVE  Six((s \o t) \o r, x, y, z, u, v, w)
<1> DEFINE q == s \o t
           p == q \o r
<1>1. /\ q \in Seq(Steps) /\ Len(q) = Len(s) + Len(t)
      /\ \A i \in 1 .. Len(s) : q[i] = s[i]
      /\ \A i \in 1 .. Len(t) : q[Len(s) + i] = t[i]
  BY Joined DEF Two
<1> HIDE DEF q
<1>2. Four(q, x, y, z, u)
  BY <1>1 DEF Two, Four
<1>3. /\ p \in Seq(Steps) /\ Len(p) = Len(q) + Len(r)
      /\ \A i \in 1 .. Len(q) : p[i] = q[i]
      /\ \A i \in 1 .. Len(r) : p[Len(q) + i] = r[i]
  BY <1>1, Joined DEF Two
<1> HIDE DEF p
<1>4. Six(p, x, y, z, u, v, w)
  BY <1>2, <1>3 DEF Two, Four, Six
<1>. QED BY <1>4 DEF p, q

(* What each family does for register r of page p, not the wakeup page. *)
IgpRuns(a, s) ==
  \/ P!Offset(a) <= P!MultiPage /\ One(s, P!Make(a.reg))
  \/ P!Offset(a) > P!MultiPage /\ Two(s, P!Put(31, P!Offset(a)), P!Make(a.reg))

BmRuns(a, s) ==
  \/ /\ P!Offset(a) <= P!MultiPage
     /\ Two(s, P!Addr(P!AddrForBmPage(a.page, P!Offset(a))), P!Make(a.reg))
  \/ /\ P!Offset(a) > P!MultiPage /\ P!AddrForBmPage(a.page, P!Offset(a)) = 1
     /\ Three(s, P!Addr(1), P!Put(31, 32 * a.page), P!Make(a.reg))
  \/ /\ P!Offset(a) > P!MultiPage /\ P!AddrForBmPage(a.page, P!Offset(a)) = 2
     /\ Three(s, P!Addr(2), P!Put(22, a.page), P!Make(a.reg))

Bm2Runs(a, s) ==
  \/ P!Offset(a) <= P!MultiPage /\ Two(s, P!Addr(1), P!Make(a.reg))
  \/ P!Offset(a) > P!MultiPage /\ Three(s, P!Addr(1), P!Put(22, a.page), P!Make(a.reg))

PageUsed(a) == IF a.page = P!IntcFcPageStart THEN 0 ELSE a.page

HvRuns(a, s) ==
  \/ /\ a.session
     /\ Six(s, P!Addr(1), P!Make(31), P!Addr(1), P!Put(31, 32 * a.page),
            P!Addr(P!AddrForHvPage(a.page)), P!Make(a.reg))
  \/ /\ ~ a.session /\ 0 < a.page /\ a.page < P!IntcFcPageStart
     /\ Three(s, P!Addr(2), P!Put(AddrReg, a.reg), P!Make(AddrReg + 1))
  \/ /\ ~ a.session /\ ~ (0 < a.page /\ a.page < P!IntcFcPageStart)
     /\ a.reg <= P!MultiPage /\ One(s, P!Make(a.reg))
  \/ /\ ~ a.session /\ ~ (0 < a.page /\ a.page < P!IntcFcPageStart) /\ a.reg > P!MultiPage
     /\ Four(s, P!Addr(1), P!Put(31, 32 * PageUsed(a)), P!Back(P!AddrForHvPage(a.page)),
             P!Make(a.reg))

LEMMA AsksAre ==
  ASSUME NEW a \in Asks
  PROVE  /\ a.page \in Nat /\ a.reg \in Nat /\ P!Offset(a) \in Nat
         /\ P!Shifted(a.page) = 32 * a.page /\ 32 * a.page \in Nat
         /\ P!AddrForBmPage(a.page, P!Offset(a)) \in 1 .. 2 /\ P!AddrForHvPage(a.page) \in 1 .. 2
         /\ P!Make(a.reg) \in Steps
         /\ a.session \in BOOLEAN
<1>1. a.page \in Nat /\ a.reg \in Nat /\ a.session \in BOOLEAN
  BY DEF Asks
<1>2. P!Shifted(a.page) = 32 * a.page /\ 32 * a.page \in Nat
  BY <1>1 DEF P!Shifted
<1>3. P!Offset(a) \in Nat
  BY <1>1, <1>2 DEF P!Offset
<1>4. P!AddrForBmPage(a.page, P!Offset(a)) \in 1 .. 2 /\ P!AddrForHvPage(a.page) \in 1 .. 2
  BY DEF P!AddrForBmPage, P!AddrForHvPage
<1>5. P!Make(a.reg) \in Steps
  BY <1>1, StepsAre
<1>. QED BY <1>1, <1>2, <1>3, <1>4, <1>5

LEMMA M88Program ==
  ASSUME NEW a \in Asks, family = "m88" PROVE One(P!Program(a), P!Make(a.reg))
<1>1. P!Program(a) = <<P!Make(a.reg)>>
  BY DEF P!Program, P!M88
<1>. QED BY <1>1, AsksAre, OneIs

LEMMA IgpProgram ==
  ASSUME NEW a \in Asks, family = "igp" PROVE IgpRuns(a, P!Program(a))
<1>1. P!Program(a) = P!Igp(a)
  BY DEF P!Program
<1>2. CASE P!Offset(a) > P!MultiPage
  <2>1. P!Igp(a) = <<P!Put(31, P!Offset(a))>> \o <<P!Make(a.reg)>>
    BY <1>2, Zenon DEF P!Igp
  <2>2. P!Put(31, P!Offset(a)) \in Steps
    BY AsksAre, StepsAre
  <2>3. Two(P!Igp(a), P!Put(31, P!Offset(a)), P!Make(a.reg))
    BY <2>1, <2>2, AsksAre, TwoIs
  <2>. QED BY <1>1, <1>2, <2>3 DEF IgpRuns
<1>3. CASE ~ (P!Offset(a) > P!MultiPage)
  <2>1. P!Igp(a) = <<>> \o <<P!Make(a.reg)>>
    BY <1>3, Zenon DEF P!Igp
  <2>2. One(P!Igp(a), P!Make(a.reg))
    BY <2>1, AsksAre, OneIs
  <2>3. P!Offset(a) <= P!MultiPage
    BY <1>3, AsksAre DEF P!MultiPage
  <2>. QED BY <1>1, <2>2, <2>3 DEF IgpRuns
<1>. QED BY <1>2, <1>3

LEMMA BmProgram ==
  ASSUME NEW a \in Asks, family = "bm", a.page # P!WucPage PROVE BmRuns(a, P!Program(a))
<1> DEFINE A == P!AddrForBmPage(a.page, P!Offset(a))
<1>1. P!Program(a) = (<<P!Addr(A)>> \o P!BmSelect(a)) \o <<P!Make(a.reg)>>
  <2>1. P!Program(a) = P!Bm(a)
    BY DEF P!Program
  <2>. QED BY <2>1, Zenon DEF P!Bm
<1>2. P!Addr(A) \in Steps /\ P!Make(a.reg) \in Steps
  BY AsksAre, StepsAre
<1>3. CASE P!Offset(a) <= P!MultiPage
  <2>1. A = 2
    <3>1. a.page = 0 /\ P!Offset(a) < 25
      BY <1>3, AsksAre DEF P!Offset, P!MultiPage, P!Shifted
    <3>. QED BY <3>1, <1>3, AsksAre DEF P!AddrForBmPage, P!MultiPage
  <2>2. P!BmSelect(a) = <<>>
    BY <1>3, <2>1, AsksAre DEF P!BmSelect, P!MultiPage
  <2>3. Two(P!Program(a), P!Addr(A), P!Make(a.reg))
    BY <1>1, <1>2, <2>2, TwoIs, Zenon
  <2>. QED BY <1>3, <2>3 DEF BmRuns
<1>4. CASE P!Offset(a) > P!MultiPage /\ A = 1
  <2>1. P!BmSelect(a) = <<P!Put(31, 32 * a.page)>>
    BY <1>4, AsksAre DEF P!BmSelect, P!MultiPage
  <2>2. P!Put(31, 32 * a.page) \in Steps
    BY AsksAre, StepsAre
  <2>3. Two(<<P!Addr(A)>> \o P!BmSelect(a), P!Addr(A), P!Put(31, 32 * a.page))
    BY <1>2, <2>1, <2>2, TwoIs, Zenon
  <2>4. Three(P!Program(a), P!Addr(A), P!Put(31, 32 * a.page), P!Make(a.reg))
    BY <1>1, <1>2, <2>3, ThreeIs, Zenon
  <2>. QED BY <1>4, <2>4 DEF BmRuns
<1>5. CASE P!Offset(a) > P!MultiPage /\ A = 2
  <2>1. P!BmSelect(a) = <<P!Put(22, a.page)>>
    BY <1>5, AsksAre DEF P!BmSelect, P!MultiPage
  <2>2. P!Put(22, a.page) \in Steps
    BY AsksAre, StepsAre
  <2>3. Two(<<P!Addr(A)>> \o P!BmSelect(a), P!Addr(A), P!Put(22, a.page))
    BY <1>2, <2>1, <2>2, TwoIs, Zenon
  <2>4. Three(P!Program(a), P!Addr(A), P!Put(22, a.page), P!Make(a.reg))
    BY <1>1, <1>2, <2>3, ThreeIs, Zenon
  <2>. QED BY <1>5, <2>4 DEF BmRuns
<1>. QED BY <1>3, <1>4, <1>5, AsksAre DEF P!MultiPage

LEMMA Bm2Program ==
  ASSUME NEW a \in Asks, family = "bm2", a.page # P!WucPage PROVE Bm2Runs(a, P!Program(a))
<1> DEFINE select == IF P!Offset(a) > P!MultiPage THEN <<P!Put(22, a.page)>> ELSE <<>>
<1>1. P!Program(a) = (<<P!Addr(1)>> \o select) \o <<P!Make(a.reg)>>
  <2>1. P!Program(a) = P!Bm2(a)
    BY DEF P!Program
  <2>. QED BY <2>1, Zenon DEF P!Bm2
<1>2. P!Addr(1) \in Steps /\ P!Make(a.reg) \in Steps
  BY AsksAre, StepsAre
<1>3. CASE ~ (P!Offset(a) > P!MultiPage)
  <2>1. select = <<>> /\ P!Offset(a) <= P!MultiPage
    BY <1>3, AsksAre DEF P!MultiPage
  <2> HIDE DEF select
  <2>2. Two(P!Program(a), P!Addr(1), P!Make(a.reg))
    BY <1>1, <1>2, <2>1, TwoIs, Zenon
  <2>. QED BY <2>1, <2>2 DEF Bm2Runs
<1>4. CASE P!Offset(a) > P!MultiPage
  <2>1. select = <<P!Put(22, a.page)>>
    BY <1>4
  <2> HIDE DEF select
  <2>2. P!Put(22, a.page) \in Steps
    BY AsksAre, StepsAre
  <2>3. Two(<<P!Addr(1)>> \o select, P!Addr(1), P!Put(22, a.page))
    BY <1>2, <2>1, <2>2, TwoIs, Zenon
  <2>4. Three(P!Program(a), P!Addr(1), P!Put(22, a.page), P!Make(a.reg))
    BY <1>1, <1>2, <2>3, ThreeIs, Zenon
  <2>. QED BY <1>4, <2>4 DEF Bm2Runs
<1>. QED BY <1>3, <1>4

LEMMA HvProgram ==
  ASSUME NEW a \in Asks, family = "hv", a.page # P!WucPage, AddrReg \in Nat
  PROVE  HvRuns(a, P!Program(a))
<1> DEFINE A == P!AddrForHvPage(a.page)
<1>1. A \in 1 .. 2 /\ P!Addr(A) \in Steps /\ P!Back(A) \in Steps /\ P!Make(a.reg) \in Steps
  BY AsksAre, StepsAre
<1>2. CASE a.session
  <2>1. P!Program(a) = P!HvSession(a)
    BY <1>2 DEF P!Program
  <2>2. P!HvSession(a) =
          (<<P!Addr(1), P!Make(31)>> \o P!SetPageIgp(a.page)) \o <<P!Addr(A), P!Make(a.reg)>>
    BY Zenon DEF P!HvSession
  <2>3. /\ Two(<<P!Addr(1), P!Make(31)>>, P!Addr(1), P!Make(31))
        /\ Two(<<P!Addr(A), P!Make(a.reg)>>, P!Addr(A), P!Make(a.reg))
    BY <1>1, StepsAre DEF Two
  <2>4. Two(P!SetPageIgp(a.page), P!Addr(1), P!Put(31, 32 * a.page))
    BY AsksAre, PageIs
  <2>5. Six(P!HvSession(a), P!Addr(1), P!Make(31), P!Addr(1), P!Put(31, 32 * a.page),
            P!Addr(A), P!Make(a.reg))
    BY <2>2, <2>3, <2>4, SixIs, Zenon
  <2>. QED BY <1>2, <2>1, <2>5 DEF HvRuns
<1>3. CASE ~ a.session /\ 0 < a.page /\ a.page < P!IntcFcPageStart
  <2>1. P!Program(a) = P!AccessDebug(a.reg)
    BY <1>3 DEF P!Program, P!Hv
  <2>2. P!Put(AddrReg, a.reg) \in Steps /\ P!Make(AddrReg + 1) \in Steps /\ P!Addr(2) \in Steps
    BY AsksAre, StepsAre
  <2>3. Three(P!AccessDebug(a.reg), P!Addr(2), P!Put(AddrReg, a.reg), P!Make(AddrReg + 1))
    BY <2>2 DEF Three, P!AccessDebug
  <2>. QED BY <1>3, <2>1, <2>3 DEF HvRuns
<1>4. CASE ~ a.session /\ ~ (0 < a.page /\ a.page < P!IntcFcPageStart)
  <2>1. P!Program(a) = P!HvPaged(a)
    BY <1>4 DEF P!Program, P!Hv
  <2> DEFINE select == IF a.reg > P!MultiPage
                       THEN P!SetPageIgp(PageUsed(a)) \o <<P!Back(A)>> ELSE <<>>
  <2>2. P!HvPaged(a) = select \o <<P!Make(a.reg)>>
    BY Zenon DEF P!HvPaged, PageUsed
  <2>3. CASE ~ (a.reg > P!MultiPage)
    <3>1. select = <<>> /\ a.reg <= P!MultiPage
      BY <2>3, AsksAre DEF P!MultiPage
    <3> HIDE DEF select
    <3>2. One(P!HvPaged(a), P!Make(a.reg))
      BY <1>1, <2>2, <3>1, OneIs, Zenon
    <3>. QED BY <1>4, <2>1, <3>1, <3>2 DEF HvRuns
  <2>4. CASE a.reg > P!MultiPage
    <3>1. select = P!SetPageIgp(PageUsed(a)) \o <<P!Back(A)>>
      BY <2>4
    <3> HIDE DEF select
    <3>2. PageUsed(a) \in Nat
      BY AsksAre DEF PageUsed
    <3>3. Two(P!SetPageIgp(PageUsed(a)), P!Addr(1), P!Put(31, 32 * PageUsed(a)))
      BY <3>2, PageIs
    <3>4. Three(select, P!Addr(1), P!Put(31, 32 * PageUsed(a)), P!Back(A))
      BY <1>1, <3>1, <3>3, ThreeIs, Zenon
    <3>5. Four(P!HvPaged(a), P!Addr(1), P!Put(31, 32 * PageUsed(a)), P!Back(A), P!Make(a.reg))
      BY <1>1, <2>2, <3>4, FourIs, Zenon
    <3>. QED BY <1>4, <2>1, <2>4, <3>5 DEF HvRuns
  <2>. QED BY <2>3, <2>4
<1>. QED BY <1>2, <1>3, <1>4, AsksAre

-----------------------------------------------------------------------------
(* One step of a program. *)

LEMMA NextStep ==
  ASSUME NEW p \in Seq(Steps), NEW k \in 1 .. Len(p), NEW todo, todo = SubSeq(p, k, Len(p))
  PROVE  /\ todo # <<>> /\ Head(todo) = p[k] /\ Tail(todo) = SubSeq(p, k + 1, Len(p))
         /\ p[k] \in Steps
<1>1. Len(p) \in Nat /\ Len(p) \in k .. Len(p)
  OBVIOUS
<1>2. Head(todo) = p[k] /\ Tail(todo) = SubSeq(p, k + 1, Len(p))
  BY <1>1, HeadTailOfSubSeq
<1>3. \A i \in k .. Len(p) : p[i] \in Steps
  OBVIOUS
<1>4. Len(todo) = Len(p) - k + 1
  BY <1>1, <1>3, SubSeqProperties
<1>5. todo # <<>>
  <2>1. SUFFICES ASSUME todo = <<>> PROVE FALSE
    OBVIOUS
  <2>2. Len(<<>>) = 0
    OBVIOUS
  <2>3. Len(todo) = 0
    BY <2>1, <2>2, Zenon
  <2>. QED BY <1>1, <1>4, <2>3
<1>. QED BY <1>2, <1>3, <1>5

LEMMA LastStep ==
  ASSUME NEW p \in Seq(Steps) PROVE SubSeq(p, Len(p) + 1, Len(p)) = <<>>
BY SubSeqEmpty

(* A step changes nothing of a call but what it has found. *)
Moved(t, got, saved) ==
  /\ family' = family /\ lock' = lock
  /\ call' = [call EXCEPT ![t] = [at |-> "run", ask |-> call[t].ask,
                                  todo |-> Tail(call[t].todo), got |-> got,
                                  saved |-> saved, failed |-> call[t].failed]]

Effect(t, s) ==
  \/ /\ s.do \in {"addr", "back"} /\ addr' = s.value /\ UNCHANGED P!Device
     /\ Moved(t, call[t].got, call[t].saved)
  \/ /\ s.do \in {"put", "restore"} /\ addr' = addr
     /\ P!DevicePut(s.reg, IF s.do = "restore" THEN call[t].saved ELSE s.value)
     /\ Moved(t, call[t].got, call[t].saved)
  \/ /\ s.do = "save" /\ UNCHANGED <<addr, P!Device>>
     /\ Moved(t, call[t].got, IF P!IsWuc(17) THEN wuc ELSE "other")
  \/ /\ s.do = "make" /\ UNCHANGED <<addr, P!Device>>
     /\ Moved(t, P!Reached(s.reg), call[t].saved)

LEMMA CallIsRecord ==
  ASSUME NEW c \in Calls
  PROVE  c = [at |-> c.at, ask |-> c.ask, todo |-> c.todo, got |-> c.got, saved |-> c.saved,
              failed |-> c.failed]
BY DEF Calls

(* What a call becomes by a step. *)
Became(c, todo, got, saved) ==
  [at |-> c.at, ask |-> c.ask, todo |-> todo, got |-> got, saved |-> saved, failed |-> c.failed]

LEMMA Changed ==
  ASSUME NEW c \in Calls, NEW todo, NEW got, NEW saved, NEW new,
         \/ new = [c EXCEPT !.todo = todo] /\ got = c.got /\ saved = c.saved
         \/ new = [c EXCEPT !.todo = todo, !.got = got] /\ saved = c.saved
         \/ new = [c EXCEPT !.todo = todo, !.saved = saved] /\ got = c.got
  PROVE  new = Became(c, todo, got, saved)
<1> DEFINE d == [c EXCEPT !.todo = todo]
           e == [at |-> c.at, ask |-> c.ask, todo |-> todo, got |-> c.got, saved |-> c.saved,
                 failed |-> c.failed]
<1>1. d = e
  BY CallIsRecord
<1>2. [e EXCEPT !.got = got] = Became(c, todo, got, c.saved)
  BY DEF Became
<1>3. [e EXCEPT !.saved = saved] = Became(c, todo, c.got, saved)
  BY DEF Became
<1>4. e = Became(c, todo, c.got, c.saved)
  BY DEF Became
<1>5. /\ [c EXCEPT !.todo = todo, !.got = got] = [d EXCEPT !.got = got]
      /\ [c EXCEPT !.todo = todo, !.saved = saved] = [d EXCEPT !.saved = saved]
  OBVIOUS
<1> HIDE DEF e
<1>. QED BY <1>1, <1>2, <1>3, <1>4, <1>5, Zenon

Moves(t) == P!Assign(t) \/ P!MdicWrite(t) \/ P!MdicSave(t) \/ P!MdicAccess(t)

LEMMA EffectIs ==
  ASSUME PhyTypes, NEW t \in Threads, Moves(t)
  PROVE  /\ call[t].at = "run" /\ call[t].todo # <<>> /\ Effect(t, Head(call[t].todo))
<1>1. call \in [Threads -> Calls] /\ call[t] \in Calls
  BY DEF PhyTypes
<1>2. call[t].at = "run" /\ call[t].todo # <<>>
  BY DEF Moves, P!Assign, P!MdicWrite, P!MdicSave, P!MdicAccess, P!Running
<1> DEFINE c == call[t]
           todo == Tail(call[t].todo)
<1>3. ASSUME NEW got, NEW saved, NEW new, call' = [call EXCEPT ![t] = new],
             \/ new = [c EXCEPT !.todo = todo] /\ got = c.got /\ saved = c.saved
             \/ new = [c EXCEPT !.todo = todo, !.got = got] /\ saved = c.saved
             \/ new = [c EXCEPT !.todo = todo, !.saved = saved] /\ got = c.got
      PROVE  call' = [call EXCEPT ![t] = [at |-> "run", ask |-> c.ask, todo |-> todo,
                                          got |-> got, saved |-> saved, failed |-> c.failed]]
  <2> HIDE DEF c, todo
  <2>1. c \in Calls /\ c.at = "run"
    BY <1>1, <1>2 DEF c
  <2>2. new = Became(c, todo, got, saved)
    BY <1>3, <2>1, Changed
  <2>. QED BY <1>3, <2>1, <2>2, Zenon DEF Became
<1>4. CASE P!Assign(t)
  <2> DEFINE new == [c EXCEPT !.todo = todo]
  <2>1. call' = [call EXCEPT ![t] = new]
    BY <1>4 DEF P!Assign
  <2>2. new = [c EXCEPT !.todo = todo] /\ c.got = c.got /\ c.saved = c.saved
    OBVIOUS
  <2> DEFINE got == c.got
             saved == c.saved
  <2>3. got = c.got /\ saved = c.saved
    OBVIOUS
  <2> HIDE DEF new, got, saved
  <2>4. call' = [call EXCEPT ![t] = [at |-> "run", ask |-> c.ask, todo |-> todo, got |-> got,
                                     saved |-> saved, failed |-> c.failed]]
    BY <1>3, <2>1, <2>2, <2>3, Zenon
  <2>5. family' = family /\ lock' = lock
    BY <1>4 DEF P!Assign
  <2>6. Moved(t, c.got, c.saved)
    BY <2>4, <2>5, Zenon DEF Moved, got, saved
  <2>. QED BY <1>2, <1>4, <2>6 DEF P!Assign, P!Running, Effect
<1>5. CASE P!MdicWrite(t)
  <2> DEFINE new == [c EXCEPT !.todo = todo]
  <2>1. call' = [call EXCEPT ![t] = new]
    BY <1>5 DEF P!MdicWrite
  <2>2. new = [c EXCEPT !.todo = todo] /\ c.got = c.got /\ c.saved = c.saved
    OBVIOUS
  <2> DEFINE got == c.got
             saved == c.saved
  <2>3. got = c.got /\ saved = c.saved
    OBVIOUS
  <2> HIDE DEF new, got, saved
  <2>4. call' = [call EXCEPT ![t] = [at |-> "run", ask |-> c.ask, todo |-> todo, got |-> got,
                                     saved |-> saved, failed |-> c.failed]]
    BY <1>3, <2>1, <2>2, <2>3, Zenon
  <2>5. family' = family /\ lock' = lock
    BY <1>5 DEF P!MdicWrite
  <2>6. Moved(t, c.got, c.saved)
    BY <2>4, <2>5, Zenon DEF Moved, got, saved
  <2>7. P!DevicePut(Head(call[t].todo).reg,
                  IF Head(call[t].todo).do = "restore" THEN call[t].saved
                  ELSE Head(call[t].todo).value)
    BY <1>5 DEF P!MdicWrite
  <2>8. Head(call[t].todo).do \in {"put", "restore"} /\ addr' = addr
    BY <1>5 DEF P!MdicWrite, P!Running
  <2>. QED BY <1>2, <2>6, <2>7, <2>8 DEF Effect
<1>6. CASE P!MdicSave(t)
  <2> DEFINE found == IF P!IsWuc(17) THEN wuc ELSE "other"
  <2>1. call' = [call EXCEPT ![t] = [c EXCEPT !.todo = todo, !.saved = found]]
    BY <1>6 DEF P!MdicSave
  <2> HIDE DEF found
  <2>2. Moved(t, c.got, found)
    BY <1>3, <1>6, <2>1, Zenon DEF Moved, P!MdicSave
  <2>. QED BY <1>2, <1>6, <2>2 DEF P!MdicSave, P!Running, Effect, found
<1>7. CASE P!MdicAccess(t)
  <2> DEFINE found == P!Reached(Head(call[t].todo).reg)
  <2>1. call' = [call EXCEPT ![t] = [c EXCEPT !.todo = todo, !.got = found]]
    BY <1>7 DEF P!MdicAccess
  <2> HIDE DEF found
  <2>2. Moved(t, found, c.saved)
    BY <1>3, <1>7, <2>1, Zenon DEF Moved, P!MdicAccess
  <2>. QED BY <1>2, <1>7, <2>2 DEF P!MdicAccess, P!Running, Effect, found
<1>. QED BY <1>4, <1>5, <1>6, <1>7 DEF Moves

(* The effects of the steps there are. *)
Keeps == UNCHANGED <<addr, page, wuc, opcode, debug>>

LEMMA AddrStep ==
  ASSUME NEW t \in Threads, NEW a \in 1 .. 2, Effect(t, P!Addr(a)) \/ Effect(t, P!Back(a))
  PROVE  /\ addr' = a /\ UNCHANGED <<page, wuc, opcode, debug>>
         /\ Moved(t, call[t].got, call[t].saved)
BY DEF Effect, P!Addr, P!Back, P!Device

LEMMA MakeStep ==
  ASSUME NEW t \in Threads, NEW r \in Nat, Effect(t, P!Make(r))
  PROVE  Keeps /\ Moved(t, P!Reached(r), call[t].saved)
BY DEF Effect, P!Make, Keeps, P!Device

LEMMA SaveStep ==
  ASSUME NEW t \in Threads, Effect(t, P!Save), addr = 1, page[1] = P!PortCtrlPage,
         family # "m88"
  PROVE  Keeps /\ Moved(t, call[t].got, wuc)
<1>1. P!IsWuc(17)
  BY DEF P!IsWuc, P!Reached, P!MultiPage, P!PortCtrlPage, P!WucPage
<1>. QED BY <1>1 DEF Effect, P!Save, Keeps, P!Device

LEMMA SelectStep ==
  ASSUME PhyTypes, NEW t \in Threads, NEW r \in {22, 31}, NEW v \in Nat, Effect(t, P!Put(r, v)),
         family # "m88", r = 22 => addr = 2 \/ family = "bm2", family = "hv" => addr = 1
  PROVE  /\ page' = [page EXCEPT ![addr] = IF r = 31 THEN v \div 32 ELSE v]
         /\ UNCHANGED <<addr, wuc, opcode, debug>>
         /\ Moved(t, call[t].got, call[t].saved)
<1>1. P!DevicePut(r, v) /\ addr' = addr /\ Moved(t, call[t].got, call[t].saved)
  BY DEF Effect, P!Put
<1>2. P!Selects(r) /\ ~ (family = "hv" /\ addr = 2)
  BY DEF P!Selects
<1>. QED BY <1>1, <1>2 DEF P!DevicePut

LEMMA PutStep ==
  ASSUME NEW t \in Threads, NEW v, addr = 1, family # "m88", NEW s, Effect(t, s),
         \/ s = [do |-> "put", reg |-> 17, value |-> v]
         \/ s = P!Restore /\ v = call[t].saved
  PROVE  /\ UNCHANGED <<addr, page, debug>> /\ Moved(t, call[t].got, call[t].saved)
         /\ page[1] = P!PortCtrlPage => wuc' = v /\ opcode' = opcode
         /\ page[1] = P!WucPage => wuc' = wuc /\ opcode' = v
<1>1. P!DevicePut(17, v) /\ addr' = addr /\ Moved(t, call[t].got, call[t].saved)
  BY DEF Effect, P!Restore
<1>2. ~ P!Selects(17)
  BY DEF P!Selects
<1>3. P!Reached(17) = <<1, page[1], 17>>
  BY DEF P!Reached, P!MultiPage
<1>4. UNCHANGED <<page, debug>>
  BY <1>1, <1>2 DEF P!DevicePut
<1>5. /\ wuc' = IF <<1, page[1], 17>> = <<1, P!PortCtrlPage, 17>> THEN v ELSE wuc
      /\ opcode' = IF <<1, page[1], 17>> = <<1, P!WucPage, 17>> THEN v ELSE opcode
  BY <1>1, <1>2, <1>3 DEF P!DevicePut, P!IsWuc
<1>. QED BY <1>1, <1>4, <1>5 DEF P!PortCtrlPage, P!WucPage

LEMMA DebugStep ==
  ASSUME NEW t \in Threads, NEW v \in Nat, Effect(t, P!Put(AddrReg, v)),
         addr = 2, family = "hv", AddrReg \in {16, 29}
  PROVE  /\ UNCHANGED <<addr, page, wuc, opcode>> /\ debug' = v
         /\ Moved(t, call[t].got, call[t].saved)
<1>1. P!DevicePut(AddrReg, v) /\ addr' = addr /\ Moved(t, call[t].got, call[t].saved)
  BY DEF Effect, P!Put
<1>2. P!Reached(AddrReg) = <<2, 0, AddrReg>>
  BY DEF P!Reached, P!MultiPage
<1>3. ~ P!IsWuc(AddrReg) /\ P!Reached(AddrReg) # <<1, P!WucPage, 17>>
  BY <1>2 DEF P!IsWuc
<1>. QED BY <1>1, <1>3 DEF P!DevicePut

-----------------------------------------------------------------------------
(* The invariant.  What is asked is something the family has. *)

AskOk(a) ==
  /\ a \in Asks /\ P!CanAsk(family, a)
  /\ a.session => family = "hv"

LEMMA AskedIs ==
  ASSUME P!Assumption, PhyTypes, NEW t \in Threads, AskIs(t), call[t].at # "idle"
  PROVE  AskOk(call[t].ask)
<1>1. call[t].ask \in Accesses[family] /\ family \in Families
  BY DEF AskIs, PhyTypes, P!TypeOK
<1>2. call[t].ask \in Asks /\ P!CanAsk(family, call[t].ask)
  BY <1>1 DEF P!Assumption, Asks
<1>. QED BY <1>2 DEF AskOk, AskIs

LEMMA FamilyIs ==
  ASSUME P!Assumption, PhyTypes
  PROVE  family \in {"m88", "igp", "bm", "bm2", "hv"} /\ AddrReg \in {16, 29}
BY DEF P!Assumption, PhyTypes, P!TypeOK

LEMMA WakeupFamily ==
  ASSUME NEW a, AskOk(a), a.page = P!WucPage PROVE family \in {"bm", "bm2", "hv"}
BY DEF AskOk, P!CanAsk

LEMMA ProgIs ==
  ASSUME P!Assumption, PhyTypes, NEW a, AskOk(a)
  PROVE  P!Program(a) \in Seq(Steps) /\ Len(P!Program(a)) \in Nat /\ Len(P!Program(a)) > 0
<1>0. a \in Asks /\ (a.session => family = "hv")
  BY DEF AskOk
<1>1. CASE a.page = P!WucPage
  <2>1. family \in {"bm", "bm2", "hv"}
    BY <1>1, WakeupFamily
  <2>2. WakeupRuns(a, P!Program(a))
    BY <1>0, <1>1, <2>1, WakeupProgram
  <2>. QED BY <2>2 DEF WakeupRuns, Session, OneAccess
<1>2. CASE a.page # P!WucPage
  <2>1. CASE family = "m88"
    BY <1>0, <2>1, M88Program DEF One
  <2>2. CASE family = "igp"
    BY <1>0, <2>2, IgpProgram DEF IgpRuns, One, Two
  <2>3. CASE family = "bm"
    BY <1>0, <1>2, <2>3, BmProgram DEF BmRuns, Two, Three
  <2>4. CASE family = "bm2"
    BY <1>0, <1>2, <2>4, Bm2Program DEF Bm2Runs, Two, Three
  <2>5. CASE family = "hv"
    <3>1. HvRuns(a, P!Program(a))
      BY <1>0, <1>2, <2>5, FamilyIs, HvProgram
    <3>. QED BY <3>1 DEF HvRuns, One, Three, Four, Six
  <2>. QED BY <2>1, <2>2, <2>3, <2>4, <2>5, FamilyIs
<1>. QED BY <1>1, <1>2

LEMMA MovedIs ==
  ASSUME PhyTypes, NEW t \in Threads, NEW got, NEW saved, Moved(t, got, saved)
  PROVE  /\ family' = family /\ lock' = lock
         /\ call'[t].at = "run" /\ call'[t].ask = call[t].ask
         /\ call'[t].todo = Tail(call[t].todo)
         /\ call'[t].got = got /\ call'[t].saved = saved /\ call'[t].failed = call[t].failed
         /\ \A u \in Threads \ {t} : call'[u] = call[u]
<1> DEFINE new == [at |-> "run", ask |-> call[t].ask, todo |-> Tail(call[t].todo), got |-> got,
                   saved |-> saved, failed |-> call[t].failed]
<1>1. call' = [call EXCEPT ![t] = new] /\ call \in [Threads -> Calls]
  BY DEF Moved, PhyTypes
<1> HIDE DEF new
<1>2. call'[t] = new /\ \A u \in Threads \ {t} : call'[u] = call[u]
  BY <1>1
<1>3. /\ new.at = "run" /\ new.ask = call[t].ask /\ new.todo = Tail(call[t].todo)
      /\ new.got = got /\ new.saved = saved /\ new.failed = call[t].failed
  BY DEF new
<1>4. family' = family /\ lock' = lock
  BY DEF Moved
<1>. QED BY <1>2, <1>3, <1>4, Zenon

LEMMA ReachedIs ==
  ASSUME PhyTypes, NEW r \in Nat PROVE P!Reached(r) \in Registers
BY DEF P!Reached, Registers, PhyTypes, P!TypeOK, P!WucPage

(* A step of a thread is the step of its program where it is. *)
LEMMA MoveIs ==
  ASSUME P!Assumption, PhyTypes, NEW t \in Threads, AskIs(t), Moves(t),
         NEW k \in 1 .. Len(Prog(t)) + 1, call[t].todo = SubSeq(Prog(t), k, Len(Prog(t)))
  PROVE  /\ AskOk(call[t].ask) /\ k \in 1 .. Len(Prog(t)) /\ Effect(t, Prog(t)[k])
         /\ Tail(call[t].todo) = SubSeq(Prog(t), k + 1, Len(Prog(t)))
<1>1. call[t].at = "run" /\ call[t].todo # <<>> /\ Effect(t, Head(call[t].todo))
  BY EffectIs
<1>2. AskOk(call[t].ask)
  BY <1>1, AskedIs
<1>3. Prog(t) \in Seq(Steps) /\ Len(Prog(t)) \in Nat
  BY <1>2, ProgIs DEF Prog
<1> DEFINE p == Prog(t)
<1> HIDE DEF p
<1>4. p \in Seq(Steps) /\ Len(p) \in Nat /\ k \in 1 .. Len(p) + 1
      /\ call[t].todo = SubSeq(p, k, Len(p))
  BY <1>3 DEF p
<1>5. k \in 1 .. Len(p)
  <2>1. k # Len(p) + 1
    BY <1>1, <1>4, LastStep
  <2>. QED BY <1>4, <2>1
<1>6. Head(call[t].todo) = p[k] /\ Tail(call[t].todo) = SubSeq(p, k + 1, Len(p))
  BY <1>4, <1>5, NextStep
<1>. QED BY <1>1, <1>2, <1>5, <1>6 DEF p

LEMMA StaysAsked ==
  ASSUME PhyTypes, NEW t \in Threads, NEW got, NEW saved, Moved(t, got, saved)
  PROVE  /\ P!Named(call[t].ask)' = P!Named(call[t].ask) /\ Prog(t)' = Prog(t)
         /\ Wakes(t)' = Wakes(t)
         /\ call'[t].ask = call[t].ask
<1>1. family' = family /\ call'[t].ask = call[t].ask
  BY MovedIs
<1>2. P!Named(call[t].ask)' = P!Named(call[t].ask)
  BY <1>1 DEF P!Named
<1>3. P!Program(call[t].ask)' = P!Program(call[t].ask)
  BY <1>1 DEF P!Program
<1>. QED BY <1>1, <1>2, <1>3 DEF Prog, Wakes

(* A step that keeps the types, and leaves its thread what it has found. *)
Typed(got, saved) ==
  /\ addr' \in 1 .. 2 /\ page' \in [1 .. 2 -> Nat]
  /\ wuc' \in {"found", "open"} /\ opcode' \in Nat /\ debug' \in Nat
  /\ got \in Registers /\ saved \in {"found", "open"}

Goes(t) == \E got, saved : Moved(t, got, saved) /\ Typed(got, saved)

(* The turns of an access to the wakeup page: step s is made before turn n. *)
WakeupTurn(r, s, j, n) ==
  \/ j \in {1, 2, 6, 10} /\ s = P!Addr(1) /\ n = j + 1
  \/ j = 8 /\ s = P!Addr(1) /\ n = 8
  \/ j \in {3, 11} /\ s = P!Put(31, 32 * 769) /\ n = j + 1
  \/ j = 4 /\ s = P!Save /\ n = 5
  \/ j = 5 /\ s = P!Open /\ n = 6
  \/ j = 7 /\ s = P!Put(31, 32 * 800) /\ n = 8
  \/ j = 8 /\ s = P!Put(17, r) /\ n = 9
  \/ j = 9 /\ s = P!Make(18) /\ n = 10
  \/ j = 12 /\ s = P!Restore /\ n = 13

LEMMA WakeupTurns ==
  ASSUME NEW a, NEW p, WakeupRuns(a, p), NEW k \in 1 .. Len(p)
  PROVE  WakeupTurn(a.reg, p[k], IF a.session /\ k > 8 THEN k - 1 ELSE k,
                    IF a.session /\ k + 1 > 8 THEN k + 1 - 1 ELSE k + 1)
<1>1. CASE a.session
  <2>1. Session(p, a.reg)
    BY <1>1 DEF WakeupRuns
  <2>2. k \in 1 .. 13
    BY <2>1 DEF Session
  <2>3. CASE k \in 1 .. 7
    BY <1>1, <2>1, <2>3 DEF Session, Opens, WakeupTurn
  <2>4. CASE k \in 8 .. 13
    BY <1>1, <2>1, <2>4 DEF Session, WakeupTurn
  <2>. QED BY <2>2, <2>3, <2>4
<1>2. CASE ~ a.session
  <2>1. OneAccess(p, a.reg)
    BY <1>2 DEF WakeupRuns
  <2>2. k \in 1 .. 12
    BY <2>1 DEF OneAccess
  <2>3. CASE k \in 1 .. 7
    BY <1>2, <2>1, <2>3 DEF OneAccess, Opens, WakeupTurn
  <2>4. CASE k \in 8 .. 12
    BY <1>2, <2>1, <2>4 DEF OneAccess, WakeupTurn
  <2>. QED BY <2>2, <2>3, <2>4
<1>. QED BY <1>1, <1>2

LEMMA WakeupStep ==
  ASSUME P!Assumption, PhyTypes, NEW t \in Threads, AskOk(call[t].ask), Wakes(t),
         NEW s, NEW j, NEW n, WakeupTurn(call[t].ask.reg, s, j, n),
         Effect(t, s), WakesAt(t, j)
  PROVE  Goes(t) /\ WakesAt(t, n)'
<1> DEFINE c == call[t]
<1>1. /\ addr \in 1 .. 2 /\ page \in [1 .. 2 -> Nat] /\ wuc \in {"found", "open"}
      /\ opcode \in Nat /\ debug \in Nat /\ c.got \in Registers
      /\ c.saved \in {"found", "open"} /\ c.ask \in Asks /\ c.ask.reg \in Nat
  BY DEF PhyTypes, P!TypeOK, Calls, Asks
<1>2. family \in {"bm", "bm2", "hv"}
  BY WakeupFamily DEF Wakes
<1>3. ASSUME NEW got, NEW saved, Moved(t, got, saved), Typed(got, saved) PROVE Goes(t)
  BY <1>3 DEF Goes
<1>4. ASSUME NEW got, NEW saved, Moved(t, got, saved)
      PROVE  /\ call'[t].ask.reg = c.ask.reg /\ call'[t].got = got /\ call'[t].saved = saved
             /\ P!Named(call[t].ask)' = P!Named(call[t].ask)
  BY <1>4, MovedIs, StaysAsked
<1> HIDE DEF c
<1>5. CASE j \in {1, 2, 6, 10} /\ s = P!Addr(1) /\ n = j + 1
  <2>1. addr' = 1 /\ UNCHANGED <<page, wuc, opcode, debug>> /\ Moved(t, c.got, c.saved)
    BY <1>5, AddrStep DEF c
  <2>2. Goes(t)
    BY <1>1, <1>3, <2>1 DEF Typed
  <2>3. WakesAt(t, n)'
    BY <1>4, <1>5, <2>1 DEF WakesAt, c
  <2>. QED BY <2>2, <2>3
<1>6. CASE j = 8 /\ s = P!Addr(1) /\ n = 8
  <2>1. addr' = 1 /\ UNCHANGED <<page, wuc, opcode, debug>> /\ Moved(t, c.got, c.saved)
    BY <1>6, AddrStep DEF c
  <2>2. Goes(t)
    BY <1>1, <1>3, <2>1 DEF Typed
  <2>3. WakesAt(t, n)'
    BY <1>4, <1>6, <2>1 DEF WakesAt, c
  <2>. QED BY <2>2, <2>3
<1>7. ASSUME NEW v \in {769, 800}, s = P!Put(31, 32 * v), j \in {3, 7, 11}, n = j + 1,
             v = 800 <=> j = 7
      PROVE  Goes(t) /\ WakesAt(t, n)'
  <2>1. addr = 1 /\ 32 * v \in Nat /\ (32 * v) \div 32 = v
    BY <1>7 DEF WakesAt
  <2>2. /\ page' = [page EXCEPT ![addr] = (32 * v) \div 32]
        /\ UNCHANGED <<addr, wuc, opcode, debug>> /\ Moved(t, c.got, c.saved)
    <3>1. Effect(t, P!Put(31, 32 * v)) /\ family # "m88" /\ (family = "hv" => addr = 1)
      BY <1>2, <1>7, <2>1
    <3>. QED BY <2>1, <3>1, SelectStep DEF c
  <2>3. page' \in [1 .. 2 -> Nat] /\ page'[1] = v
    BY <1>1, <2>1, <2>2
  <2>4. Goes(t)
    BY <1>1, <1>3, <2>2, <2>3 DEF Typed
  <2>5. WakesAt(t, n)'
    BY <1>4, <1>7, <2>2, <2>3 DEF WakesAt, c, P!WucPage, P!PortCtrlPage
  <2>. QED BY <2>4, <2>5
<1>8. CASE j = 4 /\ s = P!Save /\ n = 5
  <2>1. addr = 1 /\ page[1] = P!PortCtrlPage
    BY <1>8 DEF WakesAt
  <2>2. Keeps /\ Moved(t, c.got, wuc)
    BY <1>2, <1>8, <2>1, SaveStep DEF c
  <2>3. Goes(t)
    BY <1>1, <1>3, <2>2 DEF Typed, Keeps
  <2>4. WakesAt(t, n)'
    BY <1>4, <1>8, <2>2 DEF WakesAt, c, Keeps
  <2>. QED BY <2>3, <2>4
<1>9. CASE j = 5 /\ s = P!Open /\ n = 6
  <2>1. addr = 1 /\ page[1] = P!PortCtrlPage
    BY <1>9 DEF WakesAt
  <2>2. s = [do |-> "put", reg |-> 17, value |-> "open"] /\ family # "m88"
    BY <1>2, <1>9 DEF P!Open
  <2>3. UNCHANGED <<addr, page, debug, opcode>> /\ wuc' = "open" /\ Moved(t, c.got, c.saved)
    BY <2>1, <2>2, PutStep DEF c
  <2>4. Goes(t)
    BY <1>1, <1>3, <2>3 DEF Typed
  <2>5. WakesAt(t, n)'
    BY <1>4, <1>9, <2>3 DEF WakesAt, c
  <2>. QED BY <2>4, <2>5
<1>10. CASE j = 8 /\ s = P!Put(17, c.ask.reg) /\ n = 9
  <2>1. addr = 1 /\ page[1] = P!WucPage
    BY <1>10 DEF WakesAt
  <2>2. s = [do |-> "put", reg |-> 17, value |-> c.ask.reg] /\ family # "m88"
    BY <1>2, <1>10 DEF P!Put
  <2>3. UNCHANGED <<addr, page, debug, wuc>> /\ opcode' = c.ask.reg /\ Moved(t, c.got, c.saved)
    BY <2>1, <2>2, PutStep DEF c
  <2>4. Goes(t)
    BY <1>1, <1>3, <2>3 DEF Typed
  <2>5. WakesAt(t, n)'
    BY <1>4, <1>10, <2>1, <2>3 DEF WakesAt, c
  <2>. QED BY <2>4, <2>5
<1>11. CASE j = 9 /\ s = P!Make(18) /\ n = 10
  <2>1. addr = 1 /\ page[1] = P!WucPage /\ opcode = c.ask.reg
    BY <1>11 DEF WakesAt, c
  <2>2. P!Reached(18) = <<1, P!WucPage, c.ask.reg>>
    BY <1>2, <2>1 DEF P!Reached, P!MultiPage
  <2>3. P!Named(c.ask) = <<1, P!WucPage, c.ask.reg>>
    BY DEF P!Named, Wakes, c
  <2>4. Keeps /\ Moved(t, P!Reached(18), c.saved)
    BY <1>11, MakeStep DEF c
  <2>5. P!Reached(18) \in Registers
    BY ReachedIs
  <2>6. Goes(t)
    BY <1>1, <1>3, <2>4, <2>5 DEF Typed, Keeps
  <2>7. WakesAt(t, n)'
    BY <1>4, <1>11, <2>1, <2>2, <2>3, <2>4 DEF WakesAt, c, Keeps
  <2>. QED BY <2>6, <2>7
<1>12. CASE j = 12 /\ s = P!Restore /\ n = 13
  <2>1. addr = 1 /\ page[1] = P!PortCtrlPage
    BY <1>12 DEF WakesAt
  <2>2. s = P!Restore /\ family # "m88"
    BY <1>2, <1>12
  <2>3. UNCHANGED <<addr, page, debug, opcode>> /\ wuc' = c.saved /\ Moved(t, c.got, c.saved)
    BY <2>1, <2>2, PutStep DEF c
  <2>4. Goes(t)
    BY <1>1, <1>3, <2>3 DEF Typed
  <2>5. WakesAt(t, n)'
    BY <1>4, <1>12, <2>3 DEF WakesAt, c
  <2>. QED BY <2>4, <2>5
<1>13. CASE j \in {3, 11} /\ s = P!Put(31, 32 * 769) /\ n = j + 1
  BY <1>7, <1>13
<1>14. CASE j = 7 /\ s = P!Put(31, 32 * 800) /\ n = 8
  BY <1>7, <1>14
<1>. QED BY <1>5, <1>6, <1>8, <1>9, <1>10, <1>11, <1>12, <1>13, <1>14 DEF WakeupTurn, c

(* Step k of program p, an access to another page. *)
Stands(t, a, p, k) ==
  /\ PhyTypes /\ AddrIs /\ t \in Threads
  /\ a = call[t].ask /\ AskOk(a) /\ a.page # P!WucPage
  /\ p = Prog(t) /\ p \in Seq(Steps) /\ k \in 1 .. Len(p)
  /\ Effect(t, p[k]) /\ SelectsAt(t, k)

Stepped(t, k) == Goes(t) /\ wuc' = wuc /\ AddrIs' /\ SelectsAt(t, k + 1)'

LEMMA SelectsNext ==
  ASSUME NEW t, NEW a, NEW p, NEW k, Stands(t, a, p, k),
         NEW got, NEW saved, Moved(t, got, saved), Typed(got, saved), wuc' = wuc,
         family \in {"m88", "igp"} => addr' = 1,
         k + 1 = Len(p) => P!Reached(p[k + 1].reg)' = P!Named(a),
         k = Len(p) => got = P!Named(a),
         p[k].do \in {"addr", "back"} => addr' = p[k].value,
         p[k].do = "put" /\ p[k].reg = 31 => page'[1] = p[k].value \div 32
  PROVE  Stepped(t, k)
<1>0. t \in Threads /\ PhyTypes /\ k \in Nat /\ Len(p) \in Nat /\ p = Prog(t) /\ a = call[t].ask
  BY DEF Stands
<1>1. Goes(t)
  BY DEF Goes
<1>2. /\ family' = family /\ Prog(t)' = p /\ P!Named(call[t].ask)' = P!Named(a)
      /\ call'[t].got = got
  BY <1>0, MovedIs, StaysAsked
<1>3. AddrIs'
  BY <1>2 DEF AddrIs
<1>4. k + 1 - 1 = k /\ (k + 1 = Len(p) + 1 => k = Len(p))
  BY <1>0
<1>5. SelectsAt(t, k + 1)'
  BY <1>0, <1>2, <1>4 DEF SelectsAt
<1>. QED BY <1>1, <1>3, <1>5 DEF Stepped

LEMMA StandsIs ==
  ASSUME NEW t, NEW a, NEW p, NEW k, Stands(t, a, p, k)
  PROVE  /\ t \in Threads /\ k \in Nat /\ k > 0 /\ Len(p) \in Nat /\ k <= Len(p)
         /\ addr \in 1 .. 2 /\ page \in [1 .. 2 -> Nat] /\ wuc \in {"found", "open"}
         /\ opcode \in Nat /\ debug \in Nat /\ call[t].got \in Registers
         /\ call[t].saved \in {"found", "open"} /\ a \in Asks
BY DEF Stands, PhyTypes, P!TypeOK, Calls, AskOk

LEMMA LastMake ==
  ASSUME NEW t, NEW a, NEW p, NEW k, Stands(t, a, p, k), k = Len(p),
         NEW r \in Nat, p[k] = P!Make(r)
  PROVE  Stepped(t, k)
<1>1. Keeps /\ Moved(t, P!Reached(r), call[t].saved)
  <2>1. t \in Threads /\ Effect(t, P!Make(r))
    BY DEF Stands
  <2>. QED BY <2>1, MakeStep
<1>2. P!Reached(r) = P!Named(a)
  BY DEF Stands, SelectsAt, P!Make
<1>3. Typed(P!Reached(r), call[t].saved)
  <2>1. P!Reached(r) \in Registers
    BY ReachedIs DEF Stands
  <2>. QED BY <1>1, <2>1, StandsIs DEF Typed, Keeps
<1>4. p[k].do = "make" /\ k + 1 # Len(p)
  BY StandsIs DEF P!Make
<1>5. wuc' = wuc /\ (family \in {"m88", "igp"} => addr' = 1)
  BY <1>1 DEF Keeps, Stands, AddrIs
<1>. QED BY <1>1, <1>2, <1>3, <1>4, <1>5, SelectsNext

LEMMA AddrMove ==
  ASSUME NEW t, NEW a, NEW p, NEW k, Stands(t, a, p, k), k < Len(p),
         family \notin {"m88", "igp"}, NEW b \in 1 .. 2, p[k] = P!Addr(b) \/ p[k] = P!Back(b),
         (addr' = b /\ family' = family /\ page' = page /\ opcode' = opcode
            /\ debug' = debug /\ k + 1 = Len(p)) => P!Reached(p[k + 1].reg)' = P!Named(a)
  PROVE  Stepped(t, k)
<1>1. /\ addr' = b /\ UNCHANGED <<page, wuc, opcode, debug>>
      /\ Moved(t, call[t].got, call[t].saved)
  <2>1. t \in Threads /\ (Effect(t, P!Addr(b)) \/ Effect(t, P!Back(b)))
    BY DEF Stands
  <2>. QED BY <2>1, AddrStep
<1>2. family' = family
  BY <1>1 DEF Moved
<1>3. Typed(call[t].got, call[t].saved)
  BY <1>1, StandsIs DEF Typed
<1>4. p[k].do \in {"addr", "back"} /\ p[k].value = b /\ k # Len(p)
  BY StandsIs DEF P!Addr, P!Back
<1>. QED BY <1>1, <1>2, <1>3, <1>4, SelectsNext

LEMMA PageMove ==
  ASSUME NEW t, NEW a, NEW p, NEW k, Stands(t, a, p, k), k < Len(p),
         family # "m88", addr = 1, NEW v \in Nat, p[k] = P!Put(31, v),
         (page'[1] = v \div 32 /\ family' = family /\ addr' = addr /\ opcode' = opcode
            /\ debug' = debug /\ k + 1 = Len(p)) => P!Reached(p[k + 1].reg)' = P!Named(a)
  PROVE  Stepped(t, k)
<1>1. /\ page' = [page EXCEPT ![addr] = v \div 32] /\ UNCHANGED <<addr, wuc, opcode, debug>>
      /\ Moved(t, call[t].got, call[t].saved)
  <2>1. t \in Threads /\ Effect(t, P!Put(31, v)) /\ PhyTypes
    BY DEF Stands
  <2>. QED BY <2>1, SelectStep
<1>2. page' \in [1 .. 2 -> Nat] /\ page'[1] = v \div 32
  <2>1. v \div 32 \in Nat
    OBVIOUS
  <2>. QED BY <1>1, <2>1, StandsIs
<1>3. Typed(call[t].got, call[t].saved)
  BY <1>1, <1>2, StandsIs DEF Typed
<1>4. p[k].do = "put" /\ p[k].reg = 31 /\ p[k].value = v /\ k # Len(p)
  BY StandsIs DEF P!Put
<1>5. family' = family
  BY <1>1 DEF Moved
<1>6. wuc' = wuc /\ addr' = 1 /\ (k + 1 = Len(p) => P!Reached(p[k + 1].reg)' = P!Named(a))
  BY <1>1, <1>2, <1>5
<1>. QED BY <1>1, <1>2, <1>3, <1>4, <1>6, SelectsNext

LEMMA BmMove ==
  ASSUME NEW t, NEW a, NEW p, NEW k, Stands(t, a, p, k), k < Len(p),
         family \in {"bm", "bm2"}, family = "bm" => addr = 2,
         NEW v \in Nat, p[k] = P!Put(22, v),
         (page'[addr] = v /\ family' = family /\ addr' = addr /\ opcode' = opcode
            /\ debug' = debug /\ k + 1 = Len(p)) => P!Reached(p[k + 1].reg)' = P!Named(a)
  PROVE  Stepped(t, k)
<1>1. /\ page' = [page EXCEPT ![addr] = v] /\ UNCHANGED <<addr, wuc, opcode, debug>>
      /\ Moved(t, call[t].got, call[t].saved)
  <2>1. t \in Threads /\ Effect(t, P!Put(22, v)) /\ PhyTypes
    BY DEF Stands
  <2>. QED BY <2>1, SelectStep
<1>2. family' = family
  BY <1>1 DEF Moved
<1>3. page' \in [1 .. 2 -> Nat] /\ page'[addr] = v
  BY <1>1, StandsIs
<1>4. Typed(call[t].got, call[t].saved)
  BY <1>1, <1>3, StandsIs DEF Typed
<1>5. p[k].do = "put" /\ p[k].reg # 31 /\ k # Len(p)
  BY StandsIs DEF P!Put
<1>6. wuc' = wuc /\ addr' = addr /\ (k + 1 = Len(p) => P!Reached(p[k + 1].reg)' = P!Named(a))
  BY <1>1, <1>2, <1>3
<1>. QED BY <1>1, <1>2, <1>4, <1>5, <1>6, SelectsNext

LEMMA AddrOnly ==
  ASSUME NEW t, NEW a, NEW p, NEW k, Stands(t, a, p, k), k < Len(p), k + 1 # Len(p),
         family \notin {"m88", "igp"}, NEW b \in 1 .. 2, p[k] = P!Addr(b)
  PROVE  Stepped(t, k)
<1>1. (addr' = b /\ family' = family /\ page' = page /\ opcode' = opcode
         /\ debug' = debug /\ k + 1 = Len(p)) => P!Reached(p[k + 1].reg)' = P!Named(a)
  OBVIOUS
<1>. QED BY <1>1, AddrMove

LEMMA PageOnly ==
  ASSUME NEW t, NEW a, NEW p, NEW k, Stands(t, a, p, k), k < Len(p), k + 1 # Len(p),
         family # "m88", addr = 1, NEW v \in Nat, p[k] = P!Put(31, v)
  PROVE  Stepped(t, k)
<1>1. (page'[1] = v \div 32 /\ family' = family /\ addr' = addr /\ opcode' = opcode
         /\ debug' = debug /\ k + 1 = Len(p)) => P!Reached(p[k + 1].reg)' = P!Named(a)
  OBVIOUS
<1>. QED BY <1>1, PageMove

LEMMA DebugMove ==
  ASSUME P!Assumption, NEW t, NEW a, NEW p, NEW k, Stands(t, a, p, k), k < Len(p),
         family = "hv", addr = 2, NEW v \in Nat, p[k] = P!Put(AddrReg, v),
         (debug' = v /\ family' = family /\ addr' = addr /\ k + 1 = Len(p)) =>
            P!Reached(p[k + 1].reg)' = P!Named(a)
  PROVE  Stepped(t, k)
<1>1. /\ UNCHANGED <<addr, page, wuc, opcode>> /\ debug' = v
      /\ Moved(t, call[t].got, call[t].saved)
  <2>1. t \in Threads /\ Effect(t, P!Put(AddrReg, v)) /\ AddrReg \in {16, 29}
    BY FamilyIs DEF Stands
  <2>. QED BY <2>1, DebugStep
<1>2. family' = family
  BY <1>1 DEF Moved
<1>3. Typed(call[t].got, call[t].saved)
  BY <1>1, StandsIs DEF Typed
<1>4. p[k].do = "put" /\ p[k].reg # 31 /\ k # Len(p)
  BY StandsIs DEF P!Put, P!Assumption
<1>. QED BY <1>1, <1>2, <1>3, <1>4, SelectsNext

LEMMA M88Step ==
  ASSUME P!Assumption, NEW t, NEW a, NEW p, NEW k, Stands(t, a, p, k), family = "m88"
  PROVE  Stepped(t, k)
<1>0. k \in Nat /\ k > 0 /\ k <= Len(p) /\ addr \in 1 .. 2
  BY StandsIs
<1>1. One(p, P!Make(a.reg)) /\ a.reg \in Nat
  BY StandsIs, M88Program, AsksAre DEF Stands, Prog
<1>2. k = Len(p) /\ p[k] = P!Make(a.reg)
  BY <1>0, <1>1 DEF One
<1>. QED BY <1>1, <1>2, LastMake

LEMMA IgpStep ==
  ASSUME P!Assumption, NEW t, NEW a, NEW p, NEW k, Stands(t, a, p, k), family = "igp"
  PROVE  Stepped(t, k)
<1>0. k \in Nat /\ k > 0 /\ k <= Len(p) /\ addr \in 1 .. 2
  BY StandsIs
<1>1. IgpRuns(a, p) /\ a.reg \in Nat /\ a.page \in Nat /\ a.reg <= 31 /\ a.page # P!WucPage
  BY StandsIs, IgpProgram, AsksAre DEF Stands, Prog, AskOk, P!CanAsk
<1>2. CASE One(p, P!Make(a.reg))
  <2>1. k = Len(p) /\ p[k] = P!Make(a.reg)
    BY <1>0, <1>2 DEF One
  <2>. QED BY <1>1, <2>1, LastMake
<1>3. CASE P!Offset(a) > P!MultiPage /\ Two(p, P!Put(31, P!Offset(a)), P!Make(a.reg))
  <2>1. CASE k = 1
    <3>1. p[k] = P!Put(31, P!Offset(a)) /\ k < Len(p) /\ k + 1 = Len(p) /\ p[k + 1].reg = a.reg
      BY <1>3, <2>1 DEF Two, P!Make
    <3>2. P!Offset(a) \in Nat /\ P!Offset(a) \div 32 = a.page
      BY <1>1 DEF P!Offset, P!Shifted
    <3>3. addr = 1
      BY DEF Stands, AddrIs
    <3>4. ASSUME page'[1] = a.page, family' = family, addr' = addr, opcode' = opcode,
                 debug' = debug
          PROVE  P!Reached(a.reg)' = P!Named(a)
      BY <1>1, <3>3, <3>4 DEF P!Reached, P!Named, P!MultiPage
    <3>5. (page'[1] = P!Offset(a) \div 32 /\ family' = family /\ addr' = addr /\ opcode' = opcode
             /\ debug' = debug /\ k + 1 = Len(p)) => P!Reached(p[k + 1].reg)' = P!Named(a)
      BY <3>1, <3>2, <3>3, <3>4
    <3>. QED BY <3>1, <3>2, <3>3, <3>5, PageMove
  <2>2. CASE k = 2
    <3>1. k = Len(p) /\ p[k] = P!Make(a.reg)
      BY <1>3, <2>2 DEF Two
    <3>. QED BY <1>1, <3>1, LastMake
  <2>. QED BY <1>0, <1>3, <2>1, <2>2 DEF Two
<1>. QED BY <1>1, <1>2, <1>3 DEF IgpRuns

LEMMA BmStep ==
  ASSUME P!Assumption, NEW t, NEW a, NEW p, NEW k, Stands(t, a, p, k), family = "bm"
  PROVE  Stepped(t, k)
<1>0. k \in Nat /\ k > 0 /\ k <= Len(p) /\ addr \in 1 .. 2
  BY StandsIs
<1> DEFINE A == P!AddrForBmPage(a.page, P!Offset(a))
<1>1. /\ BmRuns(a, p) /\ a.reg \in Nat /\ a.page \in Nat /\ a.page # P!WucPage
      /\ P!Offset(a) = 32 * a.page + a.reg /\ A \in 1 .. 2 /\ 32 * a.page \in Nat
  BY StandsIs, BmProgram, AsksAre DEF Stands, Prog, P!Offset
<1>2. /\ k > 1 /\ p[k - 1].do \in {"addr", "back"} => addr = p[k - 1].value
      /\ k > 1 /\ p[k - 1].do = "put" /\ p[k - 1].reg = 31 => page[1] = p[k - 1].value \div 32
  BY DEF Stands, SelectsAt
<1>3. CASE P!Offset(a) <= P!MultiPage /\ Two(p, P!Addr(A), P!Make(a.reg))
  <2> HIDE DEF A
  <2>1. CASE k = 1
    <3>1. p[k] = P!Addr(A) /\ k < Len(p) /\ k + 1 = Len(p) /\ p[k + 1].reg = a.reg
      BY <1>3, <2>1 DEF Two, P!Make
    <3>2. ASSUME addr' = A, family' = family PROVE P!Reached(a.reg)' = P!Named(a)
      <4>1. a.reg <= 15 /\ a.page = 0
        BY <1>1, <1>3 DEF P!MultiPage
      <4>. QED BY <1>1, <3>2, <4>1 DEF P!Reached, P!Named, P!MultiPage, A
    <3>3. (addr' = A /\ family' = family /\ page' = page /\ opcode' = opcode
             /\ debug' = debug /\ k + 1 = Len(p)) => P!Reached(p[k + 1].reg)' = P!Named(a)
      BY <3>1, <3>2
    <3>. QED BY <1>1, <3>1, <3>3, AddrMove
  <2>2. CASE k = 2
    <3>1. k = Len(p) /\ p[k] = P!Make(a.reg)
      BY <1>3, <2>2 DEF Two
    <3>. QED BY <1>1, <3>1, LastMake
  <2>. QED BY <1>0, <1>3, <2>1, <2>2 DEF Two
<1>4. CASE /\ P!Offset(a) > P!MultiPage /\ A = 1
           /\ Three(p, P!Addr(1), P!Put(31, 32 * a.page), P!Make(a.reg))
  <2> HIDE DEF A
  <2>1. CASE k = 1
    <3>1. p[k] = P!Addr(1) /\ k < Len(p) /\ k + 1 # Len(p)
      BY <1>4, <2>1 DEF Three
    <3>. QED BY <3>1, AddrOnly
  <2>2. CASE k = 2
    <3>1. /\ p[k] = P!Put(31, 32 * a.page) /\ k < Len(p) /\ k + 1 = Len(p)
          /\ p[k + 1].reg = a.reg /\ (32 * a.page) \div 32 = a.page
      BY <1>1, <1>4, <2>2 DEF Three, P!Make
    <3>2. addr = 1
      BY <1>2, <1>4, <2>2 DEF Three, P!Addr
    <3>3. ASSUME page'[1] = a.page, family' = family, addr' = addr
          PROVE  P!Reached(a.reg)' = P!Named(a)
      BY <1>1, <1>4, <3>2, <3>3 DEF P!Reached, P!Named, A, P!MultiPage
    <3>4. (page'[1] = (32 * a.page) \div 32 /\ family' = family /\ addr' = addr /\ opcode' = opcode
             /\ debug' = debug /\ k + 1 = Len(p)) => P!Reached(p[k + 1].reg)' = P!Named(a)
      BY <3>1, <3>2, <3>3
    <3>. QED BY <1>1, <3>1, <3>2, <3>4, PageMove
  <2>3. CASE k = 3
    <3>1. k = Len(p) /\ p[k] = P!Make(a.reg)
      BY <1>4, <2>3 DEF Three
    <3>. QED BY <1>1, <3>1, LastMake
  <2>. QED BY <1>0, <1>4, <2>1, <2>2, <2>3 DEF Three
<1>5. CASE /\ P!Offset(a) > P!MultiPage /\ A = 2
           /\ Three(p, P!Addr(2), P!Put(22, a.page), P!Make(a.reg))
  <2> HIDE DEF A
  <2>1. CASE k = 1
    <3>1. p[k] = P!Addr(2) /\ k < Len(p) /\ k + 1 # Len(p)
      BY <1>5, <2>1 DEF Three
    <3>. QED BY <3>1, AddrOnly
  <2>2. CASE k = 2
    <3>1. /\ p[k] = P!Put(22, a.page) /\ k < Len(p) /\ k + 1 = Len(p) /\ p[k + 1].reg = a.reg
      BY <1>5, <2>2 DEF Three, P!Make
    <3>2. addr = 2 /\ family # "m88" /\ family # "hv"
      BY <1>2, <1>5, <2>2 DEF Three, P!Addr
    <3>3. ASSUME page'[2] = a.page, family' = family, addr' = addr
          PROVE  P!Reached(a.reg)' = P!Named(a)
      BY <1>1, <1>5, <3>2, <3>3 DEF P!Reached, P!Named, A, P!MultiPage
    <3>4. (page'[addr] = a.page /\ family' = family /\ addr' = addr /\ opcode' = opcode
             /\ debug' = debug /\ k + 1 = Len(p)) => P!Reached(p[k + 1].reg)' = P!Named(a)
      BY <3>1, <3>2, <3>3
    <3>. QED BY <1>1, <3>1, <3>2, <3>4, BmMove
  <2>3. CASE k = 3
    <3>1. k = Len(p) /\ p[k] = P!Make(a.reg)
      BY <1>5, <2>3 DEF Three
    <3>. QED BY <1>1, <3>1, LastMake
  <2>. QED BY <1>0, <1>5, <2>1, <2>2, <2>3 DEF Three
<1>. QED BY <1>1, <1>3, <1>4, <1>5 DEF BmRuns

LEMMA Bm2Step ==
  ASSUME P!Assumption, NEW t, NEW a, NEW p, NEW k, Stands(t, a, p, k), family = "bm2"
  PROVE  Stepped(t, k)
<1>0. k \in Nat /\ k > 0 /\ k <= Len(p) /\ addr \in 1 .. 2
  BY StandsIs
<1>1. /\ Bm2Runs(a, p) /\ a.reg \in Nat /\ a.page \in Nat /\ a.page # P!WucPage
      /\ P!Offset(a) = 32 * a.page + a.reg /\ 32 * a.page \in Nat
  BY StandsIs, Bm2Program, AsksAre DEF Stands, Prog, P!Offset
<1>2. /\ k > 1 /\ p[k - 1].do \in {"addr", "back"} => addr = p[k - 1].value
  BY DEF Stands, SelectsAt
<1>3. CASE P!Offset(a) <= P!MultiPage /\ Two(p, P!Addr(1), P!Make(a.reg))
  <2>1. CASE k = 1
    <3>1. p[k] = P!Addr(1) /\ k < Len(p) /\ k + 1 = Len(p) /\ p[k + 1].reg = a.reg
      BY <1>3, <2>1 DEF Two, P!Make
    <3>2. ASSUME addr' = 1, family' = family PROVE P!Reached(a.reg)' = P!Named(a)
      <4>1. a.reg <= 15
        BY <1>1, <1>3 DEF P!MultiPage
      <4>. QED BY <1>1, <3>2, <4>1 DEF P!Reached, P!Named, P!MultiPage
    <3>3. (addr' = 1 /\ family' = family /\ page' = page /\ opcode' = opcode
             /\ debug' = debug /\ k + 1 = Len(p)) => P!Reached(p[k + 1].reg)' = P!Named(a)
      BY <3>1, <3>2
    <3>. QED BY <1>1, <3>1, <3>3, AddrMove
  <2>2. CASE k = 2
    <3>1. k = Len(p) /\ p[k] = P!Make(a.reg)
      BY <1>3, <2>2 DEF Two
    <3>. QED BY <1>1, <3>1, LastMake
  <2>. QED BY <1>0, <1>3, <2>1, <2>2 DEF Two
<1>4. CASE P!Offset(a) > P!MultiPage /\ Three(p, P!Addr(1), P!Put(22, a.page), P!Make(a.reg))
  <2>1. CASE k = 1
    <3>1. p[k] = P!Addr(1) /\ k < Len(p) /\ k + 1 # Len(p)
      BY <1>4, <2>1 DEF Three
    <3>. QED BY <3>1, AddrOnly
  <2>2. CASE k = 2
    <3>1. p[k] = P!Put(22, a.page) /\ k < Len(p) /\ k + 1 = Len(p) /\ p[k + 1].reg = a.reg
      BY <1>4, <2>2 DEF Three, P!Make
    <3>2. addr = 1
      BY <1>2, <1>4, <2>2 DEF Three, P!Addr
    <3>3. ASSUME page'[1] = a.page, family' = family, addr' = addr
          PROVE  P!Reached(a.reg)' = P!Named(a)
      BY <1>1, <3>2, <3>3 DEF P!Reached, P!Named, P!MultiPage
    <3>4. (page'[addr] = a.page /\ family' = family /\ addr' = addr /\ opcode' = opcode
             /\ debug' = debug /\ k + 1 = Len(p)) => P!Reached(p[k + 1].reg)' = P!Named(a)
      BY <3>1, <3>2, <3>3
    <3>. QED BY <1>1, <3>1, <3>2, <3>4, BmMove
  <2>3. CASE k = 3
    <3>1. k = Len(p) /\ p[k] = P!Make(a.reg)
      BY <1>4, <2>3 DEF Three
    <3>. QED BY <1>1, <3>1, LastMake
  <2>. QED BY <1>0, <1>4, <2>1, <2>2, <2>3 DEF Three
<1>. QED BY <1>1, <1>3, <1>4 DEF Bm2Runs

LEMMA HvStep ==
  ASSUME P!Assumption, NEW t, NEW a, NEW p, NEW k, Stands(t, a, p, k), family = "hv"
  PROVE  Stepped(t, k)
<1>0. k \in Nat /\ k > 0 /\ k <= Len(p) /\ addr \in 1 .. 2
  BY StandsIs
<1> DEFINE A == P!AddrForHvPage(a.page)
<1>1. /\ HvRuns(a, p) /\ a.reg \in Nat /\ a.page \in Nat /\ a.page # P!WucPage
      /\ A \in 1 .. 2 /\ 32 * a.page \in Nat
  <2>1. AddrReg \in Nat
    BY DEF P!Assumption
  <2>. QED BY <2>1, StandsIs, HvProgram, AsksAre DEF Stands, Prog
<1>2. /\ a.page > P!IntcFcPageStart => a.reg > P!MultiPage
      /\ a.page = 0 => a.reg # AddrReg + 1
      /\ a.session => a.page > P!IntcFcPageStart
      /\ a.session \in BOOLEAN
  BY <1>1, AsksAre DEF Stands, AskOk, P!CanAsk
<1>3. /\ k > 1 /\ p[k - 1].do \in {"addr", "back"} => addr = p[k - 1].value
      /\ k > 1 /\ p[k - 1].do = "put" /\ p[k - 1].reg = 31 => page[1] = p[k - 1].value \div 32
  BY DEF Stands, SelectsAt
<1>4. /\ A = 1 <=> a.page >= 768
      /\ A = 1 => P!Named(a) = <<1, PageUsed(a), a.reg>>
      /\ A = 2 /\ a.page > 0 => P!Named(a) = <<"debug", 0, a.reg>>
      /\ A = 2 /\ a.page = 0 => P!Named(a) = <<2, 0, a.reg>>
      /\ PageUsed(a) # P!WucPage /\ PageUsed(a) \in Nat
  BY <1>1 DEF P!Named, P!AddrForHvPage, P!IntcFcPageStart, PageUsed, P!WucPage
<1> HIDE DEF A
<1>5. CASE /\ a.session
           /\ Six(p, P!Addr(1), P!Make(31), P!Addr(1), P!Put(31, 32 * a.page), P!Addr(A),
                  P!Make(a.reg))
  <2>0. A = 1 /\ PageUsed(a) = a.page /\ a.reg > P!MultiPage
    BY <1>1, <1>2, <1>4, <1>5 DEF PageUsed, P!IntcFcPageStart
  <2>1. CASE k \in {1, 3}
    <3>1. p[k] = P!Addr(1) /\ k < Len(p) /\ k + 1 # Len(p)
      BY <1>5, <2>1 DEF Six
    <3>. QED BY <3>1, AddrOnly
  <2>2. CASE k = 2
    <3>1. p[k] = P!Make(31) /\ k < Len(p) /\ k + 1 # Len(p) /\ k # Len(p) /\ p[k].do = "make"
      BY <1>5, <2>2 DEF Six, P!Make
    <3>2. Keeps /\ Moved(t, P!Reached(31), call[t].saved)
      <4>1. t \in Threads /\ Effect(t, P!Make(31))
        BY <3>1 DEF Stands
      <4>. QED BY <4>1, MakeStep
    <3>3. Typed(P!Reached(31), call[t].saved)
      <4>1. P!Reached(31) \in Registers
        BY ReachedIs DEF Stands
      <4>. QED BY <3>2, <4>1, StandsIs DEF Typed, Keeps
    <3>4. wuc' = wuc
      BY <3>2 DEF Keeps
    <3>. QED BY <3>1, <3>2, <3>3, <3>4, SelectsNext
  <2>3. CASE k = 4
    <3>1. /\ p[k] = P!Put(31, 32 * a.page) /\ k < Len(p) /\ k + 1 # Len(p)
          /\ (32 * a.page) \div 32 = a.page
      BY <1>1, <1>5, <2>3 DEF Six
    <3>2. addr = 1
      BY <1>3, <1>5, <2>3 DEF Six, P!Addr
    <3>. QED BY <1>1, <3>1, <3>2, PageOnly
  <2>4. CASE k = 5
    <3>1. /\ p[k] = P!Addr(1) /\ k < Len(p) /\ k + 1 = Len(p) /\ p[k + 1].reg = a.reg
      BY <1>5, <2>0, <2>4 DEF Six, P!Make
    <3>2. page[1] = a.page
      BY <1>1, <1>3, <1>5, <2>4 DEF Six, P!Put
    <3>3. ASSUME addr' = 1, family' = family, page' = page PROVE P!Reached(a.reg)' = P!Named(a)
      BY <1>1, <1>4, <2>0, <3>2, <3>3 DEF P!Reached, P!MultiPage
    <3>4. (addr' = 1 /\ family' = family /\ page' = page /\ opcode' = opcode
             /\ debug' = debug /\ k + 1 = Len(p)) => P!Reached(p[k + 1].reg)' = P!Named(a)
      BY <3>1, <3>3
    <3>. QED BY <3>1, <3>4, AddrMove
  <2>5. CASE k = 6
    <3>1. k = Len(p) /\ p[k] = P!Make(a.reg)
      BY <1>5, <2>5 DEF Six
    <3>. QED BY <1>1, <3>1, LastMake
  <2>. QED BY <1>0, <1>5, <2>1, <2>2, <2>3, <2>4, <2>5 DEF Six
<1>6. CASE /\ 0 < a.page /\ a.page < P!IntcFcPageStart
           /\ Three(p, P!Addr(2), P!Put(AddrReg, a.reg), P!Make(AddrReg + 1))
  <2>0. A = 2 /\ AddrReg \in {16, 29}
    BY <1>1, <1>4, <1>6 DEF P!IntcFcPageStart, P!Assumption
  <2>1. CASE k = 1
    <3>1. p[k] = P!Addr(2) /\ k < Len(p) /\ k + 1 # Len(p)
      BY <1>6, <2>1 DEF Three
    <3>. QED BY <3>1, AddrOnly
  <2>2. CASE k = 2
    <3>1. /\ p[k] = P!Put(AddrReg, a.reg) /\ k < Len(p) /\ k + 1 = Len(p)
          /\ p[k + 1].reg = AddrReg + 1
      BY <1>6, <2>2 DEF Three, P!Make
    <3>2. addr = 2
      BY <1>3, <1>6, <2>2 DEF Three, P!Addr
    <3>3. ASSUME debug' = a.reg, family' = family, addr' = addr
          PROVE  P!Reached(AddrReg + 1)' = P!Named(a)
      BY <1>4, <1>6, <2>0, <3>2, <3>3 DEF P!Reached, P!MultiPage
    <3>4. (debug' = a.reg /\ family' = family /\ addr' = addr /\ k + 1 = Len(p)) =>
            P!Reached(p[k + 1].reg)' = P!Named(a)
      BY <3>1, <3>3
    <3>. QED BY <1>1, <3>1, <3>2, <3>4, DebugMove
  <2>3. CASE k = 3
    <3>1. k = Len(p) /\ p[k] = P!Make(AddrReg + 1) /\ AddrReg + 1 \in Nat
      BY <1>6, <2>0, <2>3 DEF Three
    <3>. QED BY <3>1, LastMake
  <2>. QED BY <1>0, <1>6, <2>1, <2>2, <2>3 DEF Three
<1>7. CASE One(p, P!Make(a.reg))
  <2>1. k = Len(p) /\ p[k] = P!Make(a.reg)
    BY <1>0, <1>7 DEF One
  <2>. QED BY <1>1, <2>1, LastMake
<1>8. CASE /\ ~ (0 < a.page /\ a.page < P!IntcFcPageStart) /\ a.reg > P!MultiPage
           /\ Four(p, P!Addr(1), P!Put(31, 32 * PageUsed(a)), P!Back(A), P!Make(a.reg))
  <2>1. CASE k = 1
    <3>1. p[k] = P!Addr(1) /\ k < Len(p) /\ k + 1 # Len(p)
      BY <1>8, <2>1 DEF Four
    <3>. QED BY <3>1, AddrOnly
  <2>2. CASE k = 2
    <3>1. /\ p[k] = P!Put(31, 32 * PageUsed(a)) /\ k < Len(p) /\ k + 1 # Len(p)
          /\ 32 * PageUsed(a) \in Nat
      BY <1>4, <1>8, <2>2 DEF Four
    <3>2. addr = 1
      BY <1>3, <1>8, <2>2 DEF Four, P!Addr
    <3>. QED BY <3>1, <3>2, PageOnly
  <2>3. CASE k = 3
    <3>1. /\ p[k] = P!Back(A) /\ k < Len(p) /\ k + 1 = Len(p) /\ p[k + 1].reg = a.reg
      BY <1>8, <2>3 DEF Four, P!Make
    <3>2. page[1] = PageUsed(a)
      BY <1>3, <1>4, <1>8, <2>3 DEF Four, P!Put
    <3>3. ASSUME addr' = A, family' = family, page' = page PROVE P!Reached(a.reg)' = P!Named(a)
      <4>1. CASE A = 1
        BY <1>1, <1>4, <1>8, <3>2, <3>3, <4>1 DEF P!Reached, P!MultiPage
      <4>2. CASE A = 2
        <5>1. a.page = 0 /\ a.reg # AddrReg + 1
          BY <1>1, <1>2, <1>4, <1>8, <4>2 DEF P!IntcFcPageStart
        <5>. QED BY <1>1, <1>4, <1>8, <3>3, <4>2, <5>1 DEF P!Reached, P!MultiPage
      <4>. QED BY <1>1, <4>1, <4>2
    <3>4. (addr' = A /\ family' = family /\ page' = page /\ opcode' = opcode
             /\ debug' = debug /\ k + 1 = Len(p)) => P!Reached(p[k + 1].reg)' = P!Named(a)
      BY <3>1, <3>3
    <3>. QED BY <1>1, <3>1, <3>4, AddrMove
  <2>4. CASE k = 4
    <3>1. k = Len(p) /\ p[k] = P!Make(a.reg)
      BY <1>8, <2>4 DEF Four
    <3>. QED BY <1>1, <3>1, LastMake
  <2>. QED BY <1>0, <1>8, <2>1, <2>2, <2>3, <2>4 DEF Four
<1>. QED BY <1>1, <1>5, <1>6, <1>7, <1>8 DEF HvRuns, A

-----------------------------------------------------------------------------
LEMMA OtherStep ==
  ASSUME P!Assumption, PhyTypes, AddrIs, NEW t \in Threads, AskOk(call[t].ask), ~ Wakes(t),
         NEW k \in 1 .. Len(Prog(t)), Effect(t, Prog(t)[k]), SelectsAt(t, k)
  PROVE  Stepped(t, k)
<1>1. PICK a, p : a = call[t].ask /\ p = Prog(t)
  OBVIOUS
<1>2. Stands(t, a, p, k)
  <2>1. p \in Seq(Steps)
    BY <1>1, ProgIs DEF Prog
  <2>. QED BY <1>1, <2>1 DEF Stands, Wakes
<1>. QED BY <1>2, FamilyIs, M88Step, IgpStep, BmStep, Bm2Step, HvStep

LEMMA TypesNext ==
  ASSUME PhyTypes, NEW t \in Threads, NEW new \in Calls, call' = [call EXCEPT ![t] = new],
         family' = family, lock' \in Threads \cup {"free"},
         addr' \in 1 .. 2, page' \in [1 .. 2 -> Nat],
         wuc' \in {"found", "open"}, opcode' \in Nat, debug' \in Nat
  PROVE  PhyTypes'
<1>1. call' \in [Threads -> Calls]
  BY DEF PhyTypes
<1>2. \A u \in Threads :
        /\ call'[u].at \in {"idle", "ask", "run", "done"} /\ call'[u].failed \in BOOLEAN
        /\ call'[u].ask \in [page : Nat, reg : Nat, session : BOOLEAN]
        /\ call'[u].saved \in {"found", "open"}
  BY <1>1 DEF Calls, Asks
<1>. QED BY <1>1, <1>2 DEF PhyTypes, P!TypeOK

LEMMA OthersKeep ==
  ASSUME P!Assumption, PhyTypes, NEW u \in Threads, CallIs(u), call'[u] = call[u],
         family' = family,
         \/ UNCHANGED <<addr, page, wuc, opcode, debug>>
         \/ call[u].at # "run" /\ (family = "hv" => call[u].at = "idle")
  PROVE  CallIs(u)'
<1>1. /\ P!Named(call[u].ask)' = P!Named(call[u].ask) /\ Prog(u)' = Prog(u)
      /\ Wakes(u)' = Wakes(u)
  <2>1. P!Named(call[u].ask)' = P!Named(call[u].ask)
    BY DEF P!Named
  <2>2. P!Program(call[u].ask)' = P!Program(call[u].ask)
    BY DEF P!Program
  <2>. QED BY <2>1, <2>2 DEF Prog, Wakes
<1>2. DoneIs(u)'
  BY <1>1 DEF CallIs, DoneIs
<1>3. CASE UNCHANGED <<addr, page, wuc, opcode, debug>>
  <2>1. AskIs(u)'
    BY <1>3 DEF CallIs, AskIs
  <2>2. ASSUME NEW k, IsAt(u, k) PROVE IsAt(u, k)'
    <3>1. ASSUME NEW r PROVE P!Reached(r)' = P!Reached(r)
      BY <1>3 DEF P!Reached
    <3>2. Turn(u, k)' = Turn(u, k)
      BY DEF Turn
    <3>3. CASE Wakes(u)
      <4>1. PICK j : j = Turn(u, k)
        OBVIOUS
      <4>2. WakesAt(u, j)
        BY <2>2, <3>3, <4>1 DEF IsAt
      <4>3. WakesAt(u, j)'
        BY <1>1, <1>3, <4>2 DEF WakesAt
      <4>. QED BY <1>1, <3>2, <3>3, <4>1, <4>3 DEF IsAt
    <3>4. CASE ~ Wakes(u)
      <4>1. PICK p : p = Prog(u)
        OBVIOUS
      <4>2. SelectsAt(u, k)
        BY <2>2, <3>4 DEF IsAt
      <4>3. P!Reached(p[k].reg)' = P!Reached(p[k].reg)
        BY <3>1
      <4>4. SelectsAt(u, k)'
        BY <1>1, <1>3, <4>1, <4>2, <4>3 DEF SelectsAt
      <4>. QED BY <1>1, <3>4, <4>4 DEF IsAt
    <3>. QED BY <3>3, <3>4
  <2>3. RunIs(u)'
    <3>1. ASSUME NEW k, Position(u, k) PROVE Position(u, k)'
      BY <1>1, <2>2, <3>1 DEF Position
    <3>2. HasFailed(u) => HasFailed(u)'
      BY DEF HasFailed
    <3>. QED BY <1>1, <3>1, <3>2 DEF CallIs, RunIs
  <2>. QED BY <1>2, <2>1, <2>3 DEF CallIs
<1>4. CASE call[u].at # "run" /\ (family = "hv" => call[u].at = "idle")
  <2>1. AskIs(u)'
    BY <1>4 DEF CallIs, AskIs
  <2>2. RunIs(u)'
    BY <1>4 DEF RunIs
  <2>. QED BY <1>2, <2>1, <2>2 DEF CallIs
<1>. QED BY <1>3, <1>4

(* A thread that runs is alone to do so. *)
LEMMA OneRuns ==
  ASSUME P!Assumption, PhyInv, NEW t \in Threads, NEW u \in Threads, u # t,
         call[t].at = "run" \/ lock = "free"
  PROVE  call[u].at # "run"
BY DEF PhyInv, LockIs, P!Assumption

LEMMA GoesOn ==
  ASSUME P!Assumption, PhyInv, NEW t \in Threads, call[t].at = "run", Goes(t),
         CallIs(t)', AddrIs', WucIs'
  PROVE  PhyInv'
<1>1. PICK got, saved : Moved(t, got, saved) /\ Typed(got, saved)
  BY DEF Goes
<1> DEFINE new == [at |-> "run", ask |-> call[t].ask, todo |-> Tail(call[t].todo), got |-> got,
                   saved |-> saved, failed |-> call[t].failed]
<1>2. call' = [call EXCEPT ![t] = new] /\ family' = family /\ lock' = lock
  BY <1>1 DEF Moved
<1>3. new \in Calls
  <2>1. call[t] \in Calls
    BY DEF PhyInv, PhyTypes
  <2>2. call[t].ask \in Asks /\ call[t].failed \in BOOLEAN /\ call[t].todo \in Seq(Steps)
    BY <2>1 DEF Calls
  <2>3. PICK old \in Seq(Steps) : old = call[t].todo
    BY <2>2
  <2>4. CASE call[t].todo # <<>>
    <3>1. Tail(old) \in Seq(Steps)
      BY <2>3, <2>4
    <3>. QED BY <1>1, <2>2, <2>3, <3>1 DEF Calls, Typed
  <2>5. CASE call[t].todo = <<>>
    <3>1. Tail(<<>>) \in Seq(Steps)
      OBVIOUS
    <3>. QED BY <1>1, <2>2, <2>5, <3>1 DEF Calls, Typed
  <2>. QED BY <2>4, <2>5
<1> HIDE DEF new
<1>4. PhyTypes'
  <2>1. PhyTypes /\ lock' \in Threads \cup {"free"}
    BY <1>2 DEF PhyInv, PhyTypes, P!TypeOK
  <2>. QED BY <1>1, <1>2, <1>3, <2>1, TypesNext DEF Typed
<1>5. /\ call'[t].at = "run" /\ \A u \in Threads \ {t} : call'[u] = call[u]
  BY <1>1, MovedIs DEF PhyInv
<1>6. LockIs'
  BY <1>2, <1>5 DEF PhyInv, LockIs
<1>7. AloneIs'
  BY <1>2, <1>5 DEF PhyInv, AloneIs
<1>8. ASSUME NEW u \in Threads \ {t} PROVE CallIs(u)'
  <2>1. call[u].at # "run" /\ (family = "hv" => call[u].at = "idle")
    BY <1>8, OneRuns DEF PhyInv, AloneIs
  <2>. QED BY <1>2, <1>5, <2>1, OthersKeep DEF PhyInv
<1>. QED BY <1>4, <1>6, <1>7, <1>8 DEF PhyInv

LEMMA MovesKeep ==
  ASSUME P!Assumption, PhyInv, NEW t \in Threads, Moves(t) PROVE PhyInv'
<1>1. /\ call[t].at = "run" /\ call[t].todo # <<>> /\ Effect(t, Head(call[t].todo))
      /\ PhyTypes /\ AddrIs /\ AskIs(t) /\ AskOk(call[t].ask) /\ call[t] \in Calls
  BY EffectIs, AskedIs DEF PhyInv, CallIs, PhyTypes
<1>2. ASSUME NEW got, NEW saved, Moved(t, got, saved)
      PROVE  AskIs(t)' /\ DoneIs(t)'
  <2>1. call'[t].at = "run" /\ call'[t].ask = call[t].ask /\ family' = family
    BY <1>1, <1>2, MovedIs
  <2>. QED BY <1>1, <2>1 DEF AskIs, DoneIs
<1>3. ASSUME NEW got, NEW saved, Moved(t, got, saved), wuc' = wuc PROVE WucIs'
  <2>1. /\ call'[t].at = "run" /\ Wakes(t)' = Wakes(t)
        /\ \A u \in Threads \ {t} : call'[u] = call[u]
    BY <1>1, <1>3, MovedIs, StaysAsked
  <2>2. \A u \in Threads : call'[u].at = call[u].at /\ Wakes(u)' = Wakes(u)
    BY <1>1, <2>1 DEF Wakes
  <2>. QED BY <1>3, <2>2 DEF WucIs, PhyInv
<1>4. CASE call[t].failed
  <2>1. HasFailed(t)
    BY <1>1, <1>4 DEF PhyInv, CallIs, RunIs
  <2>2. PICK b \in 1 .. 2 : call[t].todo = <<P!Back(b)>>
    BY <1>1, <2>1 DEF HasFailed
  <2>3. Head(call[t].todo) = P!Back(b) /\ Tail(call[t].todo) = <<>>
    BY <2>2
  <2>4. /\ addr' = b /\ UNCHANGED <<page, wuc, opcode, debug>>
        /\ Moved(t, call[t].got, call[t].saved)
    BY <1>1, <2>3, AddrStep
  <2>5. /\ call'[t].ask = call[t].ask /\ call'[t].todo = <<>> /\ call'[t].failed
        /\ family' = family
    BY <1>1, <1>4, <2>3, <2>4, MovedIs
  <2>6. RunIs(t)'
    BY <2>1, <2>5 DEF RunIs, HasFailed
  <2>7. Goes(t)
    BY <1>1, <2>4 DEF Goes, Typed, PhyTypes, P!TypeOK, Calls
  <2>8. AddrIs'
    <3>1. family = "hv"
      BY <1>1, <2>1 DEF HasFailed
    <3>. QED BY <2>5, <3>1 DEF AddrIs
  <2>. QED BY <1>1, <1>2, <1>3, <2>4, <2>6, <2>7, <2>8, GoesOn DEF CallIs
<1>5. CASE ~ call[t].failed
  <2>1. PICK k \in 1 .. Len(Prog(t)) + 1 : Position(t, k)
    BY <1>1, <1>5 DEF PhyInv, CallIs, RunIs
  <2>2. /\ k \in 1 .. Len(Prog(t)) /\ Effect(t, Prog(t)[k])
        /\ Tail(call[t].todo) = SubSeq(Prog(t), k + 1, Len(Prog(t)))
    BY <1>1, <2>1, MoveIs DEF Position
  <2>3. Len(Prog(t)) \in Nat
    BY <1>1, ProgIs DEF Prog
  <2>4. ASSUME Goes(t), IsAt(t, k + 1)' PROVE CallIs(t)'
    <3>1. PICK got, saved : Moved(t, got, saved)
      BY <2>4 DEF Goes
    <3>2. /\ call'[t].todo = SubSeq(Prog(t), k + 1, Len(Prog(t))) /\ ~ call'[t].failed
          /\ Prog(t)' = Prog(t)
      BY <1>1, <1>5, <2>2, <3>1, MovedIs, StaysAsked
    <3>3. Position(t, k + 1)'
      BY <2>4, <3>2 DEF Position
    <3>4. k + 1 \in 1 .. Len(Prog(t)) + 1
      BY <2>2, <2>3
    <3>5. RunIs(t)'
      BY <3>2, <3>3, <3>4 DEF RunIs
    <3>. QED BY <1>2, <3>1, <3>5 DEF CallIs
  <2>5. CASE Wakes(t)
    <3>1. /\ Goes(t) /\ WakesAt(t, Turn(t, k + 1))'
      <4>1. PICK s, j, n : s = Prog(t)[k] /\ j = Turn(t, k) /\ n = Turn(t, k + 1)
        OBVIOUS
      <4>2. WakeupRuns(call[t].ask, Prog(t))
        <5>1. /\ family \in {"bm", "bm2", "hv"} /\ call[t].ask \in Asks
              /\ (call[t].ask.session => family = "hv")
          BY <1>1, <2>5, WakeupFamily DEF Wakes, AskOk
        <5>. QED BY <2>5, <5>1, WakeupProgram DEF Wakes, Prog
      <4>3. WakeupTurn(call[t].ask.reg, s, j, n)
        BY <2>2, <4>1, <4>2, WakeupTurns DEF Turn
      <4>4. WakesAt(t, j)
        BY <2>1, <2>5, <4>1 DEF Position, IsAt
      <4>5. Goes(t) /\ WakesAt(t, n)'
        BY <1>1, <2>2, <2>5, <4>1, <4>3, <4>4, WakeupStep
      <4>6. PICK got, saved : Moved(t, got, saved)
        BY <4>5 DEF Goes
      <4>7. Turn(t, k + 1)' = n
        <5>1. call'[t].ask = call[t].ask
          BY <1>1, <4>6, StaysAsked
        <5>. QED BY <4>1, <5>1 DEF Turn
      <4>. QED BY <4>5, <4>7
    <3>2. PICK got, saved : Moved(t, got, saved)
      BY <3>1 DEF Goes
    <3>3. /\ call'[t].at = "run" /\ Wakes(t)' /\ family' = family
      BY <1>1, <2>5, <3>2, MovedIs, StaysAsked
    <3>4. IsAt(t, k + 1)'
      BY <3>1, <3>3 DEF IsAt
    <3>5. WucIs'
      BY <3>3 DEF WucIs
    <3>6. AddrIs'
      BY <1>1, <2>5, <3>3, WakeupFamily DEF AddrIs, Wakes
    <3>. QED BY <1>1, <2>4, <3>1, <3>4, <3>5, <3>6, GoesOn
  <2>6. CASE ~ Wakes(t)
    <3>1. SelectsAt(t, k)
      BY <2>1, <2>6 DEF Position, IsAt
    <3>2. Stepped(t, k)
      BY <1>1, <2>2, <2>6, <3>1, OtherStep
    <3>3. PICK got, saved : Moved(t, got, saved)
      BY <3>2 DEF Stepped, Goes
    <3>4. Wakes(t)' = Wakes(t)
      BY <1>1, <3>3, StaysAsked
    <3>5. IsAt(t, k + 1)'
      BY <2>6, <3>2, <3>4 DEF IsAt, Stepped
    <3>6. WucIs'
      BY <1>3, <3>2, <3>3 DEF Stepped
    <3>. QED BY <1>1, <2>4, <3>2, <3>5, <3>6, GoesOn DEF Stepped
  <2>. QED BY <2>5, <2>6
<1>. QED BY <1>4, <1>5

(* What a program starts with, and what it does about a failure. *)
LEMMA FirstIs ==
  ASSUME P!Assumption, PhyTypes, AddrIs, NEW a, AskOk(a), a.page # P!WucPage,
         family = "hv" /\ ~ a.session => addr = P!AddrForHvPage(a.page),
         Len(P!Program(a)) = 1
  PROVE  P!Reached(P!Program(a)[1].reg) = P!Named(a)
<1>1. a \in Asks /\ a.reg \in Nat /\ a.page \in Nat /\ AddrReg \in Nat
  BY AsksAre DEF AskOk, P!Assumption
<1>2. ASSUME One(P!Program(a), P!Make(a.reg)) PROVE P!Program(a)[1].reg = a.reg
  BY <1>2 DEF One, P!Make
<1>3. CASE family = "m88"
  <2>1. P!Program(a)[1].reg = a.reg
    BY <1>1, <1>2, <1>3, M88Program
  <2>. QED BY <1>1, <1>3, <2>1 DEF P!Reached, P!Named, AddrIs
<1>4. CASE family = "igp"
  <2>1. IgpRuns(a, P!Program(a))
    BY <1>1, <1>4, IgpProgram
  <2>2. One(P!Program(a), P!Make(a.reg)) /\ P!Offset(a) <= P!MultiPage
    BY <1>1, <2>1 DEF IgpRuns, Two
  <2>3. a.reg <= P!MultiPage
    BY <1>1, <2>2 DEF P!Offset, P!Shifted, P!MultiPage
  <2>. QED BY <1>1, <1>2, <1>4, <2>2, <2>3 DEF P!Reached, P!Named, AddrIs
<1>5. CASE family = "bm"
  BY <1>1, <1>5, BmProgram DEF BmRuns, Two, Three
<1>6. CASE family = "bm2"
  BY <1>1, <1>6, Bm2Program DEF Bm2Runs, Two, Three
<1>7. CASE family = "hv"
  <2>1. HvRuns(a, P!Program(a))
    BY <1>1, <1>7, HvProgram
  <2>2. /\ ~ a.session /\ ~ (0 < a.page /\ a.page < P!IntcFcPageStart) /\ a.reg <= P!MultiPage
        /\ One(P!Program(a), P!Make(a.reg))
    BY <2>1 DEF HvRuns, Three, Four, Six
  <2>3. a.page > P!IntcFcPageStart => a.reg > P!MultiPage
    BY <1>7 DEF AskOk, P!CanAsk
  <2>4. a.page = 0 \/ a.page = 768
    BY <1>1, <2>2, <2>3 DEF P!IntcFcPageStart, P!MultiPage
  <2>5. P!Reached(a.reg) = <<addr, 0, a.reg>>
    BY <1>7, <2>2 DEF P!Reached
  <2>6. P!Named(a) = <<P!AddrForHvPage(a.page), 0, a.reg>>
    BY <1>7, <2>4 DEF P!Named, P!AddrForHvPage, P!IntcFcPageStart, P!WucPage
  <2>. QED BY <1>2, <1>7, <2>2, <2>5, <2>6
<1>. QED BY <1>3, <1>4, <1>5, <1>6, <1>7, FamilyIs

LEMMA BackIs ==
  ASSUME P!Assumption, PhyTypes, NEW a, AskOk(a), NEW k \in 1 .. Len(P!Program(a)),
         P!Program(a)[k].do = "back"
  PROVE  family = "hv" /\ P!Program(a)[k] \in {P!Back(1), P!Back(2)}
<1> DEFINE p == P!Program(a)
<1>0. a \in Asks /\ (a.session => family = "hv") /\ AddrReg \in Nat
      /\ P!AddrForHvPage(a.page) \in 1 .. 2
  BY AsksAre DEF AskOk, P!Assumption
<1>1. CASE a.page = P!WucPage
  <2>1. WakeupRuns(a, p)
    BY <1>0, <1>1, WakeupFamily, WakeupProgram
  <2> HIDE DEF p
  <2>2. PICK j, n : WakeupTurn(a.reg, p[k], j, n)
    BY <2>1, WakeupTurns DEF p
  <2>. QED BY <2>2 DEF WakeupTurn, P!Addr, P!Put, P!Make, P!Save, P!Open, P!Restore, p
<1>2. CASE a.page # P!WucPage
  <2>1. CASE family = "m88"
    <3>1. One(p, P!Make(a.reg))
      BY <1>0, <2>1, M88Program
    <3>. QED BY <3>1 DEF One, P!Make
  <2>2. CASE family = "igp"
    <3>1. IgpRuns(a, p)
      BY <1>0, <2>2, IgpProgram
    <3> HIDE DEF p
    <3>. QED BY <3>1 DEF IgpRuns, One, Two, P!Make, P!Put, p
  <2>3. CASE family = "bm"
    <3>1. BmRuns(a, p)
      BY <1>0, <1>2, <2>3, BmProgram
    <3>. QED BY <3>1 DEF BmRuns, Two, Three, P!Make, P!Put, P!Addr
  <2>4. CASE family = "bm2"
    <3>1. Bm2Runs(a, p)
      BY <1>0, <1>2, <2>4, Bm2Program
    <3>. QED BY <3>1 DEF Bm2Runs, Two, Three, P!Make, P!Put, P!Addr
  <2>5. CASE family = "hv"
    <3>1. HvRuns(a, p)
      BY <1>0, <1>2, <2>5, HvProgram
    <3>2. CASE One(p, P!Make(a.reg))
      BY <3>2 DEF One, P!Make
    <3>4. CASE Three(p, P!Addr(2), P!Put(AddrReg, a.reg), P!Make(AddrReg + 1))
      BY <3>4 DEF Three, P!Make, P!Put, P!Addr
    <3>5. CASE Four(p, P!Addr(1), P!Put(31, 32 * PageUsed(a)), P!Back(P!AddrForHvPage(a.page)),
                    P!Make(a.reg))
      <4>1. k \in {1, 2, 3, 4} /\ k # 1 /\ k # 2 /\ k # 4
        BY <3>5 DEF Four, P!Make, P!Put, P!Addr
      <4>2. p[k] = P!Back(P!AddrForHvPage(a.page))
        BY <3>5, <4>1 DEF Four
      <4>. QED BY <1>0, <2>5, <4>2
    <3>6. CASE Six(p, P!Addr(1), P!Make(31), P!Addr(1), P!Put(31, 32 * a.page),
                   P!Addr(P!AddrForHvPage(a.page)), P!Make(a.reg))
      <4>1. k \in {1, 2, 3, 4, 5, 6}
        BY <3>6 DEF Six
      <4>2. p[k].do # "back"
        BY <3>6, <4>1 DEF Six, P!Make, P!Put, P!Addr
      <4>. QED BY <4>2
    <3>. QED BY <3>1, <3>2, <3>4, <3>5, <3>6 DEF HvRuns
  <2>. QED BY <2>1, <2>2, <2>3, <2>4, <2>5, FamilyIs
<1>. QED BY <1>1, <1>2

-----------------------------------------------------------------------------
(* The actions that change a call only, or the lock. *)

Replaced(t, new) == call' = [call EXCEPT ![t] = new]

LEMMA ReplacedIs ==
  ASSUME PhyTypes, NEW t \in Threads, NEW new, Replaced(t, new)
  PROVE  call'[t] = new /\ \A u \in Threads \ {t} : call'[u] = call[u]
BY DEF PhyTypes, Replaced

LEMMA Keep ==
  ASSUME P!Assumption, PhyInv, NEW t \in Threads, NEW new \in Calls, Replaced(t, new),
         UNCHANGED <<family, page, wuc, opcode, debug>>, addr' \in 1 .. 2,
         \/ addr' = addr
         \/ family = "hv" /\ \A u \in Threads \ {t} : call[u].at = "idle",
         \/ lock' = lock /\ (call[t].at = "run" <=> new.at = "run")
         \/ lock = "free" /\ lock' = t /\ new.at = "run"
         \/ lock' = "free" /\ call[t].at = "run" /\ new.at # "run",
         family = "hv" /\ call[t].at = "idle" /\ new.at # "idle" =>
           \A u \in Threads \ {t} : call[u].at = "idle",
         CallIs(t)', WucIs'
  PROVE  PhyInv'
<1>1. call'[t] = new /\ \A u \in Threads \ {t} : call'[u] = call[u]
  BY ReplacedIs DEF PhyInv
<1>2. PhyTypes'
  <2>1. lock' \in Threads \cup {"free"}
    BY DEF PhyInv, PhyTypes, P!TypeOK
  <2>2. /\ page' \in [1 .. 2 -> Nat] /\ wuc' \in {"found", "open"} /\ opcode' \in Nat
        /\ debug' \in Nat
    BY DEF PhyInv, PhyTypes, P!TypeOK
  <2>. QED BY <2>1, <2>2, TypesNext DEF PhyInv, Replaced
<1>3. AddrIs'
  BY DEF PhyInv, AddrIs
<1>4. LockIs'
  <2>1. "free" \notin Threads
    BY DEF P!Assumption
  <2>. QED BY <1>1, <2>1 DEF PhyInv, LockIs
<1>5. AloneIs'
  BY <1>1 DEF PhyInv, AloneIs
<1>6. ASSUME NEW u \in Threads \ {t} PROVE CallIs(u)'
  <2>1. CASE addr' = addr
    BY <1>1, <2>1, OthersKeep DEF PhyInv
  <2>2. CASE family = "hv" /\ \A v \in Threads \ {t} : call[v].at = "idle"
    <3>1. call[u].at = "idle"
      BY <2>2
    <3>. QED BY <1>1, <3>1, OthersKeep DEF PhyInv
  <2>. QED BY <2>1, <2>2
<1>. QED BY <1>2, <1>3, <1>4, <1>5, <1>6 DEF PhyInv

(* Who opens the bits: what no running thread does is no concern of theirs. *)
LEMMA WucKeeps ==
  ASSUME P!Assumption, PhyInv, NEW t \in Threads, NEW new, Replaced(t, new), wuc' = wuc,
         new.at = "run" => new.ask = call[t].ask,
         call[t].at = "run" => new.at = "run"
  PROVE  WucIs'
<1>1. call'[t] = new /\ \A u \in Threads \ {t} : call'[u] = call[u]
  BY ReplacedIs DEF PhyInv
<1>2. ASSUME \A u \in Threads : call'[u].at = "run" => ~ Wakes(u)'
      PROVE  \A u \in Threads : call[u].at = "run" => ~ Wakes(u)
  BY <1>1, <1>2 DEF Wakes
<1>. QED BY <1>2 DEF WucIs, PhyInv

LEMMA IdleIs == P!Idle \in Calls /\ P!Idle.at = "idle"
BY DEF P!Idle, Calls, Asks, P!Access, Registers

(* Nothing is asked of a thread that is idle. *)
LEMMA IdleCall ==
  ASSUME NEW t \in Threads, call'[t] = P!Idle PROVE CallIs(t)'
BY IdleIs DEF CallIs, AskIs, RunIs, DoneIs

LEMMA EndsKeep ==
  ASSUME P!Assumption, PhyInv, NEW t \in Threads, P!Refused(t) \/ P!Return(t) PROVE PhyInv'
<1>1. /\ Replaced(t, P!Idle) /\ UNCHANGED <<family, addr, lock, page, wuc, opcode, debug>>
      /\ call[t].at \in {"ask", "done"}
  BY DEF P!Refused, P!Return, Replaced, P!Device
<1>2. CallIs(t)'
  BY <1>1, ReplacedIs, IdleCall DEF PhyInv
<1>3. WucIs'
  BY <1>1, IdleIs, WucKeeps
<1>4. addr' \in 1 .. 2
  BY <1>1 DEF PhyInv, PhyTypes, P!TypeOK
<1>. QED BY <1>1, <1>2, <1>3, <1>4, IdleIs, Keep

CallOf(at, ask, todo, got, saved, failed) ==
  [at |-> at, ask |-> ask, todo |-> todo, got |-> got, saved |-> saved, failed |-> failed]

BeginsAs(c, at, ask, new) == [c EXCEPT !.at = at, !.ask = ask] = new

LEMMA Began ==
  ASSUME NEW a, NEW at, NEW ask, NEW todo, NEW got, NEW saved, NEW failed, NEW new, NEW c,
         c = CallOf(at, ask, todo, got, saved, failed)
  PROVE  BeginsAs(c, new, a, CallOf(new, a, todo, got, saved, failed))
<1> DEFINE old == CallOf(new, ask, todo, got, saved, failed)
<1>1. [CallOf(at, ask, todo, got, saved, failed) EXCEPT !.at = new] = old
  BY DEF CallOf
<1>2. [old EXCEPT !.ask = a] = CallOf(new, a, todo, got, saved, failed)
  BY DEF CallOf
<1>3. [c EXCEPT !.at = new, !.ask = a] = [[c EXCEPT !.at = new] EXCEPT !.ask = a]
  OBVIOUS
<1> HIDE DEF old
<1>. QED BY <1>1, <1>2, <1>3, Zenon DEF BeginsAs

LEMMA PhyBeginKeeps ==
  ASSUME P!Assumption, OneByOne, PhyInv, NEW t \in Threads, NEW a \in Accesses[family],
         P!Asked(a),
         P!Begin(t, a)
  PROVE  PhyInv'
<1> DEFINE new == [at |-> "ask", ask |-> a, todo |-> <<>>, got |-> <<>>, saved |-> "found",
                   failed |-> FALSE]
<1>1. a \in Asks /\ family \in Families
  BY DEF P!Assumption, Asks, PhyInv, PhyTypes, P!TypeOK
<1>2. [P!Idle EXCEPT !.at = "ask", !.ask = a] = new
  <2>1. P!Idle = CallOf("idle", P!Access(0, 0, FALSE), <<>>, <<>>, "found", FALSE)
    BY Zenon DEF P!Idle, CallOf
  <2>2. BeginsAs(P!Idle, "ask", a, CallOf("ask", a, <<>>, <<>>, "found", FALSE))
    BY <2>1, Began
  <2>. QED BY <2>2, Zenon DEF BeginsAs, CallOf
<1>3. new \in Calls
  BY <1>1 DEF Calls, Registers
<1>4. new.at = "ask" /\ new.ask = a /\ ~ new.failed
  OBVIOUS
<1> HIDE DEF new
<1>5. /\ Replaced(t, new) /\ UNCHANGED <<family, lock, page, wuc, opcode, debug>>
      /\ call[t].at = "idle" /\ (family \in Alone => \A u \in Threads : call[u].at = "idle")
      /\ addr' = IF family = "hv" /\ ~ a.session THEN P!AddrForHvPage(a.page) ELSE addr
  BY <1>2 DEF P!Begin, Replaced, P!Device
<1>6. family = "hv" => \A u \in Threads : call[u].at = "idle"
  BY <1>1, <1>5 DEF OneByOne
<1>7. addr' \in 1 .. 2
  BY <1>5 DEF P!AddrForHvPage, PhyInv, PhyTypes, P!TypeOK
<1>8. call'[t] = new
  BY <1>5, ReplacedIs DEF PhyInv
<1>9. CallIs(t)'
  BY <1>4, <1>5, <1>8 DEF CallIs, AskIs, RunIs, DoneIs, P!Asked
<1>10. WucIs'
  BY <1>4, <1>5, WucKeeps
<1>. QED BY <1>3, <1>4, <1>5, <1>6, <1>7, <1>9, <1>10, Keep

LEMMA Entered ==
  ASSUME NEW c \in Calls, NEW x, NEW y, NEW new, new = [c EXCEPT !.at = x, !.todo = y]
  PROVE  new = CallOf(x, c.ask, y, c.got, c.saved, c.failed)
<1> DEFINE d == [c EXCEPT !.at = x]
           e == CallOf(x, c.ask, c.todo, c.got, c.saved, c.failed)
<1>1. d = e
  BY CallIsRecord DEF CallOf
<1>2. [e EXCEPT !.todo = y] = CallOf(x, c.ask, y, c.got, c.saved, c.failed)
  BY DEF CallOf
<1>3. new = [d EXCEPT !.todo = y]
  OBVIOUS
<1> HIDE DEF d, e
<1>. QED BY <1>1, <1>2, <1>3, Zenon

LEMMA Left ==
  ASSUME NEW c \in Calls, NEW x, NEW y, NEW new, new = [c EXCEPT !.at = x, !.saved = y]
  PROVE  new = CallOf(x, c.ask, c.todo, c.got, y, c.failed)
<1> DEFINE d == [c EXCEPT !.at = x]
           e == CallOf(x, c.ask, c.todo, c.got, c.saved, c.failed)
<1>1. d = e
  BY CallIsRecord DEF CallOf
<1>2. [e EXCEPT !.saved = y] = CallOf(x, c.ask, c.todo, c.got, y, c.failed)
  BY DEF CallOf
<1>3. new = [d EXCEPT !.saved = y]
  OBVIOUS
<1> HIDE DEF d, e
<1>. QED BY <1>1, <1>2, <1>3, Zenon

LEMMA Broken ==
  ASSUME NEW c \in Calls, NEW x, NEW y, NEW new, new = [c EXCEPT !.todo = x, !.failed = y]
  PROVE  new = CallOf(c.at, c.ask, x, c.got, c.saved, y)
<1> DEFINE d == [c EXCEPT !.todo = x]
           e == CallOf(c.at, c.ask, x, c.got, c.saved, c.failed)
<1>1. d = e
  BY CallIsRecord DEF CallOf
<1>2. [e EXCEPT !.failed = y] = CallOf(c.at, c.ask, x, c.got, c.saved, y)
  BY DEF CallOf
<1>3. new = [d EXCEPT !.failed = y]
  OBVIOUS
<1> HIDE DEF d, e
<1>. QED BY <1>1, <1>2, <1>3, Zenon

LEMMA CallOfIs ==
  ASSUME NEW at, NEW ask, NEW todo, NEW got, NEW saved, NEW failed, NEW new,
         new = CallOf(at, ask, todo, got, saved, failed)
  PROVE  /\ new.at = at /\ new.ask = ask /\ new.todo = todo /\ new.got = got
         /\ new.saved = saved /\ new.failed = failed
         /\ at \in {"idle", "ask", "run", "done"} /\ ask \in Asks /\ todo \in Seq(Steps)
            /\ got \in Registers /\ saved \in {"found", "open"} /\ failed \in BOOLEAN
              => new \in Calls
BY DEF CallOf, Calls

LEMMA AcquireKeeps ==
  ASSUME P!Assumption, PhyInv, NEW t \in Threads, P!Acquire(t) PROVE PhyInv'
<1> DEFINE c == call[t]
           new == [c EXCEPT !.at = "run", !.todo = P!Program(call[t].ask)]
<1>1. /\ c \in Calls /\ c.at = "ask" /\ lock = "free" /\ lock' = t
      /\ PhyTypes /\ AddrIs /\ AskIs(t) /\ AskOk(c.ask)
  BY AskedIs DEF P!Acquire, PhyInv, PhyTypes, CallIs
<1>2. Replaced(t, new) /\ UNCHANGED <<family, addr, page, wuc, opcode, debug>>
  BY DEF P!Acquire, Replaced, P!Device
<1>3. Prog(t) \in Seq(Steps) /\ Len(Prog(t)) \in Nat /\ Len(Prog(t)) > 0
  BY <1>1, ProgIs DEF Prog
<1>4. new = CallOf("run", c.ask, Prog(t), c.got, c.saved, c.failed)
  BY <1>1, Entered DEF Prog
<1>5. ~ c.failed /\ (family = "hv" /\ ~ c.ask.session => addr = P!AddrForHvPage(c.ask.page))
  BY <1>1 DEF AskIs
<1> HIDE DEF c, new
<1>6. /\ new.at = "run" /\ new.ask = c.ask /\ new.todo = Prog(t) /\ new.failed = c.failed
  BY <1>4, CallOfIs
<1>7. new \in Calls
  <2>1. /\ c.ask \in Asks /\ c.got \in Registers
        /\ c.saved \in {"found", "open"} /\ c.failed \in BOOLEAN
    BY <1>1 DEF Calls
  <2>. QED BY <1>3, <1>4, <2>1, CallOfIs
<1>8. call'[t] = new
  BY <1>1, <1>2, ReplacedIs
<1>9. /\ Prog(t)' = Prog(t) /\ Wakes(t)' = Wakes(t) /\ P!Named(call[t].ask)' = P!Named(c.ask)
  <2>1. call'[t].ask = c.ask /\ family' = family
    BY <1>2, <1>6, <1>8
  <2>2. P!Named(call[t].ask)' = P!Named(c.ask)
    BY <2>1 DEF P!Named
  <2>3. P!Program(call[t].ask)' = P!Program(c.ask)
    BY <2>1 DEF P!Program
  <2>. QED BY <2>1, <2>2, <2>3 DEF Prog, Wakes, c
<1>10. call'[t].todo = SubSeq(Prog(t), 1, Len(Prog(t))) /\ ~ call'[t].failed
  <2>1. SubSeq(Prog(t), 1, Len(Prog(t))) = Prog(t)
    BY <1>3, SubSeqFull
  <2>. QED BY <1>5, <1>6, <1>8, <2>1
<1>11. IsAt(t, 1)'
  <2>1. CASE Wakes(t)
    <3>1. Turn(t, 1)' = 1
      BY DEF Turn
    <3>2. P!WucPage \notin MayFail => wuc' = "found"
      BY <1>1, <1>2, OneRuns DEF PhyInv, WucIs, LockIs, P!Assumption
    <3>3. WakesAt(t, 1)'
      BY <3>2 DEF WakesAt
    <3>. QED BY <1>9, <2>1, <3>1, <3>3 DEF IsAt
  <2>2. CASE ~ Wakes(t)
    <3>1. PICK p : p = Prog(t)
      OBVIOUS
    <3>2. Len(p) = 1 => P!Reached(p[1].reg) = P!Named(c.ask)
      BY <1>1, <1>5, <2>2, <3>1, FirstIs DEF Prog, Wakes, c
    <3>3. P!Reached(p[1].reg)' = P!Reached(p[1].reg)
      BY <1>2 DEF P!Reached
    <3>4. SelectsAt(t, 1)'
      BY <1>3, <1>9, <3>1, <3>2, <3>3 DEF SelectsAt
    <3>. QED BY <1>9, <2>2, <3>4 DEF IsAt
  <2>. QED BY <2>1, <2>2
<1>12. CallIs(t)'
  <2>1. Position(t, 1)' /\ 1 \in 1 .. Len(Prog(t)) + 1
    BY <1>3, <1>9, <1>10, <1>11 DEF Position
  <2>2. RunIs(t)'
    BY <1>9, <1>10, <2>1 DEF RunIs
  <2>3. AskIs(t)'
    BY <1>1, <1>2, <1>6, <1>8 DEF AskIs, c
  <2>4. DoneIs(t)'
    BY <1>6, <1>8 DEF DoneIs
  <2>. QED BY <2>2, <2>3, <2>4 DEF CallIs
<1>13. WucIs'
  BY <1>1, <1>2, <1>6, WucKeeps DEF c
<1>14. addr' \in 1 .. 2
  BY <1>1, <1>2 DEF PhyTypes, P!TypeOK
<1>. QED BY <1>1, <1>2, <1>6, <1>7, <1>12, <1>13, <1>14, Keep DEF c

LEMMA ReleaseKeeps ==
  ASSUME P!Assumption, PhyInv, NEW t \in Threads, P!Release(t) PROVE PhyInv'
<1> DEFINE c == call[t]
           new == [c EXCEPT !.at = "done", !.saved = "found"]
<1>1. /\ c \in Calls /\ c.at = "run" /\ c.todo = <<>> /\ lock' = "free"
      /\ PhyTypes /\ AddrIs /\ AskIs(t) /\ RunIs(t) /\ AskOk(c.ask)
  BY AskedIs DEF P!Release, PhyInv, PhyTypes, CallIs
<1>2. Replaced(t, new) /\ UNCHANGED <<family, addr, page, wuc, opcode, debug>>
  BY DEF P!Release, Replaced, P!Device
<1>3. new = CallOf("done", c.ask, c.todo, c.got, "found", c.failed)
  BY <1>1, Left
<1> HIDE DEF c, new
<1>4. /\ new.at = "done" /\ new.ask = c.ask /\ new.got = c.got /\ new.failed = c.failed
  BY <1>3, CallOfIs
<1>5. new \in Calls
  <2>1. /\ c.ask \in Asks /\ c.todo \in Seq(Steps) /\ c.got \in Registers
        /\ c.failed \in BOOLEAN
    BY <1>1 DEF Calls
  <2>. QED BY <1>3, <2>1, CallOfIs
<1>6. /\ call'[t] = new /\ \A u \in Threads \ {t} : call'[u] = call[u]
  BY <1>1, <1>2, ReplacedIs
<1>7. ASSUME ~ c.failed
      PROVE  /\ c.got = P!Named(c.ask)
             /\ Wakes(t) /\ P!WucPage \notin MayFail => wuc = "found"
  <2>1. PICK k \in 1 .. Len(Prog(t)) + 1 : Position(t, k)
    BY <1>1, <1>7 DEF RunIs, c
  <2>2. Prog(t) \in Seq(Steps) /\ Len(Prog(t)) \in Nat
    BY <1>1, ProgIs DEF Prog, c
  <2>3. k = Len(Prog(t)) + 1
    <3>1. PICK p : p = Prog(t)
      OBVIOUS
    <3>2. k \in 1 .. Len(p) => SubSeq(p, k, Len(p)) # <<>>
      BY <2>2, <3>1, NextStep
    <3>. QED BY <1>1, <2>1, <2>2, <3>1, <3>2 DEF Position, c
  <2>4. CASE Wakes(t)
    <3>1. WakeupRuns(c.ask, Prog(t))
      <4>1. /\ family \in {"bm", "bm2", "hv"} /\ c.ask \in Asks
            /\ (c.ask.session => family = "hv")
        BY <1>1, <2>4, WakeupFamily DEF Wakes, AskOk, c
      <4>. QED BY <2>4, <4>1, WakeupProgram DEF Wakes, Prog, c
    <3>2. Turn(t, k) = 13
      <4>1. PICK p : p = Prog(t)
        OBVIOUS
      <4>2. IF c.ask.session THEN Len(p) = 13 ELSE Len(p) = 12
        BY <3>1, <4>1 DEF WakeupRuns, Session, OneAccess
      <4>3. k = Len(p) + 1
        BY <2>3, <4>1
      <4>4. Turn(t, k) = IF c.ask.session /\ k > 8 THEN k - 1 ELSE k
        BY DEF Turn, c
      <4>5. CASE c.ask.session
        <5>1. Len(p) = 13
          BY <4>2, <4>5, Zenon
        <5>2. k = 14 /\ k > 8 /\ k - 1 = 13
          BY <4>3, <5>1
        <5>. QED BY <4>4, <4>5, <5>2, Zenon
      <4>6. CASE ~ c.ask.session
        <5>1. Len(p) = 12
          BY <4>2, <4>6, Zenon
        <5>2. k = 13
          BY <4>3, <5>1
        <5>. QED BY <4>4, <4>6, <5>2, Zenon
      <4>. QED BY <4>5, <4>6
    <3>3. WakesAt(t, 13)
      BY <2>1, <2>4, <3>2 DEF Position, IsAt
    <3>. QED BY <3>3 DEF WakesAt, c
  <2>5. CASE ~ Wakes(t)
    <3>1. SelectsAt(t, k)
      BY <2>1, <2>5 DEF Position, IsAt
    <3>. QED BY <2>3, <2>5, <3>1 DEF SelectsAt, c
  <2>. QED BY <2>4, <2>5
<1>8. CallIs(t)'
  <2>1. AskIs(t)'
    BY <1>1, <1>2, <1>4, <1>6 DEF AskIs, c
  <2>2. DoneIs(t)'
    <3>1. P!Named(call[t].ask)' = P!Named(c.ask)
      BY <1>2, <1>4, <1>6 DEF P!Named
    <3>. QED BY <1>4, <1>6, <1>7, <3>1 DEF DoneIs
  <2>3. RunIs(t)'
    BY <1>4, <1>6 DEF RunIs
  <2>. QED BY <2>1, <2>2, <2>3 DEF CallIs
<1>9. WucIs'
  <2>1. SUFFICES ASSUME P!WucPage \notin MayFail PROVE wuc' = "found"
    BY DEF WucIs
  <2>2. CASE Wakes(t)
    <3>1. ~ c.failed
      BY <1>1, <2>1, <2>2 DEF RunIs, HasFailed, Wakes, c
    <3>. QED BY <1>2, <1>7, <2>1, <2>2, <3>1
  <2>3. CASE ~ Wakes(t)
    <3>1. \A u \in Threads : call[u].at = "run" => ~ Wakes(u)
      BY <1>1, <2>3, OneRuns DEF c
    <3>. QED BY <1>2, <2>1, <3>1 DEF PhyInv, WucIs
  <2>. QED BY <2>2, <2>3
<1>10. addr' \in 1 .. 2
  BY <1>1, <1>2 DEF PhyTypes, P!TypeOK
<1>. QED BY <1>1, <1>2, <1>4, <1>5, <1>8, <1>9, <1>10, Keep DEF c

LEMMA AfterFailureIs ==
  ASSUME P!Assumption, PhyTypes, NEW t \in Threads, AskOk(call[t].ask),
         NEW k \in 1 .. Len(Prog(t)), call[t].todo = SubSeq(Prog(t), k, Len(Prog(t)))
  PROVE  \/ P!AfterFailure(call[t].todo) = <<>>
         \/ family = "hv" /\ P!AfterFailure(call[t].todo) \in {<<P!Back(1)>>, <<P!Back(2)>>}
<1>1. PICK p, todo : p = Prog(t) /\ todo = call[t].todo
  OBVIOUS
<1>2. p \in Seq(Steps) /\ Len(p) \in Nat /\ k \in 1 .. Len(p) /\ todo = SubSeq(p, k, Len(p))
  BY <1>1, ProgIs DEF Prog
<1>3. Tail(todo) = SubSeq(p, k + 1, Len(p))
  BY <1>2, NextStep
<1>4. CASE k = Len(p)
  <2>1. Tail(todo) = <<>>
    BY <1>2, <1>3, <1>4, LastStep
  <2>. QED BY <1>1, <2>1 DEF P!AfterFailure
<1>5. CASE k # Len(p)
  <2>1. k + 1 \in 1 .. Len(p)
    BY <1>2, <1>5
  <2>2. PICK n, rest : n = k + 1 /\ rest = Tail(todo)
    OBVIOUS
  <2>3. Head(rest) = p[n]
    BY <1>2, <1>3, <2>1, <2>2, NextStep
  <2>4. p[n].do = "back" => family = "hv" /\ p[n] \in {P!Back(1), P!Back(2)}
    BY <1>1, <2>1, <2>2, BackIs DEF Prog
  <2>. QED BY <1>1, <2>2, <2>3, <2>4 DEF P!AfterFailure
<1>. QED BY <1>4, <1>5

LEMMA FailsKeep ==
  ASSUME P!Assumption, PhyInv, NEW t \in Threads, P!MdicFails(t) PROVE PhyInv'
<1>0. PICK broken : broken = TRUE
  OBVIOUS
<1> DEFINE c == call[t]
           left == P!AfterFailure(call[t].todo)
           new == [c EXCEPT !.todo = left, !.failed = broken]
<1>1. /\ c \in Calls /\ c.at = "run" /\ c.todo # <<>> /\ c.ask.page \in MayFail
      /\ Head(c.todo).do \in {"put", "restore", "save", "make"}
      /\ PhyTypes /\ AddrIs /\ AskIs(t) /\ RunIs(t) /\ AskOk(c.ask)
  BY AskedIs DEF P!MdicFails, P!Running, PhyInv, PhyTypes, CallIs
<1>2. Replaced(t, new) /\ UNCHANGED <<family, addr, lock, page, wuc, opcode, debug>>
  BY <1>0 DEF P!MdicFails, Replaced, P!Device
<1>3. new = CallOf(c.at, c.ask, left, c.got, c.saved, broken)
  BY <1>1, Broken
<1>4. left = <<>> \/ (family = "hv" /\ left \in {<<P!Back(1)>>, <<P!Back(2)>>})
  <2>1. ~ c.failed
    <3>1. SUFFICES ASSUME c.failed PROVE FALSE
      BY <1>1 DEF Calls
    <3>2. c.todo \in {<<P!Back(1)>>, <<P!Back(2)>>}
      BY <1>1, <3>1 DEF RunIs, HasFailed
    <3>3. Head(c.todo).do = "back"
      BY <3>2 DEF P!Back
    <3>. QED BY <1>1, <3>3
  <2>2. PICK k \in 1 .. Len(Prog(t)) + 1 : c.todo = SubSeq(Prog(t), k, Len(Prog(t)))
    BY <1>1, <2>1 DEF RunIs, Position
  <2>3. k \in 1 .. Len(Prog(t))
    <3>1. PICK p : p = Prog(t)
      OBVIOUS
    <3>2. p \in Seq(Steps) /\ Len(p) \in Nat
      BY <1>1, <3>1, ProgIs DEF Prog
    <3>3. k # Len(p) + 1
      BY <1>1, <2>2, <3>1, <3>2, LastStep
    <3>. QED BY <3>1, <3>2, <3>3
  <2>. QED BY <1>1, <2>2, <2>3, AfterFailureIs
<1> HIDE DEF c, left, new
<1>5. /\ new.at = "run" /\ new.ask = c.ask /\ new.todo = left /\ new.failed = TRUE
  <2>1. new.at = c.at /\ new.ask = c.ask /\ new.todo = left /\ new.failed = broken
    BY <1>3, CallOfIs
  <2>. QED BY <1>0, <1>1, <2>1
<1>6. new \in Calls
  <2>1. left \in Seq(Steps)
    <3>1. <<>> \in Seq(Steps) /\ <<P!Back(1)>> \in Seq(Steps) /\ <<P!Back(2)>> \in Seq(Steps)
      BY StepsAre
    <3>. QED BY <1>4, <3>1
  <2>2. /\ c.ask \in Asks /\ c.got \in Registers /\ c.saved \in {"found", "open"}
    BY <1>1 DEF Calls
  <2>3. c.at \in {"idle", "ask", "run", "done"} /\ broken \in BOOLEAN
    BY <1>0, <1>1
  <2>. QED BY <1>3, <2>1, <2>2, <2>3, CallOfIs
<1>7. call'[t] = new
  BY <1>1, <1>2, ReplacedIs
<1>8. CallIs(t)'
  <2>1. AskIs(t)'
    BY <1>1, <1>2, <1>5, <1>7 DEF AskIs, c
  <2>2. DoneIs(t)'
    BY <1>5, <1>7 DEF DoneIs
  <2>3. RunIs(t)'
    BY <1>1, <1>2, <1>4, <1>5, <1>7 DEF RunIs, HasFailed
  <2>. QED BY <2>1, <2>2, <2>3 DEF CallIs
<1>9. WucIs'
  BY <1>1, <1>2, <1>5, WucKeeps DEF c
<1>10. addr' \in 1 .. 2
  BY <1>1, <1>2 DEF PhyTypes, P!TypeOK
<1>. QED BY <1>1, <1>2, <1>5, <1>6, <1>8, <1>9, <1>10, Keep DEF c

-----------------------------------------------------------------------------
LEMMA PhyStart == ASSUME P!Assumption, P!Init PROVE PhyInv
<1>1. \A t \in Threads : call[t] = P!Idle
  BY DEF P!Init
<1>2. PhyTypes
  <2>1. call \in [Threads -> Calls]
    BY IdleIs DEF P!Init
  <2>2. addr \in 1 .. 2 /\ page \in [1 .. 2 -> Nat]
    BY DEF P!Init
  <2>. QED BY <1>1, <2>1, <2>2, IdleIs DEF P!Init, PhyTypes, P!TypeOK, Calls, Asks
<1>3. AddrIs /\ WucIs
  BY DEF P!Init, AddrIs, WucIs
<1>4. LockIs /\ AloneIs
  BY <1>1, IdleIs DEF P!Init, LockIs, AloneIs, P!Assumption
<1>5. \A t \in Threads : CallIs(t)
  BY <1>1, IdleIs DEF CallIs, AskIs, RunIs, DoneIs
<1>. QED BY <1>2, <1>3, <1>4, <1>5 DEF PhyInv

LEMMA Stays == ASSUME P!Assumption, PhyInv, UNCHANGED P!vars PROVE PhyInv'
<1>1. PhyTypes' /\ AddrIs' /\ LockIs' /\ AloneIs'
  BY DEF PhyInv, P!vars, PhyTypes, P!TypeOK, AddrIs, LockIs, AloneIs
<1>2. WucIs'
  BY DEF PhyInv, P!vars, WucIs, Wakes
<1>3. ASSUME NEW t \in Threads PROVE CallIs(t)'
  BY OthersKeep DEF PhyInv, P!vars
<1>. QED BY <1>1, <1>2, <1>3 DEF PhyInv

LEMMA PhyStep == ASSUME P!Assumption, OneByOne, PhyInv, [P!Next]_(P!vars) PROVE PhyInv'
<1>1. CASE UNCHANGED P!vars
  BY <1>1, Stays
<1>2. CASE P!Next
  <2>1. PICK t \in Threads :
          \/ \E a \in Accesses[family] : P!Asked(a) /\ P!Begin(t, a)
          \/ P!Acquire(t) \/ P!Refused(t)
          \/ P!Assign(t) \/ P!MdicWrite(t) \/ P!MdicSave(t) \/ P!MdicAccess(t)
          \/ P!MdicFails(t)
          \/ P!Release(t) \/ P!Return(t)
    BY <1>2 DEF P!Next
  <2>2. CASE \E a \in Accesses[family] : P!Asked(a) /\ P!Begin(t, a)
    BY <2>2, PhyBeginKeeps
  <2>3. CASE P!Acquire(t)
    BY <2>3, AcquireKeeps
  <2>4. CASE P!Refused(t) \/ P!Return(t)
    BY <2>4, EndsKeep
  <2>5. CASE P!Assign(t) \/ P!MdicWrite(t) \/ P!MdicSave(t) \/ P!MdicAccess(t)
    BY <2>5, MovesKeep DEF Moves
  <2>6. CASE P!MdicFails(t)
    BY <2>6, FailsKeep
  <2>7. CASE P!Release(t)
    BY <2>7, ReleaseKeeps
  <2>. QED BY <2>1, <2>2, <2>3, <2>4, <2>5, <2>6, <2>7
<1>. QED BY <1>1, <1>2

LEMMA PhyInvariance == ASSUME P!Assumption, OneByOne PROVE P!Spec => []PhyInv
BY PhyStart, PhyStep, PTL DEF P!Spec
-----------------------------------------------------------------------------
(* The variables keep their types. *)
THEOREM PhyTyped == ASSUME P!Assumption, OneByOne PROVE P!Spec => []P!TypeOK
<1>1. PhyInv => P!TypeOK
  BY DEF PhyInv, PhyTypes
<1>. QED BY <1>1, PhyInvariance, PTL

LEMMA Reaches == ASSUME PhyInv PROVE P!AccessesReachTheirRegister
BY DEF PhyInv, CallIs, DoneIs, P!AccessesReachTheirRegister

(***************************************************************************)
(* An access that returns success has read or written the register its     *)
(* caller names, whatever other accesses, failed ones too, have left in    *)
(* hw->phy.addr and in the page registers of the PHY.                      *)
(***************************************************************************)
THEOREM PhyExactness ==
  ASSUME P!Assumption, OneByOne PROVE P!Spec => []P!AccessesReachTheirRegister
BY Reaches, PhyInvariance, PTL

LEMMA Restores == ASSUME P!Assumption, PhyInv PROVE P!WakeupBitsAreRestored
<1>1. SUFFICES ASSUME lock = "free", P!WucPage \notin MayFail PROVE wuc = "found"
  BY DEF P!WakeupBitsAreRestored
<1>2. \A t \in Threads : call[t].at # "run"
  BY <1>1 DEF PhyInv, LockIs, P!Assumption
<1>. QED BY <1>1, <1>2 DEF PhyInv, WucIs

(***************************************************************************)
(* Whoever opens the host wakeup registers leaves 769.17 as it was, if no  *)
(* transaction on the way fails.                                           *)
(***************************************************************************)
THEOREM WakeupRestored ==
  ASSUME P!Assumption, OneByOne PROVE P!Spec => []P!WakeupBitsAreRestored
BY Restores, PhyInvariance, PTL
-----------------------------------------------------------------------------
(* The copper link of one board. *)
CONSTANTS LinkKinds, Partners, NvmPause, Advertise, Forces, Pauses, Eees, Refused,
          LinkMayFail, LinkOverlap, Changes, LinkAsks
VARIABLES kind, default, phy, partner, link, lsc, ctrl, water, k1, lpi, glink, fc, ask,
          closed, wd, op, changes, asks

L == INSTANCE CopperLink WITH Kinds <- LinkKinds, MayFail <- LinkMayFail,
                              Overlap <- LinkOverlap, Force <- Forces, Asks <- LinkAsks,
                              nvm <- default, down <- closed

Setups == [modes : SUBSET L!Mode, forced : {0} \cup L!Mode, pause : SUBSET L!PauseBit,
           eee : SUBSET L!Mode]
Links == [up : BOOLEAN, mode : {0} \cup L!Mode, lpa : SUBSET L!PauseBit,
          eee : SUBSET L!Mode]
Macs == [sends : BOOLEAN, honours : BOOLEAN]
FlowControls == [requested : {"default"} \cup L!FcMode, current : L!FcMode, byUser : BOOLEAN]
Wanted == [autoneg : BOOLEAN, modes : SUBSET L!Mode, forced : L!Mode, eee : SUBSET L!Mode,
           fcAutoneg : BOOLEAN]
Checks == [at : {"idle", "bmsr", "k1", "eee", "lpi", "fc", "lpa", "resolve"},
           saw : BOOLEAN, lpa : SUBSET L!PauseBit, eee : SUBSET L!Mode]
Operations == [at : {"idle", "force", "down", "reset", "setup", "water", "up"}]

LinkTypes ==
  /\ kind \in LinkKinds /\ default \in NvmPause
  /\ phy \in Setups /\ partner \in L!End
  /\ link \in Links /\ (link.up => link.mode \in L!Mode)
  /\ ctrl \in Macs /\ water \in BOOLEAN
  /\ k1 \in BOOLEAN /\ lpi \in SUBSET L!Mode
  /\ lsc \in BOOLEAN /\ glink \in BOOLEAN /\ closed \in BOOLEAN
  /\ fc \in FlowControls /\ ask \in Wanted /\ wd \in Checks /\ op \in Operations

(* The link will be looked at: e1000e_up raises the interrupt by hand, so that *)
(* this is so also of a reset.                                                  *)
Restarts == op.at \in {"down", "reset", "setup", "water", "up"}
LooksAgain == lsc \/ glink \/ Restarts

(* K1 is decided after the link was read, by what it is then. *)
K1Inv ==
  link.up /\ link.mode = L!Gigabit /\ kind # "generic" /\ k1 =>
    LooksAgain \/ wd.at \in {"bmsr", "k1"}

(* EEE is on for what both ends advertise, or will be. *)
EeeInv ==
  /\ kind # "lpt" => lpi = {} /\ wd.at \notin {"eee", "lpi"}
  /\ link.up => \/ LooksAgain \/ wd.at \in {"bmsr", "k1", "eee", "lpi"}
                \/ lpi \subseteq phy.eee \cap link.eee
  /\ link.up /\ wd.at = "lpi" => LooksAgain \/ wd.eee \subseteq phy.eee \cap link.eee

(* Flow control is agreed on, or will be once the check that runs has ended; a *)
(* call that forces it finds what a check has resolved meanwhile.              *)
Agrees == (ctrl.sends => L!PartnerHonours) /\ (L!PartnerSends => ctrl.honours)
PauseInv ==
  /\ link.up /\ ask.autoneg /\ ~fc.byUser => LooksAgain \/ wd.at # "idle" \/ Agrees
  /\ link.up /\ wd.at = "resolve" => LooksAgain \/ wd.lpa = link.lpa
  /\ op.at = "force" /\ ~fc.byUser => ctrl = L!Forced(fc.current)

LinkInv == LinkTypes /\ K1Inv /\ EeeInv /\ PauseInv

(* What is advertised: no check runs between the reset and e1000e_up. *)
AdvertisedInv ==
  /\ op.at \in {"reset", "setup", "water", "up"} => closed
  /\ op.at \in {"setup", "water", "up"} => wd.at = "idle"
  /\ op.at = "setup" => fc.requested = fc.current
  /\ op.at \in {"water", "up", "idle", "force"} /\ ask.autoneg /\ ask.fcAutoneg =>
       phy.pause = L!Advertised(fc.requested)
-----------------------------------------------------------------------------
(* The best of some modes is one of them. *)
LEMMA BestIs ==
  ASSUME NEW S, S \subseteq L!Mode, S # {}
  PROVE  L!Best(S) \in S
<1>1. \E m \in S : \A n \in S : n <= m
  <2>1. CASE 5 \in S
    BY <2>1 DEF L!Mode
  <2>2. CASE 5 \notin S /\ 4 \in S
    BY <2>2 DEF L!Mode
  <2>3. CASE 5 \notin S /\ 4 \notin S /\ 3 \in S
    BY <2>3 DEF L!Mode
  <2>4. CASE 5 \notin S /\ 4 \notin S /\ 3 \notin S /\ 2 \in S
    BY <2>4 DEF L!Mode
  <2>5. CASE S = {1}
    BY <2>5
  <2>6. PICK m \in S : TRUE
    OBVIOUS
  <2>7. m \in {1, 2, 3, 4, 5}
    BY DEF L!Mode
  <2>8. S \subseteq {1, 2, 3, 4, 5}
    BY DEF L!Mode
  <2>9. S = {1} \/ 5 \in S \/ 4 \in S \/ 3 \in S \/ 2 \in S
    BY <2>6, <2>7, <2>8
  <2>. QED BY <2>1, <2>2, <2>3, <2>4, <2>5, <2>9
<1>. QED BY <1>1 DEF L!Best

LEMMA MacTyped == ASSUME NEW m PROVE L!Forced(m) \in Macs
BY DEF L!Forced, L!Sends, L!Honours, Macs

(* The steps that the watchdog's check takes. *)
LEMMA WatchTyped ==
  ASSUME wd \in Checks, NEW at \in {"idle", "bmsr", "k1", "eee", "lpi", "fc", "lpa", "resolve"},
         NEW saw \in BOOLEAN, NEW lpa \in SUBSET L!PauseBit, NEW eee \in SUBSET L!Mode
  PROVE  /\ [wd EXCEPT !.at = at] \in Checks
         /\ [wd EXCEPT !.at = at, !.saw = saw] \in Checks
         /\ [wd EXCEPT !.at = at, !.lpa = lpa] \in Checks
         /\ [wd EXCEPT !.at = at, !.eee = eee] \in Checks
         /\ L!Check \in Checks
BY DEF Checks, L!Check

LEMMA NothingTyped == L!NoLink \in Links /\ ~L!NoLink.up /\ L!NoPartner \in L!End
BY DEF L!NoLink, L!NoPartner, Links, L!End

LEMMA CheckTyped ==
  ASSUME L!Assumption, LinkTypes,
         L!CheckStarts \/ L!ReadsLink \/ L!AppliesK1 \/ L!ReadsEee \/ L!WritesLpi
           \/ L!StartsFc \/ L!ReadsAbilities \/ L!ResolvesFc
  PROVE  LinkTypes'
<1>. USE WatchTyped DEF LinkTypes, L!KeepsRest, L!Watch, L!CheckEnds
<1>1. CASE L!CheckStarts
  BY <1>1 DEF L!CheckStarts
<1>2. CASE L!ReadsLink
  <2>1. link.up \in BOOLEAN
    BY DEF Links
  <2>. QED BY <1>2, <2>1 DEF L!ReadsLink
<1>3. CASE L!AppliesK1
  <2>1. wd' \in Checks /\ glink' \in BOOLEAN
    BY <1>3 DEF L!AppliesK1
  <2>2. k1' \in BOOLEAN
    BY <1>3 DEF L!AppliesK1, L!K1GigHv, L!K1LptLp, L!K1Lv
  <2>. QED BY <1>3, <2>1, <2>2 DEF L!AppliesK1
<1>4. CASE L!ReadsEee
  <2>1. phy.eee \cap link.eee \in SUBSET L!Mode
    BY DEF Links
  <2>. QED BY <1>4, <2>1 DEF L!ReadsEee
<1>5. CASE L!WritesLpi
  <2>1. wd.eee \in SUBSET L!Mode
    BY DEF Checks
  <2>. QED BY <1>5, <2>1 DEF L!WritesLpi
<1>6. CASE L!StartsFc
  BY <1>6, MacTyped DEF L!StartsFc
<1>7. CASE L!ReadsAbilities
  <2>1. link.lpa \in SUBSET L!PauseBit
    BY DEF Links
  <2>. QED BY <1>7, <2>1 DEF L!ReadsAbilities
<1>8. CASE L!ResolvesFc
  <2>1. fc' \in FlowControls
    BY <1>8 DEF L!ResolvesFc, L!Resolve, FlowControls, L!FcMode
  <2>. QED BY <1>8, <2>1, MacTyped DEF L!ResolvesFc
<1>. QED BY <1>1, <1>2, <1>3, <1>4, <1>5, <1>6, <1>7, <1>8

LEMMA SettingTyped ==
  ASSUME L!Assumption, LinkTypes,
         \/ L!SetLink \/ L!SetPauseAuto \/ (\E m \in Pauses : L!SetPause(m))
         \/ L!ForcePause \/ (\E modes \in Eees : L!SetEee(modes)) \/ L!Down \/ L!ResetHw
         \/ L!StartAutoneg \/ L!ForceSpeedDuplex \/ L!SetWatermarks \/ L!Up
  PROVE  LinkTypes'
<1>. USE DEF LinkTypes, L!KeepsMost, L!Calls, L!config
<1>0. \A at \in {"idle", "force", "down", "reset", "setup", "water", "up"} :
        [at |-> at] \in Operations
  BY DEF Operations
<1>1. CASE L!SetLink
  <2>1. ask' \in Wanted
    <3>1. CASE \E modes \in Advertise : ask' = [ask EXCEPT !.autoneg = TRUE, !.modes = modes]
      <4>1. PICK modes \in Advertise : ask' = [ask EXCEPT !.autoneg = TRUE, !.modes = modes]
        BY <3>1
      <4>2. modes \in SUBSET L!Mode
        BY DEF L!Assumption
      <4>. QED BY <4>1, <4>2 DEF Wanted
    <3>2. CASE \E m \in Forces : ask' = [ask EXCEPT !.autoneg = FALSE, !.forced = m]
      <4>1. Forces \subseteq L!Mode
        BY DEF L!Assumption
      <4>. QED BY <3>2, <4>1 DEF Wanted
    <3>3. CASE ask' = [ask EXCEPT !.autoneg = FALSE]
      BY <3>3 DEF Wanted
    <3>. QED BY <1>1, <3>1, <3>2, <3>3 DEF L!SetLink
  <2>2. fc' \in FlowControls
    BY <1>1 DEF L!SetLink, FlowControls
  <2>. QED BY <1>0, <1>1, <2>1, <2>2 DEF L!SetLink
<1>2. CASE L!SetPauseAuto
  <2>1. ask' \in Wanted /\ fc' \in FlowControls
    BY <1>2 DEF L!SetPauseAuto, Wanted, FlowControls
  <2>. QED BY <1>0, <1>2, <2>1 DEF L!SetPauseAuto
<1>3. CASE \E m \in Pauses : L!SetPause(m)
  <2>1. Pauses \subseteq L!FcMode
    BY DEF L!Assumption
  <2>2. fc' \in FlowControls
    BY <1>3, <2>1 DEF L!SetPause, FlowControls
  <2>3. ask' \in Wanted
    BY <1>3 DEF L!SetPause, Wanted
  <2>. QED BY <1>0, <1>3, <2>2, <2>3 DEF L!SetPause
<1>4. CASE L!ForcePause
  BY <1>0, <1>4, MacTyped DEF L!ForcePause, L!Sends
<1>5. CASE \E modes \in Eees : L!SetEee(modes)
  <2>1. ask' \in Wanted
    BY <1>5 DEF L!SetEee, Wanted, L!Assumption
  <2>. QED BY <1>0, <1>5, <2>1 DEF L!SetEee
<1>6. CASE L!Down
  BY <1>0, <1>6 DEF L!Down
<1>7. CASE L!ResetHw
  <2>1. fc' \in FlowControls
    BY <1>7 DEF L!ResetHw, FlowControls, L!DefaultFc, L!Assumption, L!FcMode
  <2>. QED BY <1>0, <1>7, <2>1, MacTyped, NothingTyped DEF L!ResetHw
<1>8. CASE L!StartAutoneg
  <2>1. phy' \in Setups
    BY <1>8 DEF L!StartAutoneg, Setups, Wanted, L!Advertised, L!PauseBit
  <2>. QED BY <1>0, <1>8, <2>1, NothingTyped DEF L!StartAutoneg
<1>9. CASE L!ForceSpeedDuplex
  <2>1. phy' \in Setups /\ fc' \in FlowControls
    BY <1>9 DEF L!ForceSpeedDuplex, Setups, Wanted, FlowControls, L!FcMode
  <2>. QED BY <1>0, <1>9, <2>1, NothingTyped DEF L!ForceSpeedDuplex
<1>10. CASE L!SetWatermarks
  <2>1. phy' \in Setups
    BY <1>10 DEF L!SetWatermarks, Setups, Wanted
  <2>. QED BY <1>0, <1>10, <2>1 DEF L!SetWatermarks, L!Sends
<1>11. CASE L!Up
  BY <1>0, <1>11 DEF L!Up
<1>. QED BY <1>1, <1>2, <1>3, <1>4, <1>5, <1>6, <1>7, <1>8, <1>9, <1>10, <1>11

LEMMA WireTyped ==
  ASSUME L!Assumption, LinkTypes, L!LinkComesUp \/ L!PartnerChanges \/ L!Interrupt
  PROVE  LinkTypes'
<1>. USE DEF LinkTypes, L!config, L!device
<1>1. CASE L!LinkComesUp
  <2>1. L!Common \subseteq L!Mode
    BY DEF L!Common, Setups, L!End
  <2>2. L!Best(L!Common) \in L!Mode
    BY <1>1, <2>1, BestIs DEF L!LinkComesUp
  <2>3. link' \in Links /\ link'.mode \in L!Mode
    BY <1>1, <2>2 DEF L!LinkComesUp, Links, L!End
  <2>. QED BY <1>1, <2>3 DEF L!LinkComesUp
<1>2. CASE L!PartnerChanges
  <2>1. partner' \in L!End
    BY <1>2, NothingTyped DEF L!PartnerChanges, L!Assumption
  <2>2. link.up \in BOOLEAN
    BY DEF Links
  <2>. QED BY <1>2, <2>1, <2>2, NothingTyped DEF L!PartnerChanges
<1>3. CASE L!Interrupt
  BY <1>3 DEF L!Interrupt
<1>. QED BY <1>1, <1>2, <1>3

LEMMA LinkStaysTyped ==
  ASSUME L!Assumption, LinkTypes, [L!Next]_(L!vars) PROVE LinkTypes'
<1>1. CASE UNCHANGED L!vars
  BY <1>1 DEF L!vars, L!device, L!config, LinkTypes
<1>. QED BY <1>1, CheckTyped, SettingTyped, WireTyped DEF L!Next

LEMMA LinkStartsTyped == ASSUME L!Assumption, L!Init PROVE LinkTypes
<1>1. UNION Advertise \in SUBSET L!Mode /\ UNION Eees \in SUBSET L!Mode
  BY DEF L!Assumption
<1>2. phy \in Setups /\ fc \in FlowControls
  BY DEF L!Init, Setups, FlowControls, L!FcMode
<1>3. ask \in Wanted
  BY <1>1 DEF L!Init, Wanted, L!Mode
<1>4. wd \in Checks /\ op \in Operations
  BY DEF L!Init, L!Check, Checks, Operations
<1>. QED BY <1>2, <1>3, <1>4, MacTyped, NothingTyped DEF L!Init, LinkTypes

LEMMA LinkTypesAre == ASSUME LinkTypes PROVE L!TypeOK
<1>1. fc.current \in L!FcMode
  BY DEF LinkTypes, FlowControls
<1>. QED BY <1>1 DEF LinkTypes, L!TypeOK, L!Mode, L!FcMode

LEMMA CheckIs == L!Check.at = "idle"
BY DEF L!Check

LEMMA NeitherUp == ~L!NoLink.up
BY DEF L!NoLink

(* Steps after which somebody looks at the link again, or there is none. *)
LEMMA RestartsSay ==
  ASSUME LinkTypes,
         \/ (L!SetLink /\ op' # op) \/ L!SetPauseAuto \/ (\E modes \in Eees : L!SetEee(modes))
         \/ L!Down \/ L!ResetHw \/ L!StartAutoneg \/ L!ForceSpeedDuplex \/ L!SetWatermarks
         \/ L!Up \/ L!LinkComesUp \/ L!PartnerChanges \/ L!Interrupt
  PROVE  LooksAgain' \/ ~link'.up
<1>. USE DEF LooksAgain, Restarts
<1>1. CASE L!SetLink /\ op' # op
  <2>1. op' = [at |-> "down"]
    BY <1>1 DEF L!SetLink
  <2>. QED BY <2>1
<1>2. CASE L!SetPauseAuto \/ (\E modes \in Eees : L!SetEee(modes))
  BY <1>2 DEF L!SetPauseAuto, L!SetEee
<1>3. CASE L!Down \/ L!SetWatermarks \/ L!Up
  BY <1>3 DEF L!Down, L!SetWatermarks, L!Up
<1>4. CASE L!ResetHw \/ L!StartAutoneg \/ L!ForceSpeedDuplex
  BY <1>4 DEF L!ResetHw, L!StartAutoneg, L!ForceSpeedDuplex
<1>5. CASE L!LinkComesUp \/ L!Interrupt
  BY <1>5 DEF L!LinkComesUp, L!Interrupt
<1>6. CASE L!PartnerChanges
  BY <1>6, NeitherUp DEF L!PartnerChanges
<1>. QED BY <1>1, <1>2, <1>3, <1>4, <1>5, <1>6

(* The others change neither the link nor what the PHY is set up for. *)
LEMMA RestSay ==
  ASSUME LinkTypes,
         \/ (L!SetLink /\ op' = op) \/ (\E m \in Pauses : L!SetPause(m)) \/ L!ForcePause
         \/ L!CheckStarts \/ L!ReadsLink \/ L!AppliesK1 \/ L!ReadsEee \/ L!WritesLpi
         \/ L!StartsFc \/ L!ReadsAbilities \/ L!ResolvesFc
  PROVE  /\ UNCHANGED <<kind, link, phy, lsc>>
         /\ LooksAgain /\ ~L!CheckStarts => LooksAgain'
BY DEF L!SetLink, L!SetPause, L!ForcePause, L!CheckStarts, L!ReadsLink, L!AppliesK1, L!ReadsEee,
     L!WritesLpi, L!StartsFc, L!ReadsAbilities, L!ResolvesFc, L!KeepsRest, L!KeepsMost, L!Calls,
     L!CheckEnds, LooksAgain, Restarts, LinkTypes, Operations

LEMMA UserSays ==
  ASSUME LinkTypes,
         (L!SetLink /\ op' = op) \/ (\E m \in Pauses : L!SetPause(m)) \/ L!ForcePause
  PROVE  UNCHANGED <<kind, link, phy, k1, wd, lpi>> /\ (LooksAgain => LooksAgain')
<1>1. UNCHANGED <<glink, k1, wd, lpi>>
  BY DEF L!SetLink, L!SetPause, L!ForcePause, L!KeepsMost
<1>2. UNCHANGED <<kind, link, phy, lsc>>
  BY RestSay
<1>3. Restarts => Restarts'
  BY DEF L!SetLink, L!SetPause, L!ForcePause, Restarts, L!Calls
<1>. QED BY <1>1, <1>2, <1>3 DEF LooksAgain

LEMMA K1Step ==
  ASSUME LinkTypes, K1Inv, "k1" \notin LinkMayFail, L!Next PROVE K1Inv'
<1>1. ASSUME UNCHANGED <<kind, link>>, k1' = k1, wd' = wd, LooksAgain => LooksAgain'
      PROVE  K1Inv'
  BY <1>1 DEF K1Inv
<1>2. CASE L!CheckStarts
  <2>1. wd'.at = "bmsr"
    BY <1>2 DEF L!CheckStarts, L!Watch, LinkTypes, Checks
  <2>. QED BY <2>1 DEF K1Inv
<1>3. CASE L!ReadsLink
  <2>1. wd'.at = "k1" \/ glink'
    BY <1>3 DEF L!ReadsLink, L!CheckEnds, LinkTypes, Checks
  <2>. QED BY <2>1 DEF K1Inv, LooksAgain
<1>4. CASE L!AppliesK1
  <2>1. CASE wd.saw
    <3>1. UNCHANGED <<kind, link>>
      BY <1>4 DEF L!AppliesK1, L!KeepsRest
    <3>2. link.up /\ link.mode = L!Gigabit => L!SpeedNow = 3
      BY DEF L!SpeedNow, L!SpeedOf, L!Gigabit
    <3>3. link.up /\ link.mode = L!Gigabit /\ kind # "generic" => ~k1'
      BY <1>4, <2>1, <3>2 DEF L!AppliesK1, L!K1GigHv, L!K1LptLp, L!K1Lv
    <3>. QED BY <3>1, <3>3 DEF K1Inv
  <2>2. CASE ~wd.saw
    <3>1. glink'
      BY <1>4, <2>2 DEF L!AppliesK1, L!CheckEnds
    <3>. QED BY <3>1 DEF K1Inv, LooksAgain
  <2>. QED BY <2>1, <2>2
<1>5. CASE L!ReadsEee \/ L!WritesLpi \/ L!StartsFc \/ L!ReadsAbilities \/ L!ResolvesFc
  <2>1. UNCHANGED <<kind, link, k1>> /\ (LooksAgain => LooksAgain')
    BY <1>5, RestSay
    DEF L!KeepsRest, L!ReadsEee, L!WritesLpi, L!StartsFc, L!ReadsAbilities, L!ResolvesFc,
        L!CheckStarts
  <2>2. wd.at \notin {"bmsr", "k1"}
    BY <1>5 DEF L!ReadsEee, L!WritesLpi, L!StartsFc, L!ReadsAbilities, L!ResolvesFc
  <2>. QED BY <2>1, <2>2 DEF K1Inv
<1>6. CASE (L!SetLink /\ op' = op) \/ (\E m \in Pauses : L!SetPause(m)) \/ L!ForcePause
  BY <1>1, <1>6, UserSays
<1>7. ASSUME LooksAgain' \/ ~link'.up PROVE K1Inv'
  BY <1>7 DEF K1Inv
<1>. QED BY <1>2, <1>3, <1>4, <1>5, <1>6, <1>7, RestartsSay DEF L!Next

LEMMA EeeStep ==
  ASSUME LinkTypes, EeeInv, "eee" \notin LinkMayFail, "k1" \notin LinkMayFail, L!Next
  PROVE  EeeInv'
<1>1. CASE L!CheckStarts
  <2>1. wd'.at = "bmsr"
    BY <1>1 DEF L!CheckStarts, L!Watch, LinkTypes, Checks
  <2>2. UNCHANGED <<kind, lpi>>
    BY <1>1 DEF L!CheckStarts, L!KeepsRest
  <2>. QED BY <2>1, <2>2 DEF EeeInv
<1>2. CASE L!ReadsLink
  <2>1. wd'.at # "k1" => glink' /\ wd'.at = "idle"
    <3>1. CASE wd' = [wd EXCEPT !.at = "k1", !.saw = link.up]
      <4>1. wd'.at = "k1"
        BY <3>1 DEF LinkTypes, Checks
      <4>. QED BY <4>1
    <3>2. CASE L!CheckEnds(TRUE)
      <4>1. wd' = L!Check /\ glink'
        BY <3>2 DEF L!CheckEnds
      <4>. QED BY <4>1, CheckIs
    <3>. QED BY <1>2, <3>1, <3>2 DEF L!ReadsLink
  <2>2. UNCHANGED <<kind, lpi>>
    BY <1>2 DEF L!ReadsLink, L!KeepsRest
  <2>. QED BY <2>1, <2>2 DEF EeeInv, LooksAgain
<1>3. CASE L!AppliesK1
  <2>1. UNCHANGED <<kind, lpi>>
    BY <1>3 DEF L!AppliesK1, L!KeepsRest
  <2>2. CASE wd.saw
    <3>1. wd'.at = IF kind = "lpt" THEN "eee" ELSE "fc"
      BY <1>3, <2>2 DEF L!AppliesK1, L!Watch, LinkTypes, Checks
    <3>. QED BY <2>1, <3>1 DEF EeeInv
  <2>3. CASE ~wd.saw
    <3>1. glink' /\ wd'.at = "idle"
      BY <1>3, <2>3, CheckIs DEF L!AppliesK1, L!CheckEnds
    <3>. QED BY <2>1, <3>1 DEF EeeInv, LooksAgain
  <2>. QED BY <2>2, <2>3
<1>4. CASE L!ReadsEee
  <2>1. /\ UNCHANGED <<kind, link, phy, lpi>> /\ kind = "lpt" /\ wd'.at = "lpi"
        /\ wd'.eee \subseteq phy.eee \cap link.eee
    BY <1>4 DEF L!ReadsEee, L!KeepsRest, EeeInv, LinkTypes, Checks
  <2>. QED BY <2>1 DEF EeeInv
<1>5. CASE L!WritesLpi
  <2>1. /\ UNCHANGED <<kind, link, phy>> /\ kind = "lpt" /\ wd'.at = "fc"
        /\ lpi' = IF link.up THEN wd.eee ELSE {}
    BY <1>5 DEF L!WritesLpi, L!Watch, L!KeepsRest, EeeInv, LinkTypes, Checks
  <2>2. LooksAgain => LooksAgain'
    BY <1>5, RestSay DEF L!WritesLpi, L!CheckStarts
  <2>3. wd.at = "lpi"
    BY <1>5 DEF L!WritesLpi
  <2>. QED BY <2>1, <2>2, <2>3 DEF EeeInv
<1>6. CASE L!StartsFc \/ L!ReadsAbilities \/ L!ResolvesFc
  <2>1. UNCHANGED <<kind, link, phy, lpi>> /\ (LooksAgain => LooksAgain')
    BY <1>6, RestSay
    DEF L!KeepsRest, L!StartsFc, L!ReadsAbilities, L!ResolvesFc, L!CheckStarts
  <2>2. wd.at \notin {"bmsr", "k1", "eee", "lpi"} /\ wd'.at \notin {"eee", "lpi"}
    BY <1>6, CheckIs
    DEF L!StartsFc, L!ReadsAbilities, L!ResolvesFc, L!Watch, L!CheckEnds, LinkTypes, Checks
  <2>. QED BY <2>1, <2>2 DEF EeeInv
<1>7. CASE (L!SetLink /\ op' = op) \/ (\E m \in Pauses : L!SetPause(m)) \/ L!ForcePause
  BY <1>7, UserSays DEF EeeInv
<1>8. ASSUME LooksAgain' \/ ~link'.up,
             kind # "lpt" => lpi' = {} /\ wd'.at \notin {"eee", "lpi"}, kind' = kind
      PROVE  EeeInv'
  BY <1>8 DEF EeeInv
<1>9. CASE \/ (L!SetLink /\ op' # op) \/ L!SetPauseAuto \/ (\E modes \in Eees : L!SetEee(modes))
           \/ L!Down \/ L!SetWatermarks \/ L!Up \/ L!LinkComesUp \/ L!Interrupt
           \/ L!StartAutoneg \/ L!ForceSpeedDuplex
  <2>1. UNCHANGED <<kind, wd, lpi>>
    BY <1>9
    DEF L!SetLink, L!SetPauseAuto, L!SetEee, L!Down, L!SetWatermarks, L!Up, L!LinkComesUp,
        L!Interrupt, L!StartAutoneg, L!ForceSpeedDuplex, L!KeepsMost, L!device
  <2>. QED BY <1>8, <1>9, <2>1, RestartsSay DEF EeeInv
<1>10. CASE L!PartnerChanges \/ L!ResetHw
  <2>1. UNCHANGED <<kind, wd>> /\ lpi' = {}
    BY <1>10 DEF L!PartnerChanges, L!ResetHw, L!KeepsMost
  <2>. QED BY <1>8, <1>10, <2>1, RestartsSay DEF EeeInv
<1>. QED BY <1>1, <1>2, <1>3, <1>4, <1>5, <1>6, <1>7, <1>9, <1>10 DEF L!Next

(* What the two ends resolve to agrees, and the check writes it. *)
LEMMA ResolvedAgrees ==
  ASSUME LinkTypes, NEW lpa, lpa = link.lpa,
         ctrl' = L!Forced(L!Resolve(phy.pause, lpa, link.mode \in L!Half)),
         UNCHANGED <<phy, link>>
  PROVE  Agrees'
<1>. DEFINE resolved == L!Resolve(phy.pause, lpa, link.mode \in L!Half)
<1>1. (ctrl'.sends <=> resolved \in {"tx", "full"}) /\ (ctrl'.honours <=> resolved \in {"rx", "full"})
  BY DEF L!Forced, L!Sends, L!Honours
<1>2. resolved \in {"tx", "full"} => L!PartnerHonours
  <2>1. CASE link.mode \in L!Half
    <3>1. resolved = "none"
      BY <2>1 DEF L!Resolve
    <3>. QED BY <3>1
  <2>2. CASE link.mode \notin L!Half /\ "pause" \in phy.pause \cap lpa
    BY <2>2 DEF L!PartnerHonours
  <2>3. CASE link.mode \notin L!Half /\ phy.pause = {"asym"} /\ lpa = {"pause", "asym"}
    BY <2>3 DEF L!PartnerHonours
  <2>4. CASE /\ link.mode \notin L!Half /\ "pause" \notin phy.pause \cap lpa
             /\ ~ (phy.pause = {"asym"} /\ lpa = {"pause", "asym"})
    <3>1. resolved \in {"rx", "none"}
      BY <2>4 DEF L!Resolve
    <3>. QED BY <3>1
  <2>. QED BY <2>1, <2>2, <2>3, <2>4
<1>3. L!PartnerSends => resolved \in {"rx", "full"}
  BY DEF L!Resolve, L!PartnerSends
<1>4. L!PartnerHonours' = L!PartnerHonours /\ L!PartnerSends' = L!PartnerSends
  BY DEF L!PartnerHonours, L!PartnerSends
<1>. HIDE DEF resolved
<1>. QED BY <1>1, <1>2, <1>3, <1>4 DEF Agrees

LEMMA PauseStep ==
  ASSUME LinkTypes, PauseInv, {"k1", "eee", "fc"} \cap LinkMayFail = {}, L!Next
  PROVE  PauseInv'
<1>1. CASE L!CheckStarts
  <2>1. wd'.at = "bmsr"
    BY <1>1 DEF L!CheckStarts, L!Watch, LinkTypes, Checks
  <2>2. UNCHANGED <<fc, op, ctrl>>
    BY <1>1 DEF L!CheckStarts, L!KeepsRest
  <2>. QED BY <2>1, <2>2 DEF PauseInv
<1>2. CASE L!ReadsLink \/ L!AppliesK1
  <2>1. glink' \/ wd'.at \notin {"idle", "resolve"}
    <3>1. CASE L!ReadsLink
      <4>1. wd'.at = "k1" \/ glink'
        BY <3>1 DEF L!ReadsLink, L!CheckEnds, LinkTypes, Checks
      <4>. QED BY <4>1
    <3>2. CASE L!AppliesK1
      <4>1. wd'.at \in {"eee", "fc"} \/ glink'
        BY <3>2 DEF L!AppliesK1, L!Watch, L!CheckEnds, LinkTypes, Checks
      <4>. QED BY <4>1
    <3>. QED BY <1>2, <3>1, <3>2
  <2>2. UNCHANGED <<fc, op, ctrl>>
    BY <1>2 DEF L!ReadsLink, L!AppliesK1, L!KeepsRest
  <2>. QED BY <2>1, <2>2 DEF PauseInv, LooksAgain
<1>3. CASE L!ReadsEee \/ L!WritesLpi
  <2>1. wd'.at \in {"lpi", "fc"}
    BY <1>3 DEF L!ReadsEee, L!WritesLpi, L!Watch, LinkTypes, Checks
  <2>2. UNCHANGED <<fc, op, ctrl>>
    BY <1>3 DEF L!ReadsEee, L!WritesLpi, L!KeepsRest
  <2>. QED BY <2>1, <2>2 DEF PauseInv
<1>4. CASE L!StartsFc
  <2>1. UNCHANGED <<ask, link, fc, op>> /\ (ctrl' = ctrl \/ ctrl' = L!Forced(fc.current))
    BY <1>4 DEF L!StartsFc, L!KeepsRest
  <2>2. ask.autoneg /\ link.up => wd'.at = "lpa"
    BY <1>4 DEF L!StartsFc, L!Watch, LinkTypes, Checks
  <2>3. wd'.at # "resolve"
    BY <1>4, CheckIs DEF L!StartsFc, L!Watch, L!CheckEnds, LinkTypes, Checks
  <2>. QED BY <2>1, <2>2, <2>3 DEF PauseInv, L!Forced
<1>5. CASE L!ReadsAbilities
  <2>1. wd'.at = "resolve" /\ wd'.lpa = link.lpa
    BY <1>5 DEF L!ReadsAbilities, LinkTypes, Checks
  <2>2. UNCHANGED <<fc, op, ctrl, link>>
    BY <1>5 DEF L!ReadsAbilities, L!KeepsRest
  <2>. QED BY <2>1, <2>2 DEF PauseInv, L!Forced
<1>6. CASE L!ResolvesFc
  <2>. DEFINE resolved == L!Resolve(phy.pause, wd.lpa, link.mode \in L!Half)
  <2>1. wd'.at = "idle"
    BY <1>6, CheckIs DEF L!ResolvesFc, L!CheckEnds
  <2>2. UNCHANGED <<phy, link, op, ask>> /\ ctrl' = L!Forced(resolved) /\ fc'.current = resolved
    BY <1>6 DEF L!ResolvesFc, L!KeepsRest, LinkTypes, FlowControls
  <2>3. link.up => LooksAgain \/ wd.lpa = link.lpa
    BY <1>6 DEF L!ResolvesFc, PauseInv
  <2>4. LooksAgain => LooksAgain'
    BY <1>6, RestSay DEF L!ResolvesFc, L!CheckStarts
  <2>5. wd.lpa = link.lpa => Agrees'
    BY <2>2, ResolvedAgrees
  <2>. HIDE DEF resolved
  <2>6. ctrl' = L!Forced(fc.current)'
    BY <2>2 DEF L!Forced
  <2>. QED BY <2>1, <2>2, <2>3, <2>4, <2>5, <2>6 DEF PauseInv
<1>7. CASE L!SetLink /\ op' = op
  <2>1. ~ask'.autoneg /\ op'.at = "idle" /\ UNCHANGED <<link, wd>>
    <3>1. op.at = "idle" /\ UNCHANGED <<link, wd>>
      BY <1>7 DEF L!SetLink, L!KeepsMost, L!Calls
    <3>2. op' # [at |-> "down"]
      BY <1>7, <3>1
    <3>3. ask' = [ask EXCEPT !.autoneg = FALSE]
      BY <1>7, <3>2 DEF L!SetLink
    <3>. QED BY <1>7, <3>1, <3>3 DEF LinkTypes, Wanted
  <2>2. LooksAgain => LooksAgain'
    BY <1>7, UserSays
  <2>. QED BY <2>1, <2>2 DEF PauseInv
<1>8. CASE \E m \in Pauses : L!SetPause(m)
  <2>1. fc'.byUser
    BY <1>8 DEF L!SetPause
  <2>2. UNCHANGED <<link, wd>> /\ (LooksAgain => LooksAgain')
    BY <1>8, UserSays
  <2>. QED BY <2>1, <2>2 DEF PauseInv
<1>9. CASE L!ForcePause
  <2>1. /\ UNCHANGED <<fc, ask, link, phy, wd>> /\ op.at = "force" /\ op'.at = "idle"
        /\ ctrl' = L!Forced(fc.current)
    BY <1>9 DEF L!ForcePause, L!KeepsMost, L!config
  <2>2. LooksAgain => LooksAgain'
    BY <1>9, UserSays
  <2>3. ~fc.byUser => ctrl' = ctrl
    BY <2>1 DEF PauseInv
  <2>. QED BY <2>1, <2>2, <2>3
    DEF PauseInv, Agrees, L!PartnerSends, L!PartnerHonours
<1>10. CASE \/ (L!SetLink /\ op' # op) \/ L!SetPauseAuto \/ (\E modes \in Eees : L!SetEee(modes))
            \/ L!Down \/ L!ResetHw \/ L!StartAutoneg \/ L!ForceSpeedDuplex \/ L!SetWatermarks
            \/ L!Up \/ L!LinkComesUp \/ L!PartnerChanges \/ L!Interrupt
  <2>1. LooksAgain' \/ ~link'.up
    BY <1>10, RestartsSay
  <2>2. op'.at = "force" => UNCHANGED <<op, fc, ctrl>>
    <3>1. CASE L!LinkComesUp \/ L!PartnerChanges \/ L!Interrupt
      BY <3>1 DEF L!LinkComesUp, L!PartnerChanges, L!Interrupt, L!config, L!device
    <3>2. CASE (L!SetLink /\ op' # op) \/ L!SetPauseAuto \/ (\E modes \in Eees : L!SetEee(modes))
      <4>1. op' = [at |-> "down"]
        BY <3>2 DEF L!SetLink, L!SetPauseAuto, L!SetEee
      <4>. QED BY <4>1
    <3>3. CASE L!Down \/ L!ResetHw \/ L!StartAutoneg \/ L!ForceSpeedDuplex \/ L!SetWatermarks \/ L!Up
      <4>1. op'.at \in {"reset", "setup", "water", "up", "idle"}
        BY <3>3 DEF L!Down, L!ResetHw, L!StartAutoneg, L!ForceSpeedDuplex, L!SetWatermarks, L!Up
      <4>. QED BY <4>1
    <3>. QED BY <1>10, <3>1, <3>2, <3>3
  <2>. QED BY <2>1, <2>2 DEF PauseInv, L!Forced
<1>. QED BY <1>1, <1>2, <1>3, <1>4, <1>5, <1>6, <1>7, <1>8, <1>9, <1>10 DEF L!Next

LEMMA LinkStarts == ASSUME L!Assumption, L!Init PROVE LinkInv
<1>1. LinkTypes
  BY LinkStartsTyped
<1>2. LooksAgain /\ ~link.up /\ lpi = {} /\ wd.at = "idle" /\ op.at # "force"
  BY CheckIs, NeitherUp DEF L!Init, LooksAgain
<1>. QED BY <1>1, <1>2 DEF LinkInv, K1Inv, EeeInv, PauseInv

LEMMA LinkStays ==
  ASSUME L!Assumption, {"k1", "eee", "fc"} \cap LinkMayFail = {}, LinkInv, [L!Next]_(L!vars)
  PROVE  LinkInv'
<1>1. LinkTypes'
  BY LinkStaysTyped DEF LinkInv
<1>2. CASE UNCHANGED L!vars
  BY <1>1, <1>2
  DEF L!vars, L!device, L!config, LinkInv, K1Inv, EeeInv, PauseInv, LooksAgain, Restarts,
      Agrees, L!PartnerSends, L!PartnerHonours, L!Forced
<1>3. CASE L!Next
  BY <1>1, <1>3, K1Step, EeeStep, PauseStep DEF LinkInv
<1>. QED BY <1>2, <1>3

LEMMA SettingsAre == ASSUME LinkInv PROVE L!SettingsFollowLink
<1>1. L!Settled => ~LooksAgain /\ wd.at = "idle" /\ link.up
  BY DEF L!Settled, LooksAgain, Restarts
<1>. QED BY <1>1
     DEF LinkInv, K1Inv, EeeInv, PauseInv, Agrees, L!SettingsFollowLink, L!PauseAgrees,
         L!K1IsOffAtGigabit, L!EeeAgrees

(* When the copper link has settled pause frames, K1 and EEE are those of the *)
(* link there is, whatever of link, partner and settings changed between any  *)
(* two steps of a check, if no PHY access of it fails but the first.          *)
THEOREM LinkFollowed ==
  ASSUME L!Assumption, {"k1", "eee", "fc"} \cap LinkMayFail = {}
  PROVE  L!Spec => []L!SettingsFollowLink
BY LinkStarts, LinkStays, SettingsAre, PTL DEF L!Spec

(* The variables of the copper link keep their types. *)
THEOREM LinkTyped == ASSUME L!Assumption PROVE L!Spec => []L!TypeOK
BY LinkStartsTyped, LinkStaysTyped, LinkTypesAre, PTL DEF L!Spec

(* Where no check overlaps a reset, the PHY advertises what was asked for.   *)
LEMMA AdvertisedStep ==
  ASSUME LinkTypes, AdvertisedInv, ~LinkOverlap, L!Next
  PROVE  AdvertisedInv'
<1>1. CASE L!LinkComesUp \/ L!PartnerChanges \/ L!Interrupt
  BY <1>1 DEF L!LinkComesUp, L!PartnerChanges, L!Interrupt, L!config, L!device, AdvertisedInv,
              L!Advertised
<1>2. CASE \/ L!CheckStarts \/ L!ReadsLink \/ L!AppliesK1 \/ L!ReadsEee \/ L!WritesLpi
           \/ L!StartsFc \/ L!ReadsAbilities \/ L!ResolvesFc
  <2>1. UNCHANGED <<closed, op, phy, ask>> /\ op.at \notin {"setup", "water", "up"}
    <3>1. CASE L!CheckStarts
      BY <3>1 DEF L!CheckStarts, L!KeepsRest, AdvertisedInv
    <3>2. CASE ~L!CheckStarts
      BY <1>2, <3>2 DEF L!ReadsLink, L!AppliesK1, L!ReadsEee, L!WritesLpi, L!StartsFc,
           L!ReadsAbilities, L!ResolvesFc, L!KeepsRest, AdvertisedInv
    <3>. QED BY <3>1, <3>2
  <2>2. fc'.requested = fc.requested
    BY <1>2 DEF L!CheckStarts, L!ReadsLink, L!AppliesK1, L!ReadsEee, L!WritesLpi, L!StartsFc,
           L!ReadsAbilities, L!ResolvesFc, LinkTypes, FlowControls
  <2>. QED BY <2>1, <2>2 DEF AdvertisedInv, L!Advertised
<1>3. CASE L!SetLink \/ L!SetPauseAuto \/ (\E modes \in Eees : L!SetEee(modes))
  <2>1. op'.at # "down" => op'.at = "idle" /\ ~ask'.autoneg
    <3>1. CASE op' = [at |-> "down"]
      <4>1. op'.at = "down"
        BY <3>1
      <4>. QED BY <4>1
    <3>2. CASE op' # [at |-> "down"]
      <4>1. ask' = [ask EXCEPT !.autoneg = FALSE] /\ op' = op /\ op.at = "idle"
        BY <1>3, <3>2 DEF L!SetLink, L!SetPauseAuto, L!SetEee, L!Calls
      <4>. QED BY <4>1 DEF LinkTypes, Wanted
    <3>. QED BY <3>1, <3>2
  <2>. QED BY <2>1 DEF AdvertisedInv
<1>4. CASE \E m \in Pauses : L!SetPause(m)
  <2>1. op'.at = "force" /\ ~ask'.fcAutoneg
    BY <1>4 DEF L!SetPause, LinkTypes, Wanted
  <2>. QED BY <2>1 DEF AdvertisedInv
<1>5. CASE L!ForcePause
  BY <1>5 DEF L!ForcePause, L!KeepsMost, L!config, AdvertisedInv, L!Advertised
<1>6. CASE L!Down
  BY <1>6 DEF L!Down, AdvertisedInv
<1>7. CASE L!ResetHw
  <2>1. op'.at = "setup" /\ closed' = closed /\ closed /\ wd'.at = "idle"
    BY <1>7 DEF L!ResetHw, L!KeepsMost, AdvertisedInv
  <2>2. fc'.requested = fc'.current
    BY <1>7 DEF L!ResetHw
  <2>. QED BY <2>1, <2>2 DEF AdvertisedInv
<1>8. CASE L!StartAutoneg
  <2>1. op.at = "setup" /\ op'.at = "water" /\ UNCHANGED <<closed, wd, fc, ask>>
    BY <1>8 DEF L!StartAutoneg, L!KeepsMost, L!config
  <2>2. phy'.pause = L!Advertised(fc.current)
    BY <1>8 DEF L!StartAutoneg, LinkTypes, Setups
  <2>. QED BY <2>1, <2>2 DEF AdvertisedInv, L!Advertised
<1>9. CASE L!ForceSpeedDuplex
  <2>1. /\ op.at = "setup" /\ op'.at = "water" /\ UNCHANGED <<closed, wd, ask>>
        /\ ~ask.autoneg
    BY <1>9 DEF L!ForceSpeedDuplex, L!KeepsMost
  <2>. QED BY <2>1 DEF AdvertisedInv
<1>10. CASE L!SetWatermarks
  <2>1. op.at = "water" /\ op'.at = "up" /\ UNCHANGED <<closed, wd, fc, ask>>
    BY <1>10 DEF L!SetWatermarks, L!KeepsMost, L!config
  <2>2. phy'.pause = phy.pause
    BY <1>10 DEF L!SetWatermarks, LinkTypes, Setups
  <2>. QED BY <2>1, <2>2 DEF AdvertisedInv, L!Advertised
<1>11. CASE L!Up
  BY <1>11 DEF L!Up, L!KeepsMost, L!config, AdvertisedInv, L!Advertised
<1>. QED BY <1>1, <1>2, <1>3, <1>4, <1>5, <1>6, <1>7, <1>8, <1>9, <1>10, <1>11 DEF L!Next

(* Once the link has settled the PHY advertises the flow control that ethtool *)
(* asked to have negotiated, where no check runs during a reset.              *)
THEOREM Advertising ==
  ASSUME L!Assumption, ~LinkOverlap PROVE L!Spec => []L!AdvertisedAsRequested
<1>1. L!Init => AdvertisedInv
  BY DEF L!Init, AdvertisedInv
<1>2. ASSUME AdvertisedInv, UNCHANGED L!vars PROVE AdvertisedInv'
  BY <1>2 DEF AdvertisedInv, L!vars, L!device, L!config, L!Advertised
<1>3. LinkTypes /\ AdvertisedInv /\ [L!Next]_(L!vars) => AdvertisedInv'
  BY <1>2, AdvertisedStep
<1>4. AdvertisedInv => L!AdvertisedAsRequested
  BY DEF AdvertisedInv, L!AdvertisedAsRequested, L!Settled
<1>. QED BY <1>1, <1>3, <1>4, LinkStartsTyped, LinkStaysTyped, PTL DEF L!Spec
-----------------------------------------------------------------------------
(* The times of packets and frames: Timestamps. *)

CONSTANTS Packets, Frames, TxTypes, Filters, TimeCalls, MayReset, Removes, MayRefuse,
          Slow, Overlap, LateXmit, None
VARIABLES cfg, tsync, told, skb, work, xmit, ring, txTime, txTold, packet, rxRing, rxTime,
          rxPoll, rxTold, frame, check, timeCalls, removal

Stamps == INSTANCE Timestamps WITH Calls <- TimeCalls, Resets <- MayReset, calls <- timeCalls, poll <- rxPoll

(* Packets and frames count from one; the settings written are some filter's. *)
StampTypes ==
  /\ Stamps!TypeOK
  /\ packet \in Nat \ {0} /\ frame \in Nat \ {0}
  /\ tsync \in [tx : BOOLEAN, rule : {Stamps!RuleOf(f) : f \in Stamps!Supported}]

(* The work and the marked packet belong together; what is in TXSTMP is the time *)
(* of that packet, which has left the ring.                                       *)
TxInv ==
  /\ removal # "none" => xmit = None
  /\ removal \in {"cancelled", "gone"} => skb = None /\ work.at = "idle"
  /\ removal \in {"none", "down"} =>
       /\ \A i \in DOMAIN ring : ring[i].marked => ring[i].packet = skb
       /\ txTime.valid => /\ txTime.of = skb /\ skb # None
                          /\ \A i \in DOMAIN ring : ~ring[i].marked
  /\ Stamps!OneIsMarked
  /\ work.at = "queued" => skb # None
  /\ work.at = "tell" => work.skb = work.time
  /\ \A pair \in txTold : pair[1] = pair[2]

(* A good frame whose descriptor has TST. *)
Timed(d) == d.tst /\ ~Frames[d.frame].bad

(* At most one frame waits for the time in RXSTMP, on the ring or in the rxPoll. *)
RxInv ==
  /\ \A i \in DOMAIN rxRing : Timed(rxRing[i]) => rxTime.valid /\ rxTime.of = rxRing[i].frame
  /\ \A i, j \in DOMAIN rxRing : Timed(rxRing[i]) /\ Timed(rxRing[j]) => i = j
  /\ rxPoll # None => /\ rxTime.valid /\ rxTime.of = rxPoll
                    /\ \A i \in DOMAIN rxRing : ~Timed(rxRing[i])
  /\ \A pair \in rxTold : pair[1] = pair[2]

(* What a call that succeeded has stored, written and returned. *)
SetInv ==
  told.ok => /\ Stamps!Valid(told.asked)
             /\ cfg.tx = told.asked.tx /\ cfg.rx = Stamps!Widened(told.asked.rx)
             /\ tsync = Stamps!Written(told.asked)
             /\ told.answer = Stamps!Returned(told.asked.rx)
-----------------------------------------------------------------------------
LEMMA IsWidened ==
  ASSUME NEW f \in Stamps!Supported
  PROVE  Stamps!Widened(f) \in Stamps!Supported /\ Stamps!RuleOf(Stamps!Widened(f)) = Stamps!RuleOf(f)
BY DEF Stamps!Supported, Stamps!Widened, Stamps!RuleOf

(* Every filter: the controller takes what is asked for, and what the answer says. *)
LEMMA TakesAsked ==
  ASSUME NEW f \in Stamps!Supported
  PROVE  /\ Stamps!Asked(f) \subseteq Stamps!Taken(Stamps!RuleOf(f))
         /\ Stamps!Returned(f) # "some" =>
              Stamps!Taken(Stamps!RuleOf(f)) = Stamps!Asked(Stamps!Returned(f))
<1>1. CASE f = "none"
  BY <1>1 DEF Stamps!Asked, Stamps!Taken, Stamps!RuleOf, Stamps!Rule, Stamps!Returned, Stamps!Widened
<1>2. CASE f \in {"all", "ntp_all", "v1_l4_event"}
  <2>1. Stamps!Returned(f) = "all" /\ Stamps!RuleOf(f).type = "all"
    BY <1>2 DEF Stamps!Returned, Stamps!Widened, Stamps!RuleOf, Stamps!Rule
  <2>2. Stamps!Taken(Stamps!RuleOf(f)) = Stamps!Frame
    BY <2>1 DEF Stamps!Taken
  <2>3. Stamps!Asked("all") = Stamps!Frame /\ Stamps!Asked(f) \subseteq Stamps!Frame
    BY <1>2 DEF Stamps!Asked, Stamps!Events
  <2>. QED BY <2>1, <2>2, <2>3
<1>3. CASE f \in {"v2_l4_event", "v2_l2_event", "v2_event"}
  <2>1. Stamps!Returned(f) = "v2_event"
    BY <1>3 DEF Stamps!Returned, Stamps!Widened
  <2>2. Stamps!Taken(Stamps!RuleOf(f)) = Stamps!Events(2, Stamps!Both, Stamps!AllMsgs)
    BY <1>3 DEF Stamps!Taken, Stamps!RuleOf, Stamps!Rule
  <2>3. Stamps!Asked("v2_event") = Stamps!Events(2, Stamps!Both, Stamps!AllMsgs)
    BY DEF Stamps!Asked
  <2>4. Stamps!Asked(f) \subseteq Stamps!Events(2, Stamps!Both, Stamps!AllMsgs)
    BY <1>3 DEF Stamps!Asked, Stamps!Events, Stamps!Both
  <2>. QED BY <2>1, <2>2, <2>3, <2>4
<1>4. CASE f \in {"v1_l4_sync", "v1_l4_delay"}
  <2>. DEFINE msg == IF f = "v1_l4_sync" THEN "sync" ELSE "delay"
  <2>1. Stamps!Taken(Stamps!RuleOf(f)) = Stamps!Events(1, {"l4"}, {msg, "path"})
    BY <1>4 DEF Stamps!Taken, Stamps!RuleOf, Stamps!Rule
  <2>2. Stamps!Asked(f) = Stamps!Events(1, {"l4"}, {msg}) /\ Stamps!Returned(f) = f
    BY <1>4 DEF Stamps!Asked, Stamps!Returned, Stamps!Widened
  <2>3. Stamps!Events(1, {"l4"}, {msg}) = Stamps!Events(1, {"l4"}, {msg, "path"})
    <3>1. \A x \in Stamps!Frame : x.ver = 1 => x.msg # "path"
      BY DEF Stamps!Frame
    <3>. QED BY <3>1 DEF Stamps!Events
  <2>. QED BY <2>1, <2>2, <2>3
<1>5. CASE f \in {"v2_l2_sync", "v2_l2_delay", "v2_l4_sync", "v2_l4_delay", "v2_sync", "v2_delay"}
  <2>. DEFINE msg == IF f \in {"v2_l2_sync", "v2_l4_sync", "v2_sync"} THEN "sync" ELSE "delay"
              layers == IF f \in {"v2_l2_sync", "v2_l2_delay"} THEN {"l2"}
                        ELSE IF f \in {"v2_l4_sync", "v2_l4_delay"} THEN {"l4"} ELSE Stamps!Both
              wide == IF f \in {"v2_l2_sync", "v2_l2_delay"} THEN {"l2"} ELSE Stamps!Both
  <2>1. Stamps!Taken(Stamps!RuleOf(f)) = Stamps!Events(2, wide, {msg, "path"})
    <3>1. CASE f \in {"v2_l2_sync", "v2_l2_delay"}
      BY <3>1 DEF Stamps!Taken, Stamps!RuleOf, Stamps!Rule
    <3>2. CASE f \notin {"v2_l2_sync", "v2_l2_delay"}
      BY <1>5, <3>2 DEF Stamps!Taken, Stamps!RuleOf, Stamps!Rule, Stamps!Both
    <3>. QED BY <3>1, <3>2
  <2>2. Stamps!Asked(f) = Stamps!Events(2, layers, {msg}) /\ Stamps!Returned(f) = "some"
    BY <1>5 DEF Stamps!Asked, Stamps!Returned
  <2>3. Stamps!Events(2, layers, {msg}) \subseteq Stamps!Events(2, wide, {msg, "path"})
    BY DEF Stamps!Events, Stamps!Both
  <2>. QED BY <2>1, <2>2, <2>3
<1>. QED BY <1>1, <1>2, <1>3, <1>4, <1>5 DEF Stamps!Supported
-----------------------------------------------------------------------------
LEMMA StampTypesStart == ASSUME Stamps!Assumption, Stamps!Init PROVE StampTypes
<1>1. Stamps!RuleOf("none") \in {Stamps!RuleOf(f) : f \in Stamps!Supported}
  BY DEF Stamps!Supported
<1>2. <<>> \in Seq([packet : 1 .. Packets, marked : BOOLEAN])
      /\ <<>> \in Seq([frame : DOMAIN Frames, tst : BOOLEAN])
  OBVIOUS
<1>3. cfg \in [tx : {"off", "on"}, rx : Stamps!Supported]
  BY DEF Stamps!Init, Stamps!Off, Stamps!Supported
<1>4. tsync \in [tx : BOOLEAN, rule : {Stamps!RuleOf(f) : f \in Stamps!Supported}]
  BY <1>1 DEF Stamps!Init, Stamps!TsyncOff
<1>5. /\ ring \in Seq([packet : 1 .. Packets, marked : BOOLEAN])
      /\ rxRing \in Seq([frame : DOMAIN Frames, tst : BOOLEAN]) /\ work.at = "idle"
  BY <1>2 DEF Stamps!Init
<1>6. /\ txTime \in [of : 1 .. Packets \cup {None}, valid : BOOLEAN]
      /\ rxTime \in [of : DOMAIN Frames \cup {None}, valid : BOOLEAN]
  BY DEF Stamps!Init, Stamps!NoTime
<1>7. /\ skb = None /\ xmit = None /\ rxPoll = None /\ check = FALSE /\ removal = "none"
      /\ packet = 1 /\ frame = 1
  BY DEF Stamps!Init
<1>8. tsync.tx \in BOOLEAN /\ tsync.rule \in {Stamps!RuleOf(f) : f \in Stamps!Supported}
  BY <1>4
<1>9. Stamps!TypeOK
  <2>1. /\ skb \in 1 .. Packets \cup {None} /\ xmit \in 1 .. Packets \cup {None}
        /\ rxPoll \in DOMAIN Frames \cup {None} /\ check \in BOOLEAN
        /\ work.at \in {"idle", "queued", "tell"}
        /\ removal \in {"none", "down", "cancelled", "gone"}
    BY <1>5, <1>7
  <2>. QED BY <1>3, <1>5, <1>6, <1>8, <2>1 DEF Stamps!TypeOK
<1>. QED BY <1>4, <1>7, <1>9 DEF StampTypes

(* A register after a time was taken, or read. *)
LEMMA TimeTyped ==
  ASSUME NEW S, NEW r \in [of : S \cup {None}, valid : BOOLEAN], NEW x \in S
  PROVE  /\ Stamps!Latched(r, x) \in [of : S \cup {None}, valid : BOOLEAN]
         /\ Stamps!Cleared(r) \in [of : S \cup {None}, valid : BOOLEAN]
BY DEF Stamps!Latched, Stamps!Cleared

LEMMA ClearedIs ==
  ASSUME NEW S, NEW r \in [of : S, valid : BOOLEAN]
  PROVE  Stamps!Cleared(r) \in [of : S, valid : BOOLEAN] /\ ~Stamps!Cleared(r).valid
BY DEF Stamps!Cleared

LEMMA WrittenTyped ==
  ASSUME NEW c, c.tx \in {"off", "on"}, c.rx \in Stamps!Supported
  PROVE  Stamps!Written(c) \in [tx : BOOLEAN, rule : {Stamps!RuleOf(f) : f \in Stamps!Supported}]
BY DEF Stamps!Written

LEMMA StoredTyped ==
  ASSUME NEW c \in [tx : TxTypes, rx : Filters], Stamps!Valid(c)
  PROVE  /\ Stamps!Stored(c) \in [tx : {"off", "on"}, rx : Stamps!Supported]
         /\ Stamps!Stored(c).tx = c.tx /\ Stamps!Stored(c).rx = Stamps!Widened(c.rx)
BY IsWidened DEF Stamps!Stored, Stamps!Valid

LEMMA ElementTyped ==
  ASSUME NEW S, NEW q \in Seq(S) PROVE \A i \in DOMAIN q : q[i] \in S
OBVIOUS

LEMMA TailTyped ==
  ASSUME NEW S, NEW q \in Seq(S), q # <<>>
  PROVE  /\ Head(q) \in S /\ Head(q) = q[1] /\ Tail(q) \in Seq(S)
         /\ \A i \in DOMAIN Tail(q) : i + 1 \in DOMAIN q /\ Tail(q)[i] = q[i + 1] /\ i \in Nat \ {0}
         /\ 1 \in DOMAIN q
<1>1. Len(q) \in Nat /\ Len(q) > 0
  OBVIOUS
<1>2. Len(Tail(q)) = Len(q) - 1 /\ \A i \in 1 .. Len(q) - 1 : Tail(q)[i] = q[i + 1]
  BY <1>1
<1>. QED BY <1>1, <1>2

LEMMA AppendTyped ==
  ASSUME NEW S, NEW q \in Seq(S), NEW e \in S
  PROVE  /\ Append(q, e) \in Seq(S) /\ DOMAIN q \subseteq DOMAIN Append(q, e)
         /\ \A i \in DOMAIN Append(q, e) :
              IF i \in DOMAIN q THEN Append(q, e)[i] = q[i] ELSE Append(q, e)[i] = e
         /\ \A i, j \in DOMAIN Append(q, e) : i \notin DOMAIN q /\ j \notin DOMAIN q => i = j
<1>1. Len(q) \in Nat /\ DOMAIN q = 1 .. Len(q) /\ DOMAIN Append(q, e) = 1 .. Len(q) + 1
  OBVIOUS
<1>2. \A i \in 1 .. Len(q) + 1 : Append(q, e)[i] = IF i \in 1 .. Len(q) THEN q[i] ELSE e
  OBVIOUS
<1>3. Append(q, e) \in Seq(S)
  OBVIOUS
<1>. QED BY <1>1, <1>2, <1>3

LEMMA StampTypesStays ==
  ASSUME Stamps!Assumption, StampTypes, [Stamps!Next]_(Stamps!vars) PROVE StampTypes'
<1>. USE DEF Stamps!Assumption, StampTypes, Stamps!TypeOK, Stamps!settings, Stamps!tx, Stamps!rx
<1>. DEFINE Tx == [of : 1 .. Packets \cup {None}, valid : BOOLEAN]
            Rx == [of : DOMAIN Frames \cup {None}, valid : BOOLEAN]
<1>0. Stamps!Cleared(txTime) \in Tx /\ Stamps!Cleared(rxTime) \in Rx
  BY DEF Stamps!Cleared
<1>a. <<>> \in Seq([packet : 1 .. Packets, marked : BOOLEAN])
      /\ <<>> \in Seq([frame : DOMAIN Frames, tst : BOOLEAN])
  OBVIOUS
<1>1. CASE UNCHANGED Stamps!vars
  BY <1>1 DEF Stamps!vars
<1>2. CASE Stamps!XmitStart
  BY <1>2 DEF Stamps!XmitStart
<1>3. CASE Stamps!XmitMarks \/ Stamps!XmitSkips
  <2>1. xmit \in 1 .. Packets
    BY <1>3 DEF Stamps!XmitMarks, Stamps!XmitSkips
  <2>2. \A b \in BOOLEAN : Append(ring, [packet |-> xmit, marked |-> b])
                             \in Seq([packet : 1 .. Packets, marked : BOOLEAN])
    BY <2>1
  <2>3. skb' \in 1 .. Packets \cup {None} /\ xmit' \in 1 .. Packets \cup {None}
        /\ work'.at \in {"idle", "queued", "tell"}
    BY <1>3, <2>1 DEF Stamps!XmitMarks, Stamps!XmitSkips
  <2>4. ring' \in Seq([packet : 1 .. Packets, marked : BOOLEAN])
    BY <1>3, <2>2 DEF Stamps!XmitMarks, Stamps!XmitSkips
  <2>5. UNCHANGED <<cfg, tsync, txTime, packet, rxRing, rxTime, rxPoll, frame, check, removal>>
    BY <1>3 DEF Stamps!XmitMarks, Stamps!XmitSkips
  <2>. QED BY <2>3, <2>4, <2>5
<1>4. CASE Stamps!HwSend
  <2>1. Head(ring) \in [packet : 1 .. Packets, marked : BOOLEAN]
        /\ Tail(ring) \in Seq([packet : 1 .. Packets, marked : BOOLEAN])
    BY <1>4, TailTyped DEF Stamps!HwSend
  <2>2. txTime' \in [of : 1 .. Packets \cup {None}, valid : BOOLEAN]
    BY <1>4, <2>1, TimeTyped DEF Stamps!HwSend
  <2>. QED BY <1>4, <2>1, <2>2 DEF Stamps!HwSend
<1>5. CASE Stamps!WorkReads \/ Stamps!WorkTells \/ Stamps!WorkTimesOut
  BY <1>5, <1>0 DEF Stamps!WorkReads, Stamps!WorkTells, Stamps!WorkTimesOut, Stamps!Idle
<1>6. CASE Stamps!HwReceive
  <2>1. frame \in DOMAIN Frames
    BY <1>6 DEF Stamps!HwReceive
  <2>2. rxTime' \in [of : DOMAIN Frames \cup {None}, valid : BOOLEAN]
    BY <1>6, <2>1, TimeTyped DEF Stamps!HwReceive
  <2>3. \E b \in BOOLEAN : rxRing' = Append(rxRing, [frame |-> frame, tst |-> b])
    BY <1>6 DEF Stamps!HwReceive
  <2>4. rxRing' \in Seq([frame : DOMAIN Frames, tst : BOOLEAN])
    BY <2>1, <2>3
  <2>. QED BY <1>6, <2>1, <2>2, <2>4 DEF Stamps!HwReceive
<1>7. CASE Stamps!RxPasses \/ Stamps!RxLooks
  <2>1. Head(rxRing) \in [frame : DOMAIN Frames, tst : BOOLEAN]
        /\ Tail(rxRing) \in Seq([frame : DOMAIN Frames, tst : BOOLEAN])
    BY <1>7, TailTyped DEF Stamps!RxPasses, Stamps!RxLooks
  <2>. QED BY <1>7, <2>1 DEF Stamps!RxPasses, Stamps!RxLooks
<1>8. CASE Stamps!RxReads \/ Stamps!WatchdogLooks \/ Stamps!WatchdogClears
  BY <1>8, <1>0 DEF Stamps!RxReads, Stamps!WatchdogLooks, Stamps!WatchdogClears
<1>9. ASSUME NEW c \in [tx : TxTypes, rx : Filters],
             Stamps!SetRejected(c) \/ Stamps!SetRefused(c) \/ Stamps!SetHwtstamp(c)
      PROVE  StampTypes'
  <2>1. CASE Stamps!SetRejected(c)
    BY <2>1 DEF Stamps!SetRejected
  <2>2. CASE Stamps!SetRefused(c)
    <3>1. cfg' \in [tx : {"off", "on"}, rx : Stamps!Supported]
      BY <2>2, StoredTyped DEF Stamps!SetRefused
    <3>2. tsync' \in [tx : BOOLEAN, rule : {Stamps!RuleOf(f) : f \in Stamps!Supported}]
      BY <2>2 DEF Stamps!SetRefused
    <3>. QED BY <2>2, <3>1, <3>2 DEF Stamps!SetRefused
  <2>3. CASE Stamps!SetHwtstamp(c)
    <3>1. cfg' \in [tx : {"off", "on"}, rx : Stamps!Supported]
      BY <2>3, StoredTyped DEF Stamps!SetHwtstamp
    <3>2. tsync' \in [tx : BOOLEAN, rule : {Stamps!RuleOf(f) : f \in Stamps!Supported}]
      BY <2>3, WrittenTyped DEF Stamps!SetHwtstamp, Stamps!Valid
    <3>. QED BY <2>3, <3>1, <3>2, <1>0 DEF Stamps!SetHwtstamp, Stamps!BothCleared
  <2>. QED BY <1>9, <2>1, <2>2, <2>3
<1>10. CASE Stamps!Reset
  <2>1. tsync' \in [tx : BOOLEAN, rule : {Stamps!RuleOf(f) : f \in Stamps!Supported}]
    BY <1>10, WrittenTyped DEF Stamps!Reset
  <2>. QED BY <1>10, <1>0, <1>a, <2>1 DEF Stamps!Reset, Stamps!BothCleared
<1>11. CASE Stamps!RemoveDown \/ Stamps!RemoveCancels \/ Stamps!RemoveUnregisters
  <2>1. CASE Stamps!RemoveDown
    BY <2>1 DEF Stamps!RemoveDown
  <2>2. CASE Stamps!RemoveCancels
    BY <2>2 DEF Stamps!RemoveCancels, Stamps!Idle
  <2>3. CASE Stamps!RemoveUnregisters
    BY <2>3, <1>a DEF Stamps!RemoveUnregisters
  <2>. QED BY <1>11, <2>1, <2>2, <2>3
<1>. QED BY <1>1, <1>2, <1>3, <1>4, <1>5, <1>6, <1>7, <1>8, <1>9, <1>10, <1>11 DEF Stamps!Next
-----------------------------------------------------------------------------
LEMMA TxStarts == ASSUME Stamps!Init PROVE TxInv
BY DEF Stamps!Init, TxInv, Stamps!OneIsMarked, Stamps!NoTime

LEMMA TxStays ==
  ASSUME Stamps!Assumption, ~Slow, ~LateXmit, StampTypes, TxInv, [Stamps!Next]_(Stamps!vars)
  PROVE  TxInv'
<1>. USE DEF StampTypes, Stamps!TypeOK, Stamps!Assumption, TxInv, Stamps!OneIsMarked
<1>1. ASSUME UNCHANGED <<skb, work, xmit, txTold>>, UNCHANGED <<ring, txTime>>, UNCHANGED removal
      PROVE  TxInv'
  BY <1>1
<1>2. CASE \/ UNCHANGED Stamps!vars
           \/ Stamps!HwReceive \/ Stamps!RxPasses \/ Stamps!RxLooks \/ Stamps!RxReads
           \/ Stamps!WatchdogLooks \/ Stamps!WatchdogClears
           \/ \E c \in [tx : TxTypes, rx : Filters] : Stamps!SetRejected(c) \/ Stamps!SetRefused(c)
  BY <1>1, <1>2 DEF Stamps!vars, Stamps!tx, Stamps!HwReceive, Stamps!RxPasses, Stamps!RxLooks,
       Stamps!RxReads, Stamps!WatchdogLooks, Stamps!WatchdogClears, Stamps!SetRejected,
       Stamps!SetRefused
<1>3. CASE Stamps!XmitStart
  BY <1>3 DEF Stamps!XmitStart
<1>4. CASE Stamps!XmitMarks
  <2>1. xmit \in 1 .. Packets /\ skb = None /\ skb' = xmit /\ xmit' = None /\ removal = "none"
        /\ UNCHANGED <<txTime, txTold, removal>>
    BY <1>4 DEF Stamps!XmitMarks
  <2>0. \A i \in DOMAIN ring : ring[i] \in [packet : 1 .. Packets, marked : BOOLEAN]
    BY ElementTyped
  <2>2. \A i \in DOMAIN ring : ~ring[i].marked
    BY <2>0, <2>1
  <2>3. \A i \in DOMAIN ring' : /\ ring'[i].marked => ring'[i].packet = xmit /\ i \notin DOMAIN ring
                                /\ \A j \in DOMAIN ring' : i \notin DOMAIN ring /\ j \notin DOMAIN ring => i = j
    <3>1. ring' = Append(ring, [packet |-> xmit, marked |-> TRUE])
      BY <1>4 DEF Stamps!XmitMarks
    <3>2. [packet |-> xmit, marked |-> TRUE] \in [packet : 1 .. Packets, marked : BOOLEAN]
      BY <2>1
    <3>. QED BY <2>2, <3>1, <3>2, AppendTyped, SMTT(30)
  <2>4. ~txTime.valid /\ ~txTime'.valid
    BY <2>1
  <2>5. work'.at = "tell" => work' = work
    BY <1>4 DEF Stamps!XmitMarks
  <2>. QED BY <2>1, <2>3, <2>4, <2>5
<1>5. CASE Stamps!XmitSkips
  <2>1. xmit \in 1 .. Packets /\ UNCHANGED <<skb, work, txTime, txTold, removal>> /\ xmit' = None
        /\ removal = "none"
    BY <1>5 DEF Stamps!XmitSkips
  <2>2. \A i \in DOMAIN ring' : ring'[i].marked => i \in DOMAIN ring /\ ring'[i] = ring[i]
    <3>1. ring' = Append(ring, [packet |-> xmit, marked |-> FALSE])
      BY <1>5 DEF Stamps!XmitSkips
    <3>2. [packet |-> xmit, marked |-> FALSE] \in [packet : 1 .. Packets, marked : BOOLEAN]
      BY <2>1
    <3>. QED BY <3>1, <3>2, AppendTyped
  <2>. QED BY <2>1, <2>2
<1>6. CASE Stamps!HwSend
  <2>1. UNCHANGED <<skb, work, xmit, txTold, removal>> /\ ring' = Tail(ring) /\ ring # <<>>
    BY <1>6 DEF Stamps!HwSend
  <2>2. /\ Head(ring) = ring[1] /\ 1 \in DOMAIN ring /\ Head(ring) \in [packet : 1 .. Packets, marked : BOOLEAN]
        /\ \A i \in DOMAIN ring' : i + 1 \in DOMAIN ring /\ ring'[i] = ring[i + 1] /\ i \in Nat /\ i # 0
    BY <2>1, TailTyped, ZenonT(30)
  <2>3. ASSUME NEW i \in DOMAIN ring', NEW j \in DOMAIN ring', ring'[i].marked, ring'[j].marked
        PROVE  i = j
    <3>1. /\ i + 1 \in DOMAIN ring /\ ring[i + 1].marked /\ j + 1 \in DOMAIN ring /\ ring[j + 1].marked
          /\ i \in Nat /\ j \in Nat
      BY <2>2, <2>3
    <3>2. i + 1 = j + 1
      BY <3>1
    <3>. QED BY <3>1, <3>2
  <2>4. removal \in {"none", "down"} /\ txTime'.valid =>
          /\ txTime'.of = skb /\ skb # None
          /\ \A i \in DOMAIN ring' : ~ring'[i].marked
    <3>1. CASE txTime.valid
      BY <1>6, <2>2, <3>1 DEF Stamps!HwSend, Stamps!Latched
    <3>2. CASE ~txTime.valid /\ Head(ring).marked /\ removal \in {"none", "down"}
      <4>1. Head(ring).packet = skb /\ skb # None
        BY <2>2, <3>2
      <4>2. txTime' = txTime \/ txTime'.of = Head(ring).packet
        BY <1>6 DEF Stamps!HwSend, Stamps!Latched
      <4>3. \A i \in DOMAIN ring' : ~ring'[i].marked
        <5>1. SUFFICES ASSUME NEW i \in DOMAIN ring', ring'[i].marked PROVE FALSE
          OBVIOUS
        <5>2. ring[i + 1].marked /\ i + 1 \in DOMAIN ring /\ i + 1 # 1
          BY <2>2, <5>1
        <5>. QED BY <2>2, <3>2, <5>2
      <4>. QED BY <3>2, <4>1, <4>2, <4>3
    <3>3. CASE ~txTime.valid /\ ~Head(ring).marked
      BY <1>6, <3>3 DEF Stamps!HwSend
    <3>. QED BY <3>1, <3>2, <3>3
  <2>. QED BY <2>1, <2>2, <2>3, <2>4
<1>7. CASE Stamps!WorkReads
  <2>1. /\ removal \in {"none", "down"} /\ skb' = None /\ ~txTime'.valid
        /\ work' = [at |-> "tell", skb |-> skb, time |-> txTime.of] /\ txTime.of = skb
        /\ \A i \in DOMAIN ring : ~ring[i].marked
        /\ UNCHANGED <<xmit, ring, txTold, removal>>
    BY <1>7 DEF Stamps!WorkReads, Stamps!Cleared
  <2>2. work'.at = "tell" /\ work'.skb = work'.time
    BY <2>1
  <2>. QED BY <2>1, <2>2
<1>8. CASE Stamps!WorkTells
  <2>1. /\ work.skb = work.time /\ txTold' = txTold \cup {<<work.skb, work.time>>}
        /\ UNCHANGED <<skb, xmit, ring, txTime, removal>>
        /\ work'.at = IF skb = None THEN "idle" ELSE "queued"
    BY <1>8 DEF Stamps!WorkTells, Stamps!Idle
  <2>. QED BY <2>1
<1>9. CASE Stamps!WorkTimesOut
  <2>1. /\ ~txTime.valid /\ skb' = None /\ work'.at = "idle" /\ skb # None
        /\ UNCHANGED <<xmit, ring, txTime, txTold, removal>>
    BY <1>9 DEF Stamps!WorkTimesOut, Stamps!Idle
  <2>2. removal \in {"none", "down"} => \A i \in DOMAIN ring : ~ring[i].marked
    BY <1>9 DEF Stamps!WorkTimesOut, Stamps!OnRing
  <2>. QED BY <2>1, <2>2
<1>10. CASE \E c \in [tx : TxTypes, rx : Filters] : Stamps!SetHwtstamp(c)
  BY <1>10 DEF Stamps!SetHwtstamp, Stamps!BothCleared, Stamps!Cleared
<1>11. CASE Stamps!Reset
  BY <1>11 DEF Stamps!Reset, Stamps!BothCleared, Stamps!Cleared
<1>12. CASE Stamps!RemoveDown
  BY <1>12 DEF Stamps!RemoveDown, Stamps!tx
<1>13. CASE Stamps!RemoveCancels
  BY <1>13 DEF Stamps!RemoveCancels, Stamps!Idle
<1>14. CASE Stamps!RemoveUnregisters
  BY <1>14 DEF Stamps!RemoveUnregisters
<1>. QED BY <1>2, <1>3, <1>4, <1>5, <1>6, <1>7, <1>8, <1>9, <1>10, <1>11, <1>12, <1>13, <1>14
         DEF Stamps!Next
-----------------------------------------------------------------------------
LEMMA RxStarts == ASSUME Stamps!Init PROVE RxInv
BY DEF Stamps!Init, RxInv, Timed, Stamps!NoTime

LEMMA NobodyWaits ==
  ASSUME StampTypes, RxInv, ~Overlap, Stamps!MayClear
  PROVE  rxPoll = None /\ \A i \in DOMAIN rxRing : ~Timed(rxRing[i])
BY DEF Stamps!MayClear, Stamps!Waits, Timed

LEMMA RxStays ==
  ASSUME Stamps!Assumption, ~Overlap, StampTypes, RxInv, [Stamps!Next]_(Stamps!vars)
  PROVE  RxInv'
<1>. USE DEF RxInv
<1>0. /\ rxRing \in Seq([frame : DOMAIN Frames, tst : BOOLEAN])
      /\ \A i \in DOMAIN rxRing : rxRing[i] \in [frame : DOMAIN Frames, tst : BOOLEAN]
  BY ElementTyped DEF StampTypes, Stamps!TypeOK
<1>1. CASE UNCHANGED <<rxRing, rxTime, rxPoll, rxTold>>
  BY <1>1 DEF Timed
<1>2. CASE \/ UNCHANGED Stamps!vars
           \/ Stamps!XmitStart \/ Stamps!XmitMarks \/ Stamps!XmitSkips \/ Stamps!HwSend
           \/ Stamps!WorkReads \/ Stamps!WorkTells \/ Stamps!WorkTimesOut \/ Stamps!WatchdogLooks
           \/ (\E c \in [tx : TxTypes, rx : Filters] : Stamps!SetRejected(c) \/ Stamps!SetRefused(c))
           \/ Stamps!RemoveDown \/ Stamps!RemoveCancels
  BY <1>1, <1>2 DEF Stamps!vars, Stamps!rx, Stamps!XmitStart, Stamps!XmitMarks, Stamps!XmitSkips,
       Stamps!HwSend, Stamps!WorkReads, Stamps!WorkTells, Stamps!WorkTimesOut, Stamps!WatchdogLooks,
       Stamps!SetRejected, Stamps!SetRefused, Stamps!RemoveDown, Stamps!RemoveCancels
<1>3. CASE Stamps!HwReceive
  <2>. DEFINE takes == Frames[frame].seen \in Stamps!Taken(tsync.rule) /\ ~rxTime.valid
              d == [frame |-> frame, tst |-> takes]
  <2>1. /\ UNCHANGED <<rxPoll, rxTold>> /\ frame \in DOMAIN Frames
        /\ rxRing' = Append(rxRing, d)
        /\ rxTime' = IF takes THEN [of |-> frame, valid |-> TRUE] ELSE rxTime
    BY <1>3 DEF Stamps!HwReceive, Stamps!Latched, Stamps!Assumption, StampTypes
  <2>2. d \in [frame : DOMAIN Frames, tst : BOOLEAN] /\ d.tst = takes /\ d.frame = frame
    BY <2>1
  <2>3. /\ DOMAIN rxRing \subseteq DOMAIN rxRing'
        /\ \A i \in DOMAIN rxRing' : IF i \in DOMAIN rxRing THEN rxRing'[i] = rxRing[i] ELSE rxRing'[i] = d
        /\ \A i, j \in DOMAIN rxRing' : i \notin DOMAIN rxRing /\ j \notin DOMAIN rxRing => i = j
    BY <1>0, <2>1, <2>2, AppendTyped
  <2>4. takes \in BOOLEAN
    OBVIOUS
  <2>. HIDE DEF d, takes
  <2>5. CASE takes
    <3>1. ~rxTime.valid
      BY <2>5 DEF takes
    <3>2. rxPoll = None /\ \A i \in DOMAIN rxRing : ~Timed(rxRing[i])
      BY <3>1
    <3>. QED BY <2>1, <2>2, <2>3, <2>5, <3>1, <3>2 DEF Timed
  <2>6. CASE ~takes
    <3>1. \A i \in DOMAIN rxRing' : Timed(rxRing'[i]) => i \in DOMAIN rxRing /\ rxRing'[i] = rxRing[i]
      BY <2>2, <2>3, <2>6 DEF Timed
    <3>. QED BY <2>1, <2>6, <3>1 DEF Timed
  <2>. QED BY <2>5, <2>6
<1>4. ASSUME rxRing # <<>>, rxRing' = Tail(rxRing)
      PROVE  /\ \A i \in DOMAIN rxRing' : i + 1 \in DOMAIN rxRing /\ rxRing'[i] = rxRing[i + 1] /\ i \in Nat \ {0}
             /\ Head(rxRing) = rxRing[1] /\ 1 \in DOMAIN rxRing
             /\ \A i, j \in DOMAIN rxRing' : Timed(rxRing'[i]) /\ Timed(rxRing'[j]) => i = j
             /\ \A i \in DOMAIN rxRing' : Timed(rxRing'[i]) =>
                  rxTime.valid /\ rxTime.of = rxRing'[i].frame /\ ~Timed(Head(rxRing)) /\ rxPoll = None
  <2>1. /\ \A i \in DOMAIN rxRing' : i + 1 \in DOMAIN rxRing /\ rxRing'[i] = rxRing[i + 1] /\ i \in Nat \ {0}
        /\ Head(rxRing) = rxRing[1] /\ 1 \in DOMAIN rxRing
    BY <1>0, <1>4, TailTyped
  <2>2. ASSUME NEW i \in DOMAIN rxRing', NEW j \in DOMAIN rxRing', Timed(rxRing'[i]), Timed(rxRing'[j])
        PROVE  i = j
    <3>1. /\ i + 1 \in DOMAIN rxRing /\ Timed(rxRing[i + 1]) /\ i \in Nat
          /\ j + 1 \in DOMAIN rxRing /\ Timed(rxRing[j + 1]) /\ j \in Nat
      BY <2>1, <2>2
    <3>2. i + 1 = j + 1
      BY <3>1
    <3>. QED BY <3>1, <3>2
  <2>3. ASSUME NEW i \in DOMAIN rxRing', Timed(rxRing'[i])
        PROVE  rxTime.valid /\ rxTime.of = rxRing'[i].frame /\ ~Timed(Head(rxRing)) /\ rxPoll = None
    <3>1. i + 1 \in DOMAIN rxRing /\ Timed(rxRing[i + 1]) /\ i \in Nat \ {0} /\ rxRing'[i] = rxRing[i + 1]
      BY <2>1, <2>3
    <3>2. i + 1 # 1
      BY <3>1
    <3>. QED BY <2>1, <3>1, <3>2
  <2>. QED BY <2>1, <2>2, <2>3
<1>5. CASE Stamps!RxPasses
  <2>1. rxRing # <<>> /\ rxRing' = Tail(rxRing) /\ rxPoll = None /\ UNCHANGED <<rxPoll, rxTime, rxTold>>
    BY <1>5 DEF Stamps!RxPasses
  <2>. QED BY <1>4, <2>1 DEF Timed
<1>6. CASE Stamps!RxLooks
  <2>1. /\ rxRing # <<>> /\ rxRing' = Tail(rxRing) /\ rxPoll = None /\ UNCHANGED <<rxTime, rxTold>>
        /\ Timed(Head(rxRing)) /\ rxPoll' = Head(rxRing).frame
    BY <1>6 DEF Stamps!RxLooks, Stamps!HasTime, Timed
  <2>2. rxTime.valid /\ rxTime.of = rxPoll'
    BY <1>4, <2>1
  <2>3. \A i \in DOMAIN rxRing' : ~Timed(rxRing'[i])
    BY <1>4, <2>1
  <2>. QED BY <2>1, <2>2, <2>3 DEF Timed
<1>7. CASE Stamps!RxReads
  <2>1. /\ rxPoll # None /\ rxPoll' = None /\ rxTold' = rxTold \cup {<<rxPoll, rxTime.of>>}
        /\ rxTime.of = rxPoll /\ UNCHANGED rxRing
        /\ \A i \in DOMAIN rxRing : ~Timed(rxRing[i])
    BY <1>7 DEF Stamps!RxReads
  <2>. QED BY <2>1 DEF Timed
<1>8. CASE Stamps!WatchdogClears \/ \E c \in [tx : TxTypes, rx : Filters] : Stamps!SetHwtstamp(c)
  <2>1. rxPoll = None /\ \A i \in DOMAIN rxRing : ~Timed(rxRing[i])
    BY <1>8, NobodyWaits DEF Stamps!WatchdogClears, Stamps!SetHwtstamp
  <2>2. UNCHANGED <<rxPoll, rxRing, rxTold>>
    BY <1>8 DEF Stamps!WatchdogClears, Stamps!SetHwtstamp
  <2>. QED BY <2>1, <2>2 DEF Timed
<1>9. CASE Stamps!Reset \/ Stamps!RemoveUnregisters
  <2>1. rxRing' = <<>> /\ rxPoll = None /\ UNCHANGED <<rxPoll, rxTold>>
    BY <1>9 DEF Stamps!Reset, Stamps!RemoveUnregisters
  <2>. QED BY <2>1
<1>. QED BY <1>2, <1>3, <1>5, <1>6, <1>7, <1>8, <1>9 DEF Stamps!Next
-----------------------------------------------------------------------------
LEMMA SetStarts == ASSUME Stamps!Init PROVE SetInv
BY DEF Stamps!Init, SetInv, Stamps!Off, Stamps!TsyncOff, Stamps!Valid, Stamps!Supported,
       Stamps!Widened, Stamps!Written, Stamps!Returned

LEMMA SetStays ==
  ASSUME SetInv, [Stamps!Next]_(Stamps!vars)
  PROVE  SetInv'
<1>. USE DEF SetInv
<1>1. CASE UNCHANGED <<told, cfg, tsync>>
  BY <1>1 DEF Stamps!Valid, Stamps!Written
<1>2. CASE \E c \in [tx : TxTypes, rx : Filters] : Stamps!SetRejected(c) \/ Stamps!SetRefused(c)
  BY <1>2 DEF Stamps!SetRejected, Stamps!SetRefused, Stamps!Told
<1>3. ASSUME NEW c \in [tx : TxTypes, rx : Filters], Stamps!SetHwtstamp(c) PROVE SetInv'
  <2>1. told'.asked = c /\ told'.ok /\ told'.answer = Stamps!Returned(c.rx)
    BY <1>3 DEF Stamps!SetHwtstamp, Stamps!Told
  <2>2. Stamps!Valid(c) /\ cfg' = Stamps!Stored(c) /\ tsync' = Stamps!Written(c)
    BY <1>3 DEF Stamps!SetHwtstamp
  <2>3. cfg'.tx = c.tx /\ cfg'.rx = Stamps!Widened(c.rx)
    BY <2>2, StoredTyped
  <2>. QED BY <2>1, <2>2, <2>3
<1>4. CASE Stamps!Reset
  <2>1. UNCHANGED <<told, cfg>> /\ tsync' = Stamps!Written(cfg)
    BY <1>4 DEF Stamps!Reset
  <2>2. told.ok => tsync' = Stamps!Written(told.asked)
    BY <2>1, IsWidened DEF Stamps!Written, Stamps!Valid
  <2>. QED BY <2>1, <2>2
<1>5. CASE \/ UNCHANGED Stamps!vars
           \/ Stamps!XmitStart \/ Stamps!XmitMarks \/ Stamps!XmitSkips \/ Stamps!HwSend
           \/ Stamps!WorkReads \/ Stamps!WorkTells \/ Stamps!WorkTimesOut
           \/ Stamps!HwReceive \/ Stamps!RxPasses \/ Stamps!RxLooks \/ Stamps!RxReads
           \/ Stamps!WatchdogLooks \/ Stamps!WatchdogClears
           \/ Stamps!RemoveDown \/ Stamps!RemoveCancels \/ Stamps!RemoveUnregisters
  BY <1>1, <1>5 DEF Stamps!vars, Stamps!settings, Stamps!XmitStart, Stamps!XmitMarks,
       Stamps!XmitSkips, Stamps!HwSend, Stamps!WorkReads, Stamps!WorkTells, Stamps!WorkTimesOut,
       Stamps!HwReceive, Stamps!RxPasses, Stamps!RxLooks, Stamps!RxReads, Stamps!WatchdogLooks,
       Stamps!WatchdogClears, Stamps!RemoveDown, Stamps!RemoveCancels, Stamps!RemoveUnregisters
<1>. QED BY <1>2, <1>3, <1>4, <1>5 DEF Stamps!Next

(* A call that succeeded got what it asked for, and was told what that is. *)
LEMMA SetAnswers == ASSUME SetInv PROVE Stamps!AnswerIsTrue
BY TakesAsked DEF SetInv, Stamps!AnswerIsTrue, Stamps!Valid, Stamps!Written
-----------------------------------------------------------------------------
(* Whatever clears or delays a time, the stamps have their types. *)
THEOREM StampsTyped ==
  ASSUME Stamps!Assumption PROVE Stamps!Spec => []Stamps!TypeOK
<1>1. Stamps!Init => StampTypes
  BY StampTypesStart
<1>2. StampTypes /\ [Stamps!Next]_(Stamps!vars) => StampTypes'
  BY StampTypesStays
<1>3. StampTypes => Stamps!TypeOK
  BY DEF StampTypes
<1>. QED BY <1>1, <1>2, <1>3, PTL DEF Stamps!Spec

(* The call that sets time stamping up is answered with what the controller     *)
(* does from then on, whatever filter it asks for and whatever resets come.      *)
THEOREM AnswersTrue == Stamps!Spec => []Stamps!AnswerIsTrue
<1>1. Stamps!Init => SetInv
  BY SetStarts
<1>2. SetInv /\ [Stamps!Next]_(Stamps!vars) => SetInv'
  BY SetStays
<1>3. SetInv => Stamps!AnswerIsTrue
  BY SetAnswers
<1>. QED BY <1>1, <1>2, <1>3, PTL DEF Stamps!Spec

(* For any number of packets and any frames: one packet is marked, the time told *)
(* of a packet is its own, and a removed adapter keeps neither packet nor work.   *)
THEOREM SentTimes ==
  ASSUME Stamps!Assumption, ~Slow, ~LateXmit
  PROVE  Stamps!Spec => [](/\ Stamps!OneIsMarked /\ Stamps!NothingIsLeft
                           /\ \A pair \in txTold : pair[1] = pair[2])
<1>1. Stamps!Init => StampTypes /\ TxInv
  BY StampTypesStart, TxStarts
<1>2. StampTypes /\ TxInv /\ [Stamps!Next]_(Stamps!vars) => (StampTypes /\ TxInv)'
  BY StampTypesStays, TxStays
<1>3. TxInv => /\ Stamps!OneIsMarked /\ Stamps!NothingIsLeft
               /\ \A pair \in txTold : pair[1] = pair[2]
  BY DEF TxInv, Stamps!NothingIsLeft
<1>. QED BY <1>1, <1>2, <1>3, PTL DEF Stamps!Spec

(* And each time told, of a packet or of a frame, is the time of that one, as long *)
(* as no clear comes between a frame and its time.                                *)
THEOREM TimesAreRight ==
  ASSUME Stamps!Assumption, ~Slow, ~LateXmit, ~Overlap
  PROVE  Stamps!Spec => []Stamps!TimesAreTheirs
<1>1. Stamps!Init => StampTypes /\ TxInv /\ RxInv
  BY StampTypesStart, TxStarts, RxStarts
<1>2. StampTypes /\ TxInv /\ RxInv /\ [Stamps!Next]_(Stamps!vars) => (StampTypes /\ TxInv /\ RxInv)'
  BY StampTypesStays, TxStays, RxStays
<1>3. TxInv /\ RxInv => Stamps!TimesAreTheirs
  BY DEF TxInv, RxInv, Stamps!TimesAreTheirs
<1>. QED BY <1>1, <1>2, <1>3, PTL DEF Stamps!Spec
-----------------------------------------------------------------------------
(* The self-tests that raise interrupts and send frames to themselves: SelfTest. *)

CONSTANTS Tested, Untested, RxSeq, Lsc, LinkChanges, Count, Batch, Laps, TestMayFail,
          BreaksLate, OldFrames, Cable
VARIABLES testAt, test, verdict, fault, ich, sharedInt, icrBits, testIms, test_icr, cause,
          testStep, heap, bad, misfreed, stray, loop, content, testReg, pos

Test == INSTANCE SelfTest WITH at <- testAt, shared <- sharedInt, ims <- testIms,
          step <- testStep, icr <- icrBits, MayFail <- TestMayFail, reg <- testReg

Mute(c) == fault.kind = "mute" /\ fault.of = c
Undisturbed ==
  fault.kind \in {"none", "mute"} \/ (fault.kind = "cross" /\ ~Test!Looked(fault.of))

(* Which test is on. *)
TestTypes ==
  /\ fault \in Test!Faults /\ ich \in BOOLEAN /\ sharedInt \in BOOLEAN
  /\ cause \in 0 .. Tested - 1 /\ testStep \in {"mask", "post", "others"}
  /\ test = "none" <=> testAt = "idle"
  /\ testAt \in {"try", "look"} => test = "intr"
  /\ test = "intr" => testAt \in {"try", "look", "done"}
  /\ testAt \in {"idle", "try", "look", "setup"} => verdict = 0

(* What waits in ICR is masked, or mute; what is enabled has been looked at. *)
IcrQuiet == \A c \in icrBits \cap testIms : Mute(c)
EnabledLooked ==
  /\ testAt \notin {"try", "look"} => testIms = {}
  /\ \A c \in testIms : Test!Looked(c) /\ c \in Nat /\ c <= cause

(* A fault that can be found is not yet behind. *)
Ahead ==
  /\ fault.kind = "mute" /\ Test!Looked(fault.of) =>
       cause <= fault.of /\ (cause = fault.of => testStep # "others")
  /\ fault.kind = "leaky" /\ ~sharedInt =>
       /\ cause = 0 \/ (cause = 1 /\ ich /\ RxSeq = 0)
       /\ cause = fault.of => testStep = "mask"
  /\ fault.kind = "cross" /\ ~sharedInt /\ Test!Looked(fault.of) => cause <= fault.of

Stage ==
  testAt \in {"try", "look"} =>
    /\ sharedInt => testStep = "post"
    /\ ~Test!Looked(cause) => testAt = "try" /\ testStep = Test!FirstStep
    /\ testStep = "others" \/ (testStep = "post" /\ testAt = "look") => cause \in testIms
    /\ Ahead

(* What the handler has seen when the test looks. *)
Seen ==
  testAt = "look" =>
    /\ testStep = "mask" =>
         /\ Undisturbed => cause \notin test_icr
         /\ fault.kind = "leaky" /\ fault.of = cause => cause \in test_icr
    /\ testStep = "post" => (cause \in test_icr <=> ~Mute(cause))
    /\ testStep = "others" =>
         /\ Undisturbed => test_icr = {}
         /\ fault.kind = "leaky" /\ fault.of # cause => test_icr # {}
         /\ fault.kind = "cross" /\ fault.of = cause => test_icr # {}

(* The loop of e1000_loopback_test, and the places in its rings. *)
LoopTypes ==
  /\ loop \in {"good", "broken"}
  /\ testReg \in [tdh : Test!Slot, tdt : Test!Slot, rdh : Test!Slot, rdt : Test!Slot, rx : BOOLEAN]
  /\ pos \in [j : Nat, k : Test!Slot, l : Test!Slot, good : Nat, looks : Nat]
  /\ content \in [Test!Slot -> {"zero", "frame"}]
  /\ testAt \in {"setup", "failed", "send", "wait", "cleanup", "open", "freed"} => test = "loopback"
  /\ testAt \in {"send", "wait"} => verdict = 0 /\ (pos.j = 0 => testReg.rdt = Count - 1)
  /\ testAt = "failed" => verdict \notin {0, 13}

(* Until the first round the rings are at their start and no buffer holds a frame. *)
LoopStart ==
  testAt \in {"idle", "setup"} \/ (testAt = "send" /\ pos.j = 0) =>
    /\ testReg.tdh = 0 /\ testReg.tdt = 0 /\ testReg.rdh = 0
    /\ pos.j = 0 /\ pos.k = 0
    /\ \A s \in Test!Slot : content[s] = "zero"

(* A loop that is broken: nothing comes, in no round. *)
LoopBroken ==
  loop = "broken" /\ testAt \in {"send", "wait"} =>
    /\ pos.j = 0 /\ \A s \in Test!Slot : content[s] = "zero"
    /\ testAt = "wait" => pos.good = 0

(* A good one: the first round fills as many buffers as every later one counts. *)
Filled(n) == \A s \in Test!Slot : s < n => content[s] = "frame"
Filling ==
  loop = "good" /\ testAt \in {"send", "wait"} =>
    /\ pos.j # 0 => Filled(Batch)
    /\ testAt = "wait" /\ pos.j = 0 =>
         /\ testReg.rdh = testReg.tdh /\ testReg.tdh <= Batch /\ testReg.tdt = Batch
         /\ Filled(testReg.tdh)

(* How many of n slots from a slot on, with a wrap, are below Batch. *)
Met(from, n) ==
  (IF from + n <= Batch THEN n ELSE IF from < Batch THEN Batch - from ELSE 0)
  + (IF from + n <= Count THEN 0 ELSE IF from + n - Count <= Batch THEN from + n - Count ELSE Batch)
Counting ==
  loop = "good" /\ testAt = "wait" =>
    /\ pos.looks # 0 => testReg.tdh = testReg.tdt
    /\ pos.good <= pos.looks /\ pos.looks <= Count
    /\ \E from \in Test!Slot : /\ pos.l \in {from + pos.looks, from + pos.looks - Count}
                              /\ pos.good >= Met(from, pos.looks)

LoopEnd ==
  test = "loopback" /\ testAt \in {"cleanup", "open", "freed", "done"} /\ verdict \in {0, 13} =>
    (verdict = 0) = (loop = "good")

LoopInv == LoopTypes /\ LoopStart /\ LoopBroken /\ Filling /\ Counting /\ LoopEnd

IntrInv == TestTypes /\ IcrQuiet /\ EnabledLooked /\ Stage /\ Seen /\ Test!InterruptVerdict
-----------------------------------------------------------------------------
LEMMA FaultTyped ==
  ASSUME Test!Assumption, fault \in Test!Faults
  PROVE  /\ fault.kind \in {"none", "mute", "leaky", "cross"}
         /\ fault.of \in Test!Cause /\ fault.with \in Test!Cause
         /\ fault.of \in Nat /\ fault.with \in Nat
         /\ fault.kind = "cross" => fault.with # fault.of
BY DEF Test!Faults, Test!Fault, Test!Cause, Test!Assumption

LEMMA IntrStarts == ASSUME Test!Assumption, Test!Init PROVE IntrInv
<1>1. /\ testAt = "idle" /\ test = "none" /\ verdict = 0 /\ sharedInt = FALSE /\ cause = 0
      /\ testStep = "mask" /\ testIms = {} /\ fault \in Test!Faults /\ ich \in BOOLEAN
  BY DEF Test!Init
<1>2. cause \in 0 .. Tested - 1
  BY <1>1 DEF Test!Assumption
<1>. QED BY <1>1, <1>2
         DEF IntrInv, TestTypes, IcrQuiet, EnabledLooked, Stage, Seen, Test!InterruptVerdict

(* What the handler sees once causes were raised, and what stays in ICR. *)
LEMMA Answered ==
  ASSUME NEW cs, NEW enabled, NEW seen, Test!Answer(cs, enabled, seen)
  PROVE  /\ \A c \in icrBits' \cap enabled : Mute(c)
         /\ (\E c \in icrBits \cup Test!Raised(cs) :
               (fault.kind = "leaky" /\ fault.of = c) \/ (c \in enabled /\ ~Mute(c)))
              => test_icr' = seen \cup icrBits \cup Test!Raised(cs)
         /\ (\A c \in icrBits \cup Test!Raised(cs) :
               ~(fault.kind = "leaky" /\ fault.of = c) /\ (c \in enabled => Mute(c)))
              => test_icr' = seen
         /\ test_icr' \in {seen, seen \cup icrBits \cup Test!Raised(cs)}
BY DEF Test!Answer, Test!Interrupts, Mute

(* None of this depends on what an answer changes. *)
LEMMA SameCard ==
  ASSUME UNCHANGED <<fault, ich>>
  PROVE  /\ \A c : Mute(c)' <=> Mute(c)
         /\ \A c : Test!Looked(c)' <=> Test!Looked(c)
         /\ Undisturbed' <=> Undisturbed
BY DEF Mute, Test!Looked, Undisturbed

(* Each of the three steps of an iteration raises causes and leaves to look. *)
LEMMA TriesMask ==
  ASSUME Test!Assumption, IntrInv, Test!TryMask PROVE IntrInv'
<1>. USE DEF Test!Assumption, IntrInv
<1>1. /\ testAt = "try" /\ testStep = "mask" /\ testAt' = "look" /\ testIms' = testIms \ {cause}
      /\ UNCHANGED <<test, verdict, fault, ich, sharedInt, cause, testStep>>
      /\ Test!Looked(cause)
  BY DEF Test!TryMask, Test!Looked, TestTypes
<1>2. Test!Answer({cause}, testIms \ {cause}, {})
  BY DEF Test!TryMask
<1>3. IcrQuiet'
  BY <1>1, <1>2, Answered, SameCard DEF IcrQuiet
<1>4. Undisturbed => cause \notin test_icr'
  <2>1. SUFFICES ASSUME Undisturbed PROVE test_icr' = {}
    OBVIOUS
  <2>2. \A c \in icrBits \cup Test!Raised({cause}) : c \in testIms \ {cause} => Mute(c)
    BY <2>1, FaultTyped DEF Test!Raised, Undisturbed, IcrQuiet, EnabledLooked, TestTypes
  <2>3. fault.kind # "leaky"
    BY <2>1 DEF Undisturbed
  <2>. QED BY <1>2, <2>2, <2>3, Answered
<1>5. fault.kind = "leaky" /\ fault.of = cause => cause \in test_icr'
  BY <1>2, Answered DEF Test!Raised
<1>6. TestTypes' /\ EnabledLooked'
  BY <1>1, SameCard DEF TestTypes, EnabledLooked
<1>7. Ahead'
  BY <1>1 DEF Stage, Ahead, Test!Looked
<1>8. Stage'
  BY <1>1, <1>7, SameCard DEF Stage, Test!FirstStep
<1>9. Seen'
  BY <1>1, <1>4, <1>5, SameCard DEF Seen
<1>. QED BY <1>1, <1>3, <1>6, <1>8, <1>9 DEF Test!InterruptVerdict

LEMMA TriesPost ==
  ASSUME Test!Assumption, IntrInv, Test!TryPost PROVE IntrInv'
<1>. USE DEF Test!Assumption, IntrInv
<1>1. /\ testAt = "try" /\ testStep = "post" /\ testAt' = "look" /\ testIms' = testIms \cup {cause}
      /\ UNCHANGED <<test, verdict, fault, ich, sharedInt, cause, testStep>>
      /\ Test!Looked(cause)
  BY DEF Test!TryPost, Test!Looked, TestTypes
<1>2. Test!Answer({cause}, testIms \cup {cause}, {})
  BY DEF Test!TryPost
<1>3. IcrQuiet'
  BY <1>1, <1>2, Answered, SameCard DEF IcrQuiet
<1>4. cause \in test_icr' <=> ~Mute(cause)
  <2>1. ~Mute(cause) => cause \in test_icr'
    BY <1>2, Answered DEF Test!Raised
  <2>2. ASSUME Mute(cause) PROVE test_icr' = {}
    <3>1. \A c \in icrBits \cup Test!Raised({cause}) : c \in testIms \cup {cause} => Mute(c)
      BY <2>2 DEF Test!Raised, Mute, IcrQuiet
    <3>2. fault.kind # "leaky"
      BY <2>2 DEF Mute
    <3>. QED BY <1>2, <3>1, <3>2, Answered
  <2>. QED BY <2>1, <2>2
<1>6. TestTypes' /\ EnabledLooked'
  BY <1>1, SameCard DEF TestTypes, EnabledLooked
<1>7. Ahead'
  BY <1>1 DEF Stage, Ahead, Test!Looked
<1>8. Stage'
  BY <1>1, <1>7, SameCard DEF Stage, Test!FirstStep
<1>9. Seen'
  BY <1>1, <1>4, SameCard DEF Seen
<1>. QED BY <1>1, <1>3, <1>6, <1>8, <1>9 DEF Test!InterruptVerdict

LEMMA TriesOthers ==
  ASSUME Test!Assumption, IntrInv, Test!TryOthers PROVE IntrInv'
<1>. USE DEF Test!Assumption, IntrInv
<1>1. /\ testAt = "try" /\ testStep = "others" /\ testAt' = "look"
      /\ testIms' = testIms \ Test!Others /\ cause \in testIms
      /\ UNCHANGED <<test, verdict, fault, ich, sharedInt, cause, testStep>>
      /\ Test!Looked(cause)
  BY DEF Test!TryOthers, Stage, EnabledLooked
<1>2. Test!Answer(Test!Others, testIms \ Test!Others, {})
  BY DEF Test!TryOthers
<1>0. Test!Others = Test!Cause \ {cause} /\ cause \in Test!Cause
  BY DEF Test!Others, Test!Cause, TestTypes
<1>3. IcrQuiet'
  BY <1>1, <1>2, Answered, SameCard DEF IcrQuiet
<1>a. /\ fault.of \in Test!Cause /\ fault.with \in Test!Cause
      /\ fault.kind = "cross" => fault.with # fault.of
  BY FaultTyped DEF TestTypes
<1>4. Undisturbed => test_icr' = {}
  <2>1. SUFFICES ASSUME Undisturbed PROVE test_icr' = {}
    OBVIOUS
  <2>2. \A c \in icrBits \cup Test!Raised(Test!Others) : c \in testIms \ Test!Others => Mute(c)
    <3>1. \A c \in testIms : c \in Test!Cause
      BY DEF EnabledLooked, Test!Looked, Test!Cause
    <3>. QED BY <1>0, <2>1, <3>1 DEF Test!Raised, Undisturbed, IcrQuiet, EnabledLooked
  <2>3. fault.kind # "leaky"
    BY <2>1 DEF Undisturbed
  <2>. QED BY <1>2, <2>2, <2>3, Answered
<1>5. fault.kind = "leaky" /\ fault.of # cause => test_icr' # {}
  <2>1. SUFFICES ASSUME fault.kind = "leaky", fault.of # cause PROVE fault.of \in test_icr'
    OBVIOUS
  <2>2. fault.of \in Test!Raised(Test!Others)
    BY <1>0, <1>a, <2>1 DEF Test!Raised
  <2>. QED BY <1>2, <2>1, <2>2, Answered
<1>6. fault.kind = "cross" /\ fault.of = cause => test_icr' # {}
  <2>1. SUFFICES ASSUME fault.kind = "cross", fault.of = cause PROVE cause \in test_icr'
    OBVIOUS
  <2>2. cause \in Test!Raised(Test!Others) /\ cause \in testIms \ Test!Others /\ ~Mute(cause)
    BY <1>0, <1>1, <1>a, <2>1 DEF Test!Raised, Mute
  <2>. QED BY <1>2, <2>2, Answered
<1>7. TestTypes' /\ EnabledLooked'
  BY <1>1, SameCard DEF TestTypes, EnabledLooked
<1>8. Ahead'
  BY <1>1 DEF Stage, Ahead, Test!Looked
<1>9. Stage'
  BY <1>0, <1>1, <1>8, SameCard DEF Stage, Test!FirstStep
<1>10. Seen'
  BY <1>1, <1>4, <1>5, <1>6, SameCard DEF Seen
<1>. QED BY <1>1, <1>3, <1>7, <1>9, <1>10 DEF Test!InterruptVerdict

(* With LSC masked a change of the link adds nothing that is looked for. *)
LEMMA LinkChangesMasked ==
  ASSUME Test!Assumption, ~LinkChanges, IntrInv, Test!LinkChange PROVE IntrInv'
<1>. USE DEF Test!Assumption, IntrInv
<1>1. /\ testAt = "look" /\ Lsc \notin testIms
      /\ UNCHANGED <<testAt, test, verdict, fault, ich, sharedInt, testIms, cause, testStep>>
  BY DEF Test!LinkChange
<1>2. Test!Answer({Lsc}, testIms, test_icr)
  BY DEF Test!LinkChange
<1>3. IcrQuiet'
  BY <1>1, <1>2, Answered, SameCard DEF IcrQuiet
<1>4. test_icr \subseteq test_icr'
  BY <1>2, Answered
<1>5. Undisturbed => test_icr' = test_icr
  <2>1. SUFFICES ASSUME Undisturbed PROVE test_icr' = test_icr
    OBVIOUS
  <2>2. \A c \in icrBits \cup Test!Raised({Lsc}) : c \in testIms => Mute(c)
    BY <1>1, <2>1 DEF Test!Raised, Undisturbed, IcrQuiet, EnabledLooked
  <2>3. fault.kind # "leaky"
    BY <2>1 DEF Undisturbed
  <2>. QED BY <1>2, <2>2, <2>3, Answered
<1>6. Mute(cause) => Undisturbed
  BY DEF Mute, Undisturbed
<1>7. TestTypes' /\ EnabledLooked'
  BY <1>1, SameCard DEF TestTypes, EnabledLooked
<1>8. Ahead'
  BY <1>1 DEF Stage, Ahead, Test!Looked
<1>9. Stage'
  BY <1>1, <1>8, SameCard DEF Stage, Test!FirstStep
<1>10. Seen'
  BY <1>1, <1>4, <1>5, <1>6, SameCard DEF Seen
<1>. QED BY <1>1, <1>3, <1>7, <1>9, <1>10 DEF Test!InterruptVerdict

(* On to the next cause, or to the end: what has to be found is still ahead. *)
LEMMA CauseGoesOn ==
  ASSUME Test!Assumption, IntrInv, testAt \in {"try", "look"}, Test!NextCause,
         UNCHANGED <<test, fault, ich, sharedInt, icrBits, test_icr>>,
         fault.kind = "mute" /\ Test!Looked(fault.of) => cause # fault.of,
         fault.kind = "leaky" /\ ~sharedInt => cause = 0 /\ ich /\ RxSeq = 0,
         fault.kind = "cross" /\ ~sharedInt /\ Test!Looked(fault.of) => cause # fault.of
  PROVE  IntrInv'
<1>. USE DEF Test!Assumption, IntrInv
<1>0. cause \in Nat /\ fault.of \in Nat /\ fault.kind \in {"none", "mute", "leaky", "cross"}
  BY FaultTyped DEF TestTypes
<1>1. CASE cause + 1 < Tested
  <2>1. /\ cause' = cause + 1 /\ testStep' = Test!FirstStep /\ testAt' = "try"
        /\ UNCHANGED <<verdict, testIms>>
    BY <1>1 DEF Test!NextCause
  <2>2. TestTypes'
    BY <1>0, <1>1, <2>1 DEF TestTypes, Test!FirstStep
  <2>3. IcrQuiet' /\ Seen' /\ Test!InterruptVerdict'
    BY <2>1, SameCard DEF IcrQuiet, Seen, Test!InterruptVerdict
  <2>4. EnabledLooked'
    BY <1>0, <2>1, SameCard DEF EnabledLooked
  <2>5. Ahead'
    BY <1>0, <2>1, SameCard DEF Stage, Ahead, Test!FirstStep
  <2>6. Stage'
    BY <2>1, <2>5, SameCard DEF Stage, Test!FirstStep
  <2>. QED BY <2>2, <2>3, <2>4, <2>5, <2>6
<1>2. CASE ~(cause + 1 < Tested)
  <2>1. /\ testAt' = "done" /\ verdict' = 0 /\ testIms' = {} /\ UNCHANGED <<cause, testStep>>
    BY <1>2 DEF Test!NextCause, Test!EndIntr
  <2>2. cause = Tested - 1
    BY <1>0, <1>2 DEF TestTypes
  <2>3. ~Test!Detectable
    BY <1>0, <2>2 DEF Test!Detectable, Stage, Ahead, Test!Looked
  <2>4. Test!Detectable' = FALSE
    BY <1>0, <2>3 DEF Test!Detectable, Test!Looked
  <2>5. TestTypes'
    BY <2>1 DEF TestTypes
  <2>6. IcrQuiet' /\ EnabledLooked' /\ Stage' /\ Seen'
    BY <2>1 DEF IcrQuiet, EnabledLooked, Stage, Seen
  <2>7. Test!InterruptVerdict'
    BY <2>1, <2>4 DEF Test!InterruptVerdict
  <2>. QED BY <2>5, <2>6, <2>7
<1>. QED BY <1>1, <1>2

LEMMA Skips ==
  ASSUME Test!Assumption, IntrInv, Test!Skip PROVE IntrInv'
<1>1. /\ testAt = "try" /\ ich /\ cause = RxSeq /\ testStep = Test!FirstStep /\ Test!NextCause
      /\ UNCHANGED <<test, fault, ich, sharedInt, icrBits, test_icr>> /\ ~Test!Looked(cause)
  BY DEF Test!Skip, Test!Looked
<1>. QED BY <1>1, CauseGoesOn DEF IntrInv, Stage, Ahead

LEMMA Passes ==
  ASSUME Test!Assumption, IntrInv, Test!LookPasses PROVE IntrInv'
<1>. USE DEF Test!Assumption, IntrInv
<1>0. /\ testAt = "look" /\ Test!Code = 0 /\ testStep \in {"mask", "post", "others"}
      /\ UNCHANGED <<test, fault, ich, sharedInt, icrBits, test_icr>> /\ Test!Looked(cause)
      /\ cause \in Nat
  BY DEF Test!LookPasses, Stage, TestTypes
<1>1. /\ testStep = "mask" => cause \notin test_icr
      /\ testStep = "post" => cause \in test_icr
      /\ testStep = "others" => test_icr = {}
  BY <1>0 DEF Test!Code
<1>2. CASE sharedInt \/ testStep = "others"
  <2>1. Test!NextCause
    BY <1>2 DEF Test!LookPasses
  <2>2. fault.kind = "mute" /\ Test!Looked(fault.of) => cause # fault.of
    BY <1>0, <1>1, <1>2 DEF Stage, Ahead, Seen, Mute
  <2>3. fault.kind = "leaky" /\ ~sharedInt => cause = 0 /\ ich /\ RxSeq = 0
    BY <1>0, <1>1, <1>2 DEF Stage, Ahead, Seen
  <2>4. fault.kind = "cross" /\ ~sharedInt /\ Test!Looked(fault.of) => cause # fault.of
    BY <1>0, <1>1, <1>2 DEF Stage, Ahead, Seen
  <2>. QED BY <1>0, <2>1, <2>2, <2>3, <2>4, CauseGoesOn
<1>3. CASE ~(sharedInt \/ testStep = "others")
  <2>1. /\ testStep' = IF testStep = "mask" THEN "post" ELSE "others"
        /\ testAt' = "try" /\ UNCHANGED <<cause, verdict, testIms>>
    BY <1>3 DEF Test!LookPasses
  <2>2. TestTypes'
    BY <1>0, <2>1 DEF TestTypes
  <2>3. IcrQuiet' /\ Seen' /\ EnabledLooked' /\ Test!InterruptVerdict'
    BY <1>0, <2>1, SameCard DEF IcrQuiet, Seen, EnabledLooked, Test!InterruptVerdict
  <2>4. Ahead'
    BY <1>0, <1>1, <1>3, <2>1, SameCard DEF Stage, Ahead, Seen, Mute
  <2>5. testStep' = "others" => cause \in testIms
    BY <1>0, <1>3, <2>1 DEF Stage
  <2>. QED BY <1>0, <1>3, <2>1, <2>2, <2>3, <2>4, <2>5, SameCard DEF Stage
<1>. QED BY <1>2, <1>3

LEMMA Fails ==
  ASSUME Test!Assumption, IntrInv, Test!LookFails PROVE IntrInv'
<1>. USE DEF Test!Assumption, IntrInv
<1>0. /\ testAt = "look" /\ Test!Code # 0 /\ testStep \in {"mask", "post", "others"}
      /\ testAt' = "done" /\ verdict' = Test!Code /\ testIms' = {}
      /\ UNCHANGED <<test, fault, ich, sharedInt, icrBits, test_icr, cause, testStep>>
      /\ Test!Looked(cause) /\ test = "intr"
  BY DEF Test!LookFails, Test!EndIntr, Stage, TestTypes
<1>1. /\ testStep = "mask" => cause \in test_icr
      /\ testStep = "post" => cause \notin test_icr
      /\ testStep = "others" => test_icr # {}
  BY <1>0 DEF Test!Code
<1>2. fault.kind \in {"none", "mute", "leaky", "cross"}
  BY FaultTyped DEF TestTypes
<1>3. Test!Detectable
  <2>1. CASE testStep = "post"
    BY <1>0, <1>1, <2>1 DEF Seen, Mute, Test!Detectable
  <2>2. CASE testStep # "post"
    <3>1. ~sharedInt /\ ~Undisturbed
      BY <1>0, <1>1, <2>2 DEF Seen, Stage
    <3>. QED BY <1>2, <3>1 DEF Undisturbed, Test!Detectable
  <2>. QED BY <2>1, <2>2
<1>4. Test!Detectable'
  BY <1>0, <1>3 DEF Test!Detectable, Test!Looked
<1>. QED BY <1>0, <1>4 DEF TestTypes, IcrQuiet, EnabledLooked, Stage, Seen, Test!InterruptVerdict

LEMMA Begins ==
  ASSUME Test!Assumption, IntrInv, \E how \in {"own", "shared"} : Test!BeginIntr(how)
  PROVE  IntrInv'
<1>. USE DEF Test!Assumption, IntrInv
<1>1. /\ testAt = "idle" /\ testAt' = "try" /\ test' = "intr" /\ sharedInt' \in BOOLEAN
      /\ testIms' = {} /\ cause' = 0 /\ testStep' = IF sharedInt' THEN "post" ELSE "mask"
      /\ UNCHANGED <<verdict, fault, ich>>
  BY DEF Test!BeginIntr
<1>2. fault.kind \in {"none", "mute", "leaky", "cross"} /\ fault.of \in Nat
  BY FaultTyped DEF TestTypes
<1>3. Test!Looked(0) => ~(ich /\ RxSeq = 0)
  BY DEF Test!Looked
<1>4. Ahead'
  BY <1>1, <1>2 DEF Ahead
<1>5. Stage'
  BY <1>1, <1>4, SameCard DEF Stage, Test!FirstStep
<1>6. TestTypes'
  BY <1>1 DEF TestTypes
<1>. QED BY <1>1, <1>5, <1>6 DEF IcrQuiet, EnabledLooked, Seen, Test!InterruptVerdict

(* Outside e1000_intr_test its variables stay, and so does what is known of them. *)
LEMMA ElsewhereQuiet ==
  ASSUME IntrInv, UNCHANGED Test!intr, testAt \notin {"try", "look"},
         testAt' \notin {"try", "look"}, TestTypes', Test!InterruptVerdict'
  PROVE  IntrInv'
BY SameCard DEF IntrInv, IcrQuiet, EnabledLooked, Stage, Seen, Test!intr

LEMMA IntrStays ==
  ASSUME Test!Assumption, ~LinkChanges, IntrInv, [Test!Next]_(Test!vars) PROVE IntrInv'
<1>1. CASE UNCHANGED Test!vars
  <2>1. /\ UNCHANGED <<testAt, test, verdict, fault, ich, sharedInt, icrBits, testIms, test_icr>>
        /\ UNCHANGED <<cause, testStep>>
    BY <1>1 DEF Test!vars, Test!intr
  <2>2. TestTypes' /\ IcrQuiet' /\ EnabledLooked' /\ Seen'
    BY <2>1, SameCard DEF IntrInv, TestTypes, IcrQuiet, EnabledLooked, Seen
  <2>3. Stage'
    BY <2>1, SameCard DEF IntrInv, Stage, Ahead, Test!FirstStep
  <2>4. Test!InterruptVerdict'
    BY <2>1 DEF IntrInv, Test!InterruptVerdict, Test!Detectable, Test!Looked
  <2>. QED BY <2>2, <2>3, <2>4 DEF IntrInv
<1>2. CASE Test!NoHandler \/ Test!BeginLoopback
  <2>1. TestTypes' /\ UNCHANGED Test!intr /\ testAt = "idle" /\ testAt' \in {"done", "setup"}
    BY <1>2 DEF IntrInv, TestTypes, Test!intr, Test!NoHandler, Test!BeginLoopback
  <2>2. Test!InterruptVerdict'
    BY <1>2 DEF Test!InterruptVerdict, Test!NoHandler, Test!BeginLoopback
  <2>. QED BY <2>1, <2>2, ElsewhereQuiet
<1>3. CASE \/ Test!Allocate \/ Test!AllocateFails \/ Test!AllocateUndone
           \/ Test!SetupLoopback \/ Test!SetupLoopbackFails
           \/ Test!Send \/ Test!HwLoops \/ Test!LoopBreaks \/ Test!CheckFrame
           \/ Test!RoundPasses \/ Test!RoundFails
           \/ Test!Cleanup \/ Test!FreeRings \/ Test!ResetAdapter \/ Test!CableFrame
  <2>1. /\ testAt \notin {"idle", "try", "look", "done"} /\ testAt' \notin {"idle", "try", "look"}
        /\ UNCHANGED Test!intr /\ UNCHANGED test
        /\ testAt' = "setup" => UNCHANGED <<testAt, verdict>>
    BY <1>3 DEF Test!Allocate, Test!AllocateFails, Test!AllocateUndone, Test!SetupLoopback,
         Test!SetupLoopbackFails, Test!Send, Test!HwLoops, Test!LoopBreaks, Test!CheckFrame,
         Test!RoundPasses, Test!RoundFails, Test!Cleanup, Test!FreeRings, Test!ResetAdapter,
         Test!CableFrame
  <2>2. test # "intr" /\ TestTypes' /\ test' # "intr"
    BY <2>1 DEF IntrInv, TestTypes, Test!intr
  <2>3. Test!InterruptVerdict'
    BY <2>2 DEF Test!InterruptVerdict
  <2>. QED BY <2>1, <2>2, <2>3, ElsewhereQuiet
<1>. QED BY <1>1, <1>2, <1>3, TriesMask, TriesPost, TriesOthers, LinkChangesMasked, Skips, Passes,
            Fails, Begins DEF Test!Next
-----------------------------------------------------------------------------
LEMMA NextSlot ==
  ASSUME Test!Assumption, NEW s \in Test!Slot
  PROVE  /\ (s + 1) % Count = IF s + 1 = Count THEN 0 ELSE s + 1
         /\ (s + 1) % Count \in Test!Slot
<1>1. Count \in Nat /\ Count > 0 /\ s \in 0 .. Count - 1
  BY DEF Test!Assumption, Test!Slot
<1>2. CASE s + 1 = Count
  <2>1. Count % Count = 0
    BY <1>1
  <2>. QED BY <1>1, <1>2, <2>1 DEF Test!Slot
<1>3. CASE s + 1 # Count
  <2>1. (s + 1) % Count = s + 1
    BY <1>1, <1>3
  <2>. QED BY <1>1, <1>3, <2>1 DEF Test!Slot
<1>. QED BY <1>2, <1>3

LEMMA NextRound ==
  ASSUME Test!Assumption, NEW s \in Test!Slot
  PROVE  (s + Batch) % Count \in Test!Slot /\ (0 + Batch) % Count = Batch
BY DEF Test!Assumption, Test!Slot

LEMMA LoopStarts == ASSUME Test!Assumption, Test!Init PROVE LoopInv
<1>1. /\ testAt = "idle" /\ test = "none" /\ loop = "good" /\ testReg = Test!NoRegs
      /\ pos = Test!Start /\ content = [s \in Test!Slot |-> "zero"]
  BY DEF Test!Init
<1>2. 0 \in Test!Slot
  BY DEF Test!Assumption, Test!Slot
<1>. QED BY <1>1, <1>2 DEF LoopInv, LoopTypes, LoopStart, LoopBroken, Filling, Counting, LoopEnd,
            Test!NoRegs, Test!Start

(* A slot more: one more below Batch is met, if it is one. *)
LEMMA MetMore ==
  ASSUME Test!Assumption, NEW from \in Test!Slot, NEW n \in Nat, n < Count, NEW l \in Test!Slot,
         l \in {from + n, from + n - Count}
  PROVE  /\ Met(from, n) \in Nat
         /\ Met(from, n + 1) <= Met(from, n) + 1
         /\ l >= Batch => Met(from, n + 1) <= Met(from, n)
BY DEF Test!Assumption, Test!Slot, Met

LEMMA MetAll ==
  ASSUME Test!Assumption, NEW from \in Test!Slot
  PROVE  Met(from, Count) = Batch /\ Met(from, 0) = 0
BY DEF Test!Assumption, Test!Slot, Met

LEMMA LoopSetsUp ==
  ASSUME Test!Assumption, ~OldFrames, TestTypes, LoopInv,
         \/ Test!BeginLoopback \/ Test!Allocate \/ Test!AllocateFails \/ Test!AllocateUndone
         \/ Test!SetupLoopback \/ Test!SetupLoopbackFails
  PROVE  LoopInv'
<1>. USE DEF LoopInv
<1>0. 0 \in Test!Slot /\ Count - 1 \in Test!Slot
  BY DEF Test!Assumption, Test!Slot
<1>1. CASE Test!BeginLoopback
  BY <1>1 DEF Test!BeginLoopback, Test!lb, LoopTypes, LoopStart, LoopBroken, Filling, Counting, LoopEnd
<1>2. CASE Test!Allocate
  <2>1. /\ testAt = "setup" /\ UNCHANGED <<testAt, test, verdict, loop, pos>>
        /\ testReg' \in {testReg, [testReg EXCEPT !.tdh = 0, !.tdt = 0],
                        [testReg EXCEPT !.rdh = 0, !.rdt = 0, !.rx = TRUE]}
    BY <1>2 DEF Test!Allocate
  <2>2. content' = content \/ \E s : content' = [content EXCEPT ![s] = "zero"]
    BY <1>2 DEF Test!Allocate, Test!Fresh
  <2>3. content' \in [Test!Slot -> {"zero", "frame"}] /\ \A s \in Test!Slot : content'[s] = "zero"
    BY <2>1, <2>2 DEF LoopTypes, LoopStart
  <2>a. testReg' \in [tdh : Test!Slot, tdt : Test!Slot, rdh : Test!Slot, rdt : Test!Slot, rx : BOOLEAN]
    BY <1>0, <2>1 DEF LoopTypes
  <2>4. LoopTypes'
    BY <2>1, <2>3, <2>a DEF LoopTypes
  <2>5. LoopStart'
    BY <2>1, <2>3, ZenonT(30) DEF LoopTypes, LoopStart
  <2>. QED BY <2>1, <2>4, <2>5 DEF LoopBroken, Filling, Counting, LoopEnd
<1>3. CASE Test!AllocateFails \/ Test!SetupLoopbackFails
  <2>1. verdict' \notin {0, 13} /\ testAt' = "failed" /\ testAt = "setup"
        /\ UNCHANGED <<test, loop, content, testReg, pos>>
    BY <1>3 DEF Test!AllocateFails, Test!SetupLoopbackFails, Test!NoMemory, Test!lb
  <2>. QED BY <2>1 DEF LoopTypes, LoopStart, LoopBroken, Filling, Counting, LoopEnd
<1>4. CASE Test!AllocateUndone
  BY <1>4 DEF Test!AllocateUndone, Test!lb, LoopTypes, LoopStart, LoopBroken, Filling, Counting, LoopEnd
<1>5. CASE Test!SetupLoopback
  <2>1. /\ testAt = "setup" /\ testAt' = "send" /\ testReg' = [testReg EXCEPT !.rdt = Count - 1]
        /\ UNCHANGED <<test, verdict, loop, content, pos>>
    BY <1>5 DEF Test!SetupLoopback
  <2>2. LoopTypes'
    BY <1>0, <2>1 DEF LoopTypes, TestTypes
  <2>3. LoopStart'
    BY <2>1 DEF LoopTypes, LoopStart
  <2>. QED BY <2>1, <2>2, <2>3 DEF LoopStart, LoopBroken, Filling, Counting, LoopEnd
<1>. QED BY <1>1, <1>2, <1>3, <1>4, <1>5

LEMMA LoopSends ==
  ASSUME Test!Assumption, LoopInv, Test!Send
  PROVE  LoopInv'
<1>. USE DEF LoopInv
<1>1. /\ testAt = "send" /\ testAt' = "wait"
      /\ pos' = [pos EXCEPT !.k = (pos.k + Batch) % Count, !.good = 0, !.looks = 0]
      /\ testReg' = [testReg EXCEPT !.tdt = (pos.k + Batch) % Count]
      /\ UNCHANGED <<test, verdict, loop, content>>
  BY DEF Test!Send
<1>2. (pos.k + Batch) % Count \in Test!Slot /\ (pos.k = 0 => (pos.k + Batch) % Count = Batch)
  BY NextRound DEF LoopTypes
<1>3. LoopTypes'
  BY <1>1, <1>2 DEF LoopTypes
<1>4. /\ pos'.j = pos.j /\ pos'.l = pos.l /\ pos'.good = 0 /\ pos'.looks = 0
      /\ testReg'.tdh = testReg.tdh /\ testReg'.rdh = testReg.rdh
      /\ testReg'.tdt = (pos.k + Batch) % Count
  BY <1>1 DEF LoopTypes
<1>5. LoopBroken'
  BY <1>1, <1>4 DEF LoopBroken
<1>6. Filling'
  BY <1>1, <1>2, <1>4 DEF Filling, Filled, LoopStart, Test!Slot, Test!Assumption
<1>7. Counting'
  <2>1. pos.l \in Test!Slot /\ pos.l + 0 = pos.l
    BY DEF LoopTypes, Test!Slot, Test!Assumption
  <2>. QED BY <1>1, <1>4, <2>1, MetAll DEF Counting, Test!Assumption
<1>. QED BY <1>1, <1>3, <1>5, <1>6, <1>7 DEF LoopStart, LoopEnd

LEMMA LoopTurns ==
  ASSUME Test!Assumption, LoopInv, Test!HwLoops
  PROVE  LoopInv'
<1>. USE DEF LoopInv
<1>. DEFINE arrives == loop = "good" /\ testReg.rdh # testReg.rdt
<1>1. /\ testAt = "wait" /\ testReg.tdh # testReg.tdt
      /\ content' = IF arrives THEN [content EXCEPT ![testReg.rdh] = "frame"] ELSE content
      /\ testReg' = [testReg EXCEPT !.tdh = (testReg.tdh + 1) % Count,
                       !.rdh = IF arrives THEN (testReg.rdh + 1) % Count ELSE testReg.rdh]
      /\ UNCHANGED <<testAt, test, verdict, loop, pos>>
  BY DEF Test!HwLoops
<1>. HIDE DEF arrives
<1>2. /\ (testReg.tdh + 1) % Count \in Test!Slot /\ (testReg.rdh + 1) % Count \in Test!Slot
      /\ testReg.tdh + 1 # Count => (testReg.tdh + 1) % Count = testReg.tdh + 1
  BY NextSlot DEF LoopTypes
<1>3. LoopTypes'
  BY <1>1, <1>2 DEF LoopTypes
<1>4. /\ testReg'.tdh = (testReg.tdh + 1) % Count /\ testReg'.tdt = testReg.tdt
      /\ testReg'.rdh = IF arrives THEN (testReg.rdh + 1) % Count ELSE testReg.rdh
  BY <1>1 DEF LoopTypes
<1>5. LoopBroken'
  BY <1>1 DEF LoopBroken, arrives
<1>6. \A s \in Test!Slot : content[s] = "frame" \/ (arrives /\ s = testReg.rdh) => content'[s] = "frame"
  BY <1>1 DEF LoopTypes
<1>7. Filling'
  <2>1. SUFFICES ASSUME loop = "good"
        PROVE  /\ pos.j # 0 => Filled(Batch)'
               /\ pos.j = 0 =>
                    /\ testReg'.rdh = testReg'.tdh /\ testReg'.tdh <= Batch /\ testReg'.tdt = Batch
                    /\ \A s \in Test!Slot : s < testReg'.tdh => content'[s] = "frame"
    BY <1>1 DEF Filling, Filled
  <2>2. pos.j # 0 => Filled(Batch)'
    BY <1>1, <1>6, <2>1 DEF Filling, Filled
  <2>3. ASSUME pos.j = 0
        PROVE  /\ testReg'.rdh = testReg'.tdh /\ testReg'.tdh <= Batch /\ testReg'.tdt = Batch
               /\ \A s \in Test!Slot : s < testReg'.tdh => content'[s] = "frame"
    <3>1. /\ testReg.rdh = testReg.tdh /\ testReg.tdh < Batch /\ testReg.tdt = Batch
          /\ Filled(testReg.tdh) /\ testReg.rdt = Count - 1 /\ testReg.tdh \in Nat
      BY <1>1, <2>1, <2>3 DEF Filling, LoopTypes, Test!Slot, Test!Assumption
    <3>2. arrives /\ testReg'.tdh = testReg.tdh + 1
      BY <1>2, <1>4, <2>1, <3>1 DEF arrives, Test!Assumption
    <3>3. \A s \in Test!Slot : s < testReg.tdh + 1 => s < testReg.tdh \/ s = testReg.rdh
      BY <3>1 DEF Test!Slot, Test!Assumption
    <3>4. \A s \in Test!Slot : s < testReg'.tdh => content'[s] = "frame"
      BY <1>6, <3>1, <3>2, <3>3 DEF Filled
    <3>. QED BY <1>4, <3>1, <3>2, <3>4 DEF Test!Assumption
  <2>. QED BY <2>2, <2>3
<1>8. Counting'
  BY <1>1 DEF Counting, Met
<1>. QED BY <1>1, <1>3, <1>5, <1>7, <1>8 DEF LoopStart, LoopEnd

LEMMA LoopLooks ==
  ASSUME Test!Assumption, LoopInv, Test!CheckFrame
  PROVE  LoopInv'
<1>. USE DEF LoopInv
<1>1. /\ testAt = "wait" /\ testReg.tdh = testReg.tdt /\ pos.good < Batch
      /\ pos' = [pos EXCEPT !.l = (pos.l + 1) % Count, !.looks = pos.looks + 1,
                            !.good = IF content[pos.l] = "frame" THEN pos.good + 1 ELSE pos.good]
      /\ UNCHANGED <<testAt, test, verdict, loop, content, testReg>>
  BY DEF Test!CheckFrame
<1>2. /\ pos.l \in Test!Slot /\ (pos.l + 1) % Count = (IF pos.l + 1 = Count THEN 0 ELSE pos.l + 1)
      /\ (pos.l + 1) % Count \in Test!Slot
  BY NextSlot DEF LoopTypes
<1>a. pos' \in [j : Nat, k : Test!Slot, l : Test!Slot, good : Nat, looks : Nat]
  <2>1. pos \in [j : Nat, k : Test!Slot, l : Test!Slot, good : Nat, looks : Nat]
    BY DEF LoopTypes
  <2>2. pos.looks + 1 \in Nat
        /\ (IF content[pos.l] = "frame" THEN pos.good + 1 ELSE pos.good) \in Nat
    BY <2>1
  <2>. QED BY <1>1, <1>2, <2>1, <2>2
<1>b. pos'.j = pos.j
  BY <1>1 DEF LoopTypes
<1>3. LoopTypes'
  BY <1>1, <1>a, <1>b DEF LoopTypes
<1>4. /\ pos'.j = pos.j /\ pos'.l = (pos.l + 1) % Count /\ pos'.looks = pos.looks + 1
      /\ pos'.good = IF content[pos.l] = "frame" THEN pos.good + 1 ELSE pos.good
  BY <1>1 DEF LoopTypes
<1>5. LoopBroken'
  BY <1>1, <1>2, <1>4 DEF LoopBroken
<1>6. Filling'
  BY <1>1, <1>4 DEF Filling, Filled
<1>7. Counting'
  <2>1. SUFFICES ASSUME loop = "good" PROVE Counting'
    BY <1>1 DEF Counting
  <2>2. PICK from \in Test!Slot : /\ pos.l \in {from + pos.looks, from + pos.looks - Count}
                                /\ pos.good >= Met(from, pos.looks)
    BY <1>1, <2>1 DEF Counting
  <2>3. pos.looks \in Nat /\ pos.good \in Nat /\ pos.good <= pos.looks /\ pos.looks <= Count
    BY <1>1, <2>1 DEF Counting, LoopTypes
  <2>4. pos.looks < Count
    BY <1>1, <2>2, <2>3, MetAll DEF Test!Assumption
  <2>5. /\ Met(from, pos.looks) \in Nat /\ Met(from, pos.looks + 1) <= Met(from, pos.looks) + 1
        /\ pos.l >= Batch => Met(from, pos.looks + 1) <= Met(from, pos.looks)
    BY <1>2, <2>2, <2>3, <2>4, MetMore
  <2>6. Filled(Batch)
    BY <1>1, <2>1 DEF Filling
  <2>7. pos.l < Batch => content[pos.l] = "frame"
    BY <1>2, <2>6 DEF Filled
  <2>8. pos'.good >= Met(from, pos'.looks)
    <3>1. Met(from, pos.looks + 1) \in Int
      BY <2>3 DEF Met, Test!Slot, Test!Assumption
    <3>. QED BY <1>2, <1>4, <2>2, <2>3, <2>5, <2>7, <3>1 DEF Test!Slot, Test!Assumption
  <2>9. pos'.l \in {from + pos'.looks, from + pos'.looks - Count}
    BY <1>2, <1>4, <2>2, <2>3, <2>4 DEF Test!Slot, Test!Assumption
  <2>10. pos'.good <= pos'.looks /\ pos'.looks <= Count
    BY <1>4, <2>3, <2>4 DEF Test!Assumption
  <2>11. \E f \in Test!Slot : /\ pos'.l \in {f + pos'.looks, f + pos'.looks - Count}
                             /\ pos'.good >= Met(f, pos'.looks)
    BY <2>8, <2>9
  <2>12. Met(from, 0)' = Met(from, 0)
    BY DEF Met
  <2>. QED BY <1>1, <2>10, <2>11 DEF Counting, Met
<1>. QED BY <1>1, <1>3, <1>5, <1>6, <1>7 DEF LoopStart, LoopEnd

LEMMA LoopDecides ==
  ASSUME Test!Assumption, LoopInv, Test!RoundPasses \/ Test!RoundFails
  PROVE  LoopInv'
<1>. USE DEF LoopInv
<1>1. CASE Test!RoundPasses
  <2>1. /\ testAt = "wait" /\ pos.good = Batch /\ UNCHANGED <<test, verdict, loop, content, testReg>>
        /\ \/ testAt' = "send" /\ pos' = [pos EXCEPT !.j = pos.j + 1]
           \/ testAt' = "cleanup" /\ pos' = pos
    BY <1>1 DEF Test!RoundPasses
  <2>2. loop = "good" /\ pos.looks # 0
    BY <2>1 DEF LoopBroken, Counting, LoopTypes, Test!Assumption
  <2>3. Filled(Batch) /\ testAt = "wait" /\ verdict = 0
    BY <2>1, <2>2 DEF Filling, Counting, LoopTypes
  <2>4. LoopTypes' /\ (testAt' = "send" => pos'.j # 0)
    BY <2>1 DEF LoopTypes
  <2>. QED BY <2>1, <2>2, <2>3, <2>4 DEF LoopStart, LoopBroken, Filling, Filled, Counting, LoopEnd
<1>2. CASE Test!RoundFails
  <2>1. /\ testAt = "wait" /\ pos.good < Batch /\ pos.looks >= Count
        /\ testAt' = "cleanup" /\ verdict' = 13
        /\ UNCHANGED <<test, loop, content, testReg, pos>>
    BY <1>2 DEF Test!RoundFails, Test!lb
  <2>2. loop # "good"
    <3>1. SUFFICES ASSUME loop = "good" PROVE FALSE
      OBVIOUS
    <3>2. PICK from \in Test!Slot : pos.good >= Met(from, pos.looks)
      BY <2>1, <3>1 DEF Counting
    <3>3. pos.looks = Count
      BY <2>1, <3>1 DEF Counting, LoopTypes, Test!Assumption
    <3>. QED BY <2>1, <3>2, <3>3, MetAll DEF LoopTypes, Test!Assumption
  <2>. QED BY <2>1, <2>2 DEF LoopTypes, LoopStart, LoopBroken, Filling, Counting, LoopEnd
<1>. QED BY <1>1, <1>2

LEMMA TestTypesStays ==
  ASSUME Test!Assumption, TestTypes, [Test!Next]_(Test!vars) PROVE TestTypes'
<1>. USE DEF Test!Assumption, TestTypes
<1>1. CASE UNCHANGED Test!vars
  BY <1>1 DEF Test!vars, Test!intr
<1>2. CASE Test!NoHandler \/ Test!TryMask \/ Test!TryPost \/ Test!TryOthers \/ Test!LinkChange
  BY <1>2 DEF Test!NoHandler, Test!TryMask, Test!TryPost, Test!TryOthers, Test!LinkChange, Test!intr
<1>a. CASE \E how \in {"own", "shared"} : Test!BeginIntr(how)
  <2>1. /\ testAt = "idle" /\ testAt' = "try" /\ test' = "intr" /\ sharedInt' \in BOOLEAN
        /\ cause' = 0 /\ testStep' \in {"post", "mask"} /\ UNCHANGED <<verdict, fault, ich>>
    BY <1>a DEF Test!BeginIntr
  <2>. QED BY <2>1
<1>3. CASE Test!LookFails
  BY <1>3 DEF Test!LookFails, Test!EndIntr
<1>4. ASSUME testAt \in {"try", "look"}, Test!NextCause, UNCHANGED <<test, fault, ich, sharedInt>>
      PROVE  TestTypes'
  BY <1>4 DEF Test!NextCause, Test!EndIntr, Test!FirstStep
<1>5. CASE Test!Skip \/ Test!LookPasses
  BY <1>4, <1>5 DEF Test!Skip, Test!LookPasses
<1>6. CASE Test!BeginLoopback
  BY <1>6 DEF Test!BeginLoopback, Test!intr
<1>7. CASE \/ Test!Allocate \/ Test!AllocateFails \/ Test!AllocateUndone
           \/ Test!SetupLoopback \/ Test!SetupLoopbackFails
           \/ Test!Send \/ Test!HwLoops \/ Test!LoopBreaks \/ Test!CheckFrame
           \/ Test!RoundPasses \/ Test!RoundFails
           \/ Test!Cleanup \/ Test!FreeRings \/ Test!ResetAdapter \/ Test!CableFrame
  <2>1. /\ testAt \notin {"idle", "try", "look", "done"} /\ testAt' \notin {"idle", "try", "look"}
        /\ UNCHANGED Test!intr /\ UNCHANGED test
        /\ testAt' = "setup" => UNCHANGED <<testAt, verdict>>
    BY <1>7 DEF Test!Allocate, Test!AllocateFails, Test!AllocateUndone, Test!SetupLoopback,
         Test!SetupLoopbackFails, Test!Send, Test!HwLoops, Test!LoopBreaks, Test!CheckFrame,
         Test!RoundPasses, Test!RoundFails, Test!Cleanup, Test!FreeRings, Test!ResetAdapter,
         Test!CableFrame
  <2>. QED BY <2>1 DEF Test!intr
<1>. QED BY <1>1, <1>2, <1>a, <1>3, <1>5, <1>6, <1>7 DEF Test!Next

LEMMA LoopTakenDown ==
  ASSUME Test!Assumption, LoopInv,
         Test!Cleanup \/ Test!FreeRings \/ Test!ResetAdapter \/ Test!CableFrame
  PROVE  LoopInv'
<1>. USE DEF LoopInv
<1>1. /\ testAt \in {"cleanup", "open", "freed"} /\ testAt' \in {"open", "freed", "done"}
      /\ UNCHANGED <<test, verdict, loop, content, pos>>
  BY DEF Test!Cleanup, Test!FreeRings, Test!ResetAdapter, Test!CableFrame, Test!lb
<1>2. testReg' \in [tdh : Test!Slot, tdt : Test!Slot, rdh : Test!Slot, rdt : Test!Slot, rx : BOOLEAN]
  <2>1. CASE Test!Cleanup \/ Test!FreeRings
    BY <2>1 DEF Test!Cleanup, Test!FreeRings, Test!lb, LoopTypes
  <2>2. CASE Test!ResetAdapter
    <3>1. 0 \in Test!Slot
      BY DEF Test!Assumption, Test!Slot
    <3>. QED BY <2>2, <3>1 DEF Test!ResetAdapter, Test!NoRegs
  <2>3. CASE Test!CableFrame
    <3>1. testReg' = [testReg EXCEPT !.rdh = (testReg.rdh + 1) % Count]
      BY <2>3 DEF Test!CableFrame
    <3>2. (testReg.rdh + 1) % Count \in Test!Slot
      BY NextSlot DEF LoopTypes
    <3>. QED BY <3>1, <3>2 DEF LoopTypes
  <2>. QED BY <2>1, <2>2, <2>3
<1>3. LoopTypes'
  BY <1>1, <1>2 DEF LoopTypes
<1>. QED BY <1>1, <1>3 DEF LoopStart, LoopBroken, Filling, Counting, LoopEnd

LEMMA LoopStays ==
  ASSUME Test!Assumption, ~BreaksLate, ~OldFrames, TestTypes, LoopInv, [Test!Next]_(Test!vars)
  PROVE  LoopInv'
<1>. USE DEF LoopInv
<1>1. CASE UNCHANGED Test!vars
  BY <1>1 DEF Test!vars, Test!lb, LoopTypes, LoopStart, LoopBroken, Filling, Filled, Counting, Met, LoopEnd
<1>2. CASE \/ \E how \in {"own", "shared"} : Test!BeginIntr(how)
           \/ Test!NoHandler \/ Test!TryMask \/ Test!TryPost \/ Test!TryOthers \/ Test!LinkChange
           \/ Test!Skip \/ Test!LookFails \/ Test!LookPasses
  <2>1. /\ testAt \in {"idle", "try", "look"} /\ testAt' \in {"try", "look", "done"}
        /\ UNCHANGED <<loop, content, testReg, pos>> /\ (test' = "intr" \/ test' = test)
        /\ testAt = "idle" => test' = "intr"
    BY <1>2 DEF Test!BeginIntr, Test!NoHandler, Test!TryMask, Test!TryPost, Test!TryOthers,
         Test!LinkChange, Test!Skip, Test!LookFails, Test!LookPasses, Test!NextCause, Test!EndIntr,
         Test!lb
  <2>2. test' = "intr"
    BY <2>1 DEF TestTypes
  <2>. QED BY <2>1, <2>2 DEF LoopTypes, LoopStart, LoopBroken, Filling, Counting, LoopEnd
<1>3. CASE Test!LoopBreaks
  <2>1. /\ testAt = "send" /\ pos.j = 0 /\ loop' = "broken"
        /\ UNCHANGED <<testAt, test, verdict, content, testReg, pos>>
    BY <1>3 DEF Test!LoopBreaks
  <2>. QED BY <2>1 DEF LoopTypes, LoopStart, LoopBroken, Filling, Counting, LoopEnd
<1>. QED BY <1>1, <1>2, <1>3, LoopSetsUp, LoopSends, LoopTurns, LoopLooks, LoopDecides,
            LoopTakenDown DEF Test!Next
-----------------------------------------------------------------------------
(* e1000_intr_test passes a card if and only if none of its faults can be found by *)
(* it, for any number of causes; unless the link changes while LSC is enabled.      *)
THEOREM IntrTestIsRight ==
  ASSUME Test!Assumption, ~LinkChanges
  PROVE  Test!Spec => []Test!InterruptVerdict
<1>1. Test!Init => IntrInv
  BY IntrStarts
<1>2. IntrInv /\ [Test!Next]_(Test!vars) => IntrInv'
  BY IntrStays
<1>3. IntrInv => Test!InterruptVerdict
  BY DEF IntrInv
<1>. QED BY <1>1, <1>2, <1>3, PTL DEF Test!Spec

(* The rounds of e1000_loopback_test pass if and only if the loop does, for rings *)
(* and batches of any size; unless the loop breaks later or a buffer holds a      *)
(* frame from before.                                                             *)
THEOREM LoopbackTestIsRight ==
  ASSUME Test!Assumption, ~BreaksLate, ~OldFrames
  PROVE  Test!Spec => []Test!LoopbackVerdict
<1>1. Test!Init => TestTypes /\ LoopInv
  BY IntrStarts, LoopStarts DEF IntrInv
<1>2. TestTypes /\ LoopInv /\ [Test!Next]_(Test!vars) => (TestTypes /\ LoopInv)'
  BY TestTypesStays, LoopStays
<1>3. LoopInv => Test!LoopbackVerdict
  BY DEF LoopInv, LoopEnd, Test!LoopbackVerdict
<1>. QED BY <1>1, <1>2, <1>3, PTL DEF Test!Spec
-----------------------------------------------------------------------------
(* The memory of the test rings, in the order of Program: for each ring its two *)
(* blocks and then buffer by buffer the memory and its mapping.                 *)
Share == 2 * Count + 2
Piece(n) ==
  LET r == IF n <= Share THEN "tx" ELSE "rx"
      i == IF n <= Share THEN n ELSE n - Share
  IN IF i <= 2 THEN <<r, IF i = 1 THEN "info" ELSE "desc", 0>>
     ELSE <<r, IF i % 2 = 1 THEN "skb" ELSE "map", (i - 3) \div 2>>

LEMMA Appended ==
  ASSUME NEW S, NEW s \in Seq(S), NEW t \in Seq(S)
  PROVE  /\ s \o t \in Seq(S) /\ Len(s \o t) = Len(s) + Len(t)
         /\ \A i \in 1 .. Len(s) + Len(t) :
              (s \o t)[i] = IF i <= Len(s) THEN s[i] ELSE t[i - Len(s)]
  OBVIOUS

LEMMA ProgramIs ==
  ASSUME Test!Assumption
  PROVE  Len(Test!Program) = 2 * Share /\ DOMAIN Test!Program = 1 .. 2 * Share
         /\ \A n \in 1 .. 2 * Share : Test!Program[n] = Piece(n)
<1>. DEFINE Any == {"tx", "rx"} \X {"info", "desc", "skb", "map"} \X Int
<1>0. Count \in Nat /\ Count > 1
  BY DEF Test!Assumption
<1>1. ASSUME NEW r \in {"tx", "rx"}
      PROVE  /\ Test!Ring(r) \in Seq(Any) /\ Len(Test!Ring(r)) = 2
             /\ Test!Ring(r)[1] = <<r, "info", 0>> /\ Test!Ring(r)[2] = <<r, "desc", 0>>
  BY DEF Test!Ring
<1>2. ASSUME NEW r \in {"tx", "rx"}
      PROVE  /\ Test!Buffers(r) \in Seq(Any) /\ Len(Test!Buffers(r)) = 2 * Count
             /\ \A n \in 1 .. 2 * Count :
                  Test!Buffers(r)[n] = <<r, IF n % 2 = 1 THEN "skb" ELSE "map", (n - 1) \div 2>>
  <2>1. \A n \in 1 .. 2 * Count :
          <<r, IF n % 2 = 1 THEN "skb" ELSE "map", (n - 1) \div 2>> \in Any
    OBVIOUS
  <2>2. Test!Buffers(r) \in [1 .. 2 * Count -> Any]
    BY <2>1 DEF Test!Buffers
  <2>3. 2 * Count \in Nat
    BY <1>0
  <2>. QED BY <2>2, <2>3 DEF Test!Buffers
<1>. HIDE DEF Any
<1>. DEFINE T == Test!Ring("tx") \o Test!Buffers("tx")
            R == Test!Ring("rx") \o Test!Buffers("rx")
<1>3. ASSUME NEW r \in {"tx", "rx"}
      PROVE  /\ Test!Ring(r) \o Test!Buffers(r) \in Seq(Any)
             /\ Len(Test!Ring(r) \o Test!Buffers(r)) = Share
             /\ \A i \in 1 .. Share : (Test!Ring(r) \o Test!Buffers(r))[i] =
                  IF i <= 2 THEN <<r, IF i = 1 THEN "info" ELSE "desc", 0>>
                  ELSE <<r, IF i % 2 = 1 THEN "skb" ELSE "map", (i - 3) \div 2>>
  <2>. DEFINE B == Test!Buffers(r)  G == Test!Ring(r)
  <2>1. /\ G \o B \in Seq(Any) /\ Len(G \o B) = Len(G) + Len(B)
        /\ \A i \in 1 .. Len(G) + Len(B) : (G \o B)[i] = IF i <= Len(G) THEN G[i] ELSE B[i - Len(G)]
    BY <1>1, <1>2, Appended
  <2>a. Len(G) = 2
    BY <1>1
  <2>b. Len(B) = 2 * Count
    BY <1>2
  <2>c. 2 + 2 * Count = Share /\ Share \in Nat
    BY <1>0 DEF Share
  <2>3. G[1] = <<r, "info", 0>> /\ G[2] = <<r, "desc", 0>>
    BY <1>1
  <2>4. \A n \in 1 .. 2 * Count : B[n] = <<r, IF n % 2 = 1 THEN "skb" ELSE "map", (n - 1) \div 2>>
    BY <1>2
  <2>. HIDE DEF B, G
  <2>2. Len(G) = 2 /\ Len(B) = 2 * Count /\ Len(G) + Len(B) = Share
    BY <2>a, <2>b, <2>c
  <2>5. ASSUME NEW i \in 1 .. Share
        PROVE  (G \o B)[i] = IF i <= 2 THEN <<r, IF i = 1 THEN "info" ELSE "desc", 0>>
                             ELSE <<r, IF i % 2 = 1 THEN "skb" ELSE "map", (i - 3) \div 2>>
    <3>1. CASE i = 1
      BY <2>1, <2>2, <2>3, <3>1
    <3>2. CASE i = 2
      BY <2>1, <2>2, <2>3, <3>2
    <3>3. CASE i > 2
      <4>1. i - 2 \in 1 .. 2 * Count /\ (i - 2) % 2 = i % 2 /\ (i - 2) - 1 = i - 3
        BY <1>0, <3>3 DEF Share
      <4>2. (G \o B)[i] = B[i - 2]
        BY <2>1, <2>2, <3>3
      <4>3. B[i - 2] = <<r, IF (i - 2) % 2 = 1 THEN "skb" ELSE "map", ((i - 2) - 1) \div 2>>
        BY <2>4, <4>1
      <4>4. ~(i <= 2)
        BY <2>c, <3>3
      <4>. QED BY <4>1, <4>2, <4>3, <4>4
    <3>4. i = 1 \/ i = 2 \/ i > 2
      BY <2>c
    <3>. QED BY <3>1, <3>2, <3>3, <3>4
  <2>6. G \o B \in Seq(Any) /\ Len(G \o B) = Share
    BY <2>1, <2>2
  <2>. QED BY <2>5, <2>6 DEF B, G
<1>4. T \o R = Test!Program
  BY <1>1, <1>2 DEF Test!Program
<1>5. Share \in Nat
  BY <1>0 DEF Share
<1>6. T \in Seq(Any) /\ R \in Seq(Any) /\ Len(T) = Share /\ Len(R) = Share
  BY <1>3
<1>7. /\ Len(T \o R) = 2 * Share /\ DOMAIN (T \o R) = 1 .. 2 * Share
      /\ \A n \in 1 .. 2 * Share : (T \o R)[n] = IF n <= Share THEN T[n] ELSE R[n - Share]
  <2>. HIDE DEF T, R
  <2>1. /\ T \o R \in Seq(Any) /\ Len(T \o R) = Len(T) + Len(R)
        /\ \A i \in 1 .. Len(T) + Len(R) :
             (T \o R)[i] = IF i <= Len(T) THEN T[i] ELSE R[i - Len(T)]
    BY <1>6, Appended
  <2>2. Len(T) + Len(R) = 2 * Share
    BY <1>5, <1>6
  <2>3. DOMAIN (T \o R) = 1 .. Len(T \o R)
    BY <2>1
  <2>. QED BY <1>6, <2>1, <2>2, <2>3
<1>8. ASSUME NEW n \in 1 .. 2 * Share PROVE (T \o R)[n] = Piece(n)
  <2>1. CASE n <= Share
    <3>1. T[n] = Piece(n)
      BY <1>3, <1>5, <2>1 DEF Piece
    <3>. QED BY <1>7, <2>1, <3>1
  <2>2. CASE ~(n <= Share)
    <3>1. n - Share \in 1 .. Share
      BY <1>5, <2>2
    <3>2. R[n - Share] = Piece(n)
      BY <1>3, <2>2, <3>1 DEF Piece
    <3>. QED BY <1>7, <2>2, <3>2
  <2>. QED BY <2>1, <2>2
<1>. QED BY <1>4, <1>7, <1>8

(* No piece is asked for twice. *)
LEMMA PiecesDiffer ==
  ASSUME Test!Assumption, NEW n \in 1 .. 2 * Share, NEW m \in 1 .. 2 * Share, Piece(n) = Piece(m)
  PROVE  n = m
<1>0. Count \in Nat /\ Share = 2 * Count + 2
  BY DEF Test!Assumption, Share
<1>1. n <= Share <=> m <= Share
  BY DEF Piece
<1>. DEFINE i == IF n <= Share THEN n ELSE n - Share
            j == IF m <= Share THEN m ELSE m - Share
<1>2. i \in Nat /\ j \in Nat /\ i > 0 /\ j > 0
  BY <1>0
<1>. HIDE DEF i, j
<1>3. i = j
  <2>1. Piece(n)[2] = (IF i <= 2 THEN (IF i = 1 THEN "info" ELSE "desc")
                       ELSE IF i % 2 = 1 THEN "skb" ELSE "map")
        /\ Piece(n)[3] = (IF i <= 2 THEN 0 ELSE (i - 3) \div 2)
    BY DEF Piece, i
  <2>2. Piece(m)[2] = (IF j <= 2 THEN (IF j = 1 THEN "info" ELSE "desc")
                       ELSE IF j % 2 = 1 THEN "skb" ELSE "map")
        /\ Piece(m)[3] = (IF j <= 2 THEN 0 ELSE (j - 3) \div 2)
    BY DEF Piece, j
  <2>. QED BY <1>2, <2>1, <2>2
<1>. QED BY <1>0, <1>1, <1>3 DEF i, j

(* What setup_desc_rings has after m allocations; a whole setup, nothing outside a *)
(* test, and a receive head that is a place of the ring.                           *)
Held(m) == heap = {Piece(n) : n \in 1 .. m} /\ IsFiniteSet(heap) /\ Cardinality(heap) = m
HeldInv ==
  /\ DOMAIN testReg = {"tdh", "tdt", "rdh", "rdt", "rx"} /\ testReg.rdh \in Test!Slot
  /\ testAt \in {"setup", "failed"} => \E m \in 0 .. 2 * Share : Held(m)
  /\ testAt \in {"send", "wait", "cleanup", "open"} => Held(2 * Share)
  /\ testAt \in {"idle", "try", "look", "freed", "done"} => heap = {}
  /\ bad = {} /\ ~misfreed /\ ~stray
  /\ testAt \in {"idle", "try", "look", "setup", "failed", "send", "wait", "cleanup", "open",
                "freed", "done"}

(* e1000_free_desc_rings makes out all that was allocated, however far the setup got. *)
LEMMA AllIsFreed ==
  ASSUME Test!Assumption, NEW m \in 0 .. 2 * Share, Held(m)
  PROVE  heap \subseteq Test!Freed
<1>0. Count \in Nat /\ Count > 1 /\ Share = 2 * Count + 2
  BY DEF Test!Assumption, Share
<1>1. ASSUME NEW o \in heap PROVE o \in Test!Freed
  <2>1. PICK n \in 1 .. m : o = Piece(n)
    BY DEF Held
  <2>2. CASE o[2] \in {"info", "desc"}
    BY <1>1, <2>2 DEF Test!Freed
  <2>3. CASE o[2] \notin {"info", "desc"}
    <3>. DEFINE r == IF n <= Share THEN "tx" ELSE "rx"
                i == IF n <= Share THEN n ELSE n - Share
    <3>1. n \in Int /\ i \in Int /\ i > 0 /\ i <= Share
      BY <1>0
    <3>2. o = IF i <= 2 THEN <<r, IF i = 1 THEN "info" ELSE "desc", 0>>
              ELSE <<r, IF i % 2 = 1 THEN "skb" ELSE "map", (i - 3) \div 2>>
      BY <2>1 DEF Piece
    <3>3. r \in {"tx", "rx"} /\ (r = "tx" => i = n) /\ (r = "rx" => i = n - Share /\ n > Share)
      BY <1>0
    <3>. HIDE DEF r, i
    <3>4. i > 2 /\ o = <<r, IF i % 2 = 1 THEN "skb" ELSE "map", (i - 3) \div 2>>
      BY <2>3, <3>1, <3>2
    <3>5. (i - 3) \div 2 \in Test!Slot
      BY <1>0, <3>1, <3>4 DEF Test!Slot
    <3>6. o \in {r} \X {"skb", "map"} \X Test!Slot
      BY <3>4, <3>5
    <3>7. o \in {Test!Program[k] : k \in DOMAIN Test!Program}
      BY <1>0, <2>1, ProgramIs
    <3>8. Test!Whole(r)
      <4>1. CASE r = "tx"
        <5>1. 1 \in 1 .. m /\ 2 \in 1 .. m
          BY <3>1, <3>3, <3>4, <4>1
        <5>2. Piece(1) = <<"tx", "info", 0>> /\ Piece(2) = <<"tx", "desc", 0>>
          BY <1>0 DEF Piece
        <5>. QED BY <4>1, <5>1, <5>2 DEF Held, Test!Whole
      <4>2. CASE r = "rx"
        <5>1. Share + 1 \in 1 .. m /\ Share + 2 \in 1 .. m
          BY <1>0, <3>1, <3>3, <3>4, <4>2
        <5>2. Piece(Share + 1) = <<"rx", "info", 0>> /\ Piece(Share + 2) = <<"rx", "desc", 0>>
          BY <1>0 DEF Piece
        <5>. QED BY <4>2, <5>1, <5>2 DEF Held, Test!Whole
      <4>. QED BY <3>3, <4>1, <4>2
    <3>9. o \in Test!Owned(r)
      BY <3>6, <3>7 DEF Test!Owned
    <3>. QED BY <3>3, <3>8, <3>9 DEF Test!Freed
  <2>. QED BY <2>2, <2>3
<1>. QED BY <1>1

(* What the instance calls a cardinality is one. *)
LEMMA OneCardinality ==
  ASSUME NEW S
  PROVE  Test!Cardinality(S) = Cardinality(S)
  BY Zenon DEF Test!Cardinality, Cardinality

(* The next piece is one more. *)
LEMMA OneMore ==
  ASSUME Test!Assumption, NEW m \in 0 .. 2 * Share, Held(m), Test!Allocate
  PROVE  m + 1 \in 0 .. 2 * Share /\ Held(m + 1)'
<1>0. Share \in Nat
  BY DEF Test!Assumption, Share
<1>1. m < 2 * Share /\ heap' = heap \cup {Piece(m + 1)}
  <2>1. Test!Cardinality(heap) = m
    BY OneCardinality DEF Held
  <2>2. m < Len(Test!Program) /\ heap' = heap \cup {Test!Asked}
    BY <2>1 DEF Test!Allocate
  <2>3. Test!Asked = Test!Program[m + 1]
    BY <2>1 DEF Test!Asked
  <2>. HIDE DEF Test!Program
  <2>4. m < 2 * Share /\ m + 1 \in 1 .. 2 * Share
    BY <1>0, <2>2, ProgramIs
  <2>. QED BY <2>2, <2>3, <2>4, ProgramIs
<1>2. Piece(m + 1) \notin heap
  <2>1. \A n \in 1 .. m : Piece(n) # Piece(m + 1)
    BY <1>0, <1>1, PiecesDiffer
  <2>. QED BY <2>1 DEF Held
<1>3. IsFiniteSet(heap') /\ Cardinality(heap') = m + 1
  BY <1>1, <1>2, FS_AddElement DEF Held
<1>4. heap' = {Piece(n) : n \in 1 .. m + 1}
  <2>1. 1 .. m + 1 = (1 .. m) \cup {m + 1}
    OBVIOUS
  <2>. QED BY <1>1, <2>1 DEF Held
<1>. QED BY <1>0, <1>1, <1>3, <1>4 DEF Held, Piece, Share

LEMMA HeldStarts == ASSUME Test!Assumption, Test!Init PROVE HeldInv
BY DEF Test!Assumption, Test!Init, Test!NoRegs, Test!Slot, HeldInv

LEMMA HeldStays ==
  ASSUME Test!Assumption, "map" \notin TestMayFail, ~Cable, HeldInv, [Test!Next]_(Test!vars)
  PROVE  HeldInv'
<1>0. Share \in Nat /\ 0 \in Test!Slot
  BY DEF Test!Assumption, Share, Test!Slot
<1>a. Len(Test!Program) = 2 * Share
  BY ProgramIs
<1>1. CASE UNCHANGED Test!vars
  BY <1>1 DEF Test!vars, Test!mem, Test!lb, HeldInv, Held, Piece, Share
<1>2. CASE \/ \E how \in {"own", "shared"} : Test!BeginIntr(how)
           \/ Test!NoHandler \/ Test!TryMask \/ Test!TryPost \/ Test!TryOthers \/ Test!LinkChange
           \/ Test!Skip \/ Test!LookFails \/ Test!LookPasses
  <2>1. /\ testAt \in {"idle", "try", "look"} /\ testAt' \in {"try", "look", "done"}
        /\ UNCHANGED <<heap, bad, misfreed, stray, testReg>>
    BY <1>2 DEF Test!BeginIntr, Test!NoHandler, Test!TryMask, Test!TryPost, Test!TryOthers,
         Test!LinkChange, Test!Skip, Test!LookFails, Test!LookPasses, Test!NextCause, Test!EndIntr,
         Test!mem, Test!lb
  <2>. QED BY <2>1 DEF HeldInv
<1>3. CASE Test!BeginLoopback
  <2>1. /\ testAt = "idle" /\ testAt' = "setup" /\ UNCHANGED <<heap, bad, misfreed, stray, testReg>>
    BY <1>3 DEF Test!BeginLoopback, Test!mem, Test!lb
  <2>2. IsFiniteSet({}) /\ Cardinality({}) = 0 /\ {Piece(n) : n \in 1 .. 0} = {}
    BY FS_EmptySet
  <2>3. Held(0)'
    BY <2>1, <2>2 DEF HeldInv, Held, Piece, Share
  <2>. QED BY <1>0, <2>1, <2>3 DEF HeldInv
<1>4. CASE Test!Allocate
  <2>1. /\ testAt = "setup" /\ testAt' = "setup" /\ UNCHANGED <<bad, misfreed, stray>>
        /\ testReg' \in {testReg, [testReg EXCEPT !.tdh = 0, !.tdt = 0],
                        [testReg EXCEPT !.rdh = 0, !.rdt = 0, !.rx = TRUE]}
    BY <1>4 DEF Test!Allocate
  <2>2. \E m \in 0 .. 2 * Share : Held(m)'
    BY <1>4, <2>1, OneMore DEF HeldInv
  <2>3. DOMAIN testReg' = DOMAIN testReg /\ testReg'.rdh \in Test!Slot
    BY <1>0, <2>1 DEF HeldInv
  <2>. QED BY <2>1, <2>2, <2>3 DEF HeldInv, Share
<1>5. CASE Test!AllocateFails \/ Test!SetupLoopbackFails
  <2>1. /\ testAt = "setup" /\ testAt' = "failed" /\ bad' = {}
        /\ UNCHANGED <<heap, misfreed, stray, testReg>>
    BY <1>5 DEF Test!AllocateFails, Test!SetupLoopbackFails, Test!mem, Test!lb, HeldInv
  <2>. QED BY <2>1 DEF HeldInv, Held, Piece, Share
<1>6. CASE Test!AllocateUndone \/ Test!FreeRings
  <2>1. /\ testAt \in {"failed", "open"} /\ testAt' \in {"freed", "done"} /\ Test!FreeDescRings
        /\ UNCHANGED <<stray, testReg>>
    BY <1>6 DEF Test!AllocateUndone, Test!FreeRings, Test!lb
  <2>2. heap \subseteq Test!Freed
    BY <1>0, <2>1, AllIsFreed DEF HeldInv
  <2>3. heap' = {} /\ bad' = {} /\ ~misfreed'
    BY <2>1, <2>2 DEF HeldInv, Test!FreeDescRings
  <2>. QED BY <2>1, <2>3 DEF HeldInv
<1>7. CASE Test!SetupLoopback
  <2>1. /\ testAt = "setup" /\ testAt' = "send" /\ Cardinality(heap) = Len(Test!Program)
        /\ testReg' = [testReg EXCEPT !.rdt = Count - 1]
        /\ UNCHANGED <<heap, bad, misfreed, stray>>
    BY <1>7, OneCardinality DEF Test!SetupLoopback, Test!mem
  <2>2. Held(2 * Share)
    BY <1>a, <2>1 DEF HeldInv, Held
  <2>3. DOMAIN testReg' = DOMAIN testReg /\ testReg'.rdh = testReg.rdh
    BY <2>1 DEF HeldInv
  <2>. QED BY <2>1, <2>2, <2>3 DEF HeldInv, Held, Piece, Share
<1>8. CASE \/ Test!Send \/ Test!LoopBreaks \/ Test!CheckFrame \/ Test!RoundPasses
           \/ Test!RoundFails \/ Test!Cleanup
  <2>1. /\ testAt \in {"send", "wait", "cleanup"} /\ testAt' \in {"send", "wait", "cleanup", "open"}
        /\ UNCHANGED <<heap, bad, misfreed, stray>>
        /\ testReg' = testReg \/ \E k : testReg' = [testReg EXCEPT !.tdt = k]
    BY <1>8 DEF Test!Send, Test!LoopBreaks, Test!CheckFrame, Test!RoundPasses,
         Test!RoundFails, Test!Cleanup, Test!mem, Test!lb
  <2>2. DOMAIN testReg' = DOMAIN testReg /\ testReg'.rdh = testReg.rdh
    BY <2>1 DEF HeldInv
  <2>. QED BY <2>1, <2>2 DEF HeldInv, Held, Piece, Share
<1>9. CASE Test!HwLoops
  <2>1. /\ testAt = "wait" /\ testAt' = "wait" /\ UNCHANGED <<heap, bad, misfreed, stray>>
        /\ \E arrives \in BOOLEAN :
             testReg' = [testReg EXCEPT !.tdh = (testReg.tdh + 1) % Count,
                               !.rdh = IF arrives THEN (testReg.rdh + 1) % Count ELSE testReg.rdh]
    BY <1>9 DEF Test!HwLoops, Test!mem
  <2>2. (testReg.rdh + 1) % Count \in Test!Slot
    BY NextSlot DEF HeldInv
  <2>3. DOMAIN testReg' = DOMAIN testReg /\ testReg'.rdh \in Test!Slot
    BY <2>1, <2>2 DEF HeldInv
  <2>. QED BY <2>1, <2>3 DEF HeldInv, Held, Piece, Share
<1>10. CASE Test!ResetAdapter
  BY <1>0, <1>10 DEF Test!ResetAdapter, Test!NoRegs, Test!mem, HeldInv
<1>11. CASE Test!CableFrame
  <2>1. /\ testAt = "open" /\ testAt' = "open" /\ UNCHANGED <<heap, bad, misfreed>>
        /\ testReg' = [testReg EXCEPT !.rdh = (testReg.rdh + 1) % Count]
        /\ stray' = (stray \/ <<"rx", "map", testReg.rdh>> \notin heap)
    BY <1>11 DEF Test!CableFrame, Test!mem
  <2>2. (testReg.rdh + 1) % Count \in Test!Slot
    BY NextSlot DEF HeldInv
  <2>3. DOMAIN testReg' = DOMAIN testReg /\ testReg'.rdh \in Test!Slot
    BY <2>1, <2>2 DEF HeldInv
  <2>4. <<"rx", "map", testReg.rdh>> \in heap
    <3>. DEFINE d == testReg.rdh
    <3>1. d \in 0 .. Count - 1 /\ Count \in Nat /\ Share = 2 * Count + 2
      BY DEF HeldInv, Test!Slot, Test!Assumption, Share
    <3>. HIDE DEF d
    <3>2. Share + 2 * d + 4 \in 1 .. 2 * Share
      BY <3>1
    <3>3. /\ ~(Share + 2 * d + 4 <= Share) /\ (Share + 2 * d + 4) - Share = 2 * d + 4
          /\ (2 * d + 4) % 2 = 0 /\ ((2 * d + 4) - 3) \div 2 = d /\ ~(2 * d + 4 <= 2)
      BY <3>1
    <3>4. Piece(Share + 2 * d + 4) = <<"rx", "map", d>>
      BY <3>3 DEF Piece
    <3>. QED BY <2>1, <3>2, <3>4 DEF HeldInv, Held, d
  <2>. QED BY <2>1, <2>3, <2>4 DEF HeldInv, Held, Piece, Share
<1>. QED BY <1>1, <1>2, <1>3, <1>4, <1>5, <1>6, <1>7, <1>8, <1>9, <1>10, <1>11 DEF Test!Next

(* Wherever the setup of the test rings fails, for rings of any size, all it got is *)
(* given back and nothing else; and frames go to memory that is there.  Unless a    *)
(* mapping fails, whose error code is unmapped as an address, or a cable brings     *)
(* frames after the rings are freed.                                                *)
THEOREM TestMemoryIsGivenBack ==
  ASSUME Test!Assumption, "map" \notin TestMayFail, ~Cable
  PROVE  Test!Spec => []Test!NothingIsHeld
<1>1. Test!Init => HeldInv
  BY HeldStarts
<1>2. HeldInv /\ [Test!Next]_(Test!vars) => HeldInv'
  BY HeldStays
<1>3. HeldInv => Test!NothingIsHeld
  BY DEF HeldInv, Test!NothingIsHeld
<1>. QED BY <1>1, <1>2, <1>3, PTL DEF Test!Spec
-----------------------------------------------------------------------------
(* The memory of the rings, allocated and exchanged: RingMemory. *)

CONSTANTS RingAsks, MinRing, MaxRing, RingMultiple, Blocks
VARIABLES netifRunning, ringCount, descRing, tempRing, blockHeap, ringCall, ringErr, oldRing

Memory == INSTANCE RingMemory WITH Asks <- RingAsks, Min <- MinRing, Max <- MaxRing, Multiple <- RingMultiple,
            running <- netifRunning, count <- ringCount, ring <- descRing, temp <- tempRing,
            heap <- blockHeap, call <- ringCall, err <- ringErr, old <- oldRing

Sizes == Nat \ {0}
MemoryTypes ==
  /\ netifRunning \in BOOLEAN
  /\ ringCount \in [{"tx", "rx"} -> Sizes]
  /\ descRing \in [{"tx", "rx"} -> [count : Sizes, block : 0 .. Blocks]]
  /\ tempRing \in [{"tx", "rx"} -> [count : Nat, block : 0 .. Blocks]]
  /\ blockHeap \in [1 .. Blocks -> Nat]
  /\ ringCall \in [at : {"none", "openTx", "openRx", "setTx", "setRx", "copy"},
                   new : [{"tx", "rx"} -> Nat]]

(* Every block is one ring's, or one copy's, and as large as that ring is. *)
Owned ==
  /\ \A r \in {"tx", "rx"} :
       /\ descRing[r].count = ringCount[r]
       /\ descRing[r].block # 0 => blockHeap[descRing[r].block] = ringCount[r]
       /\ tempRing[r].block # 0 => /\ blockHeap[tempRing[r].block] = tempRing[r].count
                                   /\ tempRing[r].count # 0
                                   /\ tempRing[r].block \notin {descRing["tx"].block, descRing["rx"].block}
  /\ descRing["tx"].block # 0 => descRing["tx"].block # descRing["rx"].block
  /\ tempRing["tx"].block # 0 => tempRing["tx"].block # tempRing["rx"].block
  /\ \A b \in 1 .. Blocks : blockHeap[b] # 0 => \E r \in {"tx", "rx"} : b \in {descRing[r].block, tempRing[r].block}

(* Where a call is: which copies it has, and what it will restore. *)
NewRing(r) == IF ringCall.new[r] # ringCount[r]
              THEN tempRing[r].block # 0 /\ tempRing[r].count = ringCall.new[r]
              ELSE tempRing[r].block = 0
Calling ==
  /\ ringCall.at \in {"none", "openTx", "openRx"} => tempRing = Memory!NoTemp
  /\ ringCall.at = "none" /\ ringErr => oldRing = <<descRing, ringCount>>
  /\ ringCall.at \in {"none", "openTx"} =>
       \A r \in {"tx", "rx"} : netifRunning <=> descRing[r].block # 0
  /\ ringCall.at = "openTx" => ~netifRunning /\ oldRing = <<descRing, ringCount>>
  /\ ringCall.at = "openRx" =>
       /\ ~netifRunning /\ descRing["tx"].block # 0 /\ descRing["rx"].block = 0
       /\ oldRing = <<[descRing EXCEPT !["tx"].block = 0], ringCount>>
  /\ ringCall.at \in {"setTx", "setRx", "copy"} =>
       /\ netifRunning /\ \A r \in {"tx", "rx"} : descRing[r].block # 0 /\ ringCall.new[r] \in Sizes
       /\ oldRing = <<descRing, ringCount>>
  /\ ringCall.at = "setTx" => tempRing = Memory!NoTemp
  /\ ringCall.at = "setRx" => NewRing("tx") /\ tempRing["rx"] = Memory!NoRing
  /\ ringCall.at = "copy" => NewRing("tx") /\ NewRing("rx")

MemoryInv == MemoryTypes /\ Owned /\ Calling
-----------------------------------------------------------------------------
LEMMA KindsAre == Memory!Kinds = {"tx", "rx"} /\ Memory!Block = 1 .. Blocks /\ Memory!NoBlock = 0
BY DEF Memory!Kinds, Memory!Block, Memory!NoBlock

LEMMA RoundedTyped ==
  ASSUME Memory!Assumption, NEW sizes \in [{"tx", "rx"} -> RingAsks]
  PROVE  Memory!Rounded(sizes) \in [{"tx", "rx"} -> Sizes]
<1>1. SUFFICES ASSUME NEW r \in {"tx", "rx"} PROVE Memory!Aligned(Memory!Clamped(sizes[r])) \in Sizes
  BY KindsAre DEF Memory!Rounded
<1>2. Memory!Clamped(sizes[r]) \in Nat /\ Memory!Clamped(sizes[r]) > 0
  <2>1. sizes[r] \in Nat
    BY DEF Memory!Assumption
  <2>. QED BY <2>1 DEF Memory!Clamped, Memory!Assumption
<1>3. \A n \in Nat : n > 0 => ((n + RingMultiple - 1) \div RingMultiple) * RingMultiple \in Sizes
  <2>1. SUFFICES ASSUME NEW n \in Nat, n > 0
        PROVE  ((n + RingMultiple - 1) \div RingMultiple) * RingMultiple \in Sizes
    OBVIOUS
  <2>2. RingMultiple \in Nat /\ RingMultiple > 0
    BY DEF Memory!Assumption
  <2>3. (n + RingMultiple - 1) \div RingMultiple \in Nat /\ (n + RingMultiple - 1) \div RingMultiple > 0
    <3>1. n + RingMultiple - 1 \in Nat /\ n + RingMultiple - 1 >= RingMultiple
      BY <2>1, <2>2
    <3>2. \A x, m \in Nat : m > 0 /\ x >= m => x \div m \in Nat /\ x \div m > 0
      OBVIOUS
    <3>. QED BY <2>2, <3>1, <3>2
  <2>4. \A q, m \in Nat : q > 0 /\ m > 0 => q * m \in Nat /\ q * m > 0
    OBVIOUS
  <2>. QED BY <2>2, <2>3, <2>4 DEF Sizes
<1>. QED BY <1>2, <1>3 DEF Memory!Aligned

LEMMA MemoryStarts == ASSUME Memory!Assumption, Memory!Init PROVE MemoryInv
<1>1. MinRing \in Sizes /\ 0 \in 0 .. Blocks
  BY DEF Memory!Assumption, Sizes
<1>. QED BY <1>1, KindsAre DEF Memory!Init, Memory!NoTemp, Memory!NoRing, Memory!NoCall, MemoryInv,
            MemoryTypes, Owned, Calling

LEMMA MemoryStays ==
  ASSUME Memory!Assumption, MemoryInv, [Memory!Next]_(Memory!vars) PROVE MemoryInv'
<1>. USE KindsAre DEF MemoryInv
<1>1. CASE UNCHANGED Memory!vars
  BY <1>1 DEF Memory!vars, MemoryTypes, Owned, Calling, NewRing
<1>2. CASE Memory!Open
  <2>1. /\ ringCall.at = "none" /\ ~netifRunning /\ ringCall' = [ringCall EXCEPT !.at = "openTx"]
        /\ oldRing' = <<descRing, ringCount>>
        /\ UNCHANGED <<netifRunning, ringCount, descRing, tempRing, blockHeap, ringErr>>
    BY <1>2 DEF Memory!Open, Memory!Goes
  <2>. QED BY <2>1 DEF MemoryTypes, Owned, Calling, NewRing
<1>3. CASE Memory!OpenTx
  <2>1. /\ ringCall.at = "openTx" /\ UNCHANGED <<netifRunning, ringCount, tempRing, oldRing>>
        /\ ~netifRunning /\ oldRing = <<descRing, ringCount>> /\ tempRing = Memory!NoTemp
        /\ descRing["tx"].block = 0 /\ descRing["rx"].block = 0
    BY <1>3 DEF Memory!OpenTx, Calling
  <2>2. CASE ringCall' = Memory!NoCall /\ ringErr' = TRUE /\ UNCHANGED <<descRing, blockHeap>>
    BY <2>1, <2>2 DEF MemoryTypes, Owned, Calling, NewRing, Memory!NoCall
  <2>3. ASSUME NEW b \in 1 .. Blocks, blockHeap[b] = 0,
               blockHeap' = [blockHeap EXCEPT ![b] = descRing["tx"].count],
               descRing' = [descRing EXCEPT !["tx"].block = b],
               ringCall' = [ringCall EXCEPT !.at = "openRx"], UNCHANGED ringErr
        PROVE  MemoryInv'
    <3>1. MemoryTypes'
      BY <2>1, <2>3, SMTT(30) DEF MemoryTypes, Sizes
    <3>2. /\ descRing'["tx"] = [descRing["tx"] EXCEPT !.block = b] /\ descRing'["rx"] = descRing["rx"]
          /\ descRing = [descRing' EXCEPT !["tx"].block = 0]
      <4>1. descRing \in [{"tx", "rx"} -> [count : Sizes, block : 0 .. Blocks]]
        BY DEF MemoryTypes
      <4>2. descRing["tx"].block = 0
        BY <2>1
      <4>3. descRing' = [descRing EXCEPT !["tx"].block = b]
        BY <2>3
      <4>4. descRing'["tx"] = [descRing["tx"] EXCEPT !.block = b] /\ descRing'["rx"] = descRing["rx"]
        BY <4>1, <4>3
      <4>5. [descRing'["tx"] EXCEPT !.block = 0] = descRing["tx"]
        BY <4>1, <4>2, <4>4
      <4>6. descRing = [descRing' EXCEPT !["tx"] = [descRing'["tx"] EXCEPT !.block = 0]]
        BY <4>1, <4>3, <4>4, <4>5
      <4>. QED BY <4>4, <4>6
    <3>3. Owned'
      BY <2>1, <2>3, <3>2 DEF MemoryTypes, Owned, Memory!NoTemp, Memory!NoRing
    <3>4. Calling'
      BY <2>1, <2>3, <3>2 DEF MemoryTypes, Calling
    <3>. QED BY <3>1, <3>3, <3>4
  <2>. QED BY <1>3, <2>2, <2>3 DEF Memory!OpenTx, Memory!SetUp, Memory!Free, Memory!Goes, Memory!Ends
<1>4. CASE Memory!OpenRx
  <2>1. /\ ringCall.at = "openRx" /\ UNCHANGED <<ringCount, tempRing, oldRing>>
        /\ ~netifRunning /\ oldRing = <<[descRing EXCEPT !["tx"].block = 0], ringCount>>
        /\ tempRing = Memory!NoTemp
        /\ descRing["tx"].block \in 1 .. Blocks /\ descRing["rx"].block = 0
    BY <1>4 DEF Memory!OpenRx, Calling, MemoryTypes
  <2>2. CASE /\ blockHeap' = Memory!Without({descRing["tx"].block})
             /\ descRing' = [descRing EXCEPT !["tx"].block = 0]
             /\ ringCall' = Memory!NoCall /\ ringErr' = TRUE /\ UNCHANGED netifRunning
    <3>1. \A b \in 1 .. Blocks : blockHeap'[b] = IF b = descRing["tx"].block THEN 0 ELSE blockHeap[b]
      BY <2>2 DEF Memory!Without
    <3>2. blockHeap' \in [1 .. Blocks -> Nat]
      BY <2>2 DEF Memory!Without, MemoryTypes
    <3>3. MemoryTypes'
      BY <2>1, <2>2, <3>2 DEF MemoryTypes, Memory!NoCall
    <3>4. descRing'["tx"] = [descRing["tx"] EXCEPT !.block = 0] /\ descRing'["rx"] = descRing["rx"]
      BY <2>2 DEF MemoryTypes
    <3>5. Owned'
      BY <2>1, <3>1, <3>4 DEF MemoryTypes, Owned, Memory!NoTemp, Memory!NoRing
    <3>6. Calling'
      BY <2>1, <2>2, <3>4 DEF MemoryTypes, Calling, Memory!NoCall
    <3>. QED BY <3>3, <3>5, <3>6
  <2>3. ASSUME NEW b \in 1 .. Blocks, blockHeap[b] = 0,
               blockHeap' = [blockHeap EXCEPT ![b] = descRing["rx"].count],
               descRing' = [descRing EXCEPT !["rx"].block = b],
               ringCall' = Memory!NoCall, ringErr' = FALSE, netifRunning' = TRUE
        PROVE  MemoryInv'
    <3>1. MemoryTypes'
      BY <2>1, <2>3 DEF MemoryTypes, Sizes, Memory!NoCall
    <3>2. /\ descRing'["rx"] = [descRing["rx"] EXCEPT !.block = b] /\ descRing'["tx"] = descRing["tx"]
      BY <2>3 DEF MemoryTypes
    <3>a. descRing["tx"].block # b
      BY <2>1, <2>3 DEF MemoryTypes, Owned, Sizes
    <3>3. Owned'
      BY <2>1, <2>3, <3>2, <3>a DEF MemoryTypes, Owned, Memory!NoTemp, Memory!NoRing
    <3>4. Calling'
      BY <2>1, <2>3, <3>2 DEF MemoryTypes, Calling, Memory!NoCall
    <3>. QED BY <3>1, <3>3, <3>4
  <2>. QED BY <1>4, <2>2, <2>3 DEF Memory!OpenRx, Memory!SetUp, Memory!Free, Memory!Ends
<1>5. CASE Memory!Close
  <2>1. /\ ringCall.at = "none" /\ netifRunning' = FALSE /\ ringErr' = FALSE
        /\ UNCHANGED <<ringCount, tempRing, ringCall, oldRing>> /\ tempRing = Memory!NoTemp
        /\ descRing' = [r \in {"tx", "rx"} |-> [descRing[r] EXCEPT !.block = 0]]
    BY <1>5 DEF Memory!Close, Calling
  <2>2. blockHeap' \in [1 .. Blocks -> Nat] /\ \A b \in 1 .. Blocks : blockHeap'[b] # 0 =>
           blockHeap[b] # 0 /\ \A r \in {"tx", "rx"} : b # descRing[r].block
    BY <1>5 DEF Memory!Close, Memory!Without, MemoryTypes
  <2>3. \A b \in 1 .. Blocks : blockHeap'[b] = 0
    BY <2>1, <2>2 DEF Owned, MemoryTypes, Memory!NoTemp, Memory!NoRing
  <2>4. \A r \in {"tx", "rx"} : descRing'[r] = [descRing[r] EXCEPT !.block = 0]
    BY <2>1
  <2>5. MemoryTypes'
    <3>1. \A r \in {"tx", "rx"} : [descRing[r] EXCEPT !.block = 0] \in [count : Sizes, block : 0 .. Blocks]
      <4>1. 0 \in 0 .. Blocks
        BY DEF Memory!Assumption
      <4>2. \A r \in {"tx", "rx"} : descRing[r] \in [count : Sizes, block : 0 .. Blocks]
        BY DEF MemoryTypes
      <4>3. \A d \in [count : Sizes, block : 0 .. Blocks] :
              [d EXCEPT !.block = 0] \in [count : Sizes, block : 0 .. Blocks]
        BY <4>1
      <4>. QED BY <4>2, <4>3
    <3>2. descRing' \in [{"tx", "rx"} -> [count : Sizes, block : 0 .. Blocks]]
      BY <2>1, <3>1
    <3>. QED BY <2>1, <2>2, <3>2 DEF MemoryTypes
  <2>6. Owned'
    BY <2>1, <2>3, <2>4 DEF Owned, MemoryTypes, Memory!NoTemp, Memory!NoRing
  <2>7. Calling'
    BY <2>1, <2>4 DEF Calling, MemoryTypes
  <2>. QED BY <2>5, <2>6, <2>7
<1>6. ASSUME NEW sizes \in [{"tx", "rx"} -> RingAsks], Memory!SetRingparam(sizes) PROVE MemoryInv'
  <2>1. /\ ringCall.at = "none" /\ oldRing' = <<descRing, ringCount>>
        /\ UNCHANGED <<netifRunning, tempRing, blockHeap>> /\ tempRing = Memory!NoTemp
        /\ Memory!Rounded(sizes) \in [{"tx", "rx"} -> Sizes]
    BY <1>6, RoundedTyped DEF Memory!SetRingparam, Calling
  <2>2. CASE netifRunning
    <3>1. /\ ringCall' = [at |-> "setTx", new |-> Memory!Rounded(sizes)]
          /\ UNCHANGED <<ringCount, descRing, ringErr>>
      BY <1>6, <2>2 DEF Memory!SetRingparam
    <3>2. Memory!Rounded(sizes) \in [{"tx", "rx"} -> Nat]
      BY <2>1 DEF Sizes
    <3>3. MemoryTypes'
      BY <2>1, <3>1, <3>2 DEF MemoryTypes
    <3>. QED BY <2>1, <2>2, <3>1, <3>3 DEF Owned, Calling
  <2>3. CASE ~netifRunning
    <3>1. /\ ringCount' = Memory!Rounded(sizes) /\ ringErr' = FALSE /\ UNCHANGED ringCall
          /\ descRing' = [r \in {"tx", "rx"} |-> [descRing[r] EXCEPT !.count = Memory!Rounded(sizes)[r]]]
      BY <1>6, <2>3 DEF Memory!SetRingparam
    <3>2. MemoryTypes'
      BY <2>1, <3>1 DEF MemoryTypes
    <3>3. \A r \in {"tx", "rx"} : /\ descRing'[r].count = ringCount'[r] /\ descRing'[r].block = 0
                                 /\ descRing[r].block = 0
      BY <2>1, <2>3, <3>1 DEF MemoryTypes, Calling
    <3>. QED BY <2>1, <2>3, <3>1, <3>2, <3>3 DEF Owned, Calling, Memory!NoTemp, Memory!NoRing
  <2>. QED BY <2>2, <2>3
<1>7. CASE Memory!NoTempMemory \/ Memory!SetTxFails
  <2>1. /\ ringCall.at = "setTx" /\ ringCall' = Memory!NoCall /\ ringErr' = TRUE
        /\ UNCHANGED <<netifRunning, ringCount, descRing, tempRing, blockHeap, oldRing>>
    BY <1>7 DEF Memory!NoTempMemory, Memory!SetTxFails, Memory!Ends
  <2>. QED BY <2>1 DEF MemoryTypes, Owned, Calling, Memory!NoCall
<1>8. ASSUME NEW r \in {"tx", "rx"}, tempRing[r] = Memory!NoRing, ringCall.new[r] \in Sizes,
             NEW b \in 1 .. Blocks, blockHeap[b] = 0,
             blockHeap' = [blockHeap EXCEPT ![b] = ringCall.new[r]],
             tempRing' = [tempRing EXCEPT ![r] = [count |-> ringCall.new[r], block |-> b]],
             UNCHANGED <<descRing, ringCount>>
      PROVE  /\ blockHeap' \in [1 .. Blocks -> Nat]
             /\ tempRing' \in [{"tx", "rx"} -> [count : Nat, block : 0 .. Blocks]]
             /\ Owned'
  <2>1. blockHeap' \in [1 .. Blocks -> Nat]
    BY <1>8 DEF MemoryTypes, Sizes
  <2>2. tempRing' \in [{"tx", "rx"} -> [count : Nat, block : 0 .. Blocks]]
    BY <1>8 DEF MemoryTypes, Sizes
  <2>3. \A k \in {"tx", "rx"} : /\ tempRing'[k] = IF k = r THEN [count |-> ringCall.new[r], block |-> b]
                                                 ELSE tempRing[k]
                               /\ b # descRing[k].block /\ b # tempRing[k].block
    <3>1. \A k \in {"tx", "rx"} :
            tempRing'[k] = IF k = r THEN [count |-> ringCall.new[r], block |-> b] ELSE tempRing[k]
      BY <1>8 DEF MemoryTypes
    <3>2. \A k \in {"tx", "rx"} : ringCount[k] # 0
      BY DEF MemoryTypes, Sizes
    <3>3. \A k \in {"tx", "rx"} : b # descRing[k].block
      BY <1>8, <3>2 DEF Owned
    <3>4. \A k \in {"tx", "rx"} : b # tempRing[k].block
      BY <1>8 DEF Owned
    <3>. QED BY <3>1, <3>3, <3>4
  <2>4. Owned'
    <3>1. /\ b # 0 /\ tempRing'[r].block = b /\ tempRing'[r].count = ringCall.new[r]
          /\ tempRing'[r].count # 0 /\ tempRing[r].block = 0 /\ blockHeap'[b] = ringCall.new[r]
          /\ \A c \in 1 .. Blocks : c # b => blockHeap'[c] = blockHeap[c]
      BY <1>8, <2>3 DEF MemoryTypes, Sizes, Memory!NoRing
    <3>2. \A k \in {"tx", "rx"} : /\ k # r => tempRing'[k] = tempRing[k]
                                 /\ tempRing[k].block \in 0 .. Blocks /\ descRing[k].block \in 0 .. Blocks
                                 /\ descRing[k].block # b /\ tempRing[k].block # b
      BY <2>3 DEF MemoryTypes
    <3>3. \A k \in {"tx", "rx"} :
            /\ descRing[k].block # 0 => blockHeap'[descRing[k].block] = ringCount[k]
            /\ tempRing'[k].block # 0 => /\ blockHeap'[tempRing'[k].block] = tempRing'[k].count
                                         /\ tempRing'[k].count # 0
                                         /\ tempRing'[k].block \notin {descRing["tx"].block, descRing["rx"].block}
      BY <3>1, <3>2 DEF Owned
    <3>4. \A c \in 1 .. Blocks : blockHeap'[c] # 0 =>
            \E k \in {"tx", "rx"} : c \in {descRing[k].block, tempRing'[k].block}
      BY <3>1, <3>2 DEF Owned
    <3>5. tempRing'["tx"].block # 0 => tempRing'["tx"].block # tempRing'["rx"].block
      BY <3>1, <3>2 DEF Owned
    <3>. QED BY <1>8, <3>3, <3>4, <3>5 DEF Owned
  <2>. QED BY <2>1, <2>2, <2>4
<1>9. CASE Memory!SetTx
  <2>1. /\ ringCall.at = "setTx" /\ ringCall' = [ringCall EXCEPT !.at = "setRx"]
        /\ UNCHANGED <<netifRunning, ringCount, descRing, ringErr, oldRing>>
        /\ tempRing = Memory!NoTemp
    BY <1>9 DEF Memory!SetTx, Memory!Goes, Calling
  <2>2. CASE ringCall.new["tx"] = ringCount["tx"]
    <3>1. UNCHANGED <<blockHeap, tempRing>>
      BY <1>9, <2>2 DEF Memory!SetTx, Memory!Sets
    <3>. QED BY <2>1, <2>2, <3>1 DEF MemoryTypes, Owned, Calling, NewRing, Memory!NoTemp, Memory!NoRing
  <2>3. CASE ringCall.new["tx"] # ringCount["tx"]
    <3>1. PICK b \in 1 .. Blocks :
            /\ blockHeap[b] = 0 /\ blockHeap' = [blockHeap EXCEPT ![b] = ringCall.new["tx"]]
            /\ tempRing' = [tempRing EXCEPT !["tx"] = [count |-> ringCall.new["tx"], block |-> b]]
      BY <1>9, <2>3 DEF Memory!SetTx, Memory!Sets, Memory!SetUpTemp, Memory!Free
    <3>2. /\ blockHeap' \in [1 .. Blocks -> Nat] /\ Owned'
          /\ tempRing' \in [{"tx", "rx"} -> [count : Nat, block : 0 .. Blocks]]
      BY <1>8, <2>1, <3>1 DEF Calling, Memory!NoTemp
    <3>3. MemoryTypes'
      BY <2>1, <3>2 DEF MemoryTypes
    <3>4. tempRing'["tx"] = [count |-> ringCall.new["tx"], block |-> b] /\ tempRing'["rx"] = Memory!NoRing
      BY <2>1, <3>1 DEF Memory!NoTemp, MemoryTypes
    <3>5. Calling'
      BY <2>1, <2>3, <3>4 DEF MemoryTypes, Calling, NewRing
    <3>. QED BY <3>2, <3>3, <3>5
  <2>. QED BY <2>2, <2>3
<1>10. CASE Memory!SetRx
  <2>1. /\ ringCall.at = "setRx" /\ ringCall' = [ringCall EXCEPT !.at = "copy"]
        /\ UNCHANGED <<netifRunning, ringCount, descRing, ringErr, oldRing>>
        /\ NewRing("tx") /\ tempRing["rx"] = Memory!NoRing
    BY <1>10 DEF Memory!SetRx, Memory!Goes, Calling
  <2>2. CASE ringCall.new["rx"] = ringCount["rx"]
    <3>1. UNCHANGED <<blockHeap, tempRing>>
      BY <1>10, <2>2 DEF Memory!SetRx, Memory!Sets
    <3>. QED BY <2>1, <2>2, <3>1 DEF MemoryTypes, Owned, Calling, NewRing, Memory!NoRing
  <2>3. CASE ringCall.new["rx"] # ringCount["rx"]
    <3>1. PICK b \in 1 .. Blocks :
            /\ blockHeap[b] = 0 /\ blockHeap' = [blockHeap EXCEPT ![b] = ringCall.new["rx"]]
            /\ tempRing' = [tempRing EXCEPT !["rx"] = [count |-> ringCall.new["rx"], block |-> b]]
      BY <1>10, <2>3 DEF Memory!SetRx, Memory!Sets, Memory!SetUpTemp, Memory!Free
    <3>2. /\ blockHeap' \in [1 .. Blocks -> Nat] /\ Owned'
          /\ tempRing' \in [{"tx", "rx"} -> [count : Nat, block : 0 .. Blocks]]
      BY <1>8, <2>1, <3>1 DEF Calling
    <3>3. MemoryTypes'
      BY <2>1, <3>2 DEF MemoryTypes
    <3>4. tempRing'["rx"] = [count |-> ringCall.new["rx"], block |-> b] /\ tempRing'["tx"] = tempRing["tx"]
      BY <2>1, <3>1 DEF MemoryTypes
    <3>5. Calling'
      BY <2>1, <2>3, <3>4 DEF MemoryTypes, Calling, NewRing
    <3>. QED BY <3>2, <3>3, <3>5
  <2>. QED BY <2>2, <2>3
<1>11. CASE Memory!SetRxFails
  <2>1. /\ ringCall.at = "setRx" /\ ringCall' = Memory!NoCall /\ ringErr' = TRUE
        /\ UNCHANGED <<netifRunning, ringCount, descRing, oldRing>> /\ tempRing' = Memory!NoTemp
        /\ NewRing("tx") /\ tempRing["rx"] = Memory!NoRing
    BY <1>11 DEF Memory!SetRxFails, Memory!Ends, Calling
  <2>2. /\ blockHeap' \in [1 .. Blocks -> Nat]
        /\ \A b \in 1 .. Blocks :
             blockHeap'[b] = IF b = tempRing["tx"].block THEN 0 ELSE blockHeap[b]
    BY <1>11, <2>1 DEF Memory!SetRxFails, Memory!Sets, Memory!Without, MemoryTypes, NewRing
  <2>3. MemoryTypes'
    BY <2>1, <2>2 DEF MemoryTypes, Memory!NoCall, Memory!NoTemp, Memory!NoRing
  <2>4. Owned'
    BY <2>1, <2>2 DEF MemoryTypes, Owned, Memory!NoTemp, Memory!NoRing
  <2>. QED BY <2>1, <2>3, <2>4 DEF Calling, Memory!NoCall
<1>12. CASE Memory!CopyBack
  <2>1. /\ ringCall.at = "copy" /\ ringCall' = Memory!NoCall /\ ringErr' = FALSE
        /\ UNCHANGED <<netifRunning, oldRing>> /\ tempRing' = Memory!NoTemp
        /\ ringCount' = ringCall.new /\ NewRing("tx") /\ NewRing("rx")
        /\ descRing' = [r \in {"tx", "rx"} |-> IF ringCall.new[r] # ringCount[r] THEN tempRing[r] ELSE descRing[r]]
    BY <1>12 DEF Memory!CopyBack, Memory!Ends, Calling, Memory!Sets
  <2>2. /\ blockHeap' \in [1 .. Blocks -> Nat]
        /\ \A b \in 1 .. Blocks :
             blockHeap'[b] = IF \E r \in {"tx", "rx"} : ringCall.new[r] # ringCount[r] /\ b = descRing[r].block
                             THEN 0 ELSE blockHeap[b]
    BY <1>12 DEF Memory!CopyBack, Memory!Sets, Memory!Without, MemoryTypes
  <2>3. ringCall.new \in [{"tx", "rx"} -> Sizes] /\ netifRunning
        /\ \A r \in {"tx", "rx"} : descRing[r].block # 0
    BY <2>1 DEF Calling, MemoryTypes, Sizes
  <2>4. \A r \in {"tx", "rx"} :
          /\ descRing'[r] = IF ringCall.new[r] # ringCount[r] THEN tempRing[r] ELSE descRing[r]
          /\ descRing'[r].count = ringCall.new[r]
          /\ descRing'[r] \in [count : Sizes, block : 0 .. Blocks] /\ descRing'[r].block # 0
    BY <2>1, <2>3 DEF NewRing, Owned, MemoryTypes
  <2>5. MemoryTypes'
    <3>1. descRing' \in [{"tx", "rx"} -> [count : Sizes, block : 0 .. Blocks]]
      <4>1. \A r \in {"tx", "rx"} : (IF ringCall.new[r] # ringCount[r] THEN tempRing[r] ELSE descRing[r])
                                    \in [count : Sizes, block : 0 .. Blocks]
        BY <2>4
      <4>. QED BY <2>1, <4>1
    <3>2. tempRing' \in [{"tx", "rx"} -> [count : Nat, block : 0 .. Blocks]]
      BY <2>1 DEF Memory!NoTemp, Memory!NoRing, Memory!Assumption
    <3>3. ringCall' \in [at : {"none", "openTx", "openRx", "setTx", "setRx", "copy"},
                         new : [{"tx", "rx"} -> Nat]]
      BY <2>1 DEF Memory!NoCall
    <3>. QED BY <2>1, <2>2, <2>3, <3>1, <3>2, <3>3 DEF MemoryTypes
  <2>6. \A r \in {"tx", "rx"} : blockHeap'[descRing'[r].block] = ringCall.new[r]
    BY <2>1, <2>2, <2>3, <2>4 DEF NewRing, Owned, MemoryTypes
  <2>7. descRing'["tx"].block # descRing'["rx"].block
    BY <2>1, <2>3, <2>4 DEF NewRing, Owned, MemoryTypes
  <2>8. \A b \in 1 .. Blocks : blockHeap'[b] # 0 => \E r \in {"tx", "rx"} : b = descRing'[r].block
    BY <2>1, <2>2, <2>3, <2>4 DEF NewRing, Owned, MemoryTypes
  <2>9. Owned'
    BY <2>1, <2>4, <2>6, <2>7, <2>8 DEF Owned, Memory!NoTemp, Memory!NoRing
  <2>10. Calling'
    BY <2>1, <2>3, <2>4 DEF Calling, Memory!NoCall
  <2>. QED BY <2>5, <2>9, <2>10
<1>. QED BY <1>1, <1>2, <1>3, <1>4, <1>5, <1>6, <1>7, <1>9, <1>10, <1>11, <1>12 DEF Memory!Next
-----------------------------------------------------------------------------
(* Between calls nothing is copied. *)
LEMMA WholeIs == ASSUME Memory!Assumption, MemoryInv PROVE Memory!RingsAreWhole
<1>1. SUFFICES ASSUME ringCall.at = "none"
      PROVE  /\ \A r \in {"tx", "rx"} : descRing[r].count = ringCount[r]
             /\ \A r \in {"tx", "rx"} :
                  IF netifRunning THEN descRing[r].block # 0 /\ blockHeap[descRing[r].block] = ringCount[r]
                  ELSE descRing[r].block = 0
             /\ {b \in 1 .. Blocks : ~(blockHeap[b] = 0)} = {descRing[r].block : r \in {"tx", "rx"}} \ {0}
             /\ netifRunning => descRing["tx"].block # descRing["rx"].block
             /\ ringErr => <<descRing, ringCount>> = oldRing
  BY KindsAre DEF Memory!RingsAreWhole, Memory!Free
<1>2. \A b \in 1 .. Blocks : blockHeap[b] # 0 => \E r \in {"tx", "rx"} : b = descRing[r].block
  <2>1. \A r \in {"tx", "rx"} : tempRing[r].block = 0
    BY <1>1, KindsAre DEF MemoryInv, Calling, Memory!NoTemp, Memory!NoRing
  <2>2. \A b \in 1 .. Blocks : b # 0
    BY DEF Memory!Assumption
  <2>. QED BY <1>1, <2>1, <2>2 DEF MemoryInv, Owned
<1>3. \A r \in {"tx", "rx"} : descRing[r].block # 0 =>
        descRing[r].block \in 1 .. Blocks /\ blockHeap[descRing[r].block] # 0
  BY <1>1 DEF MemoryInv, Owned, MemoryTypes, Sizes
<1>. QED BY <1>1, <1>2, <1>3 DEF MemoryInv, Owned, Calling, MemoryTypes

(* e1000_set_ringparam, for any number of blocks and any counts asked for: between *)
(* two calls the memory in use is the rings', and a call that failed changed none.  *)
THEOREM RingMemoryIsWhole ==
  ASSUME Memory!Assumption PROVE Memory!Spec => []Memory!RingsAreWhole
<1>1. Memory!Init => MemoryInv
  BY MemoryStarts
<1>2. MemoryInv /\ [Memory!Next]_(Memory!vars) => MemoryInv'
  BY MemoryStays
<1>3. MemoryInv => Memory!RingsAreWhole
  BY WholeIs
<1>. QED BY <1>1, <1>2, <1>3, PTL DEF Memory!Spec
=============================================================================

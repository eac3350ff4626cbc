------------------------------- MODULE TxRing -------------------------------
(***************************************************************************)
(* The transmit ring of the e1000e driver (netdev.c): e1000_xmit_frame on  *)
(* the stack's processor, e1000_clean_tx_irq in NAPI context on another,   *)
(* the controller behind the tail register, the watchdog, the hang         *)
(* detector and the reset they schedule.  The packets 1 .. Packets are     *)
(* handed over one after the other, as the stack's transmit lock has it.   *)
(***************************************************************************)
EXTENDS Rings, FiniteSets, Sequences

CONSTANTS
  Packets,        \* how many packets the stack hands over
  Frags,          \* the data descriptors each of them takes
  Offload,        \* the packets that need a context descriptor
  MaxFrags,       \* the room kept for the next packet, MAX_SKB_FRAGS
  WakeThreshold,  \* TX_WAKE_THRESHOLD
  Batches,        \* the stack uses netdev_xmit_more
  MayDrop,        \* the packets the driver may fail to pad or to make writable
  MayNotMap,      \* the packets whose buffers may fail to be mapped
  MayHang,        \* the controller may hang, the link may be lost
  DmaBurst,       \* FLAG2_DMA_BURST
  None

Packet == 1 .. Packets

(* A ring has two descriptors at least, a packet one buffer at least. *)
Assumption ==
  /\ Count \in Nat \ {0, 1} /\ Packets \in Nat
  /\ Frags \in [Packet -> Nat \ {0}]
  /\ None \notin Packet

VARIABLES
  next_to_use, next_to_clean, buffer, desc,     \* the ring
  head, tail, hung,                             \* the controller
  stopped, carrier, down,                       \* the interface
  cur, xmit,                                    \* e1000_xmit_frame
  clean,                                        \* e1000_clean_tx_irq
  detect, recheck, hangTask, resetTask,         \* the watchdog's requests
  wire, freed                                   \* packets sent, packets freed

ring == <<next_to_use, next_to_clean, buffer, desc>>
hw == <<head, tail, hung>>
link == <<stopped, carrier, down>>
tasks == <<detect, recheck, hangTask, resetTask>>
vars == <<ring, hw, link, cur, xmit, clean, tasks, wire, freed>>

(* A buffer_info and a descriptor that hold nothing. *)
NoBuffer == [dma |-> FALSE, skb |-> None, watch |-> 0, stamp |-> FALSE]
NoDesc == [eop |-> FALSE, dd |-> FALSE]

Init ==
  /\ next_to_use = 0 /\ next_to_clean = 0
  /\ buffer = [i \in Slot |-> NoBuffer]
  /\ desc = [i \in Slot |-> NoDesc]
  /\ head = 0 /\ tail = 0 /\ hung = FALSE
  /\ stopped = FALSE /\ carrier = TRUE /\ down = FALSE
  /\ cur = 1 /\ xmit = [pc |-> "idle", more |-> FALSE, first |-> 0]
  /\ clean = [pc |-> "idle", i |-> 0, eop |-> 0, count |-> 0]
  /\ detect = FALSE /\ recheck = FALSE
  /\ hangTask = FALSE /\ resetTask = FALSE
  /\ wire = <<>> /\ freed = {}

-----------------------------------------------------------------------------
(* e1000_xmit_frame *)

Unused == DescUnused(next_to_clean, next_to_use)

(* The descriptors xmit_frame counts for a packet, and a gap of two. *)
NeedWithoutContext(p) == Frags[p]
Need(p) == (IF p \in Offload THEN 1 ELSE 0) + 1 + Frags[p] + 2

Goto(pc) == xmit' = [xmit EXCEPT !.pc = pc]

(* The packet is freed, and the call returns NETDEV_TX_OK at once: the     *)
(* tail register is left as it is.                                         *)
Drop ==
  /\ freed' = freed \cup {cur}
  /\ cur' = cur + 1
  /\ Goto("idle")

MayCall(more) ==
  /\ xmit.pc = "idle" /\ cur <= Packets /\ ~stopped
  /\ more => Batches /\ cur < Packets

XmitDropped ==
  /\ MayCall(FALSE)
  /\ down \/ cur \in MayDrop
  /\ Drop
  /\ UNCHANGED <<ring, hw, link, clean, tasks, wire>>

(* e1000_maybe_stop_tx: is there room for size descriptors? *)
Roomy(size, enough, short) ==
  IF DescUnused(next_to_clean, next_to_use') >= size THEN enough ELSE short

XmitFrame(more) ==
  /\ MayCall(more) /\ ~down
  /\ UNCHANGED ring
  /\ xmit' = [pc |-> Roomy(Need(cur), "context", "stop"), more |-> more,
              first |-> next_to_use]
  /\ UNCHANGED <<hw, link, cur, clean, tasks, wire, freed>>

(* __e1000_maybe_stop_tx stops the queue, and then looks again. *)
XmitStop ==
  /\ xmit.pc \in {"stop", "restop"}
  /\ stopped' = TRUE
  /\ Goto(IF xmit.pc = "stop" THEN "recheck" ELSE "reroom")
  /\ UNCHANGED <<ring, hw, carrier, down, cur, clean, tasks, wire, freed>>

NoSecondLook(size, reprieve, busy) ==
  Goto(busy) /\ UNCHANGED link
SecondLook(size, reprieve, busy) ==
  IF Unused < size THEN Goto(busy) /\ UNCHANGED link
  ELSE Goto(reprieve) /\ stopped' = FALSE /\ UNCHANGED <<carrier, down>>

(* Without a reprieve NETDEV_TX_BUSY: the stack keeps the packet. *)
XmitRecheck ==
  /\ xmit.pc = "recheck"
  /\ SecondLook(Need(cur), "context", "idle")
  /\ UNCHANGED <<ring, hw, cur, clean, tasks, wire, freed>>

(* e1000_tso, e1000_tx_csum: a context descriptor ahead of the packet. *)
XmitContext ==
  /\ xmit.pc = "context"
  /\ UNCHANGED <<next_to_clean, hw, link, clean, tasks, wire>>
  /\ \/ /\ cur \in Offload
        /\ desc' = [desc EXCEPT ![next_to_use].eop = FALSE]
        /\ buffer' = [buffer EXCEPT ![next_to_use].stamp = TRUE,
                                    ![next_to_use].watch = next_to_use]
        /\ next_to_use' = After(next_to_use)
        /\ Goto("map") /\ UNCHANGED <<cur, freed>>
     \/ /\ cur \notin Offload
        /\ Goto("map") /\ UNCHANGED <<next_to_use, buffer, desc, cur, freed>>
     \/ /\ cur \in Offload \cap MayDrop
        /\ Drop /\ UNCHANGED <<next_to_use, buffer, desc>>

(* The slots e1000_tx_map gives to n data descriptors. *)
Mapped(n) == {Plus(next_to_use, k) : k \in 0 .. n - 1}

(* e1000_tx_map: the last slot holds the packet, the first one names it.   *)
Filled ==
  [i \in Slot |->
     IF i \in Mapped(Frags[cur])
     THEN [dma |-> TRUE, watch |-> i, stamp |-> TRUE,
           skb |-> IF i = Plus(next_to_use, Frags[cur] - 1) THEN cur ELSE None]
     ELSE buffer[i]]
TxMapForgetsFirst == Filled
TxMap == [Filled EXCEPT ![xmit.first].watch = Plus(next_to_use, Frags[cur] - 1)]

XmitMap ==
  /\ xmit.pc = "map"
  /\ buffer' = TxMap
  /\ Goto("queue")
  /\ UNCHANGED <<next_to_use, next_to_clean, desc, hw, link, cur, clean,
                 tasks, wire, freed>>

(* dma_error: n buffers are mapped when the next one fails, whose dma is   *)
(* cleared.  The loop walks back over n - 1 of them.                       *)
Unwind(n, cleared) ==
  [i \in Slot |->
     IF i \in {Plus(next_to_use, k) : k \in 1 .. n - 1}
     THEN [NoBuffer EXCEPT !.watch = i]
     ELSE IF i \in Mapped(n + 1)
     THEN [dma |-> i \notin cleared, skb |-> None, watch |-> i, stamp |-> i # xmit.first]
     ELSE IF i = xmit.first THEN [buffer[i] EXCEPT !.stamp = FALSE]
     ELSE buffer[i]]
UnwoundKeepsFailed(n) == Unwind(n, {})
Unwound(n) == Unwind(n, {Plus(next_to_use, n)})

XmitMapFails ==
  /\ xmit.pc = "map" /\ cur \in MayNotMap
  /\ \E n \in 0 .. Frags[cur] - 1 : buffer' = Unwound(n)
  /\ next_to_use' = xmit.first
  /\ Drop
  /\ UNCHANGED <<next_to_clean, desc, hw, link, clean, tasks, wire>>

(* e1000_tx_queue, then the check that the next packet will find room. *)
XmitQueue ==
  /\ xmit.pc = "queue"
  /\ desc' = [i \in Slot |->
                IF i \in Mapped(Frags[cur])
                THEN [eop |-> i = Plus(next_to_use, Frags[cur] - 1), dd |-> FALSE]
                ELSE desc[i]]
  /\ next_to_use' = Plus(next_to_use, Frags[cur])
  /\ Goto(Roomy(MaxFrags + 2, "kick", "restop"))
  /\ UNCHANGED <<next_to_clean, buffer, hw, link, cur, clean, tasks, wire, freed>>

XmitReroom ==
  /\ xmit.pc = "reroom"
  /\ SecondLook(MaxFrags + 2, "kick", "kick")
  /\ UNCHANGED <<ring, hw, cur, clean, tasks, wire, freed>>

(* The tail is written at the end of a batch, or when the queue stops.     *)
(* e1000e_update_tdt_wa: firmware may spoil the write; then the            *)
(* transmitter is switched off and a reset is scheduled.                   *)
XmitKick ==
  /\ xmit.pc = "kick"
  /\ IF xmit.more /\ ~stopped THEN UNCHANGED <<tail, hung, resetTask>>
     ELSE \/ tail' = next_to_use /\ UNCHANGED <<hung, resetTask>>
          \/ MayHang /\ hung' = TRUE /\ resetTask' = TRUE /\ UNCHANGED tail
  /\ cur' = cur + 1 /\ Goto("idle")
  /\ UNCHANGED <<ring, head, link, clean, detect, recheck, hangTask, wire, freed>>

-----------------------------------------------------------------------------
(* The controller *)

(* The slots of the packet at the head. *)
Leading ==
  LET e == CHOOSE k \in 0 .. Count - 1 :
             /\ desc[Plus(head, k)].eop
             /\ \A j \in 0 .. k - 1 : ~desc[Plus(head, j)].eop
  IN Plus(head, e)

HwSend ==
  /\ carrier /\ ~hung /\ head # tail
  /\ wire' = Append(wire, buffer[Leading].skb)
  /\ desc' = [desc EXCEPT ![Leading].dd = TRUE]
  /\ head' = After(Leading)
  /\ UNCHANGED <<next_to_use, next_to_clean, buffer, tail, hung, link, cur,
                 xmit, clean, tasks, freed>>

HwHang ==
  /\ MayHang /\ ~hung
  /\ hung' = TRUE
  /\ UNCHANGED <<ring, head, tail, link, cur, xmit, clean, tasks, wire, freed>>

-----------------------------------------------------------------------------
(* e1000_clean_tx_irq *)

CleanStart ==
  /\ clean.pc = "idle"
  /\ detect \/ \E i \in Slot : desc[i].dd
  /\ clean' = [pc |-> "scan", i |-> next_to_clean,
               eop |-> buffer[next_to_clean].watch, count |-> 0]
  /\ UNCHANGED <<ring, hw, link, cur, xmit, tasks, wire, freed>>

(* One turn of the outer loop: the slots of one packet, e1000_put_txbuf on *)
(* each of them.                                                           *)
LeaveDone(reaped) ==
  desc
ClearDone(reaped) ==
  [i \in Slot |-> IF i \in reaped THEN [desc[i] EXCEPT !.dd = FALSE] ELSE desc[i]]

CleanPacket ==
  /\ clean.pc = "scan" /\ desc[clean.eop].dd /\ clean.count < Count
  /\ LET next == After(clean.eop)
         reaped == Span(clean.i, clean.eop) \cup {clean.eop}
     IN /\ buffer' = [i \in Slot |->
                        IF i \in reaped
                        THEN [NoBuffer EXCEPT !.watch = buffer[i].watch]
                        ELSE buffer[i]]
        /\ desc' = ClearDone(reaped)
        /\ freed' = freed \cup ({buffer[i].skb : i \in reaped} \ {None})
        /\ clean' = [pc |-> IF next = next_to_use THEN "publish" ELSE "scan",
                     i |-> next, eop |-> buffer[next].watch,
                     count |-> clean.count + Cardinality(reaped)]
  /\ UNCHANGED <<next_to_use, next_to_clean, hw, link, cur, xmit, tasks, wire>>

CleanPublish ==
  /\ \/ clean.pc = "publish"
     \/ clean.pc = "scan" /\ (~desc[clean.eop].dd \/ clean.count >= Count)
  /\ next_to_clean' = clean.i
  /\ clean' = [clean EXCEPT !.pc = "room"]
  /\ UNCHANGED <<next_to_use, buffer, desc, hw, link, cur, xmit, tasks, wire,
                 freed>>

CleanRoom ==
  /\ clean.pc = "room"
  /\ clean' = [clean EXCEPT !.pc =
                 IF clean.count > 0 /\ carrier /\ Unused >= WakeThreshold
                 THEN "wake" ELSE "hang"]
  /\ UNCHANGED <<ring, hw, link, cur, xmit, tasks, wire, freed>>

CleanWake ==
  /\ clean.pc = "wake"
  /\ stopped' = (stopped /\ down)
  /\ clean' = [clean EXCEPT !.pc = "hang"]
  /\ UNCHANGED <<ring, hw, carrier, down, cur, xmit, tasks, wire, freed>>

(* The watchdog asked whether the oldest buffer has waited too long.  That *)
(* depends on time: it has when the controller hangs, and may have when    *)
(* it does not.                                                            *)
CleanDetect ==
  /\ clean.pc = "hang"
  /\ clean' = [clean EXCEPT !.pc = "idle"]
  /\ IF detect
     THEN /\ detect' = FALSE
          /\ \/ buffer[clean.i].stamp /\ hangTask' = TRUE /\ UNCHANGED recheck
             \/ ~(buffer[clean.i].stamp /\ hung)
                /\ recheck' = FALSE /\ UNCHANGED hangTask
     ELSE UNCHANGED <<detect, hangTask, recheck>>
  /\ UNCHANGED <<ring, hw, link, cur, xmit, resetTask, wire, freed>>

-----------------------------------------------------------------------------
(* The watchdog, the hang task, ndo_tx_timeout and the reset *)

(* e1000_watchdog_task with carrier asks for the hang check. *)
WatchdogDetect ==
  /\ carrier /\ ~down /\ ~detect /\ MayHang
  /\ detect' = TRUE
  /\ UNCHANGED <<ring, hw, link, cur, xmit, clean, recheck, hangTask,
                 resetTask, wire, freed>>

(* The link is lost: queued work cannot be done, a reset flushes it. *)
WatchdogLinkDown ==
  /\ MayHang /\ ~down
  /\ carrier' = FALSE
  /\ stopped' = (stopped \/ carrier)
  /\ resetTask' = (resetTask \/ Unused + 1 < Count)
  /\ UNCHANGED <<ring, hw, down, cur, xmit, clean, detect, recheck, hangTask,
                 wire, freed>>

WatchdogLinkUp ==
  /\ ~carrier /\ ~down
  /\ carrier' = TRUE /\ stopped' = FALSE
  /\ UNCHANGED <<ring, hw, down, cur, xmit, clean, tasks, wire, freed>>

(* e1000_print_hw_hang *)
PrintHwHang ==
  /\ hangTask
  /\ hangTask' = FALSE
  /\ IF down THEN UNCHANGED <<recheck, stopped>>
     ELSE IF ~recheck /\ DmaBurst THEN recheck' = TRUE /\ UNCHANGED stopped
     ELSE recheck' = FALSE /\ stopped' = (stopped \/ head # tail)
  /\ UNCHANGED <<ring, hw, carrier, down, cur, xmit, clean, detect, resetTask,
                 wire, freed>>

(* The stack calls e1000_tx_timeout when the queue stays stopped. *)
TxTimeout ==
  /\ stopped /\ carrier /\ ~down /\ MayHang
  /\ resetTask' = TRUE
  /\ UNCHANGED <<ring, hw, link, cur, xmit, clean, detect, recheck, hangTask,
                 wire, freed>>

(* e1000_reset_task up to the point where e1000e_down sleeps. *)
ResetDown ==
  /\ resetTask /\ ~down
  /\ down' = TRUE /\ carrier' = FALSE /\ stopped' = TRUE
  /\ resetTask' = FALSE
  /\ UNCHANGED <<ring, hw, cur, xmit, clean, detect, recheck, hangTask, wire,
                 freed>>

(* e1000_clean_tx_ring, after napi_synchronize; the sleep outlasts a call  *)
(* of e1000_xmit_frame that was under way.  Then e1000e_up.                *)
ResetUp ==
  /\ down /\ xmit.pc = "idle" /\ clean.pc = "idle"
  /\ freed' = freed \cup ({buffer[i].skb : i \in Slot} \ {None})
  /\ next_to_use' = 0 /\ next_to_clean' = 0
  /\ buffer' = [i \in Slot |-> NoBuffer]
  /\ desc' = [i \in Slot |-> NoDesc]
  /\ head' = 0 /\ tail' = 0 /\ hung' = FALSE
  /\ down' = FALSE
  /\ UNCHANGED <<stopped, carrier, cur, xmit, clean, tasks, wire>>

Xmit ==
  \/ XmitDropped \/ (\E more \in BOOLEAN : XmitFrame(more))
  \/ XmitStop \/ XmitRecheck \/ XmitContext \/ XmitMap \/ XmitMapFails \/ XmitQueue
  \/ XmitReroom \/ XmitKick

Clean ==
  \/ CleanStart \/ CleanPacket \/ CleanPublish \/ CleanRoom \/ CleanWake
  \/ CleanDetect

Reset == ResetDown \/ ResetUp

Next ==
  \/ Xmit \/ HwSend \/ HwHang \/ Clean
  \/ WatchdogDetect \/ WatchdogLinkDown \/ WatchdogLinkUp
  \/ PrintHwHang \/ TxTimeout \/ Reset

Spec == Init /\ [][Next]_vars

(* The processors run, the controller sends and interrupts, the timers of  *)
(* the watchdog and of the stack fire.                                     *)
Fairness ==
  /\ WF_vars(Xmit) /\ WF_vars(HwSend) /\ WF_vars(Clean) /\ WF_vars(Reset)
  /\ WF_vars(WatchdogDetect) /\ WF_vars(WatchdogLinkUp)
  /\ WF_vars(PrintHwHang) /\ WF_vars(TxTimeout)
  /\ WF_vars(WatchdogLinkDown /\ ~carrier)

FairSpec == Spec /\ Fairness

-----------------------------------------------------------------------------
Buffer == [dma : BOOLEAN, skb : Packet \cup {None}, watch : Slot, stamp : BOOLEAN]

(* Types of the ring and of the two functions that work on it. *)
TypeOK ==
  /\ next_to_use \in Slot /\ next_to_clean \in Slot
  /\ head \in Slot /\ tail \in Slot
  /\ buffer \in [Slot -> Buffer]
  /\ desc \in [Slot -> [eop : BOOLEAN, dd : BOOLEAN]]
  /\ cur \in 1 .. Packets + 1 /\ freed \subseteq Packet
  /\ clean.i \in Slot /\ clean.eop \in Slot

(* What the controller may fetch is there: the slots between head and tail *)
(* hold whole packets that nobody has unmapped or freed, although xmit and *)
(* clean move next_to_use and next_to_clean under it.                      *)
FetchedIsMapped ==
  LET pending == Span(head, tail) IN
  /\ pending \subseteq Span(next_to_clean, next_to_use)
  /\ \A i \in pending : desc[i].eop =>
       buffer[i].dma /\ buffer[i].skb \notin freed \cup {None}

(* A mapping the driver holds belongs to a slot it will clean, or to the   *)
(* packet it is mapping: e1000_tx_map leaves none behind when it fails.    *)
NoStrayMapping ==
  xmit.pc = "idle" =>
    \A i \in Slot : buffer[i].dma => i \in Span(next_to_clean, next_to_use)

(* Every call of xmit_frame finds the slots it counted free: the gap of    *)
(* two keeps the tail from touching the head.                              *)
TailKeepsOff ==
  xmit.pc \in {"map", "queue"} =>
    \A i \in Mapped(Frags[cur]) :
      xmit.pc = "map" => ~buffer[i].dma /\ After(i) # next_to_clean

(* A stopped queue is started again, by a reclaim, the reprieve of a       *)
(* second look, a link that comes back or the stack's timeout.             *)
QueueIsStopped == stopped /\ cur <= Packets
QueueRestarts == QueueIsStopped ~> ~QueueIsStopped

(* Every packet the driver takes is let go of in the end. *)
Taken(p) == cur > p
Freed(p) == p \in freed
TakenIsFreed == \A p \in Packet : Taken(p) ~> Freed(p)

(* The packets among the first k entries of f. *)
PacketsOf(f) ==
  LET taken[k \in 0 .. Count] ==
        IF k = 0 THEN <<>>
        ELSE IF f[k - 1] = None THEN taken[k - 1] ELSE Append(taken[k - 1], f[k - 1])
  IN  taken

(* The ring implements the queue: the packets held are those between the   *)
(* head of the controller and next_to_use.                                 *)
Held ==
  LET skbs == [k \in 0 .. Count - 1 |-> buffer[Plus(head, k)].skb]
  IN  PacketsOf(skbs)[(next_to_use - head) % Count]

Queue == INSTANCE TxQueue WITH held <- Held
QueueSpec == Queue!Spec
=============================================================================

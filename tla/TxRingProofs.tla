---------------------------- MODULE TxRingProofs ----------------------------
(***************************************************************************)
(* The transmit ring, for any ring, any packets and any failures:          *)
(*   - what the controller may fetch is mapped, and its packet has neither *)
(*     been freed nor sent;                                                *)
(*   - the tail keeps off the head, and no mapping stays behind, as long   *)
(*     as a packet that cannot be mapped fails at its first buffer;        *)
(*   - the ring is the first-in first-out queue of TxQueue.                *)
(*                                                                         *)
(* A place on the ring is measured by its distance from next_to_clean: the *)
(* indices of reclaim, controller, tail and xmit_frame keep their order.   *)
(***************************************************************************)
EXTENDS TxRing, TLAPS, FiniteSetTheorems, SequenceTheorems, WellFoundedInduction

(* How far it is from a forward to b. *)
Dist(a, b) == IF a <= b THEN b - a ELSE Count + b - a

Off(i) == Dist(next_to_clean, i)

(* The first slot not reclaimed, the first not handed over. *)
Low == IF clean.pc \in {"scan", "publish"} THEN clean.i ELSE next_to_clean
End == IF xmit.pc \in {"map", "queue"} THEN xmit.first ELSE next_to_use

(* A packet that fails to be mapped fails at its only buffer: e1000_tx_map *)
(* leaves the first of several mapped.                                     *)
FailsAtFirst == \A p \in MayNotMap \cap Packet : Frags[p] = 1
-----------------------------------------------------------------------------
Types ==
  /\ TypeOK
  /\ xmit \in [pc : {"idle", "context", "stop", "recheck", "map", "queue", "restop",
                     "reroom", "kick"},
               more : BOOLEAN, first : Slot]
  /\ clean \in [pc : {"idle", "scan", "publish", "room", "wake", "hang"},
                i : Slot, eop : Slot, count : Nat]
  /\ xmit.pc # "idle" => cur \in Packet

(* The indices keep their order, and xmit_frame is where it began or one   *)
(* context descriptor further.                                             *)
Order ==
  /\ Off(Low) <= Off(head) /\ Off(head) <= Off(tail) /\ Off(tail) <= Off(End)
  /\ xmit.pc \in {"stop", "recheck", "context"} => xmit.first = next_to_use
  /\ xmit.pc \in {"map", "queue"} =>
       \/ xmit.first = next_to_use
       \/ Off(next_to_use) = Off(xmit.first) + 1 /\ ~desc[xmit.first].eop

(* The slots counted are there. *)
Room ==
  /\ xmit.pc = "context" => Off(next_to_use) + Need(cur) < Count
  /\ xmit.pc \in {"map", "queue"} =>
       Off(next_to_use) + NeedWithoutContext(cur) + 3 < Count

(* What is reported done has been sent and not been reclaimed. *)
Done ==
  \A i \in Slot : desc[i].dd => Off(Low) <= Off(i) /\ Off(i) < Off(head)

Last == Plus(next_to_use, Frags[cur] - 1)

(* The slots handed over hold whole packets: where one ends its buffer is  *)
(* mapped and names it, also of the packet that is being handed over; and  *)
(* one ends right before the tail, and where xmit_frame has left off.      *)
HandedOver ==
  \A i \in Slot :
    Off(head) <= Off(i) /\ Off(i) < Off(End) /\ desc[i].eop =>
      buffer[i].dma /\ buffer[i].skb # None
HandingOver ==
  xmit.pc = "queue" => buffer[Last].dma /\ buffer[Last].skb = cur
Boundaries ==
  /\ head # tail => desc[Before(tail)].eop
  /\ xmit.pc \in {"restop", "reroom", "kick"} => desc[Before(next_to_use)].eop
Whole == HandedOver /\ HandingOver /\ Boundaries

(* Every packet has one owner.  The last that xmit_frame has given away.   *)
Given == IF xmit.pc \in {"queue", "restop", "reroom", "kick"} THEN cur ELSE cur - 1

Owners ==
  /\ \A i, j \in Slot :
       buffer[i].skb = buffer[j].skb /\ buffer[i].skb # None => i = j
  /\ \A i \in Slot :
       buffer[i].skb # None => buffer[i].skb \notin freed /\ buffer[i].skb <= Given
  /\ \A p \in freed : p <= Given

(* A mapping is of a slot in use or of the packet being mapped. *)
Mappings ==
  FailsAtFirst =>
    \A i \in Slot : buffer[i].dma =>
      \/ Off(Low) <= Off(i) /\ Off(i) < Off(End)
      \/ xmit.pc = "queue" /\ i \in Mapped(Frags[cur])

IInv == Types /\ Order /\ Room /\ Done /\ Whole /\ Owners /\ Mappings
-----------------------------------------------------------------------------
(* The arithmetic of the ring. *)
LEMMA Distances ==
  ASSUME Assumption
  PROVE  /\ Count \in Nat /\ Count >= 2
         /\ \A a, b \in Slot : Dist(a, b) \in Nat /\ Dist(a, b) < Count
         /\ \A a \in Slot : Dist(a, a) = 0
         /\ \A c, a, b \in Slot : Dist(c, a) = Dist(c, b) => a = b
BY DEF Assumption, Dist, Slot

LEMMA SpanIs ==
  ASSUME Assumption, NEW c \in Slot, NEW a \in Slot, NEW b \in Slot,
         Dist(c, a) <= Dist(c, b)
  PROVE  /\ Span(a, b) \subseteq Slot
         /\ \A i \in Slot :
              i \in Span(a, b) <=> Dist(c, a) <= Dist(c, i) /\ Dist(c, i) < Dist(c, b)
BY DEF Assumption, Dist, Span, Slot

LEMMA Rebase ==
  ASSUME Assumption, NEW c \in Slot, NEW a \in Slot, NEW b \in Slot
  PROVE  Dist(a, b) = IF Dist(c, a) <= Dist(c, b) THEN Dist(c, b) - Dist(c, a)
                      ELSE Dist(c, b) - Dist(c, a) + Count
BY DEF Assumption, Dist, Slot

LEMMA AfterIs ==
  ASSUME Assumption, NEW c \in Slot, NEW a \in Slot
  PROVE  /\ After(a) \in Slot
         /\ Dist(c, a) + 1 < Count => Dist(c, After(a)) = Dist(c, a) + 1 /\ After(a) # c
BY DEF Assumption, Dist, Slot, After

LEMMA BeforeIs ==
  ASSUME Assumption, NEW c \in Slot, NEW a \in Slot
  PROVE  /\ Before(a) \in Slot
         /\ a # c => Dist(c, Before(a)) = Dist(c, a) - 1
BY DEF Assumption, Dist, Slot, Before

LEMMA PlusIs ==
  ASSUME Assumption, NEW c \in Slot, NEW a \in Slot, NEW k \in 0 .. Count - 1
  PROVE  /\ Plus(a, k) \in Slot
         /\ Dist(c, a) + k < Count => Dist(c, Plus(a, k)) = Dist(c, a) + k
<1>1. Plus(a, k) = IF a + k < Count THEN a + k ELSE a + k - Count
  BY DEF Assumption, Plus, Slot
<1>. QED BY <1>1 DEF Assumption, Dist, Slot

LEMMA UnusedIs ==
  ASSUME Assumption, NEW c \in Slot, NEW u \in Slot
  PROVE  DescUnused(c, u) = Count - 1 - Dist(c, u)
BY DEF Assumption, Dist, Slot, DescUnused

LEMMA MappedIs ==
  ASSUME Assumption, next_to_clean \in Slot, next_to_use \in Slot, NEW n \in Nat,
         Off(next_to_use) + n < Count
  PROVE  /\ Mapped(n) \subseteq Slot
         /\ \A i \in Slot :
              i \in Mapped(n) <=>
                Off(next_to_use) <= Off(i) /\ Off(i) < Off(next_to_use) + n
<1> DEFINE u == Off(next_to_use)
<1>1. u \in Nat /\ n < Count
  BY Distances DEF Off
<1>2. ASSUME NEW k \in 0 .. n - 1
      PROVE  Plus(next_to_use, k) \in Slot /\ Off(Plus(next_to_use, k)) = u + k
  BY <1>1, Distances, PlusIs DEF Off
<1>3. ASSUME NEW i \in Slot, u <= Off(i), Off(i) < u + n PROVE i \in Mapped(n)
  <2>1. Off(i) - u \in 0 .. n - 1
    BY <1>1, <1>3, Distances DEF Off
  <2>2. Off(Plus(next_to_use, Off(i) - u)) = Off(i)
    BY <1>1, <1>2, <2>1, Distances DEF Off
  <2>3. Plus(next_to_use, Off(i) - u) = i
    BY <1>2, <2>1, <2>2, Distances DEF Off
  <2>. QED BY <2>1, <2>3 DEF Mapped
<1>. QED BY <1>1, <1>2, <1>3 DEF Mapped
-----------------------------------------------------------------------------
(* The first state, and steps that leave the ring alone. *)
LEMMA Start == ASSUME Assumption, Init PROVE IInv
<1>1. Count \in Nat /\ 0 \in Slot
  BY DEF Assumption, Slot
<1>2. Types
  BY <1>1 DEF Init, Types, TypeOK, NoBuffer, NoDesc, Buffer, Assumption
<1>3. Order /\ Room /\ Done /\ Mappings
  BY <1>1 DEF Init, Order, Room, Done, Mappings, Off, Dist, Low, End, NoBuffer, NoDesc
<1>4. Whole /\ Owners
  BY <1>1 DEF Init, Whole, HandedOver, HandingOver, Boundaries, Owners, Off, Dist, End,
       NoBuffer, NoDesc
<1>. QED BY <1>2, <1>3, <1>4 DEF IInv

LEMMA OthersKeep ==
  ASSUME IInv, UNCHANGED <<ring, head, tail, cur, xmit, clean, freed>>
  PROVE  IInv'
BY DEF IInv, Types, TypeOK, Order, Room, Done, Whole, HandedOver, HandingOver, Boundaries,
       Owners, Mappings, Off, Low, End, Last,
       Given, Mapped, ring

(* Where only xmit_frame moves, and does not begin to map. *)
LEMMA XmitMovesKeeps ==
  ASSUME IInv, UNCHANGED <<ring, head, tail, cur, clean, freed>>,
         xmit' \in [pc : {"idle", "context", "stop", "recheck", "restop", "reroom", "kick"},
                    more : BOOLEAN, first : Slot],
         xmit.pc \notin {"map", "queue"}, xmit'.pc # "idle" => cur \in Packet,
         xmit'.pc \in {"context", "stop", "recheck"} => xmit'.first = next_to_use,
         xmit'.pc = "context" => Off(next_to_use) + Need(cur) < Count,
         xmit'.pc \in {"restop", "reroom", "kick"} <=> xmit.pc \in {"restop", "reroom", "kick"}
  PROVE  IInv'
<1>. USE DEF IInv
<1>1. Types'
  BY DEF Types, TypeOK, ring
<1>2. Order'
  BY DEF Order, Off, Low, End, ring
<1>3. Room'
  BY DEF Room, Off, ring
<1>4. Done'
  BY DEF Done, Off, Low, ring
<1>5. Whole'
  BY DEF Whole, HandedOver, HandingOver, Boundaries, Off, End, ring
<1>6. Owners'
  BY DEF Owners, Given, ring
<1>7. Mappings'
  BY DEF Mappings, Off, Low, End, ring
<1>. QED BY <1>1, <1>2, <1>3, <1>4, <1>5, <1>6, <1>7

LEMMA CleanMovesKeeps ==
  ASSUME IInv, UNCHANGED <<ring, head, tail, cur, xmit, freed>>,
         clean' \in [pc : {"idle", "scan", "publish", "room", "wake", "hang"},
                     i : Slot, eop : Slot, count : Nat],
         Low' = Low
  PROVE  IInv'
<1>. USE DEF IInv
<1>1. Types'
  BY DEF Types, TypeOK, ring
<1>2. Order' /\ Room' /\ Done'
  BY DEF Order, Room, Done, Off, End, ring
<1>3. Whole' /\ Owners'
  BY DEF Whole, HandedOver, HandingOver, Boundaries, Owners, Off, End, Last, Given, ring
<1>4. Mappings'
  BY DEF Mappings, Off, End, Mapped, ring
<1>. QED BY <1>1, <1>2, <1>3, <1>4
-----------------------------------------------------------------------------
(* e1000_xmit_frame *)
LEMMA XmitDroppedKeeps ==
  ASSUME Assumption, IInv, XmitDropped
  PROVE  IInv'
<1>. USE DEF IInv
<1>1. /\ xmit.pc = "idle" /\ xmit' = [xmit EXCEPT !.pc = "idle"] /\ cur \in Packet
      /\ cur' = cur + 1 /\ freed' = freed \cup {cur}
      /\ UNCHANGED <<ring, head, tail, clean>>
  BY DEF XmitDropped, MayCall, Drop, Goto, hw, Types, TypeOK, Packet, Assumption
<1>2. Types'
  BY <1>1 DEF Types, TypeOK, ring, Packet, Assumption
<1>3. Order' /\ Room' /\ Done' /\ Whole' /\ Mappings'
  BY <1>1 DEF Types, Order, Room, Done, Whole, HandedOver, HandingOver,
       Boundaries, Mappings, Off, Low, End, ring
<1>4. Owners'
  BY <1>1, <1>2 DEF Types, TypeOK, Buffer, Owners, Given, ring, Packet, Assumption
<1>. QED BY <1>2, <1>3, <1>4

LEMMA XmitFrameKeeps ==
  ASSUME Assumption, IInv, NEW more \in BOOLEAN, XmitFrame(more)
  PROVE  IInv'
<1>1. /\ xmit.pc = "idle" /\ cur \in Packet
      /\ xmit' = [pc |-> IF Unused >= Need(cur) THEN "context" ELSE "stop",
                  more |-> more, first |-> next_to_use]
      /\ UNCHANGED <<ring, head, tail, cur, clean, freed>>
  BY DEF XmitFrame, MayCall, Roomy, Unused, ring, hw, Types, TypeOK, IInv, Packet, Assumption
<1>2. Unused = Count - 1 - Off(next_to_use)
  BY UnusedIs DEF Unused, Off, IInv, Types, TypeOK
<1>3. Count \in Nat /\ Off(next_to_use) \in Nat /\ Need(cur) \in Nat
  BY <1>1, Distances DEF Off, Need, IInv, Types, TypeOK, Assumption
<1>4. xmit'.pc = "context" => Off(next_to_use) + Need(cur) < Count
  BY <1>1, <1>2, <1>3
<1>5. next_to_use \in Slot
  BY DEF IInv, Types, TypeOK
<1>. QED BY <1>1, <1>4, <1>5, XmitMovesKeeps

LEMMA XmitStopKeeps ==
  ASSUME Assumption, IInv, XmitStop \/ XmitReroom
  PROVE  IInv'
<1>1. /\ \/ xmit.pc = "stop" /\ xmit' = [xmit EXCEPT !.pc = "recheck"]
         \/ xmit.pc = "restop" /\ xmit' = [xmit EXCEPT !.pc = "reroom"]
         \/ xmit.pc = "reroom" /\ xmit' = [xmit EXCEPT !.pc = "kick"]
      /\ UNCHANGED <<ring, head, tail, cur, clean, freed>>
  BY DEF XmitStop, XmitReroom, SecondLook, Goto, hw
<1>2. xmit'.pc \in {"recheck", "reroom", "kick"} /\ xmit'.first = xmit.first
      /\ cur \in Packet /\ (xmit'.pc = "recheck" => xmit.first = next_to_use)
  BY <1>1 DEF IInv, Types, Order
<1>3. xmit' \in [pc : {"idle", "context", "stop", "recheck", "restop", "reroom", "kick"},
                 more : BOOLEAN, first : Slot]
  BY <1>1 DEF IInv, Types
<1>. QED BY <1>1, <1>2, <1>3, XmitMovesKeeps DEF IInv, Types

LEMMA XmitRecheckKeeps ==
  ASSUME Assumption, IInv, XmitRecheck
  PROVE  IInv'
<1>1. /\ xmit.pc = "recheck"
      /\ \/ xmit' = [xmit EXCEPT !.pc = "idle"]
         \/ xmit' = [xmit EXCEPT !.pc = "context"] /\ ~ (Unused < Need(cur))
      /\ UNCHANGED <<ring, head, tail, cur, clean, freed>>
  BY DEF XmitRecheck, SecondLook, Goto, hw
<1>2. xmit'.first = next_to_use /\ cur \in Packet /\ xmit'.pc \in {"idle", "context"}
      /\ (xmit'.pc = "context" => ~ (Unused < Need(cur)))
  BY <1>1 DEF IInv, Types, Order
<1>3. xmit' \in [pc : {"idle", "context", "stop", "recheck", "restop", "reroom", "kick"},
                 more : BOOLEAN, first : Slot]
  BY <1>1 DEF IInv, Types
<1>4. Unused = Count - 1 - Off(next_to_use)
  BY UnusedIs DEF Unused, Off, IInv, Types, TypeOK
<1>5. Count \in Nat /\ Off(next_to_use) \in Nat /\ Need(cur) \in Nat
  BY <1>2, Distances DEF Off, Need, IInv, Types, TypeOK, Assumption
<1>6. xmit'.pc = "context" => Off(next_to_use) + Need(cur) < Count
  BY <1>2, <1>4, <1>5
<1>. QED BY <1>1, <1>2, <1>3, <1>6, XmitMovesKeeps

LEMMA XmitContextKeeps ==
  ASSUME Assumption, IInv, XmitContext
  PROVE  IInv'
<1>. USE DEF IInv
<1>1. /\ xmit.pc = "context" /\ UNCHANGED <<next_to_clean, head, tail, clean>>
      /\ xmit.first = next_to_use /\ cur \in Packet
      /\ next_to_use \in Slot /\ next_to_clean \in Slot /\ head \in Slot /\ tail \in Slot
  BY DEF XmitContext, hw, Types, TypeOK, Order
<1>2. CASE /\ cur \in Offload
           /\ desc' = [desc EXCEPT ![next_to_use].eop = FALSE]
           /\ buffer' = [buffer EXCEPT ![next_to_use].stamp = TRUE,
                                       ![next_to_use].watch = next_to_use]
           /\ next_to_use' = After(next_to_use)
           /\ Goto("map") /\ UNCHANGED <<cur, freed>>
  <2>1. xmit' = [xmit EXCEPT !.pc = "map"]
    BY <1>2 DEF Goto
  <2>2. Frags[cur] \in Nat /\ Need(cur) = Frags[cur] + 4 /\ Count \in Nat
    BY <1>1, <1>2 DEF Need, Assumption
  <2>3. Off(next_to_use) + Frags[cur] + 4 < Count /\ Off(next_to_use) \in Nat
    BY <1>1, <2>2, Distances DEF Room, Off
  <2>4. /\ next_to_use' \in Slot
        /\ Dist(next_to_clean, next_to_use') = Off(next_to_use) + 1
    BY <1>1, <1>2, <2>2, <2>3, AfterIs DEF Off
  <2>5. \A i \in Slot : /\ buffer'[i].dma = buffer[i].dma
                        /\ buffer'[i].skb = buffer[i].skb
                        /\ desc'[i].dd = desc[i].dd
                        /\ i # next_to_use => desc'[i] = desc[i]
    BY <1>1, <1>2 DEF Types, TypeOK, Buffer
  <2>6. ~ desc'[next_to_use].eop
    BY <1>1, <1>2 DEF Types, TypeOK
  <2>7. Types'
    <3>1. buffer' \in [Slot -> Buffer] /\ desc' \in [Slot -> [eop : BOOLEAN, dd : BOOLEAN]]
      <4>1. buffer' \in [Slot -> Buffer]
        <5>1. buffer' = [buffer EXCEPT ![next_to_use] =
                           [buffer[next_to_use] EXCEPT !.stamp = TRUE, !.watch = next_to_use]]
          BY <1>1, <1>2 DEF Types, TypeOK
        <5>2. [buffer[next_to_use] EXCEPT !.stamp = TRUE, !.watch = next_to_use] \in Buffer
          <6>1. buffer[next_to_use] \in Buffer
            BY <1>1 DEF Types, TypeOK
          <6>. QED BY <1>1, <6>1 DEF Buffer
        <5>. QED BY <5>1, <5>2 DEF Types, TypeOK
      <4>2. desc' \in [Slot -> [eop : BOOLEAN, dd : BOOLEAN]]
        BY <1>1, <1>2 DEF Types, TypeOK
      <4>. QED BY <4>1, <4>2
    <3>. QED BY <1>1, <1>2, <2>1, <2>4, <3>1 DEF Types, TypeOK
  <2>8. Order' /\ Room'
    BY <1>1, <1>2, <2>1, <2>2, <2>3, <2>4, <2>6 DEF Types, Order, Room, Off, Low, End,
       NeedWithoutContext
  <2>9. Done' /\ Mappings'
    BY <1>1, <1>2, <2>1, <2>5 DEF Types, Done, Mappings, Off, Low, End
  <2>10. Whole'
    <3>1. HandedOver'
      <4>1. End' = next_to_use /\ End = next_to_use
        BY <1>1, <2>1 DEF Types, End
      <4>2. ASSUME NEW i \in Slot, Off(head) <= Off(i), Off(i) < Off(next_to_use), desc'[i].eop
            PROVE  buffer'[i].dma /\ buffer'[i].skb # None
        <5>1. i # next_to_use
          BY <4>2, <2>3
        <5>. QED BY <4>1, <4>2, <2>5, <5>1 DEF Whole, HandedOver
      <4>. QED BY <1>1, <4>1, <4>2 DEF HandedOver, Off
    <3>2. HandingOver'
      BY <1>1, <2>1 DEF Types, HandingOver
    <3>3. ASSUME head # tail PROVE Before(tail) \in Slot /\ Before(tail) # next_to_use
      <4>1. Off(tail) > 0 /\ Off(tail) <= Off(next_to_use)
        BY <1>1, <3>3, Distances DEF Order, Off, End
      <4>2. Off(Before(tail)) = Off(tail) - 1 /\ Before(tail) \in Slot
        BY <1>1, <4>1, Distances, BeforeIs DEF Off
      <4>. QED BY <1>1, <4>1, <4>2, Distances DEF Off
    <3>4. Boundaries'
      BY <1>1, <2>1, <2>5, <3>3 DEF Types, Whole, Boundaries
    <3>. QED BY <3>1, <3>2, <3>4 DEF Whole
  <2>11. Owners'
    <3>1. Given' = Given /\ freed' = freed
      BY <1>1, <1>2, <2>1 DEF Types, Given
    <3>. QED BY <2>5, <3>1 DEF Owners
  <2>. QED BY <2>7, <2>8, <2>9, <2>10, <2>11
<1>3. CASE /\ cur \notin Offload
           /\ Goto("map") /\ UNCHANGED <<next_to_use, buffer, desc, cur, freed>>
  <2>1. xmit' = [xmit EXCEPT !.pc = "map"]
    BY <1>3 DEF Goto
  <2>2. Frags[cur] \in Nat /\ Need(cur) = Frags[cur] + 3 /\ Count \in Nat
    BY <1>1, <1>3 DEF Need, Assumption
  <2>3. Types' /\ Order' /\ Done' /\ Whole' /\ Owners' /\ Mappings'
    BY <1>1, <1>3, <2>1 DEF Types, TypeOK, Order, Done, Whole, HandedOver, HandingOver, Boundaries,
       Owners, Mappings, Off, Low, End,
       Given
  <2>4. Room'
    <3>1. Off(next_to_use) + (Frags[cur] + 3) < Count /\ Off(next_to_use) \in Nat
      BY <1>1, <2>2, Distances DEF Room, Off
    <3>. QED BY <1>1, <1>3, <2>1, <2>2, <3>1 DEF Types, Room, Off, NeedWithoutContext
  <2>. QED BY <2>3, <2>4
<1>4. CASE Drop /\ UNCHANGED <<next_to_use, buffer, desc>>
  <2>1. /\ xmit' = [xmit EXCEPT !.pc = "idle"] /\ cur' = cur + 1 /\ freed' = freed \cup {cur}
        /\ UNCHANGED ring
    BY <1>1, <1>4 DEF Drop, Goto, ring
  <2>2. Types'
    BY <1>1, <2>1, SMTT(30) DEF Types, TypeOK, ring, Packet, Assumption
  <2>3. Order' /\ Room' /\ Done' /\ Whole' /\ Mappings'
    BY <1>1, <2>1 DEF Types, Order, Room, Done, Whole, HandedOver, HandingOver,
       Boundaries, Mappings, Off, Low, End, ring
  <2>4. Owners'
    BY <1>1, <2>1, <2>2 DEF Types, TypeOK, Buffer, Owners, Given, ring, Packet, Assumption
  <2>. QED BY <2>2, <2>3, <2>4
<1>. QED BY <1>2, <1>3, <1>4 DEF XmitContext

(* The slots of the packet that is mapped. *)
LEMMA MappingRoom ==
  ASSUME Assumption, IInv, xmit.pc \in {"map", "queue"}
  PROVE  LET n == Frags[cur] IN
         /\ cur \in Packet /\ n \in Nat \ {0}
         /\ Off(next_to_use) \in Nat /\ Off(next_to_use) + n < Count
         /\ Mapped(n) \subseteq Slot
         /\ \A i \in Slot :
              i \in Mapped(n) <=> Off(next_to_use) <= Off(i) /\ Off(i) < Off(next_to_use) + n
         /\ Last \in Mapped(n) /\ Off(Last) = Off(next_to_use) + n - 1
         /\ xmit.first \in Slot /\ Off(End) <= Off(next_to_use)
<1> DEFINE n == Frags[cur]
<1>1. cur \in Packet /\ n \in Nat \ {0} /\ Count \in Nat
      /\ next_to_use \in Slot /\ next_to_clean \in Slot /\ xmit.first \in Slot
  BY DEF IInv, Types, TypeOK, Assumption
<1>2. Off(next_to_use) \in Nat /\ Off(next_to_use) < Count /\ Off(xmit.first) \in Nat
  BY <1>1, Distances DEF Off
<1>3. Off(next_to_use) + n < Count
  BY <1>1, <1>2 DEF IInv, Room, NeedWithoutContext
<1>4. /\ Mapped(n) \subseteq Slot
      /\ \A i \in Slot :
           i \in Mapped(n) <=> Off(next_to_use) <= Off(i) /\ Off(i) < Off(next_to_use) + n
  BY <1>1, <1>3, MappedIs
<1>5. Last \in Slot /\ Off(Last) = Off(next_to_use) + n - 1
  <2>1. n - 1 \in 0 .. Count - 1 /\ Dist(next_to_clean, next_to_use) + (n - 1) < Count
    BY <1>1, <1>2, <1>3 DEF Off
  <2>2. /\ Plus(next_to_use, n - 1) \in Slot
        /\ Dist(next_to_clean, Plus(next_to_use, n - 1))
             = Dist(next_to_clean, next_to_use) + (n - 1)
    BY <1>1, <2>1, PlusIs
  <2>. QED BY <1>1, <1>2, <2>2 DEF Last, Off
<1>6. Last \in Mapped(n)
  BY <1>1, <1>2, <1>4, <1>5
<1>7. Off(End) <= Off(next_to_use)
  BY <1>2 DEF IInv, Order, End
<1>. QED BY <1>1, <1>2, <1>3, <1>4, <1>5, <1>6, <1>7

LEMMA XmitMapKeeps ==
  ASSUME Assumption, IInv, XmitMap
  PROVE  IInv'
<1> DEFINE n == Frags[cur]
           u == Off(next_to_use)
<1>. USE DEF IInv
<1>1. /\ xmit.pc = "map" /\ xmit' = [xmit EXCEPT !.pc = "queue"] /\ buffer' = TxMap
      /\ UNCHANGED <<next_to_use, next_to_clean, desc, head, tail, cur, clean, freed>>
  BY DEF XmitMap, Goto, hw
<1>2. /\ cur \in Packet /\ n \in Nat \ {0} /\ u \in Nat /\ u + n < Count
      /\ Mapped(n) \subseteq Slot
      /\ \A i \in Slot : i \in Mapped(n) <=> u <= Off(i) /\ Off(i) < u + n
      /\ Last \in Mapped(n) /\ Off(Last) = u + n - 1
      /\ xmit.first \in Slot /\ Off(End) <= u
  BY <1>1, MappingRoom
<1>3. /\ xmit'.pc = "queue" /\ xmit'.first = xmit.first
      /\ UNCHANGED <<xmit.first, xmit.more>>
  BY <1>1 DEF Types
<1>4. Filled = [i \in Slot |-> IF i \in Mapped(n)
                  THEN [dma |-> TRUE, watch |-> i, stamp |-> TRUE,
                        skb |-> IF i = Last THEN cur ELSE None]
                  ELSE buffer[i]]
  BY DEF Filled, Last
<1>5. Filled \in [Slot -> Buffer]
  <2>1. ASSUME NEW i \in Slot PROVE Filled[i] \in Buffer
    BY <1>2, <1>4 DEF Types, TypeOK, Buffer
  <2>. QED BY <1>4, <2>1
<1>6. /\ buffer' \in [Slot -> Buffer]
      /\ \A i \in Slot : buffer'[i].dma = Filled[i].dma /\ buffer'[i].skb = Filled[i].skb
  <2>1. Last \in Slot
    BY <1>2
  <2>2. buffer' = [Filled EXCEPT ![xmit.first] = [Filled[xmit.first] EXCEPT !.watch = Last]]
    BY <1>1, <1>2, <1>5 DEF TxMap, Last
  <2>3. [Filled[xmit.first] EXCEPT !.watch = Last] \in Buffer
    BY <1>2, <1>5, <2>1 DEF Buffer
  <2>. QED BY <1>2, <1>5, <2>2, <2>3 DEF Buffer
<1>7. \A i \in Slot :
        /\ buffer'[i].dma <=> i \in Mapped(n) \/ buffer[i].dma
        /\ buffer'[i].skb = IF i = Last THEN cur
                            ELSE IF i \in Mapped(n) THEN None ELSE buffer[i].skb
  BY <1>2, <1>4, <1>6 DEF Types, TypeOK, Buffer
<1>8. Types'
  BY <1>1, <1>2, <1>3, <1>6 DEF Types, TypeOK
<1>9. Order' /\ Room' /\ Done'
  BY <1>1, <1>3 DEF Order, Room, Done, Off, Low, End
<1>10. Whole'
  <2>1. End' = End /\ Last' = Last
    BY <1>1, <1>3 DEF End, Last
  <2>2. ASSUME NEW i \in Slot, Off(head) <= Off(i), Off(i) < Off(End), desc[i].eop
        PROVE  buffer'[i].dma /\ buffer'[i].skb # None
    <3>1. Off(i) \in Nat /\ Off(End) \in Nat
      BY <1>1, <1>2, Distances DEF Off, Types, TypeOK, End
    <3>2. i \notin Mapped(n) /\ i # Last
      BY <1>2, <2>2, <3>1
    <3>. QED BY <1>7, <2>2, <3>2 DEF Whole, HandedOver
  <2>3. HandedOver'
    BY <1>1, <2>1, <2>2 DEF HandedOver, Off
  <2>4. HandingOver'
    BY <1>1, <1>2, <1>7, <2>1 DEF HandingOver
  <2>5. Boundaries'
    BY <1>1, <1>3 DEF Whole, Boundaries
  <2>. QED BY <2>3, <2>4, <2>5 DEF Whole
<1>11. Owners'
  <2>1. Given = cur - 1 /\ Given' = cur /\ cur \in Nat
    BY <1>1, <1>2, <1>3 DEF Given, Packet
  <2>2. cur \notin freed /\ \A p \in freed : p <= cur
    BY <2>1, <1>2 DEF Owners, Types, TypeOK, Packet
  <2>3. \A i \in Slot : buffer[i].skb # None => buffer[i].skb # cur /\ buffer[i].skb <= cur
    BY <2>1 DEF Owners, Types, TypeOK, Buffer, Packet
  <2>4. cur # None
    BY <1>2 DEF Assumption
  <2>5. ASSUME NEW i \in Slot, buffer'[i].skb # None
        PROVE  buffer'[i].skb \notin freed /\ buffer'[i].skb <= cur
    BY <1>7, <2>1, <2>2, <2>3, <2>5 DEF Owners
  <2>6. ASSUME NEW i \in Slot, NEW j \in Slot, buffer'[i].skb = buffer'[j].skb,
               buffer'[i].skb # None
        PROVE  i = j
    BY <1>7, <2>3, <2>4, <2>6 DEF Owners
  <2>. QED BY <1>1, <2>1, <2>2, <2>5, <2>6 DEF Owners
<1>12. Mappings'
  <2>1. Mapped(n)' = Mapped(n) /\ End' = End /\ Low' = Low /\ Frags[cur]' = n
    BY <1>1, <1>3 DEF Mapped, End, Low
  <2>2. ASSUME FailsAtFirst, NEW i \in Slot, buffer'[i].dma
        PROVE  (Off(Low) <= Off(i) /\ Off(i) < Off(End)) \/ i \in Mapped(n)
    BY <1>1, <1>7, <2>2 DEF Mappings
  <2>. QED BY <1>1, <1>3, <2>1, <2>2 DEF Mappings, Off, Mapped
<1>. QED BY <1>8, <1>9, <1>10, <1>11, <1>12

LEMMA XmitMapFailsKeeps ==
  ASSUME Assumption, IInv, XmitMapFails
  PROVE  IInv'
<1> DEFINE u == Off(next_to_use)
<1>. USE DEF IInv
<1>1. /\ xmit.pc = "map" /\ xmit' = [xmit EXCEPT !.pc = "idle"] /\ cur \in MayNotMap
      /\ next_to_use' = xmit.first /\ cur' = cur + 1 /\ freed' = freed \cup {cur}
      /\ UNCHANGED <<next_to_clean, desc, head, tail, clean>>
  BY DEF XmitMapFails, Drop, Goto, hw
<1>2. PICK n \in 0 .. Frags[cur] - 1 : buffer' = Unwound(n)
  BY DEF XmitMapFails
<1>3. /\ cur \in Packet /\ Frags[cur] \in Nat \ {0} /\ u \in Nat /\ u + Frags[cur] < Count
      /\ xmit.first \in Slot /\ Off(End) <= u
  BY <1>1, MappingRoom
<1>4. End = xmit.first /\ End' = xmit.first /\ xmit'.pc = "idle" /\ Low' = Low
  BY <1>1 DEF End, Low, Types
<1>5. next_to_use \in Slot /\ next_to_clean \in Slot
  BY DEF Types, TypeOK
<1>6. /\ Mapped(n + 1) \subseteq Slot
      /\ \A i \in Slot : i \in Mapped(n + 1) <=> u <= Off(i) /\ Off(i) < u + n + 1
  <2>1. n \in Nat /\ n + 1 <= Frags[cur] /\ Count \in Nat
    BY <1>3, Distances
  <2>2. n + 1 \in Nat /\ u + (n + 1) < Count
    BY <1>3, <2>1
  <2>. QED BY <1>3, <1>5, <2>1, <2>2, MappedIs
<1>7. ASSUME NEW i \in Slot
      PROVE  /\ buffer'[i] \in Buffer
             /\ buffer'[i].skb = IF i \in Mapped(n + 1) THEN None ELSE buffer[i].skb
             /\ i \notin Mapped(n + 1) => buffer'[i].dma = buffer[i].dma
             /\ n = 0 /\ i \in Mapped(n + 1) => ~ buffer'[i].dma
  <2> DEFINE between == {Plus(next_to_use, k) : k \in 1 .. n - 1}
             failed == {Plus(next_to_use, n)}
             kept == i # xmit.first
  <2>1. between \subseteq Mapped(n + 1) /\ failed \subseteq Mapped(n + 1)
    BY <1>2, <1>3 DEF Mapped
  <2>2. n = 0 => Mapped(n + 1) = failed
    BY DEF Mapped
  <2>3. buffer[i] \in Buffer
    BY DEF Types, TypeOK
  <2>4. buffer'[i] = IF i \in between THEN [NoBuffer EXCEPT !.watch = i]
                     ELSE IF i \in Mapped(n + 1)
                     THEN [dma |-> i \notin failed, skb |-> None, watch |-> i,
                           stamp |-> kept]
                     ELSE IF i = xmit.first THEN [buffer[i] EXCEPT !.stamp = FALSE]
                     ELSE buffer[i]
    BY <1>2 DEF Unwound, Unwind
  <2>5. kept \in BOOLEAN
    OBVIOUS
  <2>. HIDE DEF between, failed, kept
  <2>6. CASE i \in between
    BY <2>1, <2>4, <2>6 DEF NoBuffer, Buffer
  <2>7. CASE i \notin between /\ i \in Mapped(n + 1)
    <3>1. CASE i \in failed
      <4>1. buffer'[i] = [dma |-> FALSE, skb |-> None, watch |-> i, stamp |-> kept]
        BY <2>4, <2>7, <3>1
      <4>2. buffer'[i] \in Buffer
        BY <4>1, <2>5 DEF Buffer
      <4>3. buffer'[i].skb = None /\ ~ buffer'[i].dma
        BY <4>1
      <4>. QED BY <4>2, <4>3, <2>7
    <3>2. CASE i \notin failed
      <4>1. buffer'[i] = [dma |-> TRUE, skb |-> None, watch |-> i, stamp |-> kept]
        BY <2>4, <2>7, <3>2
      <4>2. n # 0
        BY <2>2, <2>7, <3>2
      <4>3. buffer'[i] \in Buffer
        BY <4>1, <2>5 DEF Buffer
      <4>4. buffer'[i].skb = None
        BY <4>1
      <4>. QED BY <4>2, <4>3, <4>4, <2>7
    <3>. QED BY <3>1, <3>2
  <2>8. CASE i \notin Mapped(n + 1)
    BY <2>1, <2>3, <2>4, <2>8 DEF Buffer
  <2>. QED BY <2>6, <2>7, <2>8
<1>8. Types'
  <2>1. buffer' \in [Slot -> Buffer]
    <3>1. buffer' = [i \in Slot |-> buffer'[i]]
      BY <1>2 DEF Unwound, Unwind
    <3>. QED BY <1>7, <3>1
  <2>2. cur' \in 1 .. Packets + 1 /\ freed' \subseteq Packet
    BY <1>1, <1>3 DEF Types, TypeOK, Packet, Assumption
  <2>. QED BY <1>1, <1>3, <1>4, <2>1, <2>2 DEF Types, TypeOK
<1>9. Order' /\ Room' /\ Done'
  BY <1>1, <1>4 DEF Order, Room, Done, Off
<1>10. Whole'
  <2>1. ASSUME NEW i \in Slot, Off(head) <= Off(i), Off(i) < Off(End), desc[i].eop
        PROVE  buffer'[i].dma /\ buffer'[i].skb # None
    <3>1. Off(i) \in Nat /\ Off(End) \in Nat
      BY <1>3, <1>4, <1>5, Distances DEF Off
    <3>2. i \notin Mapped(n + 1)
      BY <1>3, <1>6, <2>1, <3>1
    <3>. QED BY <1>7, <2>1, <3>2 DEF Whole, HandedOver
  <2>2. HandedOver'
    BY <1>1, <1>4, <2>1 DEF HandedOver, Off
  <2>3. HandingOver' /\ Boundaries'
    BY <1>1, <1>4 DEF HandingOver, Whole, Boundaries
  <2>. QED BY <2>2, <2>3 DEF Whole
<1>11. Owners'
  <2>1. Given = cur - 1 /\ Given' = cur /\ cur \in Nat
    BY <1>1, <1>3, <1>4 DEF Given, Packet
  <2>2. \A i \in Slot : buffer'[i].skb # None =>
          buffer'[i].skb = buffer[i].skb /\ buffer[i].skb \in Nat
    BY <1>7 DEF Types, TypeOK, Buffer, Packet
  <2>3. \A p \in freed : p \in Nat
    BY DEF Types, TypeOK, Packet
  <2>. QED BY <1>1, <2>1, <2>2, <2>3 DEF Owners
<1>12. Mappings'
  <2>1. ASSUME FailsAtFirst, NEW i \in Slot, buffer'[i].dma
        PROVE  Off(Low) <= Off(i) /\ Off(i) < Off(End)
    <3>1. n = 0
      BY <1>1, <1>2, <1>3, <2>1 DEF FailsAtFirst
    <3>. QED BY <1>1, <1>7, <2>1, <3>1 DEF Mappings
  <2>. QED BY <1>1, <1>4, <2>1 DEF Mappings, Off
<1>. QED BY <1>8, <1>9, <1>10, <1>11, <1>12

LEMMA XmitQueueKeeps ==
  ASSUME Assumption, IInv, XmitQueue
  PROVE  IInv'
<1> DEFINE n == Frags[cur]
           u == Off(next_to_use)
<1>. USE DEF IInv
<1>1. /\ xmit.pc = "queue" /\ next_to_use' = Plus(next_to_use, n)
      /\ desc' = [i \in Slot |-> IF i \in Mapped(n) THEN [eop |-> i = Last, dd |-> FALSE]
                                 ELSE desc[i]]
      /\ UNCHANGED <<next_to_clean, buffer, head, tail, cur, clean, freed>>
  BY DEF XmitQueue, Last, hw
<1>2. \E pc \in {"kick", "restop"} : xmit' = [xmit EXCEPT !.pc = pc]
  BY DEF XmitQueue, Goto, Roomy
<1>3. /\ cur \in Packet /\ n \in Nat \ {0} /\ u \in Nat /\ u + n < Count
      /\ Mapped(n) \subseteq Slot
      /\ \A i \in Slot : i \in Mapped(n) <=> u <= Off(i) /\ Off(i) < u + n
      /\ Last \in Mapped(n) /\ Off(Last) = u + n - 1
      /\ xmit.first \in Slot /\ Off(End) <= u
  BY <1>1, MappingRoom
<1>4. xmit'.pc \in {"kick", "restop"} /\ xmit'.first = xmit.first /\ Low' = Low
  BY <1>1, <1>2 DEF Types, Low
<1>5. End = xmit.first /\ End' = next_to_use'
  BY <1>1, <1>4 DEF End
<1>6. /\ next_to_use \in Slot /\ next_to_clean \in Slot /\ head \in Slot /\ tail \in Slot
      /\ Count \in Nat
  BY DEF Types, TypeOK, Assumption
<1>7. next_to_use' \in Slot /\ Dist(next_to_clean, next_to_use') = u + n
  <2>1. n \in 0 .. Count - 1
    BY <1>3, <1>6
  <2>. QED BY <1>1, <1>3, <1>6, <2>1, PlusIs DEF Off
<1>8. Types'
  <2>1. desc' \in [Slot -> [eop : BOOLEAN, dd : BOOLEAN]]
    BY <1>1 DEF Types, TypeOK
  <2>2. xmit' \in [pc : {"idle", "context", "stop", "recheck", "map", "queue", "restop",
                         "reroom", "kick"}, more : BOOLEAN, first : Slot]
    BY <1>2 DEF Types
  <2>. QED BY <1>1, <1>3, <1>7, <2>1, <2>2 DEF Types, TypeOK
<1>9. Order'
  <2>1. Off(Low) <= Off(head) /\ Off(head) <= Off(tail) /\ Off(tail) <= Off(End)
    BY DEF Order
  <2>2. Off(tail) \in Nat /\ Off(End) \in Nat
    BY <1>3, <1>5, <1>6, Distances DEF Off
  <2>. QED BY <1>1, <1>3, <1>4, <1>5, <1>7, <2>1, <2>2 DEF Order, Off
<1>10. Room'
  BY <1>4 DEF Room
<1>11. Done'
  BY <1>1, <1>4 DEF Done, Off
<1>12. Whole'
  <2>1. ASSUME NEW i \in Slot, Off(head) <= Off(i), Off(i) < u + n, desc'[i].eop
        PROVE  buffer[i].dma /\ buffer[i].skb # None
    <3>1. Off(i) \in Nat /\ Off(End) \in Nat
      BY <1>3, <1>5, <1>6, Distances DEF Off
    <3>2. CASE i \in Mapped(n)
      <4>1. i = Last
        BY <1>1, <2>1, <3>2
      <4>. QED BY <1>1, <1>3, <4>1 DEF Whole, HandingOver, Assumption
    <3>3. CASE i \notin Mapped(n)
      <4>1. Off(i) < u /\ desc[i].eop
        BY <1>1, <1>3, <2>1, <3>1, <3>3
      <4>2. i # xmit.first \/ xmit.first = next_to_use
        BY <1>1, <4>1 DEF Order
      <4>3. Off(i) < Off(End)
        BY <1>1, <1>3, <1>5, <1>6, <3>1, <4>1, <4>2, Distances DEF Order, Off
      <4>. QED BY <2>1, <4>1, <4>3 DEF Whole, HandedOver
    <3>. QED BY <3>2, <3>3
  <2>2. HandedOver'
    BY <1>1, <1>5, <1>7, <2>1 DEF HandedOver, Off
  <2>3. HandingOver'
    BY <1>4 DEF HandingOver
  <2>4. ASSUME head # tail PROVE desc'[Before(tail)].eop
    <3>1. Off(tail) > 0 /\ Off(tail) <= u /\ Off(tail) \in Nat
      BY <1>3, <1>5, <1>6, <2>4, Distances DEF Order, Off
    <3>2. Off(Before(tail)) = Off(tail) - 1 /\ Before(tail) \in Slot
      BY <1>6, <3>1, Distances, BeforeIs DEF Off
    <3>3. Before(tail) \notin Mapped(n)
      BY <1>3, <3>1, <3>2
    <3>. QED BY <1>1, <2>4, <3>2, <3>3 DEF Whole, Boundaries
  <2>5. desc'[Before(next_to_use')].eop
    <3>1. Dist(next_to_clean, next_to_use') > 0
      BY <1>3, <1>7
    <3>2. next_to_use' # next_to_clean
      BY <1>6, <3>1, Distances
    <3>3. Before(next_to_use') \in Slot
          /\ Dist(next_to_clean, Before(next_to_use')) = Dist(next_to_clean, next_to_use') - 1
      BY <1>6, <1>7, <3>2, BeforeIs
    <3>4. Dist(next_to_clean, Before(next_to_use')) = Dist(next_to_clean, Last)
      BY <1>3, <1>7, <3>3 DEF Off
    <3>5. Before(next_to_use') = Last
      BY <1>3, <1>6, <3>3, <3>4, Distances
    <3>. QED BY <1>1, <1>3, <3>5
  <2>6. Boundaries'
    BY <1>1, <2>4, <2>5 DEF Boundaries
  <2>. QED BY <2>2, <2>3, <2>6 DEF Whole
<1>13. Owners'
  BY <1>1, <1>4 DEF Owners, Given
<1>14. Mappings'
  <2>1. ASSUME FailsAtFirst, NEW i \in Slot, buffer[i].dma
        PROVE  Off(Low) <= Off(i) /\ Off(i) < u + n
    <3>1. Low \in Slot
      BY <1>6 DEF Types, Low
    <3>2. Off(i) \in Nat /\ Off(End) \in Nat /\ Off(Low) \in Nat
      BY <1>3, <1>5, <1>6, <3>1, Distances DEF Off
    <3>3. Off(Low) <= Off(End)
      BY <1>3, <1>5, <1>6, <3>2, Distances DEF Order, Off
    <3>. QED BY <1>3, <2>1, <3>2, <3>3 DEF Mappings
  <2>. QED BY <1>1, <1>4, <1>5, <1>7, <2>1 DEF Mappings, Off
<1>. QED BY <1>8, <1>9, <1>10, <1>11, <1>12, <1>13, <1>14

LEMMA XmitKickKeeps ==
  ASSUME Assumption, IInv, XmitKick
  PROVE  IInv'
<1>. USE DEF IInv
<1>1. /\ xmit.pc = "kick" /\ xmit' = [xmit EXCEPT !.pc = "idle"] /\ cur' = cur + 1
      /\ tail' \in {tail, next_to_use}
      /\ UNCHANGED <<ring, head, clean, freed>>
  BY DEF XmitKick, Goto
<1>2. xmit'.pc = "idle" /\ cur \in Packet /\ Low' = Low
  BY <1>1 DEF Types, Low, ring
<1>3. End = next_to_use /\ End' = next_to_use
  BY <1>1, <1>2 DEF End, ring
<1>4. Types'
  BY <1>1, <1>2, SMTT(30) DEF Types, TypeOK, ring, Packet, Assumption
<1>5. Order'
  <2>1. Off(tail) \in Nat /\ Off(next_to_use) \in Nat /\ Off(head) \in Nat
    BY Distances DEF Off, Types, TypeOK
  <2>. QED BY <1>1, <1>2, <1>3, <2>1 DEF Order, Off, ring
<1>6. Room' /\ Done' /\ Mappings'
  BY <1>1, <1>2, <1>3 DEF Room, Done, Mappings, Off, ring
<1>7. Whole'
  BY <1>1, <1>2, <1>3 DEF Whole, HandedOver, HandingOver, Boundaries, Off, ring
<1>8. Owners'
  BY <1>1, <1>2 DEF Owners, Given, ring, Packet
<1>. QED BY <1>4, <1>5, <1>6, <1>7, <1>8
-----------------------------------------------------------------------------
(* The controller. *)
LEMMA LeastNumber ==
  ASSUME NEW T, T \subseteq Nat, T # {}
  PROVE  \E x \in T : \A y \in T : x <= y
<1> DEFINE R == OpToRel(<, Nat)
<1>1. IsWellFoundedOn(R, Nat)
  BY NatLessThanWellFounded
<1>2. \A x, y \in Nat : y < x => <<y, x>> \in R
  BY DEF OpToRel
<1>. HIDE DEF R
<1>3. PICK x \in T : \A y \in T : ~ (<<y, x>> \in R)
  BY <1>1, WFMin
<1>4. \A y \in T : ~ (y < x)
  BY <1>2, <1>3
<1>. QED BY <1>4

LEMMA LeadingIs ==
  ASSUME Assumption, IInv, head # tail
  PROVE  /\ Leading \in Slot /\ desc[Leading].eop
         /\ Off(head) <= Off(Leading) /\ Off(Leading) < Off(tail)
         /\ \A i \in Slot : Off(head) <= Off(i) /\ Off(i) < Off(Leading) => ~ desc[i].eop
<1> DEFINE k0 == Off(tail) - Off(head) - 1
           Ends(k) == desc[Plus(head, k)].eop
           First(k) == Ends(k) /\ \A j \in 0 .. k - 1 : ~ Ends(j)
           e == CHOOSE k \in 0 .. Count - 1 : First(k)
<1>1. /\ head \in Slot /\ tail \in Slot /\ next_to_clean \in Slot /\ Count \in Nat
      /\ Off(head) \in Nat /\ Off(tail) \in Nat /\ Off(tail) < Count
      /\ Off(head) < Off(tail)
  <2>1. head \in Slot /\ tail \in Slot /\ next_to_clean \in Slot /\ Off(head) <= Off(tail)
    BY DEF IInv, Types, TypeOK, Order
  <2>. QED BY <2>1, Distances DEF Off
<1>2. k0 \in 0 .. Count - 1
  BY <1>1
<1>3. ASSUME NEW k \in 0 .. k0
      PROVE  Plus(head, k) \in Slot /\ Off(Plus(head, k)) = Off(head) + k
  <2>1. k \in 0 .. Count - 1 /\ Off(head) + k < Count
    BY <1>1, <1>2
  <2>. QED BY <1>1, <2>1, PlusIs DEF Off
<1>4. Ends(k0)
  <2>1. tail # next_to_clean
    BY <1>1, Distances DEF Off
  <2>2. Before(tail) \in Slot /\ Off(Before(tail)) = Off(tail) - 1
    BY <1>1, <2>1, BeforeIs DEF Off
  <2>3. k0 \in 0 .. k0 /\ Off(head) + k0 = Off(tail) - 1
    BY <1>1, <1>2
  <2>4. Plus(head, k0) = Before(tail)
    BY <1>1, <1>3, <2>2, <2>3, Distances DEF Off
  <2>. QED BY <2>4 DEF IInv, Whole, Boundaries
<1>. HIDE DEF k0
<1>5. \E k \in 0 .. Count - 1 : First(k)
  <2> DEFINE T == {k \in 0 .. Count - 1 : Ends(k)}
  <2>1. T \subseteq Nat /\ k0 \in T
    BY <1>1, <1>2, <1>4
  <2>2. PICK x \in T : \A y \in T : x <= y
    <3>. HIDE DEF T
    <3>. QED BY <2>1, LeastNumber
  <2>3. \A j \in 0 .. x - 1 : ~ Ends(j)
    BY <1>1, <2>2
  <2>. QED BY <2>2, <2>3
<1>6. e \in 0 .. Count - 1 /\ First(e)
  <2>. HIDE DEF First
  <2>. QED BY <1>5
<1>7. Leading = Plus(head, e)
  BY DEF Leading
<1>. HIDE DEF e
<1>8. e \in 0 .. k0
  BY <1>1, <1>2, <1>4, <1>6
<1>9. Off(Leading) = Off(head) + e
  BY <1>3, <1>7, <1>8
<1>10. ASSUME NEW i \in Slot, Off(head) <= Off(i), Off(i) < Off(Leading)
       PROVE  ~ desc[i].eop
  <2> DEFINE j == Off(i) - Off(head)
  <2>1. Off(i) \in Nat
    BY <1>1, Distances DEF Off
  <2>2. j \in 0 .. e - 1 /\ j \in 0 .. k0 /\ Off(head) + j = Off(i)
    BY <1>1, <1>2, <1>8, <1>9, <1>10, <2>1
  <2>. HIDE DEF j
  <2>3. Plus(head, j) = i
    BY <1>1, <1>3, <2>2, Distances DEF Off
  <2>. QED BY <1>6, <2>2, <2>3
<1>. QED BY <1>1, <1>3, <1>6, <1>7, <1>8, <1>10 DEF k0

LEMMA HwSendKeeps ==
  ASSUME Assumption, IInv, HwSend
  PROVE  IInv'
<1>. USE DEF IInv
<1> DEFINE l == Leading
<1>1. /\ head # tail /\ desc' = [desc EXCEPT ![l].dd = TRUE] /\ head' = After(l)
      /\ UNCHANGED <<next_to_use, next_to_clean, buffer, tail, cur, xmit, clean, freed>>
  BY DEF HwSend
<1>2. /\ l \in Slot /\ desc[l].eop /\ Off(head) <= Off(l) /\ Off(l) < Off(tail)
  BY <1>1, LeadingIs
<1>. HIDE DEF l
<1>3. /\ next_to_clean \in Slot /\ tail \in Slot /\ head \in Slot /\ Low \in Slot
      /\ End \in Slot /\ Count \in Nat
  BY DEF Types, TypeOK, Low, End, Assumption
<1>4. /\ Off(l) \in Nat /\ Off(tail) \in Nat /\ Off(tail) < Count /\ Off(head) \in Nat
      /\ Off(Low) \in Nat /\ Off(End) \in Nat
  BY <1>2, <1>3, Distances DEF Off
<1>5. head' \in Slot /\ Dist(next_to_clean, head') = Off(l) + 1
  BY <1>1, <1>2, <1>3, <1>4, AfterIs DEF Off
<1>6. \A i \in Slot : /\ desc'[i].eop = desc[i].eop
                      /\ desc'[i].dd => desc[i].dd \/ i = l
  BY <1>1, <1>2 DEF Types, TypeOK
<1>7. Low' = Low /\ End' = End /\ Given' = Given /\ Last' = Last
      /\ \A m : Mapped(m)' = Mapped(m)
  BY <1>1 DEF Low, End, Given, Last, Mapped
<1>8. Types'
  <2>1. desc' \in [Slot -> [eop : BOOLEAN, dd : BOOLEAN]]
    BY <1>1, <1>2 DEF Types, TypeOK
  <2>. QED BY <1>1, <1>5, <2>1 DEF Types, TypeOK
<1>9. Order'
  <2>1. Off(Low) <= Off(head) /\ Off(tail) <= Off(End)
    BY DEF Order
  <2>2. Off(Low) <= Off(l) + 1 /\ Off(l) + 1 <= Off(tail)
    BY <1>2, <1>4, <2>1
  <2>3. xmit.pc \in {"map", "queue"} => xmit.first \in Slot
    BY DEF Types
  <2>. QED BY <1>1, <1>5, <1>6, <1>7, <2>1, <2>2, <2>3 DEF Order, Off
<1>10. Room' /\ Owners' /\ Mappings'
  BY <1>1, <1>7 DEF Room, Owners, Mappings, Off
<1>11. Done'
  <2>1. ASSUME NEW i \in Slot, desc'[i].dd
        PROVE  Off(Low) <= Off(i) /\ Off(i) < Off(l) + 1
    <3>1. Off(i) \in Nat
      BY <1>3, Distances DEF Off
    <3>2. Off(Low) <= Off(head)
      BY DEF Order
    <3>. QED BY <1>2, <1>4, <1>6, <2>1, <3>1, <3>2 DEF Done
  <2>. QED BY <1>1, <1>5, <1>7, <2>1 DEF Done, Off
<1>12. Whole'
  <2>1. ASSUME NEW i \in Slot, Off(l) + 1 <= Off(i), Off(i) < Off(End), desc'[i].eop
        PROVE  buffer[i].dma /\ buffer[i].skb # None
    <3>1. Off(i) \in Nat
      BY <1>3, Distances DEF Off
    <3>2. Off(head) <= Off(i) /\ desc[i].eop
      BY <1>2, <1>4, <1>6, <2>1, <3>1
    <3>. QED BY <2>1, <3>2 DEF Whole, HandedOver
  <2>2. HandedOver'
    BY <1>1, <1>5, <1>7, <2>1 DEF HandedOver, Off
  <2>3. HandingOver'
    BY <1>1, <1>7 DEF Whole, HandingOver
  <2>4. Boundaries'
    <3>1. Before(tail) \in Slot /\ Before(next_to_use) \in Slot
      BY <1>3, BeforeIs DEF Types, TypeOK
    <3>. QED BY <1>1, <1>6, <3>1 DEF Whole, Boundaries
  <2>. QED BY <2>2, <2>3, <2>4 DEF Whole
<1>. QED BY <1>8, <1>9, <1>10, <1>11, <1>12
-----------------------------------------------------------------------------
(* e1000_clean_tx_irq *)
LEMMA CleanStartKeeps ==
  ASSUME Assumption, IInv, CleanStart
  PROVE  IInv'
<1>1. /\ clean.pc = "idle" /\ UNCHANGED <<ring, head, tail, cur, xmit, freed>>
      /\ clean' = [pc |-> "scan", i |-> next_to_clean,
                   eop |-> buffer[next_to_clean].watch, count |-> 0]
  BY DEF CleanStart, hw
<1>2. next_to_clean \in Slot /\ buffer[next_to_clean].watch \in Slot
  BY DEF IInv, Types, TypeOK, Buffer
<1>3. clean' \in [pc : {"idle", "scan", "publish", "room", "wake", "hang"},
                  i : Slot, eop : Slot, count : Nat]
  BY <1>1, <1>2
<1>4. Low' = Low
  BY <1>1 DEF Low, ring
<1>. QED BY <1>1, <1>3, <1>4, CleanMovesKeeps

LEMMA CleanEndKeeps ==
  ASSUME Assumption, IInv, CleanRoom \/ CleanWake \/ CleanDetect
  PROVE  IInv'
<1>1. /\ clean.pc \in {"room", "wake", "hang"}
      /\ UNCHANGED <<ring, head, tail, cur, xmit, freed>>
      /\ \E pc \in {"idle", "wake", "hang"} : clean' = [clean EXCEPT !.pc = pc]
  BY DEF CleanRoom, CleanWake, CleanDetect, hw
<1>2. clean' \in [pc : {"idle", "scan", "publish", "room", "wake", "hang"},
                  i : Slot, eop : Slot, count : Nat]
  BY <1>1 DEF IInv, Types
<1>3. clean'.pc \in {"idle", "wake", "hang"}
  BY <1>1 DEF IInv, Types
<1>4. Low' = Low
  BY <1>1, <1>3 DEF Low, ring
<1>. QED BY <1>1, <1>2, <1>4, CleanMovesKeeps

LEMMA CleanPacketKeeps ==
  ASSUME Assumption, IInv, CleanPacket
  PROVE  IInv'
<1>. USE DEF IInv
<1> DEFINE e == clean.eop
           next == After(e)
           reaped == Span(clean.i, e) \cup {e}
<1>1. /\ clean.pc = "scan" /\ desc[e].dd
      /\ buffer' = [i \in Slot |-> IF i \in reaped
                                   THEN [NoBuffer EXCEPT !.watch = buffer[i].watch]
                                   ELSE buffer[i]]
      /\ desc' = ClearDone(reaped)
      /\ freed' = freed \cup ({buffer[i].skb : i \in reaped} \ {None})
      /\ clean' = [pc |-> IF next = next_to_use THEN "publish" ELSE "scan",
                   i |-> next, eop |-> buffer[next].watch,
                   count |-> clean.count + Cardinality(reaped)]
      /\ UNCHANGED <<next_to_use, next_to_clean, head, tail, cur, xmit>>
  BY DEF CleanPacket, hw
<1>2. /\ next_to_clean \in Slot /\ head \in Slot /\ tail \in Slot /\ e \in Slot
      /\ clean.i \in Slot /\ End \in Slot /\ Low = clean.i /\ Count \in Nat
      /\ next_to_use \in Slot
  BY <1>1 DEF Types, TypeOK, Low, End, Assumption
<1>3. /\ Off(e) \in Nat /\ Off(Low) \in Nat /\ Off(head) \in Nat /\ Off(tail) \in Nat
      /\ Off(End) \in Nat /\ Off(head) < Count
  BY <1>2, Distances DEF Off
<1>4. Off(Low) <= Off(e) /\ Off(e) < Off(head) /\ Off(head) <= Off(tail) /\ Off(tail) <= Off(End)
  BY <1>1, <1>2 DEF Done, Order
<1>5. /\ reaped \subseteq Slot
      /\ \A i \in Slot : i \in reaped <=> Off(Low) <= Off(i) /\ Off(i) <= Off(e)
  <2>1. /\ Span(clean.i, e) \subseteq Slot
        /\ \A i \in Slot : i \in Span(clean.i, e) <=> Off(Low) <= Off(i) /\ Off(i) < Off(e)
    BY <1>2, <1>4, SpanIs DEF Off
  <2>2. ASSUME NEW i \in Slot PROVE Off(i) \in Nat /\ (Off(i) = Off(e) => i = e)
    BY <1>2, Distances DEF Off
  <2>. QED BY <1>2, <1>3, <1>4, <2>1, <2>2
<1>6. next \in Slot /\ Dist(next_to_clean, next) = Off(e) + 1
  BY <1>2, <1>3, <1>4, AfterIs DEF Off
<1>7. clean.count + Cardinality(reaped) \in Nat
  <2>1. IsFiniteSet(reaped)
    <3>1. IsFiniteSet(Slot)
      BY <1>2, FS_Interval DEF Slot
    <3>. HIDE DEF reaped
    <3>. QED BY <1>5, <3>1, FS_Subset
  <2>. QED BY <2>1, FS_CardinalityType DEF Types
<1>. HIDE DEF e, next, reaped
<1>8. Low' = next /\ End' = End /\ Given' = Given /\ Last' = Last
      /\ \A m : Mapped(m)' = Mapped(m)
  BY <1>1 DEF Low, End, Given, Last, Mapped
<1>9. ASSUME NEW i \in Slot
      PROVE  /\ desc'[i].eop = desc[i].eop
             /\ desc'[i].dd => desc[i].dd /\ i \notin reaped
             /\ desc'[i] \in [eop : BOOLEAN, dd : BOOLEAN]
             /\ i \in reaped => ~ buffer'[i].dma /\ buffer'[i].skb = None
             /\ i \notin reaped => buffer'[i] = buffer[i]
             /\ buffer'[i] \in Buffer
  <2>1. buffer[i] \in Buffer /\ desc[i] \in [eop : BOOLEAN, dd : BOOLEAN]
    BY DEF Types, TypeOK
  <2>2. CASE i \in reaped
    <3>1. desc'[i] = [desc[i] EXCEPT !.dd = FALSE]
      BY <1>1, <2>2 DEF ClearDone
    <3>2. buffer'[i] = [NoBuffer EXCEPT !.watch = buffer[i].watch]
      BY <1>1, <2>2
    <3>3. buffer'[i] \in Buffer /\ ~ buffer'[i].dma /\ buffer'[i].skb = None
      BY <2>1, <3>2 DEF NoBuffer, Buffer
    <3>. QED BY <2>1, <2>2, <3>1, <3>3
  <2>3. CASE i \notin reaped
    BY <1>1, <2>1, <2>3 DEF ClearDone
  <2>. QED BY <2>2, <2>3
<1>10. Types'
  <2>1. buffer' \in [Slot -> Buffer] /\ desc' \in [Slot -> [eop : BOOLEAN, dd : BOOLEAN]]
    <3>1. buffer' = [i \in Slot |-> buffer'[i]] /\ desc' = [i \in Slot |-> desc'[i]]
      BY <1>1 DEF ClearDone
    <3>. QED BY <1>9, <3>1
  <2>2. freed' \subseteq Packet
    BY <1>1, <1>5 DEF Types, TypeOK, Buffer
  <2>3. buffer[next].watch \in Slot
    BY <1>6 DEF Types, TypeOK, Buffer
  <2>4. clean' \in [pc : {"idle", "scan", "publish", "room", "wake", "hang"},
                    i : Slot, eop : Slot, count : Nat]
    BY <1>1, <1>6, <1>7, <2>3
  <2>. QED BY <1>1, <2>1, <2>2, <2>4 DEF Types, TypeOK
<1>11. Order'
  <2>1. Off(e) + 1 <= Off(head)
    BY <1>3, <1>4
  <2>2. xmit.pc \in {"map", "queue"} => desc'[xmit.first].eop = desc[xmit.first].eop
    BY <1>9 DEF Types
  <2>. QED BY <1>1, <1>4, <1>6, <1>8, <2>1, <2>2 DEF Order, Off
<1>12. Room'
  BY <1>1 DEF Room, Off
<1>13. Done'
  <2>1. ASSUME NEW i \in Slot, desc'[i].dd
        PROVE  Off(e) + 1 <= Off(i) /\ Off(i) < Off(head)
    <3>1. Off(i) \in Nat
      BY <1>2, Distances DEF Off
    <3>. QED BY <1>3, <1>5, <1>9, <2>1, <3>1 DEF Done
  <2>. QED BY <1>1, <1>6, <1>8, <2>1 DEF Done, Off
<1>14. Whole'
  <2>1. ASSUME NEW i \in Slot, Off(head) <= Off(i)
        PROVE  buffer'[i] = buffer[i]
    <3>1. Off(i) \in Nat
      BY <1>2, Distances DEF Off
    <3>. QED BY <1>3, <1>4, <1>5, <1>9, <2>1, <3>1
  <2>2. HandedOver'
    BY <1>1, <1>8, <1>9, <2>1 DEF Whole, HandedOver, Off
  <2>3. HandingOver'
    <3>. SUFFICES ASSUME xmit.pc = "queue" PROVE buffer'[Last].dma /\ buffer'[Last].skb = cur
      BY <1>1, <1>8 DEF HandingOver
    <3>1. Last \in Slot /\ Off(head) <= Off(Last)
      <4>1. /\ Frags[cur] \in Nat \ {0} /\ Off(next_to_use) \in Nat
            /\ Last \in Slot /\ Off(Last) = Off(next_to_use) + Frags[cur] - 1
            /\ Off(End) <= Off(next_to_use)
        BY MappingRoom
      <4>. QED BY <1>3, <1>4, <4>1
    <3>. QED BY <2>1, <3>1 DEF Whole, HandingOver
  <2>4. Boundaries'
    <3>1. Before(tail) \in Slot /\ Before(next_to_use) \in Slot
      BY <1>2, BeforeIs
    <3>. QED BY <1>1, <1>9, <3>1 DEF Whole, Boundaries
  <2>. QED BY <2>2, <2>3, <2>4 DEF Whole
<1>15. Owners'
  <2>1. ASSUME NEW i \in Slot, buffer'[i].skb # None
        PROVE  /\ i \notin reaped /\ buffer'[i].skb = buffer[i].skb
               /\ buffer[i].skb \notin freed'
    <3>1. i \notin reaped /\ buffer'[i].skb = buffer[i].skb
      BY <1>9, <2>1
    <3>2. \A j \in reaped : buffer[j].skb # buffer[i].skb
      BY <1>5, <2>1, <3>1 DEF Owners
    <3>. QED BY <1>1, <2>1, <3>1, <3>2 DEF Owners
  <2>2. \A p \in freed' : p <= Given
    BY <1>1, <1>5 DEF Owners
  <2>. QED BY <1>8, <2>1, <2>2 DEF Owners
<1>16. Mappings'
  <2>1. ASSUME FailsAtFirst, NEW i \in Slot, buffer'[i].dma
        PROVE  \/ Off(e) + 1 <= Off(i) /\ Off(i) < Off(End)
               \/ xmit.pc = "queue" /\ i \in Mapped(Frags[cur])
    <3>1. Off(i) \in Nat
      BY <1>2, Distances DEF Off
    <3>2. i \notin reaped /\ buffer[i].dma
      BY <1>9, <2>1
    <3>. QED BY <1>3, <1>5, <2>1, <3>1, <3>2 DEF Mappings
  <2>. QED BY <1>1, <1>6, <1>8, <2>1 DEF Mappings, Off, Mapped
<1>. QED BY <1>10, <1>11, <1>12, <1>13, <1>14, <1>15, <1>16

LEMMA CleanPublishKeeps ==
  ASSUME Assumption, IInv, CleanPublish
  PROVE  IInv'
<1>. USE DEF IInv
<1>1. /\ clean.pc \in {"publish", "scan"} /\ next_to_clean' = clean.i
      /\ clean' = [clean EXCEPT !.pc = "room"]
      /\ UNCHANGED <<next_to_use, buffer, desc, head, tail, cur, xmit, freed>>
  BY DEF CleanPublish, hw
<1>2. /\ next_to_clean \in Slot /\ head \in Slot /\ tail \in Slot /\ next_to_use \in Slot
      /\ clean.i \in Slot /\ End \in Slot /\ Low = clean.i /\ Count \in Nat
      /\ (xmit.pc \in {"map", "queue"} => xmit.first \in Slot)
  BY <1>1 DEF Types, TypeOK, Low, End, Assumption
<1>3. clean'.pc = "room" /\ clean'.i = clean.i /\ Low' = Low /\ End' = End
      /\ Given' = Given /\ Last' = Last /\ \A m : Mapped(m)' = Mapped(m)
  BY <1>1 DEF Types, Low, End, Given, Last, Mapped
<1>4. ASSUME NEW i \in Slot
      PROVE  /\ Off(i) \in Nat /\ Off(i) < Count /\ Off(Low) \in Nat /\ Off(Low) < Count
             /\ Dist(Low, i) = IF Off(Low) <= Off(i) THEN Off(i) - Off(Low)
                               ELSE Off(i) - Off(Low) + Count
  BY <1>2, Distances, Rebase DEF Off
<1>5. Off(Low) <= Off(head) /\ Off(head) <= Off(tail) /\ Off(tail) <= Off(End)
      /\ Off(End) <= Off(next_to_use)
  <2>1. Off(End) <= Off(next_to_use)
    <3>1. CASE xmit.pc \in {"map", "queue"}
      BY <3>1, MappingRoom
    <3>2. CASE xmit.pc \notin {"map", "queue"}
      BY <1>2, <1>4, <3>2 DEF End
    <3>. QED BY <3>1, <3>2
  <2>. QED BY <2>1 DEF Order
<1>6. /\ Dist(Low, Low) = 0
      /\ Dist(Low, head) = Off(head) - Off(Low) /\ Dist(Low, tail) = Off(tail) - Off(Low)
      /\ Dist(Low, End) = Off(End) - Off(Low)
      /\ Dist(Low, next_to_use) = Off(next_to_use) - Off(Low)
  BY <1>2, <1>4, <1>5
<1>7. /\ Off(head) \in Nat /\ Off(tail) \in Nat /\ Off(End) \in Nat /\ Off(Low) \in Nat
      /\ Off(next_to_use) \in Nat /\ Off(next_to_use) < Count
  BY <1>2, <1>4
<1>8. Types'
  BY <1>1, <1>2 DEF Types, TypeOK
<1>9. Order'
  <2>1. 0 <= Dist(Low, head) /\ Dist(Low, head) <= Dist(Low, tail)
        /\ Dist(Low, tail) <= Dist(Low, End)
    BY <1>5, <1>6, <1>7
  <2>2. xmit.pc \in {"map", "queue"} =>
          \/ xmit.first = next_to_use
          \/ Dist(Low, next_to_use) = Dist(Low, xmit.first) + 1 /\ ~desc[xmit.first].eop
    <3>1. xmit.pc \in {"map", "queue"} => End = xmit.first
      BY DEF End
    <3>. QED BY <1>6, <1>7, <3>1 DEF Order
  <2>. QED BY <1>1, <1>2, <1>3, <1>6, <2>1, <2>2 DEF Order, Off
<1>10. Room'
  <2>1. /\ xmit.pc = "context" => Dist(Low, next_to_use) + Need(cur) < Count
        /\ xmit.pc \in {"map", "queue"} =>
             Dist(Low, next_to_use) + NeedWithoutContext(cur) + 3 < Count
    <3>1. xmit.pc # "idle" => Need(cur) \in Nat /\ NeedWithoutContext(cur) \in Nat
      BY DEF Types, Need, NeedWithoutContext, Assumption
    <3>. QED BY <1>2, <1>6, <1>7, <3>1 DEF Room
  <2>. QED BY <1>1, <1>2, <2>1 DEF Room, Off
<1>11. Done'
  <2>1. ASSUME NEW i \in Slot, desc[i].dd
        PROVE  0 <= Dist(Low, i) /\ Dist(Low, i) < Dist(Low, head)
    BY <1>4, <1>6, <1>7, <2>1 DEF Done
  <2>. QED BY <1>1, <1>2, <1>3, <1>6, <2>1 DEF Done, Off
<1>12. Whole'
  <2>1. ASSUME NEW i \in Slot, Dist(Low, head) <= Dist(Low, i), Dist(Low, i) < Dist(Low, End),
               desc[i].eop
        PROVE  buffer[i].dma /\ buffer[i].skb # None
    <3>1. Off(End) < Count
      BY <1>2, <1>4
    <3>2. Off(head) <= Off(i) /\ Off(i) < Off(End)
      BY <1>2, <1>4, <1>5, <1>6, <1>7, <2>1, <3>1
    <3>. QED BY <2>1, <3>2 DEF Whole, HandedOver
  <2>2. HandedOver'
    BY <1>1, <1>2, <1>3, <2>1 DEF HandedOver, Off
  <2>3. HandingOver' /\ Boundaries'
    BY <1>1, <1>3 DEF Whole, HandingOver, Boundaries
  <2>. QED BY <2>2, <2>3 DEF Whole
<1>13. Owners'
  BY <1>1, <1>3 DEF Owners
<1>14. Mappings'
  <2>1. ASSUME NEW i \in Slot, Off(Low) <= Off(i), Off(i) < Off(End)
        PROVE  0 <= Dist(Low, i) /\ Dist(Low, i) < Dist(Low, End)
    BY <1>4, <1>6, <1>7, <2>1
  <2>. QED BY <1>1, <1>2, <1>3, <1>6, <2>1 DEF Mappings, Off
<1>. QED BY <1>8, <1>9, <1>10, <1>11, <1>12, <1>13, <1>14
-----------------------------------------------------------------------------
(* The reset empties the ring. *)
LEMMA ResetUpKeeps ==
  ASSUME Assumption, IInv, ResetUp
  PROVE  IInv'
<1>. USE DEF IInv
<1>1. /\ xmit.pc = "idle" /\ clean.pc = "idle"
      /\ freed' = freed \cup ({buffer[i].skb : i \in Slot} \ {None})
      /\ next_to_use' = 0 /\ next_to_clean' = 0 /\ head' = 0 /\ tail' = 0
      /\ buffer' = [i \in Slot |-> NoBuffer] /\ desc' = [i \in Slot |-> NoDesc]
      /\ UNCHANGED <<cur, xmit, clean>>
  BY DEF ResetUp
<1>2. 0 \in Slot
  BY DEF Assumption, Slot
<1>3. Types'
  <2>1. freed' \subseteq Packet
    BY <1>1 DEF Types, TypeOK, Buffer
  <2>. QED BY <1>1, <1>2, <2>1 DEF Types, TypeOK, NoBuffer, NoDesc, Buffer
<1>4. Order' /\ Room' /\ Done' /\ Mappings'
  BY <1>1, <1>2 DEF Order, Room, Done, Mappings, Off, Dist, Low, End, NoBuffer, NoDesc
<1>5. Whole'
  BY <1>1, <1>2 DEF Whole, HandedOver, HandingOver, Boundaries, NoDesc
<1>6. Owners'
  BY <1>1 DEF Owners, Given, NoBuffer
<1>. QED BY <1>3, <1>4, <1>5, <1>6
-----------------------------------------------------------------------------
LEMMA OthersAre ==
  ASSUME HwHang \/ WatchdogDetect \/ WatchdogLinkDown \/ WatchdogLinkUp \/ PrintHwHang
         \/ TxTimeout \/ ResetDown \/ UNCHANGED vars
  PROVE  UNCHANGED <<ring, head, tail, cur, xmit, clean, freed>>
BY DEF HwHang, WatchdogDetect, WatchdogLinkDown, WatchdogLinkUp, PrintHwHang, TxTimeout,
       ResetDown, vars, hw

LEMMA Step == ASSUME Assumption, IInv, [Next]_vars PROVE IInv'
<1>1. CASE Xmit
  BY <1>1, XmitDroppedKeeps, XmitFrameKeeps, XmitStopKeeps, XmitRecheckKeeps, XmitContextKeeps,
     XmitMapKeeps, XmitMapFailsKeeps, XmitQueueKeeps, XmitKickKeeps DEF Xmit
<1>2. CASE Clean
  BY <1>2, CleanStartKeeps, CleanPacketKeeps, CleanPublishKeeps, CleanEndKeeps DEF Clean
<1>3. CASE HwSend \/ ResetUp
  BY <1>3, HwSendKeeps, ResetUpKeeps
<1>. QED BY <1>1, <1>2, <1>3, OthersAre, OthersKeep DEF Next, Reset

LEMMA Invariance == ASSUME Assumption PROVE Spec => []IInv
BY Start, Step, PTL DEF Spec
-----------------------------------------------------------------------------
(* The types of the ring's indices, buffers and descriptors.               *)
THEOREM TypeCorrectness == ASSUME Assumption PROVE Spec => []TypeOK
BY Invariance, PTL DEF IInv, Types

(* What the controller may fetch, from the order of the indices. *)
LEMMA Fetched == ASSUME Assumption, IInv PROVE FetchedIsMapped
<1>1. /\ next_to_clean \in Slot /\ head \in Slot /\ tail \in Slot /\ next_to_use \in Slot
      /\ Low \in Slot /\ End \in Slot
  BY DEF IInv, Types, TypeOK, Low, End
<1>2. ASSUME NEW i \in Slot PROVE Off(i) \in Nat /\ Off(next_to_clean) = 0
  BY <1>1, Distances DEF Off
<1>3. Off(head) <= Off(tail) /\ Off(tail) <= Off(End) /\ Off(End) <= Off(next_to_use)
  <2>1. CASE xmit.pc \in {"map", "queue"}
    BY <2>1, MappingRoom DEF IInv, Order
  <2>2. CASE xmit.pc \notin {"map", "queue"}
    BY <1>1, <1>2, <2>2 DEF IInv, Order, End
  <2>. QED BY <2>1, <2>2
<1>4. /\ Span(head, tail) \subseteq Slot
      /\ \A i \in Slot : i \in Span(head, tail) <=> Off(head) <= Off(i) /\ Off(i) < Off(tail)
  BY <1>1, <1>3, SpanIs DEF Off
<1>5. \A i \in Slot : i \in Span(next_to_clean, next_to_use) <=> Off(i) < Off(next_to_use)
  <2>1. Off(next_to_clean) <= Off(next_to_use)
    BY <1>1, <1>2
  <2>2. \A i \in Slot : i \in Span(next_to_clean, next_to_use) <=>
          Off(next_to_clean) <= Off(i) /\ Off(i) < Off(next_to_use)
    BY <1>1, <2>1, SpanIs DEF Off
  <2>. QED BY <1>2, <2>2
<1>6. ASSUME NEW i \in Span(head, tail)
      PROVE  /\ i \in Span(next_to_clean, next_to_use)
             /\ desc[i].eop => buffer[i].dma /\ buffer[i].skb \notin freed \cup {None}
  <2>1. i \in Slot /\ Off(head) <= Off(i) /\ Off(i) < Off(tail)
    BY <1>4
  <2>2. Off(i) < Off(End) /\ Off(i) < Off(next_to_use)
    BY <1>1, <1>2, <1>3, <2>1
  <2>. QED BY <1>5, <2>1, <2>2 DEF IInv, Whole, HandedOver, Owners
<1>. QED BY <1>6 DEF FetchedIsMapped

(***************************************************************************)
(* e1000_clean_tx_irq unmaps and frees while the controller fetches, and   *)
(* e1000_xmit_frame and e1000_tx_map fill and give back slots beside it:   *)
(* whatever fails, what lies between head and tail is in use, and where a  *)
(* packet ends it is mapped and has not been freed.                        *)
(***************************************************************************)
THEOREM Fetching == ASSUME Assumption PROVE Spec => []FetchedIsMapped
BY Invariance, Fetched, PTL

(* What is mapped, and what is not. *)
LEMMA Kept == ASSUME Assumption, IInv, FailsAtFirst PROVE NoStrayMapping /\ TailKeepsOff
<1>1. /\ next_to_clean \in Slot /\ next_to_use \in Slot /\ Low \in Slot /\ Count \in Nat
  BY DEF IInv, Types, TypeOK, Low, Assumption
<1>2. ASSUME NEW i \in Slot PROVE Off(i) \in Nat /\ Off(next_to_clean) = 0
  BY <1>1, Distances DEF Off
<1>3. ASSUME xmit.pc = "idle", NEW i \in Slot, buffer[i].dma
      PROVE  i \in Span(next_to_clean, next_to_use)
  <2>1. Off(i) < Off(next_to_use)
    BY <1>3 DEF IInv, Mappings, End
  <2>2. Off(next_to_clean) <= Off(next_to_use)
    BY <1>1, <1>2
  <2>3. i \in Span(next_to_clean, next_to_use) <=>
          Off(next_to_clean) <= Off(i) /\ Off(i) < Off(next_to_use)
    BY <1>1, <2>2, SpanIs DEF Off
  <2>. QED BY <1>2, <2>1, <2>3
<1>4. ASSUME xmit.pc = "map", NEW i \in Mapped(Frags[cur])
      PROVE  ~ buffer[i].dma /\ After(i) # next_to_clean
  <2>1. /\ i \in Slot /\ Off(next_to_use) <= Off(i) /\ Off(i) < Off(next_to_use) + Frags[cur]
        /\ Off(End) <= Off(next_to_use) /\ Frags[cur] \in Nat
        /\ xmit.first \in Slot
    BY <1>4, MappingRoom
  <2>2. ~ buffer[i].dma
    <3>1. Off(i) \in Nat /\ Off(End) \in Nat /\ Off(next_to_use) \in Nat
      BY <1>1, <1>2, <1>4, <2>1 DEF End
    <3>. QED BY <1>4, <2>1, <3>1 DEF IInv, Mappings
  <2>3. Off(i) + 1 < Count
    <3>1. Off(next_to_use) + Frags[cur] + 3 < Count
      BY <1>4 DEF IInv, Room, NeedWithoutContext
    <3>. QED BY <1>1, <1>2, <2>1, <3>1
  <2>. QED BY <1>1, <2>1, <2>2, <2>3, AfterIs DEF Off
<1>. QED BY <1>3, <1>4 DEF NoStrayMapping, TailKeepsOff

(***************************************************************************)
(* The slots e1000_xmit_frame counts on are free and unmapped when         *)
(* e1000_tx_map fills them, the gap of two keeps the tail from touching    *)
(* the head, and no mapping outlives its packet, provided that a packet    *)
(* that cannot be mapped fails at its first buffer: the walk back of       *)
(* e1000_tx_map misses the first of several.                               *)
(***************************************************************************)
THEOREM Keeping ==
  ASSUME Assumption
  PROVE  Spec => [](FailsAtFirst => NoStrayMapping /\ TailKeepsOff)
<1>1. IInv => (FailsAtFirst => NoStrayMapping /\ TailKeepsOff)
  BY Kept
<1>. QED BY <1>1, Invariance, PTL
-----------------------------------------------------------------------------
(* What PacketsOf computes. *)

(* Numbers up to n are reached from 0 in steps of one. *)
LEMMA Reaches ==
  ASSUME NEW S, NEW n \in Nat, 0 \in S, \A k \in 0 .. n - 1 : k \in S => k + 1 \in S
  PROVE  0 .. n \subseteq S
<1> DEFINE T == (0 .. n) \ S
<1>1. SUFFICES ASSUME T # {} PROVE FALSE
  OBVIOUS
<1>2. PICK x \in T : \A y \in T : x <= y
  <2>1. T \subseteq Nat
    OBVIOUS
  <2>. HIDE DEF T
  <2>. QED BY <1>1, <2>1, LeastNumber
<1>3. x - 1 \in S /\ x - 1 \in 0 .. n - 1
  BY <1>2
<1>. QED BY <1>3

(* The recursive function is there, and it is the solution of its equation. *)
LEMMA PacketsOfEquation ==
  ASSUME Assumption, NEW f
  PROVE  LET p == PacketsOf(f)
         IN  p = [k \in 0 .. Count |->
                    IF k = 0 THEN <<>>
                    ELSE IF f[k - 1] = None THEN p[k - 1] ELSE Append(p[k - 1], f[k - 1])]
<1> DEFINE Next1(c, k) == IF k = 0 THEN <<>>
                          ELSE IF f[k - 1] = None THEN c[k - 1] ELSE Append(c[k - 1], f[k - 1])
           Is(c, m) == c = [k \in 0 .. m |-> Next1(c, k)]
           Solved == {m \in Nat : \E c : Is(c, m)}
<1>1. Count \in Nat
  BY DEF Assumption
<1>2. 0 \in Solved
  <2>1. Is([k \in 0 .. 0 |-> <<>>], 0)
    OBVIOUS
  <2>. QED BY <2>1
<1>3. ASSUME NEW m \in 0 .. Count - 1, m \in Solved PROVE m + 1 \in Solved
  <2>1. m \in Nat /\ m + 1 \in Nat
    BY <1>1
  <2>2. PICK c : Is(c, m)
    BY <1>3
  <2> DEFINE d == [k \in 0 .. m + 1 |-> Next1(c, k)]
  <2>3. ASSUME NEW k \in 0 .. m PROVE d[k] = c[k]
    <3>1. d[k] = Next1(c, k) /\ c[k] = Next1(c, k)
      <4>. HIDE DEF Next1
      <4>. QED BY <2>1, <2>2
    <3>. HIDE DEF d, Next1
    <3>. QED BY <3>1
  <2>4. ASSUME NEW k \in 0 .. m + 1, k # 0 PROVE d[k - 1] = c[k - 1]
    <3>1. k - 1 \in 0 .. m
      BY <2>1, <2>4
    <3>. QED BY <2>3, <3>1
  <2>5. Is(d, m + 1)
    BY <2>4
  <2>. QED BY <2>1, <2>5
<1>4. 0 .. Count \subseteq Solved
  <2>. HIDE DEF Solved
  <2>. QED BY <1>1, <1>2, <1>3, Reaches
<1>5. \E c : Is(c, Count)
  <2>1. Count \in Solved
    <3>. HIDE DEF Solved
    <3>. QED BY <1>1, <1>4
  <2>. HIDE DEF Is
  <2>. QED BY <2>1
<1>. QED BY <1>5 DEF PacketsOf

LEMMA PacketsOfIs ==
  ASSUME Assumption, NEW f
  PROVE  /\ PacketsOf(f)[0] = <<>>
         /\ \A k \in 0 .. Count - 1 :
              PacketsOf(f)[k + 1] = IF f[k] = None THEN PacketsOf(f)[k]
                                    ELSE Append(PacketsOf(f)[k], f[k])
<1> DEFINE p == PacketsOf(f)
<1>1. Count \in Nat
  BY DEF Assumption
<1>2. p = [k \in 0 .. Count |->
             IF k = 0 THEN <<>>
             ELSE IF f[k - 1] = None THEN p[k - 1] ELSE Append(p[k - 1], f[k - 1])]
  BY PacketsOfEquation
<1>. HIDE DEF p
<1>3. p[0] = <<>>
  BY <1>1, <1>2
<1>4. ASSUME NEW k \in 0 .. Count - 1
      PROVE  p[k + 1] = IF f[k] = None THEN p[k] ELSE Append(p[k], f[k])
  <2>1. k + 1 \in 0 .. Count /\ k + 1 # 0 /\ (k + 1) - 1 = k
    BY <1>1
  <2>. QED BY <1>2, <2>1
<1>. QED BY <1>3, <1>4 DEF p

(* Of entries that agree, the same packets. *)
LEMMA PacketsOfAgree ==
  ASSUME Assumption, NEW f, NEW g, NEW n \in 0 .. Count,
         \A k \in 0 .. n - 1 : f[k] = g[k]
  PROVE  PacketsOf(f)[n] = PacketsOf(g)[n]
<1> DEFINE S == {k \in Nat : PacketsOf(f)[k] = PacketsOf(g)[k]}
<1>1. n \in Nat /\ Count \in Nat /\ n <= Count
  BY DEF Assumption
<1>2. 0 \in S
  BY PacketsOfIs
<1>3. ASSUME NEW k \in 0 .. n - 1, k \in S PROVE k + 1 \in S
  <2>1. k \in 0 .. Count - 1 /\ k + 1 \in Nat
    BY <1>1
  <2>. QED BY <1>3, <2>1, PacketsOfIs
<1>4. 0 .. n \subseteq S
  <2>. HIDE DEF S
  <2>. QED BY <1>1, <1>2, <1>3, Reaches
<1>. QED BY <1>1, <1>4

(* Entries that are None add nothing. *)
LEMMA PacketsOfNone ==
  ASSUME Assumption, NEW f, NEW m \in Nat, NEW n \in Nat, m + n <= Count,
         \A k \in m .. m + n - 1 : f[k] = None
  PROVE  PacketsOf(f)[m + n] = PacketsOf(f)[m]
<1> DEFINE S == {k \in Nat : PacketsOf(f)[m + k] = PacketsOf(f)[m]}
<1>1. Count \in Nat
  BY DEF Assumption
<1>2. 0 \in S
  OBVIOUS
<1>3. ASSUME NEW k \in 0 .. n - 1, k \in S PROVE k + 1 \in S
  <2>1. m + k \in 0 .. Count - 1 /\ m + k \in m .. m + n - 1 /\ (m + k) + 1 = m + (k + 1)
        /\ k + 1 \in Nat
    BY <1>1
  <2>2. PacketsOf(f)[(m + k) + 1] = PacketsOf(f)[m + k]
    BY <2>1, PacketsOfIs
  <2>. QED BY <1>3, <2>1, <2>2
<1>4. 0 .. n \subseteq S
  <2>. HIDE DEF S
  <2>. QED BY <1>2, <1>3, Reaches
<1>. QED BY <1>4

(* They are the entries that are not. *)
LEMMA PacketsOfRange ==
  ASSUME Assumption, NEW f, NEW n \in 0 .. Count,
         \A k \in 0 .. n - 1 : f[k] \in Packet \cup {None}
  PROVE  /\ PacketsOf(f)[n] \in Seq(Packet)
         /\ {PacketsOf(f)[n][j] : j \in DOMAIN PacketsOf(f)[n]}
              = {f[k] : k \in 0 .. n - 1} \ {None}
<1> DEFINE p == PacketsOf(f)
           Among(k) == {f[i] : i \in 0 .. k - 1} \ {None}
           Values(s) == {s[j] : j \in DOMAIN s}
           S == {k \in Nat : p[k] \in Seq(Packet) /\ Values(p[k]) = Among(k)}
<1>1. n \in Nat /\ Count \in Nat /\ n <= Count
  BY DEF Assumption
<1>2. 0 \in S
  <2>1. p[0] = <<>>
    BY PacketsOfIs
  <2>2. Among(0) = {}
    OBVIOUS
  <2>3. <<>> \in Seq(Packet) /\ Values(<<>>) = {}
    OBVIOUS
  <2>. HIDE DEF p, Among, Values
  <2>. QED BY <2>1, <2>2, <2>3
<1>3. ASSUME NEW k \in 0 .. n - 1, k \in S PROVE k + 1 \in S
  <2>1. k \in 0 .. Count - 1 /\ k + 1 \in Nat
    BY <1>1
  <2>2. p[k + 1] = IF f[k] = None THEN p[k] ELSE Append(p[k], f[k])
    BY <2>1, PacketsOfIs
  <2>3. p[k] \in Seq(Packet) /\ Values(p[k]) = Among(k)
    BY <1>3
  <2>4. 0 .. (k + 1) - 1 = (0 .. k - 1) \cup {k}
    BY <2>1
  <2>5. Among(k + 1) = Among(k) \cup ({f[k]} \ {None})
    BY <2>4
  <2>. HIDE DEF p, Among
  <2>6. CASE f[k] = None
    BY <2>1, <2>2, <2>3, <2>5, <2>6
  <2>7. CASE f[k] # None
    <3>1. f[k] \in Packet
      BY <2>7
    <3>2. p[k + 1] = Append(p[k], f[k]) /\ p[k + 1] \in Seq(Packet)
      BY <2>2, <2>3, <2>7, <3>1
    <3> DEFINE s == p[k]
    <3>3. s \in Seq(Packet) /\ DOMAIN s = 1 .. Len(s) /\ Len(s) \in Nat
      BY <2>3
    <3>. HIDE DEF s
    <3>4. /\ DOMAIN Append(s, f[k]) = (1 .. Len(s)) \cup {Len(s) + 1}
          /\ \A j \in 1 .. Len(s) : Append(s, f[k])[j] = s[j]
          /\ Append(s, f[k])[Len(s) + 1] = f[k]
      BY <3>1, <3>3
    <3>5. Values(Append(s, f[k])) = Values(s) \cup {f[k]}
      BY <3>3, <3>4
    <3>6. Values(p[k + 1]) = Values(p[k]) \cup {f[k]}
      BY <3>2, <3>5 DEF s
    <3>. QED BY <2>1, <2>3, <2>5, <2>7, <3>2, <3>6
  <2>. QED BY <2>6, <2>7
<1>4. 0 .. n \subseteq S
  <2>. HIDE DEF S
  <2>. QED BY <1>1, <1>2, <1>3, Reaches
<1>. QED BY <1>1, <1>4

(* f has its first packet at m; n entries follow, which are those of g. *)
Leads(f, g, m, n) ==
  /\ m \in Nat /\ n \in Nat /\ m + 1 + n <= Count
  /\ f[m] \in Packet /\ \A k \in 0 .. m - 1 : f[k] = None
  /\ \A k \in 0 .. n - 1 : g[k] = f[m + 1 + k] /\ g[k] \in Packet \cup {None}
FirstOf(f, g, m, n) == PacketsOf(f)[m + 1 + n] = <<f[m]>> \o PacketsOf(g)[n]

LEMMA PacketsOfFirst ==
  ASSUME Assumption, NEW f, NEW g, NEW m, NEW n, Leads(f, g, m, n)
  PROVE  FirstOf(f, g, m, n)
<1> DEFINE p == PacketsOf(f)
           q == PacketsOf(g)
           S == {k \in Nat : p[m + 1 + k] = <<f[m]>> \o q[k]}
<1>. USE DEF Leads, FirstOf
<1>1. Count \in Nat /\ None \notin Packet
  BY DEF Assumption
<1>2. 0 \in S
  <2>1. p[0] = <<>> /\ q[0] = <<>>
    BY PacketsOfIs
  <2>2. p[m] = <<>>
    <3>1. p[0 + m] = p[0]
      BY <1>1, PacketsOfNone
    <3>. QED BY <2>1, <3>1
  <2>3. m \in 0 .. Count - 1
    BY <1>1
  <2>4. p[m + 1] = Append(p[m], f[m])
    BY <1>1, <2>3, PacketsOfIs
  <2>5. Append(<<>>, f[m]) = <<f[m]>> /\ <<f[m]>> \o <<>> = <<f[m]>>
    <3>1. <<f[m]>> \in Seq(Packet)
      OBVIOUS
    <3>2. Append(<<>>, f[m]) = <<f[m]>>
      OBVIOUS
    <3>3. <<f[m]>> \o <<>> = <<f[m]>>
      BY <3>1, ConcatEmptySeq
    <3>. QED BY <3>2, <3>3
  <2>6. m + 1 + 0 = m + 1
    OBVIOUS
  <2>7. p[m + 1 + 0] = <<f[m]>> \o q[0]
    BY <2>1, <2>2, <2>4, <2>5, <2>6
  <2>. HIDE DEF p, q
  <2>. QED BY <2>7
<1>3. ASSUME NEW k \in 0 .. n - 1, k \in S PROVE k + 1 \in S
  <2>1. /\ k \in 0 .. Count - 1 /\ k + 1 \in Nat /\ k \in Nat
        /\ m + 1 + k \in 0 .. Count - 1 /\ (m + 1 + k) + 1 = m + 1 + (k + 1)
    BY <1>1
  <2>2. p[m + 1 + (k + 1)] = IF g[k] = None THEN p[m + 1 + k] ELSE Append(p[m + 1 + k], g[k])
    BY <2>1, PacketsOfIs
  <2>3. q[k + 1] = IF g[k] = None THEN q[k] ELSE Append(q[k], g[k])
    BY <2>1, PacketsOfIs
  <2>4. p[m + 1 + k] = <<f[m]>> \o q[k]
    BY <1>3
  <2>5. q[k] \in Seq(Packet)
    <3>. HIDE DEF p, q, S
    <3>1. k \in 0 .. Count
      BY <1>1, <2>1
    <3>2. ASSUME NEW j \in 0 .. k - 1 PROVE g[j] \in Packet \cup {None}
      <4>1. j \in 0 .. n - 1
        BY <2>1, <3>2
      <4>. QED BY <4>1
    <3>. QED BY <3>1, <3>2, PacketsOfRange DEF q
  <2>. HIDE DEF p, q
  <2>6. g[k] # None => Append(<<f[m]>> \o q[k], g[k]) = <<f[m]>> \o Append(q[k], g[k])
    <3>1. SUFFICES ASSUME g[k] # None
                   PROVE  Append(<<f[m]>> \o q[k], g[k]) = <<f[m]>> \o Append(q[k], g[k])
      OBVIOUS
    <3>2. g[k] \in Packet
      BY <3>1
    <3>. QED BY <2>5, <3>2
  <2>7. p[m + 1 + (k + 1)] = <<f[m]>> \o q[k + 1]
    BY <2>2, <2>3, <2>4, <2>6
  <2>. QED BY <2>1, <2>7
<1>4. 0 .. n \subseteq S
  <2>. HIDE DEF S
  <2>. QED BY <1>2, <1>3, Reaches
<1>. QED BY <1>4
-----------------------------------------------------------------------------
(* What Held is for buffers b, between the places h and u of the ring. *)
HeldOf(b, h, u) ==
  PacketsOf([k \in 0 .. Count - 1 |-> b[Plus(h, k)].skb])[(u - h) % Count]

(* How far next_to_use is ahead, and the places on the way there. *)
LEMMA AheadIs ==
  ASSUME Assumption, NEW h \in Slot, NEW u \in Slot
  PROVE  (u - h) % Count = Dist(h, u)
<1>1. u - h \in Int /\ Count \in Nat /\ u \in Nat /\ h \in Nat /\ u < Count /\ h < Count
  BY DEF Assumption, Slot
<1>2. CASE h <= u
  <2>1. u - h \in 0 .. Count - 1
    BY <1>1, <1>2
  <2>. QED BY <1>1, <1>2, <2>1 DEF Dist
<1>3. CASE ~(h <= u)
  <2>1. (u - h) % Count = (u - h + Count) % Count
    BY <1>1, <1>3
  <2>2. u - h + Count \in 0 .. Count - 1
    BY <1>1, <1>3
  <2>. QED BY <1>1, <1>3, <2>1, <2>2 DEF Dist
<1>. QED BY <1>2, <1>3

LEMMA PlaceIs ==
  ASSUME Assumption, NEW c \in Slot, NEW h \in Slot, NEW u \in Slot,
         Dist(c, h) <= Dist(c, u)
  PROVE  /\ Dist(h, u) = Dist(c, u) - Dist(c, h)
         /\ Dist(h, u) \in 0 .. Count - 1
         /\ Dist(c, h) \in Nat /\ Dist(c, u) \in Nat /\ Dist(c, u) < Count
         /\ \A k \in 0 .. Dist(h, u) :
              Plus(h, k) \in Slot /\ Dist(c, Plus(h, k)) = Dist(c, h) + k
         /\ Plus(h, Dist(h, u)) = u
<1>1. /\ Dist(c, h) \in Nat /\ Dist(c, u) \in Nat /\ Dist(c, u) < Count /\ Count \in Nat
      /\ Dist(h, u) \in 0 .. Count - 1
  BY Distances
<1>2. Dist(h, u) = Dist(c, u) - Dist(c, h)
  BY <1>1, Rebase
<1>3. ASSUME NEW k \in 0 .. Dist(h, u)
      PROVE  Plus(h, k) \in Slot /\ Dist(c, Plus(h, k)) = Dist(c, h) + k
  <2>1. k \in 0 .. Count - 1 /\ Dist(c, h) + k < Count
    BY <1>1, <1>2
  <2>. QED BY <2>1, PlusIs
<1>4. Plus(h, Dist(h, u)) = u
  <2>1. Dist(h, u) \in 0 .. Dist(h, u) /\ Dist(c, h) + Dist(h, u) = Dist(c, u)
    BY <1>1, <1>2
  <2>. QED BY <1>3, <2>1, Distances
<1>. QED BY <1>1, <1>2, <1>3, <1>4

(* The packets of the sequence s, and those that buffers b name between h and u. *)
Among(s) == {s[j] : j \in DOMAIN s}
Between(b, c, h, u) ==
  {b[i].skb : i \in {i \in Slot : Dist(c, h) <= Dist(c, i) /\ Dist(c, i) < Dist(c, u)}}

LEMMA HeldIs ==
  ASSUME Assumption, NEW b \in [Slot -> Buffer], NEW c \in Slot, NEW h \in Slot, NEW u \in Slot,
         Dist(c, h) <= Dist(c, u)
  PROVE  /\ HeldOf(b, h, u) \in Seq(Packet)
         /\ Among(HeldOf(b, h, u)) = Between(b, c, h, u) \ {None}
<1> DEFINE f == [k \in 0 .. Count - 1 |-> b[Plus(h, k)].skb]
           n == Dist(h, u)
           s == HeldOf(b, h, u)
<1>1. s = PacketsOf(f)[n]
  BY AheadIs DEF HeldOf
<1>2. /\ n \in 0 .. Count - 1 /\ n = Dist(c, u) - Dist(c, h) /\ Count \in Nat
      /\ Dist(c, h) \in Nat /\ Dist(c, u) \in Nat
      /\ \A k \in 0 .. n : Plus(h, k) \in Slot /\ Dist(c, Plus(h, k)) = Dist(c, h) + k
  BY PlaceIs DEF Assumption
<1>3. ASSUME NEW k \in 0 .. n - 1 PROVE f[k] = b[Plus(h, k)].skb /\ f[k] \in Packet \cup {None}
  BY <1>2 DEF Buffer
<1>4. ASSUME NEW i \in Slot, Dist(c, h) <= Dist(c, i), Dist(c, i) < Dist(c, u)
      PROVE  \E k \in 0 .. n - 1 : Plus(h, k) = i
  <2>1. Dist(h, i) = Dist(c, i) - Dist(c, h) /\ Plus(h, Dist(h, i)) = i /\ Dist(c, i) \in Nat
    BY <1>4, PlaceIs
  <2>. QED BY <1>2, <1>4, <2>1
<1>. HIDE DEF n, f, s
<1>5. /\ s \in Seq(Packet)
      /\ {s[j] : j \in DOMAIN s} = {f[k] : k \in 0 .. n - 1} \ {None}
  <2>1. n \in 0 .. Count /\ \A k \in 0 .. n - 1 : f[k] \in Packet \cup {None}
    BY <1>2, <1>3
  <2>2. /\ PacketsOf(f)[n] \in Seq(Packet)
        /\ {PacketsOf(f)[n][j] : j \in DOMAIN PacketsOf(f)[n]}
             = {f[k] : k \in 0 .. n - 1} \ {None}
    BY <2>1, PacketsOfRange
  <2>. QED BY <1>1, <2>2
<1>6. ASSUME NEW p
      PROVE  (\E j \in DOMAIN s : s[j] = p) <=> p # None /\ \E k \in 0 .. n - 1 : f[k] = p
  <2>1. (\E j \in DOMAIN s : s[j] = p) <=> p \in {s[j] : j \in DOMAIN s}
    OBVIOUS
  <2>. QED BY <1>5, <2>1
<1>7. ASSUME NEW p
      PROVE  (\E k \in 0 .. n - 1 : f[k] = p) <=>
               \E i \in Slot : Dist(c, h) <= Dist(c, i) /\ Dist(c, i) < Dist(c, u) /\ b[i].skb = p
  <2>1. ASSUME NEW k \in 0 .. n - 1, f[k] = p
        PROVE  LET i == Plus(h, k) IN
               i \in Slot /\ Dist(c, h) <= Dist(c, i) /\ Dist(c, i) < Dist(c, u) /\ b[i].skb = p
    BY <1>2, <1>3, <2>1
  <2>2. ASSUME NEW i \in Slot, Dist(c, h) <= Dist(c, i), Dist(c, i) < Dist(c, u), b[i].skb = p
        PROVE  \E k \in 0 .. n - 1 : f[k] = p
    BY <1>3, <1>4, <2>2
  <2>. QED BY <2>1, <2>2
<1>8. Among(s) = Between(b, c, h, u) \ {None}
  BY <1>6, <1>7 DEF Among, Between
<1>. QED BY <1>5, <1>8 DEF s

(* Held looks at the slots from h up to u, ... *)
LEMMA HeldSame ==
  ASSUME Assumption, NEW b, NEW d, NEW c \in Slot, NEW h \in Slot, NEW u \in Slot,
         Dist(c, h) <= Dist(c, u),
         \A i \in Slot : Dist(c, h) <= Dist(c, i) /\ Dist(c, i) < Dist(c, u) => b[i].skb = d[i].skb
  PROVE  HeldOf(b, h, u) = HeldOf(d, h, u)
<1> DEFINE f == [k \in 0 .. Count - 1 |-> b[Plus(h, k)].skb]
           g == [k \in 0 .. Count - 1 |-> d[Plus(h, k)].skb]
           n == Dist(h, u)
<1>1. HeldOf(b, h, u) = PacketsOf(f)[n] /\ HeldOf(d, h, u) = PacketsOf(g)[n]
  BY AheadIs DEF HeldOf
<1>2. /\ n \in 0 .. Count - 1 /\ n = Dist(c, u) - Dist(c, h) /\ Count \in Nat
      /\ Dist(c, h) \in Nat /\ Dist(c, u) \in Nat
      /\ \A k \in 0 .. n : Plus(h, k) \in Slot /\ Dist(c, Plus(h, k)) = Dist(c, h) + k
  BY PlaceIs DEF Assumption
<1>3. ASSUME NEW k \in 0 .. n - 1 PROVE f[k] = g[k]
  <2>1. /\ Plus(h, k) \in Slot /\ Dist(c, h) <= Dist(c, Plus(h, k))
        /\ Dist(c, Plus(h, k)) < Dist(c, u)
    BY <1>2
  <2>2. k \in 0 .. Count - 1
    BY <1>2
  <2>. QED BY <2>1, <2>2
<1>. HIDE DEF f, g, n
<1>4. n \in 0 .. Count /\ \A k \in 0 .. n - 1 : f[k] = g[k]
  BY <1>2, <1>3
<1>5. PacketsOf(f)[n] = PacketsOf(g)[n]
  BY <1>4, PacketsOfAgree
<1>. QED BY <1>1, <1>5

(* ... does not change where they hold nothing, ... *)
LEMMA HeldLonger ==
  ASSUME Assumption, NEW b, NEW c \in Slot, NEW h \in Slot, NEW u \in Slot, NEW v \in Slot,
         Dist(c, h) <= Dist(c, u), Dist(c, u) <= Dist(c, v),
         \A i \in Slot : Dist(c, u) <= Dist(c, i) /\ Dist(c, i) < Dist(c, v) => b[i].skb = None
  PROVE  HeldOf(b, h, v) = HeldOf(b, h, u)
<1> DEFINE f == [k \in 0 .. Count - 1 |-> b[Plus(h, k)].skb]
           m == Dist(h, u)
           n == Dist(u, v)
<1>1. HeldOf(b, h, u) = PacketsOf(f)[m] /\ HeldOf(b, h, v) = PacketsOf(f)[Dist(h, v)]
  BY AheadIs DEF HeldOf
<1>2. /\ m = Dist(c, u) - Dist(c, h) /\ n = Dist(c, v) - Dist(c, u)
      /\ Dist(h, v) = Dist(c, v) - Dist(c, h)
      /\ m \in Nat /\ n \in Nat /\ Count \in Nat /\ Dist(h, v) \in 0 .. Count - 1
      /\ Dist(c, h) \in Nat /\ Dist(c, u) \in Nat /\ Dist(c, v) \in Nat
  <2>1. Dist(c, h) <= Dist(c, v)
    BY Distances
  <2>. QED BY <2>1, PlaceIs DEF Assumption
<1>3. ASSUME NEW k \in m .. m + n - 1 PROVE f[k] = None
  <2>1. k \in 0 .. Count - 1 /\ k \in 0 .. Dist(h, v)
    BY <1>2
  <2>2. Plus(h, k) \in Slot /\ Dist(c, Plus(h, k)) = Dist(c, h) + k
    <3>1. Dist(c, h) <= Dist(c, v)
      BY <1>2
    <3>. QED BY <2>1, <3>1, PlaceIs
  <2>3. Dist(c, u) <= Dist(c, Plus(h, k)) /\ Dist(c, Plus(h, k)) < Dist(c, v)
    BY <1>2, <2>2
  <2>. QED BY <2>1, <2>2, <2>3
<1>4. Dist(h, v) = m + n /\ m + n <= Count
  BY <1>2
<1>. HIDE DEF f, m, n
<1>. QED BY <1>1, <1>2, <1>3, <1>4, PacketsOfNone

(* ... grows at the end by a packet, and starts with the first one. *)
LEMMA HeldMore ==
  ASSUME Assumption, NEW b, NEW c \in Slot, NEW h \in Slot, NEW u \in Slot, NEW l \in Slot,
         NEW v \in Slot,
         Dist(c, h) <= Dist(c, u), Dist(c, u) <= Dist(c, l), Dist(c, v) = Dist(c, l) + 1,
         \A i \in Slot : Dist(c, u) <= Dist(c, i) /\ Dist(c, i) < Dist(c, l) => b[i].skb = None,
         b[l].skb # None
  PROVE  HeldOf(b, h, v) = Append(HeldOf(b, h, u), b[l].skb)
<1> DEFINE f == [k \in 0 .. Count - 1 |-> b[Plus(h, k)].skb]
           n == Dist(h, l)
<1>1. Dist(c, h) <= Dist(c, l) /\ Dist(c, h) <= Dist(c, v) /\ Dist(c, l) \in Nat
  BY Distances
<1>2. HeldOf(b, h, l) = HeldOf(b, h, u)
  BY HeldLonger
<1>3. HeldOf(b, h, l) = PacketsOf(f)[n] /\ HeldOf(b, h, v) = PacketsOf(f)[Dist(h, v)]
  BY AheadIs DEF HeldOf
<1>4. /\ n = Dist(c, l) - Dist(c, h) /\ Dist(h, v) = Dist(c, v) - Dist(c, h)
      /\ n \in 0 .. Count - 1 /\ Plus(h, n) = l
      /\ Dist(c, h) \in Nat /\ Dist(c, l) \in Nat
  BY <1>1, PlaceIs
<1>5. Dist(h, v) = n + 1 /\ f[n] = b[l].skb
  BY <1>4
<1>. HIDE DEF f, n
<1>6. PacketsOf(f)[n + 1] = Append(PacketsOf(f)[n], f[n])
  BY <1>4, <1>5, PacketsOfIs
<1>. QED BY <1>2, <1>3, <1>5, <1>6

LEMMA HeldFirst ==
  ASSUME Assumption, NEW b \in [Slot -> Buffer], NEW c \in Slot, NEW h \in Slot, NEW l \in Slot,
         NEW g \in Slot, NEW u \in Slot,
         Dist(c, h) <= Dist(c, l), Dist(c, g) = Dist(c, l) + 1, Dist(c, g) <= Dist(c, u),
         \A i \in Slot : Dist(c, h) <= Dist(c, i) /\ Dist(c, i) < Dist(c, l) => b[i].skb = None,
         b[l].skb # None
  PROVE  HeldOf(b, h, u) = <<b[l].skb>> \o HeldOf(b, g, u)
<1> DEFINE f == [k \in 0 .. Count - 1 |-> b[Plus(h, k)].skb]
           e == [k \in 0 .. Count - 1 |-> b[Plus(g, k)].skb]
           m == Dist(h, l)
           n == Dist(g, u)
<1>1. Dist(c, h) <= Dist(c, u) /\ Dist(c, l) \in Nat /\ Count \in Nat
  BY Distances DEF Assumption
<1>2. HeldOf(b, h, u) = PacketsOf(f)[Dist(h, u)] /\ HeldOf(b, g, u) = PacketsOf(e)[n]
  BY AheadIs DEF HeldOf
<1>3. /\ m = Dist(c, l) - Dist(c, h) /\ n = Dist(c, u) - Dist(c, g)
      /\ Dist(h, u) = Dist(c, u) - Dist(c, h)
      /\ m \in 0 .. Count - 1 /\ n \in 0 .. Count - 1 /\ Dist(h, u) \in 0 .. Count - 1
      /\ Dist(c, h) \in Nat /\ Dist(c, g) \in Nat /\ Dist(c, u) \in Nat
  BY <1>1, PlaceIs
<1>4. /\ \A k \in 0 .. m : Plus(h, k) \in Slot /\ Dist(c, Plus(h, k)) = Dist(c, h) + k
      /\ Plus(h, m) = l
  BY <1>1, PlaceIs
<1>5. \A k \in 0 .. n : Plus(g, k) \in Slot /\ Dist(c, Plus(g, k)) = Dist(c, g) + k
  BY <1>1, PlaceIs
<1>6. \A k \in 0 .. Dist(h, u) : Plus(h, k) \in Slot /\ Dist(c, Plus(h, k)) = Dist(c, h) + k
  BY <1>1, PlaceIs
<1>7. Dist(h, u) = m + 1 + n
  BY <1>1, <1>3
<1>8. ASSUME NEW k \in 0 .. m - 1 PROVE f[k] = None
  <2>1. k \in 0 .. Count - 1 /\ k \in 0 .. m
    BY <1>1, <1>3
  <2>2. Plus(h, k) \in Slot /\ Dist(c, h) <= Dist(c, Plus(h, k)) /\ Dist(c, Plus(h, k)) < Dist(c, l)
    BY <1>1, <1>3, <1>4, <2>1
  <2>. QED BY <2>1, <2>2
<1>9. f[m] = b[l].skb /\ f[m] \in Packet
  BY <1>3, <1>4 DEF Buffer
<1>10. ASSUME NEW k \in 0 .. n - 1
       PROVE  e[k] = f[m + 1 + k] /\ e[k] \in Packet \cup {None}
  <2>1. /\ k \in 0 .. Count - 1 /\ k \in 0 .. n /\ m + 1 + k \in 0 .. Count - 1
        /\ m + 1 + k \in 0 .. Dist(h, u)
    BY <1>1, <1>3, <1>7
  <2>2. Dist(c, Plus(g, k)) = Dist(c, Plus(h, m + 1 + k))
    BY <1>1, <1>3, <1>5, <1>6, <2>1
  <2>3. Plus(g, k) = Plus(h, m + 1 + k) /\ Plus(g, k) \in Slot
    BY <1>5, <1>6, <2>1, <2>2, Distances
  <2>. QED BY <2>1, <2>3 DEF Buffer
<1>11. m \in Nat /\ n \in Nat /\ m + 1 + n <= Count
  BY <1>1, <1>3, <1>7
<1>. HIDE DEF f, e, m, n
<1>12. Leads(f, e, m, n)
  BY <1>8, <1>9, <1>10, <1>11 DEF Leads
<1>13. FirstOf(f, e, m, n)
  BY <1>12, PacketsOfFirst
<1>. QED BY <1>2, <1>7, <1>9, <1>13 DEF FirstOf
-----------------------------------------------------------------------------
(* A packet is held by a slot in use, or by the one that is being filled.  *)
Placed ==
  \A i \in Slot : buffer[i].skb # None =>
    \/ Off(Low) <= Off(i) /\ Off(i) < Off(End)
    \/ xmit.pc = "queue" /\ i = Last

(* The controller stops at every packet handed over. *)
Ended ==
  \A i \in Slot :
    Off(head) <= Off(i) /\ Off(i) < Off(End) /\ buffer[i].skb # None => desc[i].eop

(* What lies behind the head has been sent; what has been sent lies there  *)
(* or has been freed.                                                      *)
Sent ==
  \A i \in Slot :
    Off(Low) <= Off(i) /\ Off(i) < Off(head) /\ buffer[i].skb # None =>
      \E k \in DOMAIN wire : wire[k] = buffer[i].skb
Reported ==
  \A k \in DOMAIN wire :
    \/ wire[k] \in freed
    \/ \E i \in Slot : /\ Off(Low) <= Off(i) /\ Off(i) < Off(head)
                       /\ buffer[i].skb = wire[k]

Accounts == wire \in Seq(Packet) /\ Placed /\ Ended /\ Sent /\ Reported

(* The order of the indices, as the proofs below use it. *)
LEMMA Bounds ==
  ASSUME Assumption, IInv
  PROVE  /\ next_to_clean \in Slot /\ head \in Slot /\ tail \in Slot /\ next_to_use \in Slot
         /\ Low \in Slot /\ End \in Slot /\ buffer \in [Slot -> Buffer] /\ Count \in Nat
         /\ \A i \in Slot : Off(i) \in Nat /\ Off(i) < Count
         /\ Off(Low) <= Off(head) /\ Off(head) <= Off(tail)
         /\ Off(tail) <= Off(End) /\ Off(End) <= Off(next_to_use)
         /\ xmit.pc = "queue" => /\ Last \in Slot /\ Off(next_to_use) <= Off(Last)
                                 /\ buffer[Last].skb = cur /\ cur \in Packet
<1>1. /\ next_to_clean \in Slot /\ head \in Slot /\ tail \in Slot /\ next_to_use \in Slot
      /\ Low \in Slot /\ End \in Slot /\ buffer \in [Slot -> Buffer] /\ Count \in Nat
  BY DEF IInv, Types, TypeOK, Low, End, Assumption
<1>2. \A i \in Slot : Off(i) \in Nat /\ Off(i) < Count
  BY <1>1, Distances DEF Off
<1>3. Off(End) <= Off(next_to_use)
  <2>1. CASE xmit.pc \in {"map", "queue"}
    BY <2>1, MappingRoom
  <2>2. CASE xmit.pc \notin {"map", "queue"}
    BY <1>1, <1>2, <2>2 DEF End
  <2>. QED BY <2>1, <2>2
<1>4. xmit.pc = "queue" => /\ Last \in Slot /\ Off(next_to_use) <= Off(Last)
                           /\ buffer[Last].skb = cur /\ cur \in Packet
  <2>. SUFFICES ASSUME xmit.pc = "queue"
                PROVE  /\ Last \in Slot /\ Off(next_to_use) <= Off(Last)
                       /\ buffer[Last].skb = cur /\ cur \in Packet
    OBVIOUS
  <2>1. /\ Frags[cur] \in Nat \ {0} /\ Last \in Slot /\ cur \in Packet
        /\ Off(Last) = Off(next_to_use) + Frags[cur] - 1 /\ Off(next_to_use) \in Nat
    BY MappingRoom
  <2>. QED BY <2>1 DEF IInv, Whole, HandingOver
<1>. QED BY <1>1, <1>2, <1>3, <1>4 DEF IInv, Order

(* Between End and next_to_use there is no packet. *)
LEMMA HeldToEnd ==
  ASSUME Assumption, IInv, Accounts
  PROVE  Held = HeldOf(buffer, head, End)
<1>1. Held = HeldOf(buffer, head, next_to_use)
  BY DEF Held, HeldOf
<1>2. /\ next_to_clean \in Slot /\ head \in Slot /\ next_to_use \in Slot /\ End \in Slot
      /\ Dist(next_to_clean, head) <= Dist(next_to_clean, End)
      /\ Dist(next_to_clean, End) <= Dist(next_to_clean, next_to_use)
  <2>1. Off(head) \in Nat /\ Off(tail) \in Nat /\ Off(End) \in Nat
    BY Bounds
  <2>. QED BY <2>1, Bounds DEF Off
<1>3. ASSUME NEW i \in Slot, Dist(next_to_clean, End) <= Dist(next_to_clean, i),
             Dist(next_to_clean, i) < Dist(next_to_clean, next_to_use)
      PROVE  buffer[i].skb = None
  <2>1. Off(End) <= Off(i) /\ Off(i) < Off(next_to_use) /\ Off(i) \in Nat /\ Off(End) \in Nat
        /\ Off(next_to_use) \in Nat
    BY <1>3, Bounds DEF Off
  <2>2. xmit.pc = "queue" => i # Last
    <3>1. xmit.pc = "queue" => Last \in Slot /\ Off(next_to_use) <= Off(Last) /\ Off(Last) \in Nat
      BY Bounds
    <3>. QED BY <2>1, <3>1
  <2>. QED BY <2>1, <2>2 DEF Accounts, Placed
<1>. QED BY <1>1, <1>2, <1>3, HeldLonger

LEMMA HeldToEndNext ==
  ASSUME Assumption
  PROVE  IInv' /\ Accounts' => Held' = HeldOf(buffer', head', End')
<1>1. IInv /\ Accounts => Held = HeldOf(buffer, head, End)
  BY HeldToEnd
<1>2. (IInv /\ Accounts => Held = HeldOf(buffer, head, End))'
  BY <1>1, PTL
<1>. QED BY <1>2

(* The packets held are those of the slots from the head up to End. *)
LEMMA HeldHas ==
  ASSUME Assumption, IInv, Accounts
  PROVE  /\ Held \in Seq(Packet)
         /\ \A p : (\E k \in DOMAIN Held : Held[k] = p) <=>
              p # None /\ \E i \in Slot : /\ Off(head) <= Off(i) /\ Off(i) < Off(End)
                                          /\ buffer[i].skb = p
<1>1. /\ next_to_clean \in Slot /\ head \in Slot /\ End \in Slot /\ buffer \in [Slot -> Buffer]
      /\ Dist(next_to_clean, head) <= Dist(next_to_clean, End)
  <2>1. Off(head) \in Nat /\ Off(tail) \in Nat /\ Off(End) \in Nat
    BY Bounds
  <2>. QED BY <2>1, Bounds DEF Off
<1>2. /\ HeldOf(buffer, head, End) \in Seq(Packet)
      /\ Among(HeldOf(buffer, head, End)) = Between(buffer, next_to_clean, head, End) \ {None}
  BY <1>1, HeldIs
<1>3. Held = HeldOf(buffer, head, End)
  BY HeldToEnd
<1>. QED BY <1>2, <1>3 DEF Off, Among, Between

LEMMA HeldHasNext ==
  ASSUME Assumption
  PROVE  IInv' /\ Accounts' => Held' \in Seq(Packet)
<1>1. IInv /\ Accounts => Held \in Seq(Packet)
  BY HeldHas
<1>2. (IInv /\ Accounts => Held \in Seq(Packet))'
  BY <1>1, PTL
<1>. QED BY <1>2

(* No packet that xmit_frame has not given away is known to the queue. *)
LEMMA Fresh ==
  ASSUME Assumption, IInv, Accounts, cur \in Packet, cur \notin freed,
         \A i \in Slot : Off(i) < Off(End) => buffer[i].skb # cur
  PROVE  cur \notin Queue!InFlight \cup freed
<1>1. /\ Off(head) <= Off(End) /\ Off(head) \in Nat /\ Off(End) \in Nat
      /\ \A i \in Slot : Off(i) \in Nat
  <2>1. Off(head) \in Nat /\ Off(tail) \in Nat /\ Off(End) \in Nat
    BY Bounds
  <2>. QED BY <2>1, Bounds
<1>2. ASSUME NEW k \in DOMAIN Held PROVE Held[k] # cur
  BY HeldHas
<1>3. ASSUME NEW k \in DOMAIN wire PROVE wire[k] # cur
  BY <1>1 DEF Accounts, Reported
<1>. QED BY <1>2, <1>3 DEF Queue!InFlight

LEMMA NotGiven ==
  ASSUME Assumption, IInv, Accounts, cur \in Packet,
         xmit.pc \notin {"queue", "restop", "reroom", "kick"}
  PROVE  cur \notin Queue!InFlight \cup freed
<1>1. Given = cur - 1 /\ cur \in Nat
  BY DEF Given, Packet, Assumption
<1>2. cur \notin freed /\ \A i \in Slot : buffer[i].skb # cur
  <2>1. cur # None
    BY DEF Assumption
  <2>. QED BY <1>1, <2>1 DEF IInv, Owners
<1>. QED BY <1>2, Fresh

(* Where the slots handed over keep their packets, so does the queue. *)
LEMMA Same ==
  ASSUME Assumption, IInv, IInv', Accounts, UNCHANGED <<next_to_clean, head, wire>>,
         Low' = Low, End' = End, freed \subseteq freed', Placed',
         \A i \in Slot : Off(i) < Off(End) =>
           buffer'[i].skb = buffer[i].skb /\ (Off(head) <= Off(i) => desc'[i].eop = desc[i].eop)
  PROVE  Accounts' /\ Held' = Held
<1>1. /\ next_to_clean \in Slot /\ head \in Slot /\ End \in Slot
      /\ Off(head) <= Off(End) /\ Off(head) \in Nat /\ Off(End) \in Nat
      /\ \A i \in Slot : Off(i) \in Nat
  <2>1. Off(head) \in Nat /\ Off(tail) \in Nat /\ Off(End) \in Nat
    BY Bounds
  <2>. QED BY <2>1, Bounds
<1>2. ASSUME NEW i \in Slot PROVE Off(i)' = Off(i)
  BY DEF Off
<1>3. Ended'
  BY <1>1, <1>2 DEF Accounts, Ended, Off
<1>4. ASSUME NEW i \in Slot, Off(i) < Off(head) PROVE buffer'[i].skb = buffer[i].skb
  BY <1>1, <1>4
<1>5. Sent'
  BY <1>4 DEF Accounts, Sent, Off
<1>6. Reported'
  BY <1>4 DEF Accounts, Reported, Off
<1>7. Accounts'
  BY <1>3, <1>5, <1>6 DEF Accounts
<1>8. Held' = HeldOf(buffer', head, End) /\ Held = HeldOf(buffer, head, End)
  BY <1>7, HeldToEnd, HeldToEndNext
<1>9. HeldOf(buffer', head, End) = HeldOf(buffer, head, End)
  BY <1>1, HeldSame DEF Off
<1>. QED BY <1>7, <1>8, <1>9

(* A step that leaves the ring, the head and the accounts alone. *)
LEMMA Quiet ==
  ASSUME Assumption, IInv, IInv', Accounts, UNCHANGED <<ring, head, wire, freed>>,
         Low' = Low, End' = End, xmit.pc = "queue" => UNCHANGED <<xmit, cur>>
  PROVE  Accounts' /\ UNCHANGED Queue!vars
<1>1. Placed'
  BY DEF Accounts, Placed, Off, Last, ring
<1>2. Accounts' /\ Held' = Held
  BY <1>1, Same DEF ring
<1>. QED BY <1>2 DEF Queue!vars

(* e1000_xmit_frame frees the packet it was called with. *)
LEMMA Dropping ==
  ASSUME Assumption, IInv, IInv', Accounts,
         UNCHANGED <<next_to_clean, desc, head, wire>>, Low' = Low, End' = End,
         \A i \in Slot : buffer'[i].skb = buffer[i].skb,
         cur \in Packet, xmit.pc \notin {"queue", "restop", "reroom", "kick"},
         freed' = freed \cup {cur}
  PROVE  Accounts' /\ Queue!Next
<1>1. Placed'
  BY DEF Accounts, Placed, Off
<1>2. Accounts' /\ Held' = Held
  BY <1>1, Same
<1>3. Queue!Drop(cur)
  BY <1>2, NotGiven DEF Queue!Drop
<1>. QED BY <1>2, <1>3 DEF Queue!Next
-----------------------------------------------------------------------------
(* Each step is a step of the queue, or none, and keeps its accounts. *)

LEMMA OthersMap ==
  ASSUME Assumption, IInv, IInv', Accounts,
         UNCHANGED <<ring, head, cur, xmit, clean, wire, freed>>
  PROVE  Accounts' /\ UNCHANGED Queue!vars
<1>1. Low' = Low /\ End' = End
  BY DEF Low, End, ring
<1>. QED BY <1>1, Quiet

LEMMA XmitQuietMaps ==
  ASSUME Assumption, IInv, IInv', Accounts,
         XmitStop \/ XmitRecheck \/ XmitReroom \/ XmitKick \/ \E more \in BOOLEAN : XmitFrame(more)
  PROVE  Accounts' /\ UNCHANGED Queue!vars
<1>1. /\ xmit.pc \notin {"map", "queue"} /\ xmit'.pc \notin {"map", "queue"}
      /\ UNCHANGED <<ring, head, clean, wire, freed>>
  <2>1. CASE XmitStop
    BY <2>1 DEF XmitStop, Goto, hw, IInv, Types
  <2>2. CASE XmitRecheck
    BY <2>2 DEF XmitRecheck, SecondLook, Goto, hw, IInv, Types
  <2>3. CASE XmitReroom
    BY <2>3 DEF XmitReroom, SecondLook, Goto, hw, IInv, Types
  <2>4. CASE XmitKick
    BY <2>4 DEF XmitKick, Goto, hw, IInv, Types
  <2>5. CASE \E more \in BOOLEAN : XmitFrame(more)
    BY <2>5 DEF XmitFrame, MayCall, Roomy, hw, IInv, Types
  <2>. QED BY <2>1, <2>2, <2>3, <2>4, <2>5
<1>2. Low' = Low /\ End' = End
  BY <1>1 DEF Low, End, ring
<1>. QED BY <1>1, <1>2, Quiet

LEMMA CleanQuietMaps ==
  ASSUME Assumption, IInv, IInv', Accounts, CleanStart \/ CleanRoom \/ CleanWake \/ CleanDetect
  PROVE  Accounts' /\ UNCHANGED Queue!vars
<1>1. UNCHANGED <<ring, head, cur, xmit, wire, freed>>
  BY DEF CleanStart, CleanRoom, CleanWake, CleanDetect, hw
<1>2. \/ clean.pc \in {"room", "wake", "hang"} /\ clean'.pc \in {"wake", "hang", "idle"}
      \/ clean.pc = "idle" /\ clean'.pc = "scan" /\ clean'.i = next_to_clean
  <2>1. CASE CleanStart
    BY <2>1 DEF CleanStart
  <2>2. CASE CleanRoom \/ CleanWake \/ CleanDetect
    BY <2>2 DEF CleanRoom, CleanWake, CleanDetect, IInv, Types
  <2>. QED BY <2>1, <2>2
<1>3. Low' = Low /\ End' = End
  BY <1>1, <1>2 DEF Low, End, ring
<1>. QED BY <1>1, <1>3, Quiet

LEMMA XmitDroppedMaps ==
  ASSUME Assumption, IInv, IInv', Accounts, XmitDropped
  PROVE  Accounts' /\ Queue!Next
<1>1. /\ xmit.pc = "idle" /\ xmit' = [xmit EXCEPT !.pc = "idle"] /\ cur \in Packet
      /\ freed' = freed \cup {cur} /\ UNCHANGED <<ring, head, clean, wire>>
  BY DEF XmitDropped, MayCall, Drop, Goto, hw, IInv, Types, TypeOK, Packet, Assumption
<1>2. Low' = Low /\ End' = End
  BY <1>1 DEF Low, End, ring, IInv, Types
<1>. QED BY <1>1, <1>2, Dropping DEF ring

LEMMA XmitContextMaps ==
  ASSUME Assumption, IInv, IInv', Accounts, XmitContext
  PROVE  Accounts' /\ (Queue!Next \/ UNCHANGED Queue!vars)
<1>1. /\ xmit.pc = "context" /\ UNCHANGED <<next_to_clean, head, clean, wire>>
      /\ xmit.first = next_to_use /\ cur \in Packet
      /\ next_to_use \in Slot /\ next_to_clean \in Slot
      /\ xmit' \in {[xmit EXCEPT !.pc = "map"], [xmit EXCEPT !.pc = "idle"]}
  BY DEF XmitContext, Drop, Goto, hw, IInv, Types, TypeOK, Order
<1>2. Low' = Low
  BY <1>1 DEF Low
<1>3. CASE freed' = freed
  <2>1. xmit' = [xmit EXCEPT !.pc = "map"]
    <3>1. cur \notin freed
      BY <1>1 DEF IInv, Owners, Given, Packet, Assumption
    <3>. QED BY <1>3, <3>1 DEF XmitContext, Drop, Goto
  <2>2. End = next_to_use /\ End' = next_to_use /\ xmit'.pc = "map"
    BY <1>1, <2>1 DEF End, IInv, Types
  <2>3. \A i \in Slot : /\ buffer'[i].skb = buffer[i].skb
                        /\ i # next_to_use => desc'[i] = desc[i]
    BY <1>1 DEF XmitContext, IInv, Types, TypeOK, Buffer
  <2>4. \A i \in Slot : Off(i) < Off(End) => i # next_to_use
    BY <2>2, Bounds
  <2>5. Placed'
    BY <1>1, <1>2, <2>2, <2>3 DEF Accounts, Placed, Off
  <2>6. Accounts' /\ Held' = Held
    BY <1>1, <1>2, <1>3, <2>2, <2>3, <2>4, <2>5, Same
  <2>. QED BY <1>1, <1>3, <2>6 DEF Queue!vars
<1>4. CASE freed' # freed
  <2>1. /\ xmit' = [xmit EXCEPT !.pc = "idle"] /\ freed' = freed \cup {cur}
        /\ UNCHANGED <<next_to_use, buffer, desc>>
    BY <1>4 DEF XmitContext, Drop, Goto
  <2>2. End' = End
    BY <1>1, <2>1 DEF End, IInv, Types
  <2>. QED BY <1>1, <1>2, <2>1, <2>2, Dropping
<1>. QED BY <1>3, <1>4

LEMMA XmitMapMaps ==
  ASSUME Assumption, IInv, IInv', Accounts, XmitMap
  PROVE  Accounts' /\ UNCHANGED Queue!vars
<1> DEFINE n == Frags[cur]
           top == Last
<1>1. /\ xmit.pc = "map" /\ xmit' = [xmit EXCEPT !.pc = "queue"] /\ buffer' = TxMap
      /\ UNCHANGED <<next_to_use, next_to_clean, desc, head, cur, clean, wire, freed>>
  BY DEF XmitMap, Goto, hw
<1>2. /\ xmit'.pc = "queue" /\ Low' = Low /\ End' = End /\ Last' = top
  BY <1>1 DEF Low, End, Last, IInv, Types
<1>3. /\ cur \in Packet /\ n \in Nat \ {0} /\ Off(next_to_use) \in Nat
      /\ \A i \in Slot :
           i \in Mapped(n) <=> Off(next_to_use) <= Off(i) /\ Off(i) < Off(next_to_use) + n
      /\ top \in Mapped(n) /\ top \in Slot /\ Off(End) <= Off(next_to_use) /\ xmit.first \in Slot
  BY <1>1, MappingRoom
<1>. HIDE DEF top, n
<1>4. ASSUME NEW i \in Slot
      PROVE  buffer'[i].skb = IF i = top THEN cur
                              ELSE IF i \in Mapped(n) THEN None ELSE buffer[i].skb
  <2>1. Filled \in [Slot -> Buffer] /\
        Filled[i].skb = IF i = top THEN cur ELSE IF i \in Mapped(n) THEN None ELSE buffer[i].skb
    <3>1. \A j \in Slot : Filled[j] =
            IF j \in Mapped(n)
            THEN [dma |-> TRUE, watch |-> j, stamp |-> TRUE,
                  skb |-> IF j = top THEN cur ELSE None]
            ELSE buffer[j]
      BY DEF Filled, top, n, Last
    <3>2. \A j \in Slot : Filled[j] \in Buffer
      <4>. SUFFICES ASSUME NEW j \in Slot PROVE Filled[j] \in Buffer
        OBVIOUS
      <4> DEFINE p == IF j = top THEN cur ELSE None
      <4>1. buffer[j] \in Buffer /\ p \in Packet \cup {None}
        BY <1>3, Bounds
      <4>2. Filled[j] = IF j \in Mapped(n)
                        THEN [dma |-> TRUE, watch |-> j, stamp |-> TRUE, skb |-> p]
                        ELSE buffer[j]
        BY <3>1
      <4>. HIDE DEF p
      <4>. QED BY <4>1, <4>2 DEF Buffer
    <3>3. Filled \in [Slot -> Buffer]
      BY <3>2 DEF Filled
    <3>. QED BY <1>3, <3>1, <3>3
  <2>2. TxMap[i].skb = Filled[i].skb
    BY <2>1 DEF TxMap, Buffer
  <2>. QED BY <1>1, <2>1, <2>2
<1>5. ASSUME NEW i \in Slot
      PROVE  Off(i) \in Nat /\ Off(End) \in Nat /\ (i \in Mapped(n) => ~ (Off(i) < Off(End)))
  <2>1. Off(i) \in Nat /\ Off(End) \in Nat
    BY Bounds
  <2>. QED BY <1>3, <2>1
<1>6. Placed'
  <2>1. ASSUME NEW i \in Slot, buffer'[i].skb # None
        PROVE  (Off(Low) <= Off(i) /\ Off(i) < Off(End)) \/ i = top
    BY <1>1, <1>4, <2>1 DEF Accounts, Placed
  <2>. QED BY <1>1, <1>2, <2>1 DEF Placed, Off
<1>7. Accounts' /\ Held' = Held
  <2>1. \A i \in Slot : Off(i) < Off(End) => buffer'[i].skb = buffer[i].skb
    BY <1>3, <1>4, <1>5
  <2>. QED BY <1>1, <1>2, <1>6, <2>1, Same
<1>. QED BY <1>1, <1>7 DEF Queue!vars

LEMMA XmitMapFailsMaps ==
  ASSUME Assumption, IInv, IInv', Accounts, XmitMapFails
  PROVE  Accounts' /\ Queue!Next
<1>1. /\ xmit.pc = "map" /\ xmit' = [xmit EXCEPT !.pc = "idle"]
      /\ next_to_use' = xmit.first /\ freed' = freed \cup {cur}
      /\ UNCHANGED <<next_to_clean, desc, head, clean, wire>>
  BY DEF XmitMapFails, Drop, Goto, hw
<1>2. PICK n \in 0 .. Frags[cur] - 1 : buffer' = Unwound(n)
  BY DEF XmitMapFails
<1>3. /\ cur \in Packet /\ Frags[cur] \in Nat \ {0} /\ Off(next_to_use) \in Nat
      /\ \A i \in Slot : i \in Mapped(Frags[cur]) =>
            Off(next_to_use) <= Off(i)
      /\ Off(End) <= Off(next_to_use)
  BY <1>1, MappingRoom
<1>4. End' = End /\ Low' = Low /\ End = xmit.first
  BY <1>1 DEF End, Low, IInv, Types
<1>5. Mapped(n + 1) \subseteq Mapped(Frags[cur])
      /\ {Plus(next_to_use, k) : k \in 1 .. n - 1} \subseteq Mapped(Frags[cur])
  BY <1>2, <1>3 DEF Mapped
<1>6. ASSUME NEW i \in Slot PROVE buffer'[i].skb = buffer[i].skb
  <2>1. CASE i \in Mapped(Frags[cur])
    <3>1. buffer[i].skb = None
      <4>1. Off(i) \in Nat /\ Off(End) \in Nat
        BY Bounds
      <4>. QED BY <1>1, <1>3, <2>1, <4>1 DEF Accounts, Placed
    <3>2. i \in Mapped(n + 1) \/ i \in {Plus(next_to_use, k) : k \in 1 .. n - 1} =>
            buffer'[i].skb = None
      BY <1>2 DEF Unwound, Unwind, NoBuffer
    <3>3. ~(i \in Mapped(n + 1) \/ i \in {Plus(next_to_use, k) : k \in 1 .. n - 1}) =>
            buffer'[i].skb = buffer[i].skb
      BY <1>2, Bounds DEF Unwound, Unwind, Buffer
    <3>. QED BY <3>1, <3>2, <3>3
  <2>2. CASE i \notin Mapped(Frags[cur])
    BY <1>2, <1>5, <2>2, Bounds DEF Unwound, Unwind, Buffer
  <2>. QED BY <2>1, <2>2
<1>. QED BY <1>1, <1>3, <1>4, <1>6, Dropping

LEMMA XmitQueueMaps ==
  ASSUME Assumption, IInv, IInv', Accounts, XmitQueue
  PROVE  Accounts' /\ Queue!Next
<1> DEFINE n == Frags[cur]
           u == Off(next_to_use)
           top == Last
<1>1. /\ xmit.pc = "queue" /\ next_to_use' = Plus(next_to_use, n)
      /\ desc' = [i \in Slot |-> IF i \in Mapped(n) THEN [eop |-> i = top, dd |-> FALSE]
                                 ELSE desc[i]]
      /\ UNCHANGED <<next_to_clean, buffer, head, cur, clean, wire, freed>>
  BY DEF XmitQueue, Last, hw
<1>2. xmit'.pc \in {"kick", "restop"} /\ Low' = Low /\ End' = next_to_use'
  BY <1>1 DEF XmitQueue, Goto, Roomy, Low, End, IInv, Types
<1>3. /\ cur \in Packet /\ n \in Nat \ {0} /\ u \in Nat /\ u + n < Count
      /\ \A i \in Slot : i \in Mapped(n) <=> u <= Off(i) /\ Off(i) < u + n
      /\ top \in Slot /\ top \in Mapped(n) /\ Off(top) = u + n - 1
      /\ Off(End) <= u
  BY <1>1, MappingRoom
<1>4. /\ next_to_use \in Slot /\ next_to_clean \in Slot /\ head \in Slot /\ Count \in Nat
      /\ Off(Low) <= Off(head) /\ Off(head) <= Off(End)
      /\ Off(Low) \in Nat /\ Off(head) \in Nat /\ Off(End) \in Nat
      /\ \A i \in Slot : Off(i) \in Nat
      /\ buffer[top].skb = cur /\ cur # None
  <2>1. Off(Low) \in Nat /\ Off(head) \in Nat /\ Off(tail) \in Nat /\ Off(End) \in Nat
    BY Bounds
  <2>2. cur # None
    BY <1>3 DEF Assumption
  <2>. QED BY <1>1, <2>1, <2>2, Bounds
<1>5. next_to_use' \in Slot /\ Dist(next_to_clean, next_to_use') = u + n
  <2>1. n \in 0 .. Count - 1
    BY <1>3, <1>4
  <2>. QED BY <1>1, <1>3, <1>4, <2>1, PlusIs DEF Off
<1>6. ASSUME NEW i \in Slot, buffer[i].skb # None
      PROVE  Off(Low) <= Off(i) /\ (Off(i) < Off(End) \/ i = top)
  <2>1. Off(Low) <= Off(top)
    BY <1>3, <1>4
  <2>. QED BY <1>6, <2>1 DEF Accounts, Placed
<1>. HIDE DEF n, u, top
<1>7. Placed'
  <2>1. ASSUME NEW i \in Slot, buffer[i].skb # None
        PROVE  Off(Low) <= Off(i) /\ Off(i) < u + n
    BY <1>3, <1>4, <1>6, <2>1
  <2>. QED BY <1>1, <1>2, <1>5, <2>1 DEF Placed, Off
<1>8. Ended'
  <2>1. ASSUME NEW i \in Slot, Off(head) <= Off(i), buffer[i].skb # None
        PROVE  desc'[i].eop
    <3>1. CASE i = top
      BY <1>1, <1>3, <3>1
    <3>2. CASE i # top
      <4>1. Off(i) < Off(End)
        BY <1>6, <2>1, <3>2
      <4>2. i \notin Mapped(n)
        BY <1>3, <1>4, <4>1
      <4>. QED BY <1>1, <2>1, <4>1, <4>2 DEF Accounts, Ended
    <3>. QED BY <3>1, <3>2
  <2>. QED BY <1>1, <2>1 DEF Ended, Off
<1>9. Accounts'
  <2>1. Sent'
    BY <1>1, <1>2 DEF Accounts, Sent, Off
  <2>2. Reported'
    BY <1>1, <1>2 DEF Accounts, Reported, Off
  <2>. QED BY <1>1, <1>7, <1>8, <2>1, <2>2 DEF Accounts
<1>10. Held' = Append(Held, cur)
  <2>1. Held = HeldOf(buffer, head, End) /\ Held' = HeldOf(buffer, head, next_to_use')
    BY <1>1, <1>2, <1>9, HeldToEnd, HeldToEndNext
  <2>2. End \in Slot
    BY Bounds
  <2>3. /\ Dist(next_to_clean, head) <= Dist(next_to_clean, End)
        /\ Dist(next_to_clean, End) <= Dist(next_to_clean, top)
        /\ Dist(next_to_clean, next_to_use') = Dist(next_to_clean, top) + 1
    BY <1>3, <1>4, <1>5 DEF Off
  <2>4. ASSUME NEW i \in Slot, Dist(next_to_clean, End) <= Dist(next_to_clean, i),
               Dist(next_to_clean, i) < Dist(next_to_clean, top)
        PROVE  buffer[i].skb = None
    <3>1. Off(End) <= Off(i) /\ Off(i) < Off(top) /\ Off(i) \in Nat /\ Off(top) \in Nat
      BY <1>3, <1>4, <2>4 DEF Off
    <3>. QED BY <1>4, <1>6, <3>1
  <2>5. HeldOf(buffer, head, next_to_use') = Append(HeldOf(buffer, head, End), buffer[top].skb)
    BY <1>3, <1>4, <1>5, <2>2, <2>3, <2>4, HeldMore, SMTT(30)
  <2>. QED BY <1>4, <2>1, <2>5
<1>11. cur \notin Queue!InFlight \cup freed
  <2>1. cur \notin freed
    BY <1>3, <1>4 DEF IInv, Owners
  <2>2. ASSUME NEW i \in Slot, Off(i) < Off(End), buffer[i].skb = cur PROVE FALSE
    <3>1. i = top
      BY <1>3, <1>4, <2>2 DEF IInv, Owners
    <3>. QED BY <1>3, <1>4, <2>2, <3>1
  <2>. QED BY <1>3, <2>1, <2>2, Fresh
<1>12. Queue!Accept(cur)
  BY <1>1, <1>10, <1>11 DEF Queue!Accept
<1>. QED BY <1>3, <1>9, <1>12 DEF Queue!Next

LEMMA HwSendMaps ==
  ASSUME Assumption, IInv, IInv', Accounts, HwSend
  PROVE  Accounts' /\ Queue!Next
<1> DEFINE l == Leading
           x == buffer[l].skb
<1>1. /\ head # tail /\ wire' = Append(wire, x) /\ head' = After(l)
      /\ desc' = [desc EXCEPT ![l].dd = TRUE]
      /\ UNCHANGED <<next_to_use, next_to_clean, buffer, cur, xmit, clean, freed>>
  BY DEF HwSend
<1>2. /\ l \in Slot /\ desc[l].eop /\ Off(head) <= Off(l) /\ Off(l) < Off(tail)
      /\ \A i \in Slot : Off(head) <= Off(i) /\ Off(i) < Off(l) => ~ desc[i].eop
  BY <1>1, LeadingIs
<1>3. /\ Low \in Slot /\ head \in Slot /\ End \in Slot /\ next_to_clean \in Slot
      /\ Off(Low) <= Off(head) /\ Off(l) < Off(End) /\ Off(l) + 1 < Count
      /\ Off(Low) \in Nat /\ Off(head) \in Nat /\ Off(End) \in Nat /\ Off(l) \in Nat
      /\ \A i \in Slot : Off(i) \in Nat
  <2>1. /\ Off(Low) \in Nat /\ Off(head) \in Nat /\ Off(tail) \in Nat /\ Off(End) \in Nat
        /\ Off(l) \in Nat /\ Off(End) < Count /\ Count \in Nat
    BY <1>2, Bounds
  <2>. QED BY <1>2, <2>1, Bounds
<1>. HIDE DEF l
<1>4. x \in Packet /\ x # None
  <2>1. buffer[l] \in Buffer
    BY <1>2, Bounds
  <2>2. x # None
    BY <1>2, <1>3 DEF IInv, Whole, HandedOver
  <2>. QED BY <2>1, <2>2 DEF Buffer
<1>5. head' \in Slot /\ Dist(next_to_clean, head') = Off(l) + 1
  BY <1>1, <1>2, <1>3, AfterIs DEF Off
<1>6. Low' = Low /\ End' = End /\ Last' = Last
  BY <1>1 DEF Low, End, Last
<1>7. ASSUME NEW i \in Slot PROVE desc'[i].eop = desc[i].eop
  BY <1>1, <1>2 DEF IInv, Types, TypeOK
<1>8. ASSUME NEW i \in Slot, Off(head) <= Off(i), Off(i) < Off(l)
      PROVE  buffer[i].skb = None
  BY <1>2, <1>3, <1>8 DEF Accounts, Ended
<1>9. /\ wire' \in Seq(Packet) /\ Len(wire) \in Nat /\ wire'[Len(wire) + 1] = x
      /\ DOMAIN wire' = 1 .. Len(wire) + 1 /\ DOMAIN wire = 1 .. Len(wire)
      /\ \A k \in DOMAIN wire : wire'[k] = wire[k] /\ k \in DOMAIN wire'
  <2>1. wire \in Seq(Packet)
    BY DEF Accounts
  <2>. HIDE DEF x
  <2>. QED BY <1>1, <1>4, <2>1
<1>. HIDE DEF x
<1>10. Placed'
  BY <1>1, <1>6 DEF Accounts, Placed, Off
<1>11. Ended'
  BY <1>1, <1>2, <1>3, <1>5, <1>6, <1>7 DEF Accounts, Ended, Off
<1>12. Sent'
  <2>1. ASSUME NEW i \in Slot, Off(Low) <= Off(i), Off(i) < Off(l) + 1, buffer[i].skb # None
        PROVE  \E k \in DOMAIN wire' : wire'[k] = buffer[i].skb
    <3>1. Off(i) \in Nat
      BY <1>3
    <3>2. CASE Off(i) < Off(head)
      BY <1>9, <2>1, <3>2 DEF Accounts, Sent
    <3>3. CASE Off(head) <= Off(i) /\ Off(i) < Off(l)
      BY <1>8, <2>1, <3>3
    <3>4. CASE Off(i) = Off(l)
      <4>1. i = l
        BY <1>2, <1>3, <3>4, Distances DEF Off
      <4>2. Len(wire) + 1 \in DOMAIN wire'
        BY <1>9
      <4>. QED BY <1>9, <4>1, <4>2 DEF x
    <3>. QED BY <1>3, <2>1, <3>1, <3>2, <3>3, <3>4
  <2>. QED BY <1>1, <1>5, <1>6, <2>1 DEF Sent, Off
<1>13. Reported'
  <2>1. ASSUME NEW k \in DOMAIN wire'
        PROVE  \/ wire'[k] \in freed
               \/ \E i \in Slot : /\ Off(Low) <= Off(i) /\ Off(i) < Off(l) + 1
                                  /\ buffer[i].skb = wire'[k]
    <3>1. CASE k \in DOMAIN wire
      <4>1. CASE wire[k] \in freed
        BY <1>9, <3>1, <4>1
      <4>2. CASE wire[k] \notin freed
        <5>1. PICK i \in Slot : /\ Off(Low) <= Off(i) /\ Off(i) < Off(head)
                               /\ buffer[i].skb = wire[k]
          BY <3>1, <4>2 DEF Accounts, Reported
        <5>2. Off(i) < Off(l) + 1
          BY <1>2, <1>3, <5>1
        <5>. QED BY <1>9, <3>1, <5>1, <5>2
      <4>. QED BY <4>1, <4>2
    <3>2. CASE k \notin DOMAIN wire
      <4>1. k = Len(wire) + 1 /\ wire'[k] = buffer[l].skb
        BY <1>9, <2>1, <3>2 DEF x
      <4>2. Off(Low) <= Off(l) /\ Off(l) < Off(l) + 1
        BY <1>2, <1>3
      <4>. QED BY <1>2, <4>1, <4>2
    <3>. QED BY <3>1, <3>2
  <2>. QED BY <1>1, <1>5, <1>6, <2>1 DEF Reported, Off
<1>14. Accounts'
  BY <1>9, <1>10, <1>11, <1>12, <1>13 DEF Accounts
<1>15. Held = <<x>> \o Held'
  <2>1. Held = HeldOf(buffer, head, End) /\ Held' = HeldOf(buffer, head', End)
    BY <1>1, <1>6, <1>14, HeldToEnd, HeldToEndNext
  <2>2. /\ Dist(next_to_clean, head) <= Dist(next_to_clean, l)
        /\ Dist(next_to_clean, head') = Dist(next_to_clean, l) + 1
        /\ Dist(next_to_clean, head') <= Dist(next_to_clean, End)
    BY <1>2, <1>3, <1>5 DEF Off
  <2>3. ASSUME NEW i \in Slot, Dist(next_to_clean, head) <= Dist(next_to_clean, i),
               Dist(next_to_clean, i) < Dist(next_to_clean, l)
        PROVE  buffer[i].skb = None
    BY <1>8, <2>3 DEF Off
  <2>4. buffer \in [Slot -> Buffer] /\ buffer[l].skb # None
    BY <1>4, Bounds DEF x
  <2>5. HeldOf(buffer, head, End) = <<buffer[l].skb>> \o HeldOf(buffer, head', End)
    BY <1>2, <1>3, <1>5, <2>2, <2>3, <2>4, HeldFirst
  <2>. QED BY <2>1, <2>5 DEF x
<1>16. Held' \in Seq(Packet)
  BY <1>14, HeldHasNext
<1>17. Held # <<>> /\ Head(Held) = x /\ Tail(Held) = Held'
  BY <1>4, <1>15, <1>16
<1>18. Queue!Send
  BY <1>1, <1>17 DEF Queue!Send, x
<1>. QED BY <1>14, <1>18 DEF Queue!Next

LEMMA CleanPacketMaps ==
  ASSUME Assumption, IInv, IInv', Accounts, CleanPacket
  PROVE  Accounts' /\ (Queue!Next \/ UNCHANGED Queue!vars)
<1> DEFINE e == clean.eop
           reaped == Span(clean.i, e) \cup {e}
           P == {buffer[i].skb : i \in reaped} \ {None}
<1>1. /\ clean.pc = "scan" /\ desc[e].dd /\ clean'.pc \in {"scan", "publish"}
      /\ clean'.i = After(e)
      /\ buffer' = [i \in Slot |-> IF i \in reaped
                                   THEN [NoBuffer EXCEPT !.watch = buffer[i].watch]
                                   ELSE buffer[i]]
      /\ desc' = ClearDone(reaped) /\ freed' = freed \cup P
      /\ UNCHANGED <<next_to_use, next_to_clean, head, cur, xmit, wire>>
  BY DEF CleanPacket, hw
<1>2. /\ next_to_clean \in Slot /\ head \in Slot /\ e \in Slot /\ End \in Slot /\ Low \in Slot
      /\ Low = clean.i /\ Count \in Nat /\ Off(e) \in Nat /\ Off(Low) \in Nat
      /\ Off(head) \in Nat /\ Off(End) \in Nat /\ Off(head) < Count
      /\ Off(head) <= Off(End) /\ \A i \in Slot : Off(i) \in Nat
  <2>1. e \in Slot /\ Low = clean.i
    BY <1>1 DEF Low, IInv, Types, TypeOK
  <2>2. Off(head) \in Nat /\ Off(tail) \in Nat /\ Off(End) \in Nat
    BY Bounds
  <2>. QED BY <2>1, <2>2, Bounds
<1>3. Off(Low) <= Off(e) /\ Off(e) < Off(head)
  BY <1>1, <1>2 DEF IInv, Done
<1>4. /\ reaped \subseteq Slot
      /\ \A i \in Slot : i \in reaped <=> Off(Low) <= Off(i) /\ Off(i) <= Off(e)
  <2>1. /\ Span(clean.i, e) \subseteq Slot
        /\ \A i \in Slot : i \in Span(clean.i, e) <=> Off(Low) <= Off(i) /\ Off(i) < Off(e)
    BY <1>2, <1>3, SpanIs DEF Off
  <2>2. ASSUME NEW i \in Slot PROVE Off(i) = Off(e) => i = e
    BY <1>2, Distances DEF Off
  <2>. QED BY <1>2, <1>3, <2>1, <2>2
<1>5. Low' = After(e) /\ Dist(next_to_clean, After(e)) = Off(e) + 1 /\ End' = End /\ Last' = Last
  <2>1. Low' = After(e) /\ End' = End /\ Last' = Last
    BY <1>1 DEF Low, End, Last
  <2>. QED BY <1>2, <1>3, <2>1, AfterIs DEF Off
<1>. HIDE DEF e, reaped
<1>6. ASSUME NEW i \in Slot
      PROVE  /\ i \in reaped => buffer'[i].skb = None
             /\ i \notin reaped => buffer'[i] = buffer[i]
             /\ desc'[i].eop = desc[i].eop
  <2>1. desc[i] \in [eop : BOOLEAN, dd : BOOLEAN]
    BY DEF IInv, Types, TypeOK
  <2>2. desc'[i].eop = desc[i].eop
    BY <1>1, <2>1 DEF ClearDone
  <2>. QED BY <1>1, <2>2 DEF NoBuffer
<1>7. ASSUME NEW i \in Slot, buffer'[i].skb # None
      PROVE  /\ buffer'[i].skb = buffer[i].skb
             /\ Off(Low) <= Off(i) => Off(e) + 1 <= Off(i)
  BY <1>2, <1>4, <1>6, <1>7
<1>8. Placed'
  <2>1. ASSUME NEW i \in Slot, buffer'[i].skb # None
        PROVE  \/ Off(e) + 1 <= Off(i) /\ Off(i) < Off(End)
               \/ xmit.pc = "queue" /\ i = Last
    BY <1>7, <2>1 DEF Accounts, Placed
  <2>. QED BY <1>1, <1>5, <2>1 DEF Placed, Off
<1>9. Ended'
  BY <1>1, <1>5, <1>6, <1>7 DEF Accounts, Ended, Off
<1>10. Sent'
  <2>1. ASSUME NEW i \in Slot, Off(e) + 1 <= Off(i), Off(i) < Off(head), buffer'[i].skb # None
        PROVE  \E k \in DOMAIN wire : wire[k] = buffer'[i].skb
    <3>1. Off(Low) <= Off(i)
      BY <1>2, <1>3, <2>1
    <3>. QED BY <1>7, <2>1, <3>1 DEF Accounts, Sent
  <2>. QED BY <1>1, <1>5, <2>1 DEF Sent, Off
<1>11. Reported'
  <2>1. ASSUME NEW k \in DOMAIN wire
        PROVE  \/ wire[k] \in freed'
               \/ \E i \in Slot : /\ Off(e) + 1 <= Off(i) /\ Off(i) < Off(head)
                                  /\ buffer'[i].skb = wire[k]
    <3>1. CASE wire[k] \in freed
      BY <1>1, <3>1
    <3>2. CASE wire[k] \notin freed
      <4>1. PICK i \in Slot : /\ Off(Low) <= Off(i) /\ Off(i) < Off(head)
                             /\ buffer[i].skb = wire[k]
        BY <3>2 DEF Accounts, Reported
      <4>2. CASE i \in reaped
        <5>1. wire[k] \in Packet /\ wire[k] # None
          BY DEF Accounts, Assumption
        <5>. QED BY <1>1, <4>1, <4>2, <5>1
      <4>3. CASE i \notin reaped
        <5>1. Off(e) + 1 <= Off(i)
          BY <1>2, <1>4, <4>1, <4>3
        <5>. QED BY <1>6, <4>1, <4>3, <5>1
      <4>. QED BY <4>2, <4>3
    <3>. QED BY <3>1, <3>2
  <2>. QED BY <1>1, <1>5, <2>1 DEF Reported, Off
<1>12. Accounts'
  BY <1>1, <1>8, <1>9, <1>10, <1>11 DEF Accounts
<1>13. Held' = Held
  <2>1. Held = HeldOf(buffer, head, End) /\ Held' = HeldOf(buffer', head, End)
    BY <1>1, <1>5, <1>12, HeldToEnd, HeldToEndNext
  <2>2. ASSUME NEW i \in Slot, Dist(next_to_clean, head) <= Dist(next_to_clean, i)
        PROVE  buffer'[i].skb = buffer[i].skb
    <3>1. i \notin reaped
      BY <1>2, <1>3, <1>4, <2>2 DEF Off
    <3>. QED BY <1>6, <3>1
  <2>3. HeldOf(buffer', head, End) = HeldOf(buffer, head, End)
    BY <1>2, <2>2, HeldSame DEF Off
  <2>. QED BY <2>1, <2>3
<1>14. ASSUME P # {} PROVE Queue!Complete
  <2>1. ASSUME NEW p \in P
        PROVE  p \in {wire[k] : k \in DOMAIN wire} /\ p \notin freed
    <3>1. PICK i \in reaped : p = buffer[i].skb /\ p # None
      OBVIOUS
    <3>2. i \in Slot /\ Off(Low) <= Off(i) /\ Off(i) < Off(head)
      BY <1>2, <1>3, <1>4
    <3>. QED BY <3>1, <3>2 DEF Accounts, Sent, IInv, Owners
  <2>. HIDE DEF P
  <2>2. P \in SUBSET {wire[k] : k \in DOMAIN wire} /\ P \cap freed = {}
    BY <2>1
  <2>. QED BY <1>1, <1>13, <1>14, <2>2 DEF Queue!Complete
<1>15. ASSUME P = {} PROVE UNCHANGED Queue!vars
  BY <1>1, <1>13, <1>15 DEF Queue!vars
<1>. QED BY <1>12, <1>14, <1>15 DEF Queue!Next

LEMMA CleanPublishMaps ==
  ASSUME Assumption, IInv, IInv', Accounts, CleanPublish
  PROVE  Accounts' /\ UNCHANGED Queue!vars
<1>1. /\ clean.pc \in {"publish", "scan"} /\ next_to_clean' = clean.i
      /\ clean'.pc = "room"
      /\ UNCHANGED <<next_to_use, buffer, desc, head, xmit, cur, wire, freed>>
  BY DEF CleanPublish, hw, IInv, Types
<1>2. Low = clean.i /\ Low' = Low /\ End' = End /\ Last' = Last
  BY <1>1 DEF Low, End, Last
<1>3. /\ next_to_clean \in Slot /\ head \in Slot /\ End \in Slot /\ Low \in Slot
      /\ Off(Low) \in Nat /\ Off(head) \in Nat /\ Off(End) \in Nat
      /\ Off(Low) <= Off(head) /\ Off(head) <= Off(End) /\ Off(End) < Count /\ Count \in Nat
  <2>1. Off(head) \in Nat /\ Off(tail) \in Nat /\ Off(End) \in Nat
    BY Bounds
  <2>. QED BY <2>1, Bounds
<1>4. ASSUME NEW i \in Slot
      PROVE  /\ Off(i) \in Nat /\ Off(i) < Count
             /\ Dist(Low, i) = IF Off(Low) <= Off(i) THEN Off(i) - Off(Low)
                               ELSE Off(i) - Off(Low) + Count
  BY <1>3, Distances, Rebase DEF Off
<1>5. /\ Dist(Low, Low) = 0 /\ Dist(Low, head) = Off(head) - Off(Low)
      /\ Dist(Low, End) = Off(End) - Off(Low)
  BY <1>3, <1>4
<1>6. ASSUME NEW i \in Slot
      PROVE  /\ Dist(Low, i) \in Nat
             /\ Dist(Low, i) < Dist(Low, End) <=> Off(Low) <= Off(i) /\ Off(i) < Off(End)
             /\ Dist(Low, i) < Dist(Low, head) <=> Off(Low) <= Off(i) /\ Off(i) < Off(head)
             /\ Dist(Low, i) < Dist(Low, End) =>
                  (Dist(Low, head) <= Dist(Low, i) <=> Off(head) <= Off(i))
  BY <1>3, <1>4, <1>5
<1>7. Placed'
  <2>1. ASSUME NEW i \in Slot, buffer[i].skb # None
        PROVE  \/ 0 <= Dist(Low, i) /\ Dist(Low, i) < Dist(Low, End)
               \/ xmit.pc = "queue" /\ i = Last
    BY <1>6, <2>1 DEF Accounts, Placed
  <2>. QED BY <1>1, <1>2, <1>5, <2>1 DEF Placed, Off
<1>8. Ended'
  <2>1. ASSUME NEW i \in Slot, Dist(Low, head) <= Dist(Low, i), Dist(Low, i) < Dist(Low, End),
               buffer[i].skb # None
        PROVE  desc[i].eop
    BY <1>6, <2>1 DEF Accounts, Ended
  <2>. QED BY <1>1, <1>2, <2>1 DEF Ended, Off
<1>9. Sent'
  <2>1. ASSUME NEW i \in Slot, Dist(Low, i) < Dist(Low, head), buffer[i].skb # None
        PROVE  \E k \in DOMAIN wire : wire[k] = buffer[i].skb
    BY <1>6, <2>1 DEF Accounts, Sent
  <2>. QED BY <1>1, <1>2, <2>1 DEF Sent, Off
<1>10. Reported'
  <2>1. ASSUME NEW k \in DOMAIN wire, wire[k] \notin freed
        PROVE  \E i \in Slot : /\ 0 <= Dist(Low, i) /\ Dist(Low, i) < Dist(Low, head)
                               /\ buffer[i].skb = wire[k]
    BY <1>6, <2>1 DEF Accounts, Reported
  <2>. QED BY <1>1, <1>2, <1>5, <2>1 DEF Reported, Off
<1>11. Accounts'
  BY <1>1, <1>7, <1>8, <1>9, <1>10 DEF Accounts
<1>12. Held' = Held
  BY <1>1 DEF Held
<1>. QED BY <1>1, <1>11, <1>12 DEF Queue!vars

LEMMA HeldNone ==
  ASSUME Assumption, NEW b
  PROVE  HeldOf(b, 0, 0) = <<>>
<1>1. 0 \in Slot /\ Dist(0, 0) = 0
  BY DEF Assumption, Slot, Dist
<1>2. (0 - 0) % Count = 0
  BY <1>1, AheadIs
<1>. QED BY <1>2, PacketsOfIs DEF HeldOf

LEMMA ResetUpMaps ==
  ASSUME Assumption, IInv, Accounts, ResetUp
  PROVE  Accounts' /\ Queue!Next
<1> DEFINE skbs == {buffer[i].skb : i \in Slot} \ {None}
<1>1. /\ xmit.pc = "idle" /\ freed' = freed \cup skbs
      /\ next_to_use' = 0 /\ head' = 0 /\ buffer' = [i \in Slot |-> NoBuffer]
      /\ UNCHANGED wire
  BY DEF ResetUp
<1>2. \A i \in Slot : buffer'[i].skb = None
  BY <1>1 DEF NoBuffer
<1>3. ASSUME NEW k \in DOMAIN wire PROVE wire[k] \in freed \cup skbs
  <2>1. wire[k] # None
    BY DEF Accounts, Assumption
  <2>. QED BY <2>1 DEF Accounts, Reported
<1>4. Accounts'
  BY <1>1, <1>2, <1>3 DEF Accounts, Placed, Ended, Sent, Reported
<1>5. Held' = <<>>
  <2>1. Held' = HeldOf(buffer', 0, 0)
    BY <1>1 DEF Held, HeldOf
  <2>. QED BY <2>1, HeldNone
<1>6. ASSUME NEW p \in skbs PROVE p \in Queue!InFlight
  <2>1. PICK i \in Slot : p = buffer[i].skb /\ p # None
    OBVIOUS
  <2>2. Off(Low) <= Off(i) /\ Off(i) < Off(End)
    BY <1>1, <2>1 DEF Accounts, Placed
  <2>3. Off(i) \in Nat /\ Off(head) \in Nat
    BY Bounds
  <2>4. CASE Off(i) < Off(head)
    BY <2>1, <2>2, <2>4 DEF Accounts, Sent, Queue!InFlight
  <2>5. CASE Off(head) <= Off(i)
    <3>1. \E k \in DOMAIN Held : Held[k] = p
      BY <2>1, <2>2, <2>5, HeldHas
    <3>. QED BY <3>1 DEF Queue!InFlight
  <2>. QED BY <2>3, <2>4, <2>5
<1>7. ASSUME NEW p \in Queue!InFlight PROVE p \in freed \cup skbs
  <2>1. CASE \E k \in DOMAIN Held : Held[k] = p
    BY <2>1, HeldHas
  <2>2. CASE \E k \in DOMAIN wire : wire[k] = p
    BY <1>3, <2>2
  <2>. QED BY <2>1, <2>2 DEF Queue!InFlight
<1>. HIDE DEF skbs
<1>8. freed' = freed \cup Queue!InFlight
  BY <1>1, <1>6, <1>7
<1>. QED BY <1>1, <1>4, <1>5, <1>8 DEF Queue!Next, Queue!Lose

LEMMA QueueStart ==
  ASSUME Assumption, Init
  PROVE  Accounts /\ Queue!Init
<1>1. /\ next_to_use = 0 /\ head = 0 /\ wire = <<>> /\ freed = {}
      /\ \A i \in Slot : buffer[i].skb = None
  BY DEF Init, NoBuffer
<1>2. Accounts
  BY <1>1 DEF Accounts, Placed, Ended, Sent, Reported
<1>3. Held = HeldOf(buffer, 0, 0)
  BY <1>1 DEF Held, HeldOf
<1>. QED BY <1>1, <1>2, <1>3, HeldNone DEF Queue!Init

LEMMA QueueStep ==
  ASSUME Assumption, IInv, IInv', Accounts, [Next]_vars
  PROVE  Accounts' /\ [Queue!Next]_(Queue!vars)
<1>1. CASE Xmit
  BY <1>1, XmitDroppedMaps, XmitQuietMaps, XmitContextMaps, XmitMapMaps, XmitMapFailsMaps,
     XmitQueueMaps DEF Xmit
<1>2. CASE Clean
  BY <1>2, CleanQuietMaps, CleanPacketMaps, CleanPublishMaps DEF Clean
<1>3. CASE HwSend \/ ResetUp
  BY <1>3, HwSendMaps, ResetUpMaps
<1>4. CASE HwHang \/ WatchdogDetect \/ WatchdogLinkDown \/ WatchdogLinkUp \/ PrintHwHang
           \/ TxTimeout \/ ResetDown \/ UNCHANGED vars
  <2>1. UNCHANGED wire
    BY <1>4 DEF HwHang, WatchdogDetect, WatchdogLinkDown, WatchdogLinkUp, PrintHwHang,
          TxTimeout, ResetDown, vars
  <2>. QED BY <1>4, <2>1, OthersAre, OthersMap
<1>. QED BY <1>1, <1>2, <1>3, <1>4 DEF Next, Reset

(***************************************************************************)
(* The ring is a first-in first-out queue (TxQueue), for any ring, any     *)
(* packets and whatever fails, hangs or is reset: a packet that            *)
(* e1000_xmit_frame accepts is sent once, after all those accepted before  *)
(* it, or lost in a reset; each packet is freed once, and none before it   *)
(* has been sent, dropped or lost.                                         *)
(***************************************************************************)
THEOREM Refinement == ASSUME Assumption PROVE Spec => QueueSpec
<1>1. Init => Accounts /\ Queue!Init
  BY QueueStart
<1>2. IInv /\ IInv' /\ Accounts /\ [Next]_vars => Accounts' /\ [Queue!Next]_(Queue!vars)
  BY QueueStep
<1>3. Spec => []IInv
  BY Invariance
<1>. QED BY <1>1, <1>2, <1>3, PTL DEF Spec, QueueSpec, Queue!Spec
=============================================================================

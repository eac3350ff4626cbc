---------------------------- MODULE RxRingProofs ----------------------------
(***************************************************************************)
(* The receive ring, for any ring, any frames and any failures:            *)
(*   - the controller writes to mapped buffers only, if a buffer can       *)
(*     always be mapped, or the frames have one buffer each;               *)
(*   - every skb has one owner;                                            *)
(*   - the stack receives whole, good frames in order.                     *)
(* And the receive filters, for any lists, addresses, VLANs and calls: the *)
(* address of the interface is heard, and if calls do not overlap and the  *)
(* firmware's VLAN is none of the stack's, the controller hears what the   *)
(* stack's lists name.                                                     *)
(*                                                                         *)
(* A place on the ring is measured by its distance from the first slot     *)
(* that is not cleaned: up to the head the slots are written, up to the    *)
(* tail they are the controller's, up to next_to_use they are full.        *)
(***************************************************************************)
EXTENDS RxRing, TLAPS, FiniteSetTheorems, SequenceTheorems, WellFoundedInduction

(* How far it is from a forward to b. *)
Dist(a, b) == IF a <= b THEN b - a ELSE Count + b - a

(* The first slot not cleaned. *)
Low == IF poll.pc = "scan" THEN poll.i ELSE next_to_clean
Off(i) == Dist(Low, i)

TopSkb(top) == IF top = None THEN {} ELSE {top.skb}

(* A buffer whose mapping fails is mapped anew: in e1000_alloc_rx_buffers  *)
(* only, the other two keep the error.                                     *)
MapsAnew(m) == MayNotMap => m = "skb"
-----------------------------------------------------------------------------
Mapping == {"none", "ok", "bad"}
Buffer == [skb : Skb \cup {None}, dma : Mapping, page : BOOLEAN, pdma : Mapping]

(* A slot that is full, and one that waits to be filled. *)
Full(m, b) ==
  /\ b.skb # None
  /\ MapsAnew(m) => b.dma = "ok" /\ (m = "split" => b.pdma = "ok")
Spare(m, b) ==
  /\ m = "split" => b.skb = None /\ (MapsAnew(m) => b.pdma # "bad")
  /\ m = "jumbo" /\ MapsAnew(m) => b.dma # "bad"

Accounted(buf, own, top) ==
  LET held == {i \in Slot : buf[i].skb # None}
  IN /\ \A i, j \in held : buf[i].skb = buf[j].skb => i = j
     /\ {buf[i].skb : i \in held} \cup top = own
     /\ {buf[i].skb : i \in held} \cap top = {}

(* The ring r in shape m, not cleaned from low on, beside the chain top:   *)
(* full up to next_to_use, and every skb with one owner.                   *)
RingIs(m, r, low, top) ==
  /\ r.buffer \in [Slot -> Buffer] /\ r.live \subseteq Skb
  /\ r.use \in Slot /\ r.tail \in Slot
  /\ \A i \in Slot : IF Dist(low, i) < Dist(low, r.use) THEN Full(m, r.buffer[i])
                                                        ELSE Spare(m, r.buffer[i])
  /\ Accounted(r.buffer, r.live, top)

Types ==
  /\ mode \in Modes /\ next_to_clean \in Slot /\ head \in Slot
  /\ poll \in [pc : {"idle", "scan"}, i : Slot, cleaned : Nat, work : Nat]
  /\ desc \in [Slot -> [dd : BOOLEAN, frame : 0 .. Frames, part : Nat, eop : BOOLEAN]]
  /\ frame \in 1 .. Frames + 1 /\ part \in Nat \ {0}
  /\ IF frame \in Frame THEN part <= Parts[frame] ELSE part = 1
  /\ rx_skb_top \in Chain \cup {None} /\ discarding \in BOOLEAN

(* The indices keep their order, the slots cleaned are there to be filled. *)
Order ==
  /\ Off(head) <= Off(tail) /\ Off(tail) <= Off(next_to_use)
  /\ poll.pc = "scan" => Off(next_to_use) + poll.cleaned < Count

Ring == RingIs(mode, Current, Low, TopSkb(rx_skb_top))

(* What is written and not read: one part after the other. *)
Follows(f, p, eop, g, q) == IF eop THEN g > f /\ q = 1 ELSE g = f /\ q = p + 1
Written ==
  \A i \in Slot :
    /\ desc[i].dd <=> Off(i) < Off(head)
    /\ desc[i].dd =>
         /\ desc[i].frame \in Frame /\ desc[i].part \in 1 .. Parts[desc[i].frame]
         /\ desc[i].eop <=> desc[i].part = Parts[desc[i].frame]
         /\ desc[i].frame <= frame
         /\ IF After(i) = head
            THEN Follows(desc[i].frame, desc[i].part, desc[i].eop, frame, part)
            ELSE Follows(desc[i].frame, desc[i].part, desc[i].eop,
                         desc[After(i)].frame, desc[After(i)].part)

(* The part that comes next to the stack. *)
NextFrame == IF Low = head THEN frame ELSE desc[Low].frame
NextPart == IF Low = head THEN part ELSE desc[Low].part

PartsOf(f, n) == [k \in 1 .. n |-> <<f, k>>]

(* Between the parts of a frame, the chain holds those before, or they are *)
(* being tossed; what went up came before.                                 *)
Between ==
  /\ mode = "jumbo" =>
       IF rx_skb_top = None THEN NextPart = 1
       ELSE NextPart > 1 /\ rx_skb_top.data = PartsOf(NextFrame, NextPart - 1)
  /\ mode # "jumbo" => rx_skb_top = None /\ (NextPart > 1 => discarding)
  /\ up \in Seq(Seq(Nat \X Nat)) /\ WholeFrames
  /\ up # <<>> => up[Len(up)][1][1] \in 1 .. NextFrame - 1

IInv == Types /\ Order /\ Ring /\ Written /\ Between
-----------------------------------------------------------------------------
(* The arithmetic of the ring. *)
LEMMA Distances ==
  ASSUME Assumption
  PROVE  /\ Count \in Nat /\ Count >= 2
         /\ \A a, b \in Slot : Dist(a, b) \in Nat /\ Dist(a, b) < Count
         /\ \A a \in Slot : Dist(a, a) = 0
         /\ \A c, a, b \in Slot : Dist(c, a) = Dist(c, b) => a = b
BY DEF Assumption, Dist, Slot

LEMMA SpanIs ==
  ASSUME Assumption, NEW c \in Slot, NEW a \in Slot, NEW b \in Slot,
         Dist(c, a) <= Dist(c, b)
  PROVE  \A i \in Span(a, b) :
           i \in Slot /\ Dist(c, a) <= Dist(c, i) /\ Dist(c, i) < Dist(c, b)
BY DEF Assumption, Dist, Span, Slot

LEMMA AfterIs ==
  ASSUME Assumption, NEW c \in Slot, NEW a \in Slot
  PROVE  /\ After(a) \in Slot
         /\ Dist(c, a) + 1 < Count => Dist(c, After(a)) = Dist(c, a) + 1 /\ After(a) # c
         /\ \A b \in Slot : After(a) = After(b) => a = b
BY DEF Assumption, Dist, Slot, After

LEMMA BeforeIs ==
  ASSUME Assumption, NEW c \in Slot, NEW a \in Slot
  PROVE  /\ Before(a) \in Slot
         /\ a # c => Dist(c, Before(a)) = Dist(c, a) - 1
BY DEF Assumption, Dist, Slot, Before

(* Measured from the slot after c. *)
LEMMA OneFurther ==
  ASSUME Assumption, NEW c \in Slot, NEW a \in Slot
  PROVE  Dist(After(c), a) = IF a = c THEN Count - 1 ELSE Dist(c, a) - 1
BY DEF Assumption, Dist, Slot, After

LEMMA UnusedIs ==
  ASSUME Assumption, NEW c \in Slot, NEW u \in Slot
  PROVE  DescUnused(c, u) = Count - 1 - Dist(c, u)
BY DEF Assumption, Dist, Slot, DescUnused
-----------------------------------------------------------------------------
(* There is always an skb that nobody owns: a slot has one at most, and the *)
(* chain one.                                                              *)
LEMMA LeastNumber ==
  ASSUME NEW T, T \subseteq Nat, T # {}
  PROVE  \E x \in T : \A y \in T : x <= y
<1> DEFINE R == OpToRel(<, Nat)
<1>1. IsWellFoundedOn(R, Nat)
  BY NatLessThanWellFounded
<1>2. \A x, y \in Nat : y < x => <<y, x>> \in R
  BY DEF OpToRel
<1>. HIDE DEF R
<1>3. PICK x \in T : \A y \in T : ~ (<<y, x>> \in R)
  BY <1>1, WFMin
<1>4. \A y \in T : ~ (y < x)
  BY <1>2, <1>3
<1>. QED BY <1>4

LEMMA NewSkbIs ==
  ASSUME Assumption, NEW buf, NEW own \in SUBSET Skb, NEW top,
         \A x, y \in top : x = y, Accounted(buf, own, top)
  PROVE  NewSkb(own) \in Skb \ own
<1> DEFINE Place == [s \in Skb |-> IF s \in top THEN Count
                                   ELSE CHOOSE i \in Slot : buf[i].skb = s]
<1>1. Count \in Nat /\ Slot \subseteq 0 .. Count /\ Count \in 0 .. Count
  BY DEF Assumption, Slot
<1>2. ASSUME Skb \subseteq own PROVE FALSE
  <2>1. ASSUME NEW s \in Skb, s \notin top
        PROVE  Place[s] \in Slot /\ buf[Place[s]].skb = s
    <3>1. \E i \in Slot : buf[i].skb = s
      BY <1>2, <2>1 DEF Accounted
    <3>. QED BY <2>1, <3>1
  <2>2. ASSUME NEW s \in Skb, s \in top PROVE Place[s] = Count
    BY <2>2
  <2>3. Place \in [Skb -> 0 .. Count]
    <3>1. ASSUME NEW s \in Skb PROVE Place[s] \in 0 .. Count
      <4>1. s \notin top => Place[s] \in Slot
        BY <2>1
      <4>2. s \in top => Place[s] = Count
        BY <2>2
      <4>. HIDE DEF Place
      <4>. QED BY <1>1, <4>1, <4>2
    <3>. QED BY <3>1
  <2>4. Count \notin Slot
    BY <1>1 DEF Slot
  <2>. HIDE DEF Place
  <2>5. \A s, t \in Skb : Place[s] = Place[t] => s = t
    BY <2>1, <2>2, <2>4
  <2>6. IsFiniteSet(Skb) /\ Cardinality(Skb) = Count + 2
    BY <1>1, FS_Interval DEF Skb
  <2>7. IsFiniteSet(0 .. Count) /\ Cardinality(0 .. Count) = Count + 1
    BY <1>1, FS_Interval
  <2>8. Cardinality(0 .. Count) < Cardinality(Skb)
    BY <1>1, <2>6, <2>7
  <2>9. \E s, t \in Skb : s # t /\ Place[s] = Place[t]
    BY <2>3, <2>6, <2>7, <2>8, FS_PigeonHole
  <2>. QED BY <2>5, <2>9
<1>3. Skb \ own \subseteq Nat
  BY <1>1 DEF Skb
<1>4. \E s \in Skb \ own : \A t \in Skb \ own : s <= t
  BY <1>2, <1>3, LeastNumber
<1>. QED BY <1>4 DEF NewSkb
-----------------------------------------------------------------------------
(* alloc_rx_buf: one slot. *)
LEMMA PreparedIs ==
  ASSUME Assumption, mode \in Modes, NEW b \in Buffer, Spare(mode, b), NEW own,
         NewSkb(own) \in Skb \ own
  PROVE  /\ Prepared(b, own) \in Buffer /\ Full(mode, Prepared(b, own))
         /\ Prepared(b, own).skb = IF b.skb = None THEN NewSkb(own) ELSE b.skb
<1>1. None \notin Skb /\ mode \in {"skb", "split", "jumbo"} /\ MayNotMap \in BOOLEAN
  BY DEF Assumption
<1>2. CASE mode = "skb"
  BY <1>1, <1>2 DEF Prepared, WithSkb, Buffer, Mapping, Full
<1>3. CASE mode = "split"
  BY <1>1, <1>3 DEF Prepared, KeepDma, Buffer, Mapping, Full, Spare
<1>4. CASE mode = "jumbo"
  BY <1>1, <1>4 DEF Prepared, WithSkb, KeepDma, Buffer, Mapping, Full, Spare
<1>. QED BY <1>1, <1>2, <1>3, <1>4

(* What a failure leaves waits to be filled, with its own skb or a new one. *)
LEMMA StuckIs ==
  ASSUME Assumption, mode \in Modes, NEW b \in Buffer, Spare(mode, b), NEW own,
         NewSkb(own) \in Skb \ own,
         NEW c \in NoMemory(b, own) \cup (IF MayNotMap THEN NotMapped(b, own) ELSE {})
  PROVE  /\ c \in Buffer /\ Spare(mode, c)
         /\ c.skb = IF b.skb = None /\ c.skb # None THEN NewSkb(own) ELSE b.skb
<1>1. None \notin Skb /\ mode \in {"skb", "split", "jumbo"} /\ MayNotMap \in BOOLEAN
  BY DEF Assumption
<1>2. WithSkb(b, own) \in Buffer /\ WithSkb(b, own).dma = b.dma
      /\ WithSkb(b, own).skb = IF b.skb = None THEN NewSkb(own) ELSE b.skb
  BY DEF WithSkb, Buffer
<1>3. CASE c \in NoMemory(b, own)
  <2>1. CASE mode = "skb"
    BY <1>1, <1>3, <2>1 DEF NoMemory
  <2>2. CASE mode = "split"
    <3>1. c = b \/ c = [b EXCEPT !.page = TRUE, !.pdma = KeepDma(b.pdma)]
      BY <1>1, <1>3, <2>2 DEF NoMemory
    <3>. QED BY <2>2, <3>1 DEF KeepDma, Buffer, Mapping, Spare
  <2>3. CASE mode = "jumbo"
    <3>1. c = b \/ c = WithSkb(b, own)
      BY <1>1, <1>3, <2>3 DEF NoMemory
    <3>. QED BY <1>2, <2>3, <3>1 DEF Spare
  <2>. QED BY <1>1, <2>1, <2>2, <2>3
<1>4. CASE MayNotMap /\ c \in NotMapped(b, own)
  <2>1. CASE mode = "skb"
    <3>1. c = [WithSkb(b, own) EXCEPT !.dma = "bad"]
      BY <1>4, <2>1 DEF NotMapped
    <3>. QED BY <1>2, <2>1, <3>1 DEF Buffer, Mapping, Spare
  <2>2. CASE mode = "split"
    <3>1. \/ c = [b EXCEPT !.page = TRUE, !.pdma = KeepDma(b.pdma), !.dma = "bad"]
          \/ c = [b EXCEPT !.page = TRUE, !.pdma = "bad"]
      BY <1>1, <1>4, <2>2 DEF NotMapped
    <3>. QED BY <1>4, <2>2, <3>1 DEF KeepDma, Buffer, Mapping, Spare, MapsAnew
  <2>3. CASE mode = "jumbo"
    <3>1. c = [WithSkb(b, own) EXCEPT !.page = TRUE, !.dma = "bad"]
      BY <1>1, <1>4, <2>3 DEF NotMapped
    <3>. QED BY <1>2, <1>4, <2>3, <3>1 DEF Buffer, Mapping, Spare, MapsAnew
  <2>. QED BY <1>1, <2>1, <2>2, <2>3
<1>. QED BY <1>1, <1>3, <1>4

(* A slot keeps its skb, or gets a new one. *)
LEMMA SlotAccounted ==
  ASSUME NEW buf \in [Slot -> Buffer], NEW own, NEW top, Accounted(buf, own, top),
         NEW u \in Slot, NEW c \in Buffer,
         \/ c.skb = buf[u].skb
         \/ buf[u].skb = None /\ c.skb \notin own
  PROVE  Accounted([buf EXCEPT ![u] = c], own \cup ({c.skb} \ {None}), top)
<1> DEFINE d == [buf EXCEPT ![u] = c]
<1>1. d[u] = c /\ \A i \in Slot : i # u => d[i] = buf[i]
  OBVIOUS
<1>. HIDE DEF d
<1>2. \A i \in Slot : buf[i].skb # None => buf[i].skb \in own /\ buf[i].skb \notin top
  BY DEF Accounted
<1>3. top \subseteq own
  BY DEF Accounted
<1>4. \A i, j \in Slot : d[i].skb # None /\ d[i].skb = d[j].skb => i = j
  BY <1>1, <1>2 DEF Accounted
<1>5. \A i \in Slot : d[i].skb # None => d[i].skb \notin top
  BY <1>1, <1>2, <1>3
<1>6. \A x \in own \cup ({c.skb} \ {None}) :
        x \in top \/ \E i \in Slot : d[i].skb # None /\ d[i].skb = x
  <2>1. \A x \in own : x \in top \/ \E i \in Slot : buf[i].skb # None /\ buf[i].skb = x
    BY DEF Accounted
  <2>2. \A i \in Slot : buf[i].skb # None => d[i].skb = buf[i].skb
    BY <1>1
  <2>. QED BY <1>1, <2>1, <2>2
<1>7. \A i \in Slot : d[i].skb # None => d[i].skb \in own \cup ({c.skb} \ {None})
  BY <1>1, <1>2
<1>. QED BY <1>3, <1>4, <1>5, <1>6, <1>7 DEF Accounted, d

LEMMA FillSlotIs ==
  ASSUME Assumption, mode \in Modes, NEW s, NEW low \in Slot, NEW top,
         \A x, y \in top : x = y, RingIs(mode, s, low, top),
         Dist(low, s.use) + 1 < Count
  PROVE  /\ RingIs(mode, FillSlot(s), low, top)
         /\ Dist(low, FillSlot(s).use) = Dist(low, s.use) + 1
         /\ \/ FillSlot(s).tail = s.tail
            \/ mode # "jumbo" /\ FillSlot(s).tail = s.use
<1> DEFINE u == s.use
           b == Prepared(s.buffer[u], s.live)
           t == FillSlot(s)
<1>1. t.buffer = [s.buffer EXCEPT ![u] = b] /\ t.live = s.live \cup {b.skb}
      /\ t.use = After(u)
      /\ t.tail = IF mode # "jumbo" /\ u % Write = 0 THEN u ELSE s.tail
  BY DEF FillSlot
<1>2. u \in Slot /\ s.buffer \in [Slot -> Buffer] /\ s.tail \in Slot
      /\ s.live \in SUBSET Skb /\ s.buffer[u] \in Buffer /\ Spare(mode, s.buffer[u])
      /\ Accounted(s.buffer, s.live, top)
  BY Distances DEF RingIs
<1>3. NewSkb(s.live) \in Skb \ s.live
  BY <1>2, NewSkbIs
<1>4. /\ b \in Buffer /\ Full(mode, b)
      /\ b.skb = IF s.buffer[u].skb = None THEN NewSkb(s.live) ELSE s.buffer[u].skb
  BY <1>2, <1>3, PreparedIs
<1>5. b.skb # None /\ b.skb \in Skb
  BY <1>4 DEF Full, Buffer
<1>. HIDE DEF b, t
<1>6. t.buffer \in [Slot -> Buffer] /\ t.live \subseteq Skb /\ t.use \in Slot
      /\ t.tail \in Slot
  BY <1>1, <1>2, <1>4, <1>5, AfterIs
<1>7. Accounted(t.buffer, t.live, top)
  <2>1. Accounted([s.buffer EXCEPT ![u] = b], s.live \cup ({b.skb} \ {None}), top)
    <3>1. \/ b.skb = s.buffer[u].skb
          \/ s.buffer[u].skb = None /\ b.skb \notin s.live
      BY <1>3, <1>4
    <3>. HIDE DEF u
    <3>. QED BY <1>2, <1>4, <3>1, SlotAccounted
  <2>2. s.live \cup ({b.skb} \ {None}) = s.live \cup {b.skb}
    BY <1>5
  <2>. QED BY <1>1, <2>1, <2>2
<1>8. Dist(low, t.use) = Dist(low, u) + 1
  BY <1>1, <1>2, AfterIs
<1>9. \A i \in Slot : IF Dist(low, i) < Dist(low, t.use) THEN Full(mode, t.buffer[i])
                                                         ELSE Spare(mode, t.buffer[i])
  <2>1. ASSUME NEW i \in Slot
        PROVE  IF Dist(low, i) < Dist(low, t.use) THEN Full(mode, t.buffer[i])
                                                  ELSE Spare(mode, t.buffer[i])
    <3>1. CASE i = u
      BY <1>1, <1>2, <1>4, <1>8, <3>1, Distances
    <3>2. CASE i # u
      <4>1. t.buffer[i] = s.buffer[i]
        BY <1>1, <1>2, <3>2
      <4>2. Dist(low, i) # Dist(low, u)
        BY <1>2, <3>2, Distances
      <4>3. Dist(low, i) < Dist(low, t.use) <=> Dist(low, i) < Dist(low, u)
        BY <1>2, <1>8, <4>2, Distances
      <4>. QED BY <4>1, <4>3 DEF RingIs
    <3>. QED BY <3>1, <3>2
  <2>. QED BY <2>1
<1>10. RingIs(mode, t, low, top)
  BY <1>6, <1>7, <1>9 DEF RingIs
<1>. QED BY <1>1, <1>8, <1>10 DEF t
-----------------------------------------------------------------------------
(* alloc_rx_buf: n slots, one after the other. *)
LEMMA Reaches ==
  ASSUME NEW S, NEW n \in Nat, 0 \in S, \A k \in 0 .. n - 1 : k \in S => k + 1 \in S
  PROVE  0 .. n \subseteq S
<1> DEFINE T == (0 .. n) \ S
<1>1. SUFFICES ASSUME T # {} PROVE FALSE
  OBVIOUS
<1>2. PICK x \in T : \A y \in T : x <= y
  <2>1. T \subseteq Nat
    OBVIOUS
  <2>. HIDE DEF T
  <2>. QED BY <1>1, <2>1, LeastNumber
<1>3. x - 1 \in S /\ x - 1 \in 0 .. n - 1
  BY <1>2
<1>. QED BY <1>3

(* The recursive function of Filled is there, the solution of its equation. *)
Filling(r, n) ==
  LET fill[k \in 0 .. n] ==
        IF k = 0 THEN {r} ELSE {FillSlot(s) : s \in fill[k - 1]}
  IN fill

LEMMA FillingEquation ==
  ASSUME NEW r, NEW n \in Nat
  PROVE  LET f == Filling(r, n)
         IN  f = [k \in 0 .. n |->
                    IF k = 0 THEN {r} ELSE {FillSlot(s) : s \in f[k - 1]}]
<1> DEFINE Next1(c, k) == IF k = 0 THEN {r} ELSE {FillSlot(s) : s \in c[k - 1]}
           Is(c, m) == c = [k \in 0 .. m |-> Next1(c, k)]
           Solved == {m \in Nat : \E c : Is(c, m)}
<1>1. 0 \in Solved
  <2>1. Is([k \in 0 .. 0 |-> {r}], 0)
    OBVIOUS
  <2>. QED BY <2>1
<1>2. ASSUME NEW m \in 0 .. n - 1, m \in Solved PROVE m + 1 \in Solved
  <2>1. m \in Nat /\ m + 1 \in Nat
    OBVIOUS
  <2>2. PICK c : Is(c, m)
    BY <1>2
  <2> DEFINE d == [k \in 0 .. m + 1 |-> Next1(c, k)]
  <2>3. ASSUME NEW k \in 0 .. m PROVE d[k] = c[k]
    <3>1. d[k] = Next1(c, k) /\ c[k] = Next1(c, k)
      <4>. HIDE DEF Next1
      <4>. QED BY <2>1, <2>2
    <3>. HIDE DEF d, Next1
    <3>. QED BY <3>1
  <2>4. ASSUME NEW k \in 0 .. m + 1, k # 0 PROVE d[k - 1] = c[k - 1]
    <3>1. k - 1 \in 0 .. m
      BY <2>1, <2>4
    <3>. QED BY <2>3, <3>1
  <2>5. \A k \in 0 .. m + 1 : Next1(d, k) = Next1(c, k)
    <3>. HIDE DEF d
    <3>. QED BY <2>4
  <2>6. Is(d, m + 1)
    <3>. HIDE DEF Next1
    <3>. QED BY <2>5
  <2>. QED BY <2>1, <2>6
<1>3. 0 .. n \subseteq Solved
  <2>. HIDE DEF Solved
  <2>. QED BY <1>1, <1>2, Reaches
<1>4. \E c : Is(c, n)
  <2>1. n \in Solved
    <3>. HIDE DEF Solved
    <3>. QED BY <1>3
  <2>. HIDE DEF Is
  <2>. QED BY <2>1
<1>. QED BY <1>4 DEF Filling

(* Slots are full that were not, and the tail moved no further. *)
Fuller(r, s, k, low, top) ==
  /\ RingIs(mode, s, low, top)
  /\ Dist(low, s.use) = Dist(low, r.use) + k
  /\ Dist(low, r.tail) <= Dist(low, s.tail)
  /\ Dist(low, s.tail) <= Dist(low, s.use)
  /\ mode = "jumbo" => s.tail = r.tail

LEMMA FilledIs ==
  ASSUME Assumption, mode \in Modes, NEW r, NEW low \in Slot, NEW top,
         \A x, y \in top : x = y, RingIs(mode, r, low, top),
         Dist(low, r.tail) <= Dist(low, r.use), NEW n \in Nat,
         Dist(low, r.use) + n < Count
  PROVE  Fuller(r, Filled(r, n), n, low, top)
<1> DEFINE fill == Filling(r, n)
           Good == {k \in 0 .. n : \E s : fill[k] = {s} /\ Fuller(r, s, k, low, top)}
<1>1. \A k \in 0 .. n :
        fill[k] = IF k = 0 THEN {r} ELSE {FillSlot(s) : s \in fill[k - 1]}
  <2>1. fill = [k \in 0 .. n |->
                  IF k = 0 THEN {r} ELSE {FillSlot(s) : s \in fill[k - 1]}]
    BY FillingEquation
  <2>. HIDE DEF fill
  <2>. QED BY <2>1
<1>2. Filled(r, n) = CHOOSE s \in fill[n] : TRUE
  BY DEF Filled, Filling
<1>. HIDE DEF fill
<1>3. 0 \in Good
  <2>1. fill[0] = {r}
    <3>1. 0 \in 0 .. n
      OBVIOUS
    <3>. HIDE DEF Good
    <3>. QED BY <1>1, <3>1
  <2>2. Fuller(r, r, 0, low, top)
    BY Distances DEF Fuller, RingIs
  <2>. QED BY <2>1, <2>2
<1>4. ASSUME NEW k \in 0 .. n - 1, k \in Good PROVE k + 1 \in Good
  <2>1. PICK s : fill[k] = {s} /\ Fuller(r, s, k, low, top)
    BY <1>4
  <2>2. fill[k + 1] = {FillSlot(s)}
    <3>1. k + 1 \in 0 .. n /\ k + 1 # 0 /\ (k + 1) - 1 = k
      OBVIOUS
    <3>2. fill[k + 1] = {FillSlot(x) : x \in fill[k]}
      BY <1>1, <3>1
    <3>. QED BY <2>1, <3>2
  <2>3. RingIs(mode, s, low, top) /\ Dist(low, s.use) + 1 < Count
    BY <2>1, Distances DEF Fuller, RingIs
  <2>4. Fuller(r, FillSlot(s), k + 1, low, top)
    <3>1. s.use \in Slot /\ s.tail \in Slot /\ r.use \in Slot /\ r.tail \in Slot
      BY <2>3 DEF RingIs
    <3>2. /\ RingIs(mode, FillSlot(s), low, top)
          /\ Dist(low, FillSlot(s).use) = Dist(low, s.use) + 1
          /\ \/ FillSlot(s).tail = s.tail
             \/ mode # "jumbo" /\ FillSlot(s).tail = s.use
      BY <2>3, FillSlotIs
    <3>. QED BY <2>1, <3>1, <3>2, Distances DEF Fuller
  <2>5. k + 1 \in 0 .. n
    OBVIOUS
  <2>. QED BY <2>2, <2>4, <2>5
<1>5. n \in Good
  <2>1. 0 .. n \subseteq Good
    <3>. HIDE DEF Good
    <3>. QED BY <1>3, <1>4, Reaches
  <2>. HIDE DEF Good
  <2>. QED BY <2>1
<1>6. PICK s : fill[n] = {s} /\ Fuller(r, s, n, low, top)
  BY <1>5
<1>7. Filled(r, n) = s
  BY <1>2, <1>6
<1>. QED BY <1>6, <1>7

LEMMA WholeIs ==
  ASSUME Assumption, mode \in Modes, NEW r, NEW low \in Slot, NEW top,
         \A x, y \in top : x = y, RingIs(mode, r, low, top),
         Dist(low, r.tail) <= Dist(low, r.use), NEW n \in Nat,
         Dist(low, r.use) + n < Count
  PROVE  LET s == Whole(r, n)
         IN  /\ RingIs(mode, s, low, top)
             /\ Dist(low, s.use) = Dist(low, r.use) + n
             /\ Dist(low, r.tail) <= Dist(low, s.tail)
             /\ Dist(low, s.tail) <= Dist(low, s.use)
<1> DEFINE f == Filled(r, n)
           s == Whole(r, n)
<1>1. Fuller(r, f, n, low, top)
  BY FilledIs
<1>. HIDE DEF f
<1>2. s = IF mode = "jumbo" /\ n > 0 THEN [f EXCEPT !.tail = Before(f.use)] ELSE f
  BY DEF Whole, Tell, f
<1>. HIDE DEF s
<1>3. RingIs(mode, f, low, top) /\ Dist(low, f.use) = Dist(low, r.use) + n
      /\ Dist(low, r.tail) <= Dist(low, f.tail) /\ Dist(low, f.tail) <= Dist(low, f.use)
      /\ (mode = "jumbo" => f.tail = r.tail)
  BY <1>1 DEF Fuller
<1>4. f.use \in Slot /\ r.use \in Slot /\ r.tail \in Slot
  BY <1>3 DEF RingIs
<1>5. CASE mode = "jumbo" /\ n > 0
  <2>1. f.use # low
    BY <1>3, <1>4, <1>5, Distances
  <2>2. Before(f.use) \in Slot /\ Dist(low, Before(f.use)) = Dist(low, f.use) - 1
    BY <1>4, <2>1, BeforeIs
  <2>3. s.buffer = f.buffer /\ s.live = f.live /\ s.use = f.use /\ s.tail = Before(f.use)
    BY <1>2, <1>3, <1>5
  <2>4. RingIs(mode, s, low, top)
    BY <1>3, <2>2, <2>3 DEF RingIs
  <2>. QED BY <1>3, <1>4, <1>5, <2>2, <2>3, <2>4, Distances DEF s
<1>6. CASE ~ (mode = "jumbo" /\ n > 0)
  BY <1>2, <1>3, <1>6 DEF s
<1>. QED BY <1>5, <1>6

(* A failure stops it at a slot, which still waits to be filled. *)
LEMMA StuckKeeps ==
  ASSUME Assumption, mode \in Modes, NEW t, NEW low \in Slot, NEW top,
         \A x, y \in top : x = y, RingIs(mode, t, low, top), NEW s \in Stuck(t)
  PROVE  RingIs(mode, s, low, top) /\ s.use = t.use /\ s.tail = t.tail
<1> DEFINE u == t.use
           b == t.buffer[u]
<1>1. PICK c \in NoMemory(b, t.live) \cup (IF MayNotMap THEN NotMapped(b, t.live) ELSE {}) :
        s = [t EXCEPT !.buffer[u] = c, !.live = t.live \cup ({c.skb} \ {None})]
  BY DEF Stuck
<1>2. u \in Slot /\ t.buffer \in [Slot -> Buffer] /\ t.live \in SUBSET Skb
      /\ t.tail \in Slot /\ b \in Buffer /\ Spare(mode, b)
      /\ Accounted(t.buffer, t.live, top)
  BY Distances DEF RingIs
<1>3. NewSkb(t.live) \in Skb \ t.live
  BY <1>2, NewSkbIs
<1>4. /\ c \in Buffer /\ Spare(mode, c)
      /\ c.skb = IF b.skb = None /\ c.skb # None THEN NewSkb(t.live) ELSE b.skb
  <2>. HIDE DEF b
  <2>. QED BY <1>1, <1>2, <1>3, StuckIs
<1>5. s.buffer = [t.buffer EXCEPT ![u] = c] /\ s.live = t.live \cup ({c.skb} \ {None})
      /\ s.use = t.use /\ s.tail = t.tail
  BY <1>1
<1>6. Accounted(s.buffer, s.live, top)
  <2>1. \/ c.skb = t.buffer[u].skb
        \/ t.buffer[u].skb = None /\ c.skb \notin t.live
    BY <1>3, <1>4
  <2>. HIDE DEF u
  <2>. QED BY <1>2, <1>4, <1>5, <2>1, SlotAccounted
<1>7. s.buffer \in [Slot -> Buffer] /\ s.live \subseteq Skb
  BY <1>2, <1>4, <1>5 DEF Buffer
<1>8. ASSUME NEW i \in Slot
      PROVE  IF Dist(low, i) < Dist(low, u) THEN Full(mode, s.buffer[i])
                                            ELSE Spare(mode, s.buffer[i])
  <2>1. CASE i = u
    BY <1>2, <1>4, <1>5, <2>1, Distances
  <2>2. CASE i # u
    BY <1>2, <1>5, <2>2 DEF RingIs
  <2>. QED BY <2>1, <2>2
<1>9. RingIs(mode, s, low, top)
  BY <1>2, <1>5, <1>6, <1>7, <1>8 DEF RingIs
<1>. QED BY <1>5, <1>9

(* The refill of a ring keeps it whole, and hands out full slots only. *)
LEMMA RefillIs ==
  ASSUME Assumption, mode \in Modes, NEW r, NEW low \in Slot, NEW top,
         \A x, y \in top : x = y, RingIs(mode, r, low, top),
         Dist(low, r.tail) <= Dist(low, r.use), NEW n \in Nat,
         Dist(low, r.use) + n < Count, Refill(r, n)
  PROVE  \E s : /\ buffer' = s.buffer /\ live' = s.live
                /\ next_to_use' = s.use /\ tail' = s.tail
                /\ RingIs(mode, s, low, top)
                /\ Dist(low, s.use) <= Dist(low, r.use) + n
                /\ Dist(low, r.tail) <= Dist(low, s.tail)
                /\ Dist(low, s.tail) <= Dist(low, s.use)
<1>1. PICK s \in {Whole(r, n)} \cup Short(r, n) :
        buffer' = s.buffer /\ live' = s.live /\ next_to_use' = s.use /\ tail' = s.tail
  BY DEF Refill
<1>2. CASE s = Whole(r, n)
  <2>1. /\ RingIs(mode, s, low, top)
        /\ Dist(low, s.use) = Dist(low, r.use) + n
        /\ Dist(low, r.tail) <= Dist(low, s.tail)
        /\ Dist(low, s.tail) <= Dist(low, s.use)
    BY <1>2, WholeIs
  <2>2. Dist(low, s.use) <= Dist(low, r.use) + n
    BY <2>1, Distances DEF RingIs
  <2>. QED BY <1>1, <2>1, <2>2
<1>3. CASE s \in Short(r, n)
  <2>1. PICK k \in 0 .. n - 1 : s \in Stuck(Whole(r, k))
    BY <1>3 DEF Short
  <2> DEFINE t == Whole(r, k)
  <2>2. k \in Nat /\ Dist(low, r.use) + k < Count
    BY Distances DEF RingIs
  <2>3. /\ RingIs(mode, t, low, top)
        /\ Dist(low, t.use) = Dist(low, r.use) + k
        /\ Dist(low, r.tail) <= Dist(low, t.tail)
        /\ Dist(low, t.tail) <= Dist(low, t.use)
    BY <2>2, WholeIs
  <2>. HIDE DEF t
  <2>4. RingIs(mode, s, low, top) /\ s.use = t.use /\ s.tail = t.tail
    BY <2>1, <2>3, StuckKeeps DEF t
  <2>5. Dist(low, s.use) <= Dist(low, r.use) + n
    BY <2>2, <2>3, <2>4, Distances DEF RingIs
  <2>. QED BY <1>1, <2>3, <2>4, <2>5
<1>. QED BY <1>1, <1>2, <1>3
-----------------------------------------------------------------------------
(* A fresh ring, all but one of whose slots are full: e1000_configure_rx.  *)
FreshRing ==
  LET s == Whole(Empty, Count - 1)
  IN  buffer = s.buffer /\ live = s.live /\ next_to_use = s.use /\ tail = s.tail

LEMMA EmptyIs ==
  ASSUME Assumption PROVE RingIs(mode, Empty, 0, {}) /\ Empty.use = 0 /\ Empty.tail = 0
<1>1. 0 \in Slot /\ NoBuffer \in Buffer /\ Spare(mode, NoBuffer)
  BY DEF Assumption, Slot, NoBuffer, Buffer, Mapping, Spare, Skb
<1>2. Empty.buffer = [i \in Slot |-> NoBuffer] /\ Empty.live = {} /\ Empty.use = 0
      /\ Empty.tail = 0
  BY DEF Empty
<1>3. Accounted(Empty.buffer, {}, {})
  BY <1>2 DEF Accounted, NoBuffer
<1>4. \A i \in Slot : ~ (Dist(0, i) < Dist(0, 0))
  BY <1>1, Distances
<1>. QED BY <1>1, <1>2, <1>3, <1>4 DEF RingIs

LEMMA FreshRingIs ==
  ASSUME Assumption, mode \in Modes, FreshRing
  PROVE  /\ RingIs(mode, Current, 0, {})
         /\ Dist(0, 0) <= Dist(0, tail) /\ Dist(0, tail) <= Dist(0, next_to_use)
<1> DEFINE s == Whole(Empty, Count - 1)
<1>1. Count - 1 \in Nat /\ 0 \in Slot /\ Dist(0, 0) = 0
  BY DEF Assumption, Slot, Dist
<1>2. /\ RingIs(mode, s, 0, {})
      /\ Dist(0, Empty.tail) <= Dist(0, s.tail)
      /\ Dist(0, s.tail) <= Dist(0, s.use)
  <2>1. RingIs(mode, Empty, 0, {}) /\ Empty.use = 0 /\ Empty.tail = 0
    BY EmptyIs
  <2>2. Dist(0, Empty.use) + (Count - 1) < Count /\ Dist(0, Empty.tail) <= Dist(0, Empty.use)
    BY <1>1, <2>1, Distances
  <2>. QED BY <1>1, <2>1, <2>2, WholeIs
<1>. HIDE DEF s
<1>3. buffer = s.buffer /\ live = s.live /\ next_to_use = s.use /\ tail = s.tail
  BY DEF FreshRing, s
<1>4. RingIs(mode, Current, 0, {})
  BY <1>2, <1>3 DEF RingIs, Current
<1>. QED BY <1>1, <1>2, <1>3, <1>4, EmptyIs

LEMMA FreshRingNext ==
  ASSUME Assumption
  PROVE  (mode \in Modes /\ FreshRing =>
            /\ RingIs(mode, Current, 0, {})
            /\ Dist(0, 0) <= Dist(0, tail) /\ Dist(0, tail) <= Dist(0, next_to_use))'
<1>1. mode \in Modes /\ FreshRing =>
        /\ RingIs(mode, Current, 0, {})
        /\ Dist(0, 0) <= Dist(0, tail) /\ Dist(0, tail) <= Dist(0, next_to_use)
  BY FreshRingIs
<1>. QED BY <1>1, PTL
-----------------------------------------------------------------------------
LEMMA Start == ASSUME Assumption, Init PROVE IInv
<1>1. 0 \in Slot /\ Dist(0, 0) = 0 /\ Count \in Nat /\ Frames \in Nat
      /\ Parts \in [Frame -> Nat \ {0}]
  BY DEF Assumption, Slot, Dist
<1>2. Low = 0 /\ poll = Idle /\ next_to_clean = 0 /\ head = 0 /\ TopSkb(rx_skb_top) = {}
  BY DEF Init, Low, Idle, TopSkb
<1>3. FreshRing /\ mode \in Modes
  BY DEF Init, FreshRing
<1>4. Types
  <2>1. desc \in [Slot -> [dd : BOOLEAN, frame : 0 .. Frames, part : Nat, eop : BOOLEAN]]
    BY <1>1 DEF Init, NoDesc
  <2>2. frame = 1 /\ part = 1 /\ rx_skb_top = None /\ discarding = FALSE
    BY DEF Init
  <2>3. frame \in 1 .. Frames + 1 /\ part \in Nat \ {0}
        /\ IF frame \in Frame THEN part <= Parts[frame] ELSE part = 1
    BY <1>1, <2>2 DEF Frame
  <2>4. poll \in [pc : {"idle", "scan"}, i : Slot, cleaned : Nat, work : Nat]
    BY <1>1, <1>2 DEF Idle
  <2>. QED BY <1>1, <1>2, <1>3, <2>1, <2>2, <2>3, <2>4 DEF Types
<1>5. RingIs(mode, Current, 0, {})
      /\ Dist(0, 0) <= Dist(0, tail) /\ Dist(0, tail) <= Dist(0, next_to_use)
  BY <1>3, FreshRingIs
<1>6. Order /\ Ring
  BY <1>2, <1>5 DEF Order, Ring, Off, Idle
<1>7. Written
  BY <1>1, <1>2, Distances DEF Init, NoDesc, Written, Off
<1>8. Between
  <2>1. NextFrame = 1 /\ NextPart = 1
    BY <1>2 DEF Init, NextFrame, NextPart
  <2>2. up = <<>> /\ rx_skb_top = None
    BY DEF Init
  <2>. QED BY <2>1, <2>2 DEF Between, WholeFrames
<1>. QED BY <1>4, <1>6, <1>7, <1>8 DEF IInv

(* The index moves to where the ring is cleaned from: nothing else does.   *)
LEMMA PollStartKeeps == ASSUME Assumption, IInv, PollStart PROVE IInv'
<1>1. Low' = Low
  BY DEF PollStart, Low
<1>2. UNCHANGED <<mode, ring, chain, hw, live, up, counts>>
  BY DEF PollStart
<1>3. poll' = [pc |-> "scan", i |-> next_to_clean, cleaned |-> 0, work |-> 0]
  BY DEF PollStart
<1>4. Types'
  BY <1>2, <1>3 DEF IInv, Types, ring, chain, hw
<1>5. Order'
  <2>1. Dist(Low, next_to_use) + 0 < Count
    BY <1>1, <1>3, Distances DEF IInv, Types, Ring, RingIs, Current, Low
  <2>. QED BY <1>1, <1>2, <1>3, <2>1 DEF IInv, Order, Off, ring, hw
<1>6. Ring'
  <2>1. Current' = Current /\ mode' = mode /\ rx_skb_top' = rx_skb_top
    BY <1>2 DEF Current, ring, chain, hw
  <2>. QED BY <1>1, <2>1 DEF IInv, Ring, RingIs, TopSkb, Full, Spare, MapsAnew
<1>7. Written'
  BY <1>1, <1>2 DEF IInv, Written, Off, ring, hw
<1>8. NextFrame' = NextFrame /\ NextPart' = NextPart
  BY <1>1, <1>2 DEF NextFrame, NextPart, ring, hw
<1>9. Between'
  BY <1>2, <1>8 DEF IInv, Between, WholeFrames, chain
<1>. QED BY <1>4, <1>5, <1>6, <1>7, <1>9 DEF IInv
-----------------------------------------------------------------------------
(* The controller writes at the head, which has not reached the tail.      *)
LEMMA HwWriteKeeps == ASSUME Assumption, IInv, HwWrite PROVE IInv'
<1> DEFINE eop == part = Parts[frame]
<1>1. /\ head # tail /\ frame <= Frames
      /\ desc' = [desc EXCEPT ![head] =
                    [dd |-> TRUE, frame |-> frame, part |-> part, eop |-> eop]]
      /\ frame' = IF eop THEN frame + 1 ELSE frame
      /\ part' = IF eop THEN 1 ELSE part + 1
      /\ head' = After(head)
      /\ mode' = mode /\ next_to_use' = next_to_use /\ next_to_clean' = next_to_clean
      /\ buffer' = buffer /\ rx_skb_top' = rx_skb_top /\ discarding' = discarding
      /\ tail' = tail /\ poll' = poll /\ live' = live /\ up' = up
  BY DEF HwWrite, chain
<1>2. Low' = Low /\ Low \in Slot /\ head \in Slot /\ tail \in Slot /\ next_to_use \in Slot
  BY <1>1 DEF Low, IInv, Types, Ring, RingIs, Current
<1>3. Dist(Low, head) + 1 <= Dist(Low, tail) /\ Dist(Low, tail) < Count
  <2>1. Dist(Low, head) # Dist(Low, tail)
    BY <1>1, <1>2, Distances
  <2>. QED BY <1>2, <2>1, Distances DEF IInv, Order, Off
<1>4. Dist(Low, After(head)) = Dist(Low, head) + 1 /\ After(head) \in Slot /\ After(head) # Low
      /\ \A b \in Slot : After(head) = After(b) => head = b
  BY <1>2, <1>3, AfterIs, Distances
<1>5. Frames \in Nat /\ Parts \in [Frame -> Nat \ {0}] /\ frame \in Frame
      /\ part \in Nat \ {0} /\ part <= Parts[frame] /\ Parts[frame] \in Nat \ {0}
  BY <1>1 DEF Assumption, IInv, Types, Frame
<1>6. /\ desc'[head] = [dd |-> TRUE, frame |-> frame, part |-> part, eop |-> eop]
      /\ \A i \in Slot : i # head => desc'[i] = desc[i]
  BY <1>1, <1>2 DEF IInv, Types
<1>7. Types'
  <2>1. desc' \in [Slot -> [dd : BOOLEAN, frame : 0 .. Frames, part : Nat, eop : BOOLEAN]]
    BY <1>1, <1>2, <1>5 DEF IInv, Types, Frame
  <2>2. IF frame' \in Frame THEN part' <= Parts[frame'] ELSE part' = 1
    BY <1>1, <1>5 DEF Frame
  <2>3. frame' \in 1 .. Frames + 1 /\ part' \in Nat \ {0}
    BY <1>1, <1>5 DEF Frame
  <2>. QED BY <1>1, <1>4, <2>1, <2>2, <2>3 DEF IInv, Types
<1>8. Order'
  BY <1>1, <1>2, <1>3, <1>4, Distances DEF IInv, Order, Off
<1>9. Ring'
  <2>1. Current' = Current
    BY <1>1 DEF Current
  <2>. QED BY <1>1, <1>2, <2>1 DEF IInv, Ring, RingIs, TopSkb, Full, Spare, MapsAnew
<1>10. Written'
  <2>1. ASSUME NEW i \in Slot
        PROVE  desc'[i].dd <=> Dist(Low, i) < Dist(Low, head) + 1
    <3>1. i # head => Dist(Low, i) # Dist(Low, head)
      BY <1>2, Distances
    <3>2. i # head => (desc[i].dd <=> Dist(Low, i) < Dist(Low, head))
      BY DEF IInv, Written, Off
    <3>. QED BY <1>2, <1>6, <3>1, <3>2, Distances
  <2>2. ASSUME NEW i \in Slot, desc'[i].dd
        PROVE  /\ desc'[i].frame \in Frame /\ desc'[i].part \in 1 .. Parts[desc'[i].frame]
               /\ desc'[i].eop <=> desc'[i].part = Parts[desc'[i].frame]
               /\ desc'[i].frame <= frame'
               /\ IF After(i) = After(head)
                  THEN Follows(desc'[i].frame, desc'[i].part, desc'[i].eop, frame', part')
                  ELSE Follows(desc'[i].frame, desc'[i].part, desc'[i].eop,
                               desc'[After(i)].frame, desc'[After(i)].part)
    <3>1. CASE i = head
      <4>1. desc'[i].frame = frame /\ desc'[i].part = part /\ desc'[i].eop = eop
        BY <1>6, <3>1
      <4>2. frame <= frame' /\ Follows(frame, part, eop, frame', part')
        BY <1>1, <1>5 DEF Follows, Frame
      <4>3. part \in 1 .. Parts[frame]
        BY <1>5
      <4>. QED BY <1>5, <3>1, <4>1, <4>2, <4>3
    <3>2. CASE i # head
      <4>1. desc'[i] = desc[i] /\ After(i) # After(head) /\ After(i) \in Slot
        BY <1>2, <1>4, <1>6, <3>2, AfterIs
      <4>2. /\ desc[i].frame \in Frame /\ desc[i].part \in 1 .. Parts[desc[i].frame]
            /\ desc[i].eop <=> desc[i].part = Parts[desc[i].frame]
            /\ desc[i].frame <= frame
            /\ IF After(i) = head
               THEN Follows(desc[i].frame, desc[i].part, desc[i].eop, frame, part)
               ELSE Follows(desc[i].frame, desc[i].part, desc[i].eop,
                            desc[After(i)].frame, desc[After(i)].part)
        BY <2>2, <4>1 DEF IInv, Written
      <4>3. desc[i].frame <= frame'
        BY <1>1, <1>5, <4>2 DEF Frame
      <4>. QED BY <1>6, <4>1, <4>2, <4>3
    <3>. QED BY <3>1, <3>2
  <2>. QED BY <1>1, <1>2, <1>4, <2>1, <2>2 DEF Written, Off
<1>11. NextFrame' = NextFrame /\ NextPart' = NextPart
  BY <1>1, <1>2, <1>4, <1>6 DEF NextFrame, NextPart
<1>12. Between'
  BY <1>1, <1>11 DEF IInv, Between, WholeFrames
<1>. QED BY <1>7, <1>8, <1>9, <1>10, <1>12 DEF IInv
-----------------------------------------------------------------------------
LEMMA TopSkbIs ==
  ASSUME IInv PROVE \A x, y \in TopSkb(rx_skb_top) : x = y
BY DEF TopSkb

(* The part that comes next is not after the one the controller writes.    *)
LEMMA NextIs ==
  ASSUME Assumption, IInv
  PROVE  /\ NextFrame \in Nat /\ NextPart \in Nat \ {0} /\ NextFrame <= frame
         /\ Low \in Slot /\ (Low # head => desc[Low].dd)
<1>1. Low \in Slot /\ head \in Slot
  BY DEF IInv, Types, Low
<1>2. Low # head => desc[Low].dd
  BY <1>1, Distances DEF IInv, Written, Off
<1>3. Frames \in Nat /\ Parts \in [Frame -> Nat \ {0}]
  BY DEF Assumption
<1>. QED BY <1>1, <1>2, <1>3 DEF IInv, Types, Written, NextFrame, NextPart, Frame

(* A call ends where it came, and asks for all that is missing.            *)
LEMMA PollEndKeeps == ASSUME Assumption, IInv, PollEnd PROVE IInv'
<1> DEFINE top == TopSkb(rx_skb_top)
           n == AskUnused(poll.i)
<1>1. /\ poll.pc = "scan" /\ next_to_clean' = poll.i /\ poll' = Idle
      /\ mode' = mode /\ desc' = desc /\ rx_skb_top' = rx_skb_top
      /\ discarding' = discarding /\ head' = head /\ frame' = frame /\ part' = part
      /\ up' = up /\ Refill(Current, n)
  BY DEF PollEnd, chain
<1>2. Low = poll.i /\ Low' = Low /\ Low \in Slot
  BY <1>1 DEF Low, Idle, IInv, Types
<1>3. mode \in Modes /\ head \in Slot /\ tail \in Slot /\ next_to_use \in Slot
  BY DEF IInv, Types, Ring, RingIs, Current
<1>4. RingIs(mode, Current, Low, top) /\ Current.tail = tail /\ Current.use = next_to_use
  BY DEF IInv, Ring, Current
<1>5. n \in Nat /\ Dist(Low, next_to_use) + n < Count
  BY <1>2, <1>3, Distances, UnusedIs DEF AskUnused
<1>6. Dist(Low, head) <= Dist(Low, tail) /\ Dist(Low, tail) <= Dist(Low, next_to_use)
  BY DEF IInv, Order, Off
<1>7. PICK s : /\ buffer' = s.buffer /\ live' = s.live
               /\ next_to_use' = s.use /\ tail' = s.tail
               /\ RingIs(mode, s, Low, top)
               /\ Dist(Low, tail) <= Dist(Low, s.tail)
               /\ Dist(Low, s.tail) <= Dist(Low, s.use)
  <2>. HIDE DEF n, top
  <2>1. \A x, y \in top : x = y
    BY TopSkbIs DEF top
  <2>. QED BY <1>1, <1>2, <1>3, <1>4, <1>5, <1>6, <2>1, RefillIs
<1>8. Types'
  <2>1. poll' \in [pc : {"idle", "scan"}, i : Slot, cleaned : Nat, work : Nat]
    BY <1>1, Distances DEF Idle, Slot
  <2>. QED BY <1>1, <1>2, <2>1 DEF IInv, Types
<1>9. Order'
  <2>1. s.tail \in Slot /\ s.use \in Slot
    BY <1>7 DEF RingIs
  <2>2. Dist(Low, head) <= Dist(Low, s.tail)
    BY <1>2, <1>3, <1>6, <1>7, <2>1, Distances
  <2>. QED BY <1>1, <1>2, <1>7, <2>2 DEF Order, Off, Idle
<1>10. Ring'
  <2>1. RingIs(mode, Current', Low, top)
    BY <1>7 DEF RingIs, Current
  <2>. QED BY <1>1, <1>2, <2>1 DEF Ring, RingIs, TopSkb, Full, Spare, MapsAnew
<1>11. Written'
  BY <1>1, <1>2 DEF IInv, Written, Off
<1>12. NextFrame' = NextFrame /\ NextPart' = NextPart
  BY <1>1, <1>2 DEF NextFrame, NextPart
<1>13. Between'
  BY <1>1, <1>12 DEF IInv, Between, WholeFrames
<1>. QED BY <1>8, <1>9, <1>10, <1>11, <1>13 DEF IInv

(* A reset may change the shape, and loses the frame being written.        *)
LEMMA ResetKeeps == ASSUME Assumption, IInv, Reset PROVE IInv'
<1>1. /\ poll.pc = "idle" /\ mode' \in Modes /\ rx_skb_top' = None
      /\ discarding' = FALSE /\ desc' = [i \in Slot |-> NoDesc]
      /\ next_to_clean' = 0 /\ head' = 0 /\ poll' = poll /\ up' = up
      /\ frame' = (IF part > 1 THEN frame + 1 ELSE frame) /\ part' = 1
  BY DEF Reset
<1>2. FreshRing'
  BY DEF Reset, FreshRing
<1>3. 0 \in Slot /\ Dist(0, 0) = 0 /\ Count \in Nat /\ Frames \in Nat
      /\ Parts \in [Frame -> Nat \ {0}]
  BY DEF Assumption, Slot, Dist
<1>4. Low' = 0 /\ TopSkb(rx_skb_top)' = {}
  BY <1>1 DEF Low, TopSkb
<1>5. /\ RingIs(mode, Current, 0, {})'
      /\ Dist(0, 0) <= Dist(0, tail') /\ Dist(0, tail') <= Dist(0, next_to_use')
  BY <1>1, <1>2, FreshRingNext DEF Dist
<1>6. frame \in 1 .. Frames + 1 /\ part \in Nat \ {0}
      /\ IF frame \in Frame THEN part <= Parts[frame] ELSE part = 1
  BY DEF IInv, Types
<1>7. frame' \in 1 .. Frames + 1 /\ frame <= frame'
      /\ (frame' \in Frame => 1 <= Parts[frame'])
  BY <1>1, <1>3, <1>6 DEF Frame
<1>8. Types'
  <2>1. desc' \in [Slot -> [dd : BOOLEAN, frame : 0 .. Frames, part : Nat, eop : BOOLEAN]]
    BY <1>1, <1>3 DEF NoDesc
  <2>2. IF frame' \in Frame THEN part' <= Parts[frame'] ELSE part' = 1
    BY <1>1, <1>7
  <2>3. part' \in Nat \ {0}
    BY <1>1
  <2>. QED BY <1>1, <1>3, <1>7, <2>1, <2>2, <2>3 DEF IInv, Types
<1>9. Order'
  BY <1>1, <1>4, <1>5 DEF Order, Off
<1>10. Ring'
  <2>1. RingIs(mode', Current', 0, {})
    BY <1>5 DEF RingIs, Full, Spare, MapsAnew
  <2>2. RingIs(mode', Current', Low', TopSkb(rx_skb_top)')
    BY <1>4, <2>1
  <2>. QED BY <2>2 DEF Ring, RingIs, Full, Spare, MapsAnew
<1>11. Written'
  BY <1>1, <1>3, <1>4, Distances DEF Written, Off, NoDesc
<1>12. NextFrame' = frame' /\ NextPart' = 1
  BY <1>1, <1>4 DEF NextFrame, NextPart
<1>13. up # <<>> => up[Len(up)][1][1] \in 1 .. frame' - 1
  <2>1. up # <<>> => up[Len(up)][1][1] \in 1 .. NextFrame - 1
    BY DEF IInv, Between
  <2>2. NextFrame \in Nat /\ NextFrame <= frame /\ frame \in Nat /\ frame' \in Nat
    BY <1>3, <1>6, <1>7, NextIs
  <2>. QED BY <1>7, <2>1, <2>2
<1>14. Between'
  BY <1>1, <1>12, <1>13 DEF IInv, Between, WholeFrames
<1>. QED BY <1>8, <1>9, <1>10, <1>11, <1>14 DEF IInv
-----------------------------------------------------------------------------
(* What cleaning a slot does to the skbs: it stays in the slot, leaves the *)
(* driver, heads the chain, or stays while the chain leaves.               *)
Moves(c, b, gone, top, newtop) ==
  \/ c.skb = b.skb /\ gone = {} /\ newtop = top
  \/ c.skb = None /\ gone = {b.skb} /\ newtop = top
  \/ c.skb = None /\ gone = {} /\ top = {} /\ newtop = {b.skb}
  \/ c.skb = b.skb /\ gone = top /\ newtop = {}

LEMMA MovesAccounted ==
  ASSUME NEW buf \in [Slot -> Buffer], NEW own, NEW top, Accounted(buf, own, top),
         NEW u \in Slot, buf[u].skb # None, NEW c \in Buffer, NEW gone, NEW newtop,
         Moves(c, buf[u], gone, top, newtop)
  PROVE  Accounted([buf EXCEPT ![u] = c], own \ gone, newtop)
<1> DEFINE e == [buf EXCEPT ![u] = c]
<1>1. e[u] = c /\ \A i \in Slot : i # u => e[i] = buf[i]
  OBVIOUS
<1>. HIDE DEF e
<1>2. \A i \in Slot : buf[i].skb # None => buf[i].skb \in own /\ buf[i].skb \notin top
  BY DEF Accounted
<1>3. \A i, j \in Slot : buf[i].skb # None /\ buf[i].skb = buf[j].skb => i = j
  BY DEF Accounted
<1>4. \A x \in own : x \in top \/ \E i \in Slot : buf[i].skb # None /\ buf[i].skb = x
  BY DEF Accounted
<1>5. top \subseteq own
  BY DEF Accounted
<1>6. c.skb \in {None, buf[u].skb}
  BY DEF Moves
<1>7. \A i, j \in Slot : e[i].skb # None /\ e[i].skb = e[j].skb => i = j
  BY <1>1, <1>3, <1>6
<1>8. \A i \in Slot : e[i].skb # None =>
        e[i].skb \in own /\ e[i].skb \notin gone /\ e[i].skb \notin newtop
  BY <1>1, <1>2, <1>3, <1>6 DEF Moves
<1>9. newtop \subseteq own \ gone
  BY <1>2, <1>5 DEF Moves
<1>10. ASSUME NEW x \in own \ gone
       PROVE  x \in newtop \/ \E i \in Slot : e[i].skb # None /\ e[i].skb = x
  <2>1. CASE x \in top
    BY <2>1, <1>10 DEF Moves
  <2>2. CASE x \notin top
    <3>1. PICK i \in Slot : buf[i].skb # None /\ buf[i].skb = x
      BY <1>4, <2>2
    <3>2. CASE i # u
      BY <1>1, <3>1, <3>2
    <3>3. CASE i = u
      BY <1>1, <1>10, <3>1, <3>3 DEF Moves
    <3>. QED BY <3>2, <3>3
  <2>. QED BY <2>1, <2>2
<1>. QED BY <1>7, <1>8, <1>9, <1>10 DEF Accounted, e

Descriptor == [dd : BOOLEAN, frame : 0 .. Frames, part : Nat, eop : BOOLEAN]

LEMMA ContentIs ==
  ASSUME Assumption, NEW d \in Descriptor PROVE Content(d) \in Seq(Nat \X Nat)
BY DEF Assumption, Descriptor, Content

(* The three clean_rx routines, as to the buffers. *)
LEMMA CleanMoves ==
  ASSUME Assumption, mode \in Modes, rx_skb_top \in Chain \cup {None},
         mode # "jumbo" => rx_skb_top = None, discarding \in BOOLEAN,
         NEW d \in Descriptor, NEW b \in Buffer, Full(mode, b), NEW o \in CleanRx(d, b)
  PROVE  /\ o.slot \in Buffer /\ Spare(mode, o.slot)
         /\ Moves(o.slot, b, o.gone, TopSkb(rx_skb_top), TopSkb(o.top))
         /\ o.top \in Chain \cup {None} /\ o.flag \in BOOLEAN
<1>1. None \notin Skb /\ None \notin Chain /\ mode \in {"skb", "split", "jumbo"}
  BY DEF Assumption
<1>2. b.skb \in Skb /\ d.eop \in BOOLEAN
  BY DEF Full, Buffer, Descriptor
<1>3. Unmapped(b) \in Buffer /\ Unmapped(b).skb = b.skb /\ Unmapped(b).dma = "none"
      /\ Unmapped(b).page = b.page /\ Unmapped(b).pdma = b.pdma
  BY DEF Unmapped, Buffer, Mapping
<1> DEFINE u == Unmapped(b)
           kept == [u EXCEPT !.skb = None]
           taken == [kept EXCEPT !.page = FALSE, !.pdma = "none"]
           used == [u EXCEPT !.page = FALSE]
           given == [used EXCEPT !.skb = None]
           start == [skb |-> b.skb, data |-> Content(d)]
           more == [rx_skb_top EXCEPT !.data = @ \o Content(d)]
<1>. HIDE DEF u
<1>4. kept \in Buffer /\ kept.skb = None /\ kept.dma = "none" /\ kept.pdma = b.pdma
  BY <1>3 DEF Buffer, u
<1>5. taken \in Buffer /\ taken.skb = None /\ taken.dma = "none" /\ taken.pdma = "none"
  <2>. HIDE DEF kept
  <2>. QED BY <1>4 DEF Buffer, Mapping
<1>6. used \in Buffer /\ used.skb = b.skb /\ used.dma = "none"
  BY <1>3 DEF Buffer, u
<1>7. given \in Buffer /\ given.skb = None /\ given.dma = "none"
  <2>. HIDE DEF used
  <2>. QED BY <1>6 DEF Buffer
<1>8. start \in Chain /\ start.skb = b.skb
  BY <1>2, ContentIs DEF Chain
<1>9. ASSUME rx_skb_top # None PROVE more \in Chain /\ more.skb = rx_skb_top.skb
  <2>1. rx_skb_top \in Chain
    BY <1>9
  <2>2. rx_skb_top.data \o Content(d) \in Seq(Nat \X Nat)
    BY <2>1, ContentIs DEF Chain
  <2>. QED BY <2>1, <2>2 DEF Chain
<1>10. CASE mode = "skb"
  <2>1. /\ o.slot \in {u, kept} /\ o.top = None /\ o.flag \in BOOLEAN
        /\ \/ o.slot = u /\ o.gone = {}
           \/ o.slot = kept /\ o.gone = {b.skb}
    <3>1. \/ o = Outcome(u, None, ~d.eop, {}, <<>>)
          \/ o = Outcome(u, None, FALSE, {}, <<>>)
          \/ o = Outcome(u, None, FALSE, {}, Content(d))
          \/ o = Outcome(kept, None, FALSE, {b.skb}, Content(d))
      BY <1>10 DEF CleanRx, CleanSkb, u
    <3> DEFINE nf == ~d.eop
    <3>2. nf \in BOOLEAN /\ FALSE \in BOOLEAN
      OBVIOUS
    <3>. HIDE DEF kept, nf
    <3>3. \E flag \in BOOLEAN :
            \/ o = Outcome(u, None, flag, {}, <<>>)
            \/ o = Outcome(u, None, flag, {}, Content(d))
            \/ o = Outcome(kept, None, flag, {b.skb}, Content(d))
      BY <3>1, <3>2 DEF nf
    <3>. QED BY <3>3 DEF Outcome
  <2>. HIDE DEF kept
  <2>. QED BY <1>1, <1>3, <1>4, <1>10, <2>1 DEF Moves, TopSkb, Spare, u
<1>11. CASE mode = "split"
  <2>1. /\ o.slot \in {kept, taken} /\ o.top = None /\ o.flag \in BOOLEAN
        /\ o.gone = {b.skb}
    <3>1. \/ o = Outcome(kept, None, ~d.eop, {b.skb}, <<>>)
          \/ o = Outcome(kept, None, FALSE, {b.skb}, <<>>)
          \/ o = Outcome(kept, None, FALSE, {b.skb}, Content(d))
          \/ o = Outcome(taken, None, FALSE, {b.skb}, Content(d))
      BY <1>11 DEF CleanRx, CleanSplit, u
    <3> DEFINE nf == ~d.eop
    <3>2. nf \in BOOLEAN /\ FALSE \in BOOLEAN
      OBVIOUS
    <3>. HIDE DEF kept, taken, nf
    <3>3. \E flag \in BOOLEAN, s \in {kept, taken}, p \in {<<>>, Content(d)} :
            o = Outcome(s, None, flag, {b.skb}, p)
      BY <3>1, <3>2 DEF nf
    <3>. QED BY <3>3 DEF Outcome
  <2>2. MapsAnew(mode) => b.pdma = "ok"
    BY <1>11 DEF Full
  <2>. HIDE DEF kept, taken
  <2>. QED BY <1>1, <1>4, <1>5, <1>11, <2>1, <2>2 DEF Moves, TopSkb, Spare
<1>12. CASE mode = "jumbo"
  <2>1. /\ o.flag = discarding
        /\ \/ o.slot = u /\ o.top = None
              /\ o.gone = (IF rx_skb_top = None THEN {} ELSE {rx_skb_top.skb})
           \/ o.slot = given /\ o.top = start /\ o.gone = {} /\ rx_skb_top = None
           \/ o.slot = used /\ o.top = more /\ o.gone = {} /\ rx_skb_top # None
           \/ o.slot = used /\ o.top = None /\ o.gone = {rx_skb_top.skb}
              /\ rx_skb_top # None
           \/ o.slot \in {kept, given} /\ o.top = None /\ o.gone = {b.skb}
              /\ rx_skb_top = None
    <3>1. o \in CleanJumbo(d, b)
      BY <1>12 DEF CleanRx
    <3>2. CASE HasError(d)
      BY <3>1, <3>2 DEF CleanJumbo, Outcome, u
    <3>3. CASE ~ HasError(d) /\ ~ d.eop
      <4>1. \/ rx_skb_top = None /\ o = Outcome(given, start, discarding, {}, <<>>)
            \/ rx_skb_top # None /\ o = Outcome(used, more, discarding, {}, <<>>)
        BY <3>1, <3>3 DEF CleanJumbo, u
      <4>. HIDE DEF given, used, start, more
      <4>. QED BY <4>1 DEF Outcome
    <3>4. CASE ~ HasError(d) /\ d.eop
      <4>1. \/ rx_skb_top # None
               /\ o = Outcome(used, None, discarding, {rx_skb_top.skb},
                              rx_skb_top.data \o Content(d))
            \/ rx_skb_top = None
               /\ \E s \in {[u EXCEPT !.skb = None], given} :
                    o = Outcome(s, None, discarding, {b.skb}, Content(d))
        BY <3>1, <3>4 DEF CleanJumbo, u
      <4>2. \/ rx_skb_top # None
               /\ o = Outcome(used, None, discarding, {rx_skb_top.skb},
                              rx_skb_top.data \o Content(d))
            \/ rx_skb_top = None
               /\ \E s \in {kept, given} :
                    o = Outcome(s, None, discarding, {b.skb}, Content(d))
        BY <4>1
      <4>. HIDE DEF given, used, kept
      <4>. QED BY <4>2 DEF Outcome
    <3>. QED BY <3>2, <3>3, <3>4
  <2>. HIDE DEF kept, used, given, start, more
  <2>2. o.slot \in Buffer /\ Spare(mode, o.slot)
    BY <1>3, <1>4, <1>6, <1>7, <1>12, <2>1 DEF Spare, u
  <2>3. o.top \in Chain \cup {None}
    BY <1>8, <1>9, <2>1
  <2>4. Moves(o.slot, b, o.gone, TopSkb(rx_skb_top), TopSkb(o.top))
    BY <1>1, <1>3, <1>4, <1>6, <1>7, <1>8, <1>9, <2>1 DEF Moves, TopSkb, u
  <2>. QED BY <2>1, <2>2, <2>3, <2>4
<1>. QED BY <1>1, <1>10, <1>11, <1>12

(* The three clean_rx routines, as to what goes up: so far is what the     *)
(* chain has.                                                              *)
SoFar == IF rx_skb_top = None THEN <<>> ELSE rx_skb_top.data

LEMMA CleanTells ==
  ASSUME Assumption, mode \in Modes, rx_skb_top \in Chain \cup {None},
         discarding \in BOOLEAN, NEW d \in Descriptor, NEW b, b.skb \in Skb,
         NEW o \in CleanRx(d, b)
  PROVE  /\ mode # "jumbo" =>
              /\ ~d.eop => o.flag
              /\ \/ o.packet = <<>>
                 \/ o.packet = Content(d) /\ ~discarding /\ d.eop /\ d.frame \notin Bad
         /\ mode = "jumbo" =>
              /\ ~d.eop => /\ o.packet = <<>> /\ o.top # None
                           /\ o.top.data = SoFar \o Content(d)
              /\ d.eop => /\ o.top = None
                          /\ \/ o.packet = <<>>
                             \/ o.packet = SoFar \o Content(d) /\ d.frame \notin Bad
<1>1. None \notin Chain /\ mode \in {"skb", "split", "jumbo"} /\ d.eop \in BOOLEAN
  BY DEF Assumption, Descriptor
<1>2. Content(d) \in Seq(Nat \X Nat)
  BY ContentIs
<1>3. HasError(d) <=> d.eop /\ d.frame \in Bad
  BY DEF HasError
<1>4. Tossed(d) <=> discarding \/ ~d.eop
  BY DEF Tossed
<1>5. ASSUME mode # "jumbo"
      PROVE  /\ ~d.eop => o.flag
             /\ \/ o.packet = <<>>
                \/ o.packet = Content(d) /\ ~discarding /\ d.eop /\ d.frame \notin Bad
  <2>1. \/ /\ Tossed(d)
           /\ \E s, g : o = Outcome(s, None, ~d.eop, g, <<>>)
        \/ /\ ~ Tossed(d) /\ HasError(d)
           /\ \E s, g : o = Outcome(s, None, FALSE, g, <<>>)
        \/ /\ ~ Tossed(d) /\ ~ HasError(d)
           /\ \E s, g : o = Outcome(s, None, FALSE, g, Content(d))
    <3>1. CASE mode = "skb"
      <4>1. o \in CleanSkb(d, b)
        BY <3>1 DEF CleanRx
      <4>. QED BY <4>1 DEF CleanSkb
    <3>2. CASE mode = "split"
      <4>1. o \in CleanSplit(d, b)
        BY <3>2 DEF CleanRx
      <4>. QED BY <4>1 DEF CleanSplit
    <3>. QED BY <1>1, <1>5, <3>1, <3>2
  <2>2. CASE Tossed(d)
    <3>1. PICK s, g : o = Outcome(s, None, ~d.eop, g, <<>>)
      BY <2>1, <2>2
    <3>2. o.packet = <<>>
      BY <3>1 DEF Outcome
    <3>3. o.flag = ~d.eop
      BY <3>1 DEF Outcome
    <3>. QED BY <3>2, <3>3
  <2>3. CASE ~ Tossed(d)
    <3>1. o.packet = <<>> \/ (o.packet = Content(d) /\ ~ HasError(d))
      BY <2>1, <2>3 DEF Outcome
    <3>. QED BY <1>3, <1>4, <2>3, <3>1
  <2>. QED BY <2>2, <2>3
<1>6. ASSUME mode = "jumbo"
      PROVE  /\ ~d.eop => /\ o.packet = <<>> /\ o.top # None
                          /\ o.top.data = SoFar \o Content(d)
             /\ d.eop => /\ o.top = None
                         /\ \/ o.packet = <<>>
                            \/ o.packet = SoFar \o Content(d) /\ d.frame \notin Bad
  <2>1. o \in CleanJumbo(d, b)
    BY <1>6 DEF CleanRx
  <2>2. CASE HasError(d)
    BY <1>3, <2>1, <2>2 DEF CleanJumbo, Outcome
  <2>3. CASE ~ HasError(d) /\ ~d.eop /\ rx_skb_top = None
    <3> DEFINE start == [skb |-> b.skb, data |-> Content(d)]
    <3>1. o.packet = <<>> /\ o.top = start
      BY <2>1, <2>3 DEF CleanJumbo, Outcome
    <3>2. start \in Chain /\ start.data = Content(d)
      BY <1>2 DEF Chain
    <3>3. <<>> \o Content(d) = Content(d)
      BY <1>2
    <3>. HIDE DEF start
    <3>. QED BY <1>1, <2>3, <3>1, <3>2, <3>3 DEF SoFar
  <2>4. CASE ~ HasError(d) /\ ~d.eop /\ rx_skb_top # None
    <3> DEFINE more == [rx_skb_top EXCEPT !.data = @ \o Content(d)]
    <3>1. o.packet = <<>> /\ o.top = more
      BY <2>1, <2>4 DEF CleanJumbo, Outcome
    <3>2. rx_skb_top \in Chain
      BY <2>4
    <3>3. rx_skb_top.data \o Content(d) \in Seq(Nat \X Nat)
      BY <1>2, <3>2 DEF Chain
    <3>4. more \in Chain /\ more.data = rx_skb_top.data \o Content(d)
      BY <3>2, <3>3 DEF Chain
    <3>. HIDE DEF more
    <3>. QED BY <1>1, <2>4, <3>1, <3>4 DEF SoFar
  <2>5. CASE ~ HasError(d) /\ d.eop
    <3>1. <<>> \o Content(d) = Content(d)
      BY <1>2
    <3>2. CASE rx_skb_top # None
      <4>1. o = Outcome([Unmapped(b) EXCEPT !.page = FALSE], None, discarding,
                        {rx_skb_top.skb}, rx_skb_top.data \o Content(d))
        BY <2>1, <2>5, <3>2 DEF CleanJumbo
      <4>2. o.top = None /\ o.packet = rx_skb_top.data \o Content(d)
        BY <4>1 DEF Outcome
      <4>. QED BY <1>3, <2>5, <3>2, <4>2 DEF SoFar
    <3>3. CASE rx_skb_top = None
      <4>1. \E s : o = Outcome(s, None, discarding, {b.skb}, Content(d))
        BY <2>1, <2>5, <3>3 DEF CleanJumbo
      <4>2. o.top = None /\ o.packet = Content(d)
        BY <4>1 DEF Outcome
      <4>. QED BY <1>3, <2>5, <3>1, <3>3, <4>2 DEF SoFar
    <3>. QED BY <3>2, <3>3
  <2>. QED BY <2>2, <2>3, <2>4, <2>5
<1>. QED BY <1>5, <1>6

(* The parts of a frame, one after the other. *)
LEMMA PartsOfIs ==
  ASSUME NEW f \in Nat, NEW n \in Nat
  PROVE  /\ PartsOf(f, 0) = <<>>
         /\ PartsOf(f, n) \in Seq(Nat \X Nat) /\ Len(PartsOf(f, n)) = n
         /\ PartsOf(f, n) \o << <<f, n + 1>> >> = PartsOf(f, n + 1)
<1>1. PartsOf(f, 0) = <<>>
  BY DEF PartsOf
<1>2. ASSUME NEW m \in Nat
      PROVE  /\ PartsOf(f, m) \in Seq(Nat \X Nat) /\ Len(PartsOf(f, m)) = m
             /\ \A k \in 1 .. m : PartsOf(f, m)[k] = <<f, k>>
  BY <1>2 DEF PartsOf
<1>3. << <<f, n + 1>> >> \in Seq(Nat \X Nat) /\ Len(<< <<f, n + 1>> >>) = 1
      /\ << <<f, n + 1>> >>[1] = <<f, n + 1>>
  OBVIOUS
<1> DEFINE p == PartsOf(f, n)
           c == << <<f, n + 1>> >>
<1>4. p \in Seq(Nat \X Nat) /\ Len(p) = n /\ \A k \in 1 .. n : p[k] = <<f, k>>
  BY <1>2
<1>. HIDE DEF p, c
<1>5. /\ p \o c \in Seq(Nat \X Nat) /\ Len(p \o c) = n + 1
      /\ \A k \in 1 .. n + 1 : (p \o c)[k] = IF k <= n THEN p[k] ELSE c[k - n]
  BY <1>3, <1>4, ConcatProperties DEF c
<1>6. p \o c = PartsOf(f, n + 1)
  <2> DEFINE t == PartsOf(f, n + 1)
  <2>1. t \in Seq(Nat \X Nat) /\ Len(t) = n + 1 /\ \A k \in 1 .. n + 1 : t[k] = <<f, k>>
    <3>1. n + 1 \in Nat
      OBVIOUS
    <3>. QED BY <1>2, <3>1
  <2>2. ASSUME NEW k \in 1 .. n + 1 PROVE (p \o c)[k] = t[k]
    <3>1. CASE k <= n
      <4>1. k \in 1 .. n
        BY <3>1
      <4>. QED BY <1>4, <1>5, <2>1, <3>1, <4>1
    <3>2. CASE ~ (k <= n)
      <4>1. k = n + 1 /\ k - n = 1
        BY <3>2
      <4>2. (p \o c)[k] = c[k - n] /\ t[k] = <<f, k>>
        BY <1>5, <2>1, <3>2
      <4>. QED BY <1>3, <4>1, <4>2 DEF c
    <3>. QED BY <3>1, <3>2
  <2>. HIDE DEF t
  <2>3. p \o c = t
    BY <1>5, <2>1, <2>2, SeqEqual
  <2>. QED BY <2>3 DEF t
<1>. QED BY <1>1, <1>2, <1>6 DEF p, c

(* One step of the loop, as to the descriptors: the next one is first.     *)
LEMMA CleanedWritten ==
  ASSUME Assumption, IInv, NEW c \in Slot, Low = c, Low' = After(c), desc[c].dd,
         desc' = MarkRead(c), head' = head, frame' = frame, part' = part
  PROVE  /\ Written' /\ desc' \in [Slot -> Descriptor]
         /\ c # head /\ NextFrame = desc[c].frame /\ NextPart = desc[c].part
         /\ desc[c].frame \in Frame /\ desc[c].part \in 1 .. Parts[desc[c].frame]
         /\ desc[c].eop <=> desc[c].part = Parts[desc[c].frame]
         /\ Follows(desc[c].frame, desc[c].part, desc[c].eop, NextFrame', NextPart')
<1>1. head \in Slot /\ desc \in [Slot -> Descriptor] /\ Count \in Nat
  BY Distances DEF IInv, Types, Descriptor
<1>2. c # head /\ Dist(c, c) = 0 /\ Dist(c, head) \in Nat \ {0} /\ Dist(c, head) < Count
  BY <1>1, Distances DEF IInv, Written, Off
<1>3. /\ desc'[c] = [desc[c] EXCEPT !.dd = FALSE]
      /\ \A i \in Slot : i # c => desc'[i] = desc[i]
  BY <1>1 DEF MarkRead
<1>4. desc' \in [Slot -> Descriptor]
  BY <1>1 DEF MarkRead, Descriptor
<1>5. \A i \in Slot : Dist(After(c), i) = IF i = c THEN Count - 1 ELSE Dist(c, i) - 1
  BY OneFurther
<1>6. After(c) \in Slot
  BY AfterIs
<1>7. ASSUME NEW i \in Slot
      PROVE  desc'[i].dd <=> Dist(After(c), i) < Dist(After(c), head)
  <2>1. CASE i = c
    <3>1. ~ desc'[i].dd
      BY <1>1, <1>3, <2>1 DEF Descriptor
    <3>. QED BY <1>1, <1>2, <1>5, <2>1, <3>1
  <2>2. CASE i # c
    <3>1. desc[i].dd <=> Dist(c, i) < Dist(c, head)
      BY DEF IInv, Written, Off
    <3>2. Dist(c, i) \in Nat
      BY Distances
    <3>. QED BY <1>1, <1>2, <1>3, <1>5, <2>2, <3>1, <3>2
  <2>. QED BY <2>1, <2>2
<1>8. ASSUME NEW i \in Slot, desc[i].dd
      PROVE  /\ desc[i].frame \in Frame /\ desc[i].part \in 1 .. Parts[desc[i].frame]
             /\ desc[i].eop <=> desc[i].part = Parts[desc[i].frame]
             /\ desc[i].frame <= frame
             /\ IF After(i) = head
                THEN Follows(desc[i].frame, desc[i].part, desc[i].eop, frame, part)
                ELSE Follows(desc[i].frame, desc[i].part, desc[i].eop,
                             desc[After(i)].frame, desc[After(i)].part)
  BY <1>8 DEF IInv, Written
<1>9. ASSUME NEW i \in Slot, desc'[i].dd
      PROVE  /\ i # c /\ desc'[i] = desc[i] /\ desc[i].dd
             /\ After(i) # head => desc'[After(i)] = desc[After(i)]
  <2>1. i # c /\ desc'[i] = desc[i]
    BY <1>1, <1>3, <1>9 DEF Descriptor
  <2>2. desc[i].dd
    BY <1>9, <2>1
  <2>3. Dist(c, i) + 1 < Count
    <3>1. Dist(c, i) < Dist(c, head)
      BY <2>2 DEF IInv, Written, Off
    <3>2. Dist(c, i) \in Nat
      BY Distances
    <3>. QED BY <1>1, <1>2, <3>1, <3>2
  <2>4. After(i) # c /\ After(i) \in Slot
    BY <2>3, AfterIs
  <2>. QED BY <1>3, <2>1, <2>2, <2>4
<1>10. Written'
  <2>1. \A i \in Slot : desc'[i].dd =>
          /\ desc'[i].frame \in Frame /\ desc'[i].part \in 1 .. Parts[desc'[i].frame]
          /\ desc'[i].eop <=> desc'[i].part = Parts[desc'[i].frame]
          /\ desc'[i].frame <= frame
          /\ IF After(i) = head
             THEN Follows(desc'[i].frame, desc'[i].part, desc'[i].eop, frame, part)
             ELSE Follows(desc'[i].frame, desc'[i].part, desc'[i].eop,
                          desc'[After(i)].frame, desc'[After(i)].part)
    BY <1>8, <1>9
  <2>. QED BY <1>7, <2>1 DEF Written, Off
<1>11. NextFrame = desc[c].frame /\ NextPart = desc[c].part
  BY <1>2 DEF NextFrame, NextPart
<1>12. Follows(desc[c].frame, desc[c].part, desc[c].eop, NextFrame', NextPart')
  <2>1. CASE After(c) = head
    BY <1>8, <2>1 DEF NextFrame, NextPart
  <2>2. CASE After(c) # head
    <3>1. After(c) # c
      BY <1>1, <1>2, <2>2, <1>5, <1>6, Distances DEF Assumption, After, Slot
    <3>2. desc'[After(c)] = desc[After(c)]
      BY <1>3, <1>6, <3>1
    <3>. QED BY <1>8, <2>2, <3>2 DEF NextFrame, NextPart
  <2>. QED BY <2>1, <2>2
<1>. QED BY <1>2, <1>4, <1>8, <1>10, <1>11, <1>12

(* As to what goes up: the end of a frame whose parts have all come. *)
LEMMA CleanedPacket ==
  ASSUME Assumption, IInv, NEW d \in Descriptor, NEW b, b.skb \in Skb,
         NEW o \in CleanRx(d, b), NextFrame = d.frame, NextPart = d.part,
         d.frame \in Frame, d.part \in 1 .. Parts[d.frame],
         d.eop <=> d.part = Parts[d.frame]
  PROVE  /\ \/ o.packet = <<>>
            \/ /\ d.eop /\ d.frame \notin Bad
               /\ o.packet = PartsOf(d.frame, Parts[d.frame])
         /\ mode # "jumbo" /\ ~d.eop => o.flag
         /\ mode = "jumbo" => IF d.eop THEN o.top = None
                              ELSE o.top # None /\ o.top.data = PartsOf(d.frame, d.part)
<1>1. d.frame \in Nat /\ d.part \in Nat \ {0} /\ d.part - 1 \in Nat /\ d.eop \in BOOLEAN
  BY DEF Frame, Assumption, Descriptor
<1>2. Content(d) = << <<d.frame, (d.part - 1) + 1>> >> /\ (d.part - 1) + 1 = d.part
  BY <1>1 DEF Content
<1>3. PartsOf(d.frame, d.part - 1) \o Content(d) = PartsOf(d.frame, d.part)
  BY <1>1, <1>2, PartsOfIs
<1>4. CASE mode # "jumbo"
  <2>1. /\ ~d.eop => o.flag
        /\ \/ o.packet = <<>>
           \/ o.packet = Content(d) /\ ~discarding /\ d.eop /\ d.frame \notin Bad
    BY <1>4, CleanTells DEF IInv, Types
  <2>2. ASSUME ~discarding PROVE d.part = 1
    BY <1>1, <1>4, <2>2 DEF IInv, Between
  <2>3. ASSUME d.part = 1 PROVE Content(d) = PartsOf(d.frame, d.part)
    <3>1. PartsOf(d.frame, d.part - 1) = <<>>
      <4>1. d.part - 1 = 0
        BY <2>3
      <4>. QED BY <1>1, <4>1, PartsOfIs
    <3>2. <<>> \o Content(d) = Content(d)
      BY ContentIs
    <3>. QED BY <1>3, <3>1, <3>2
  <2>. QED BY <1>4, <2>1, <2>2, <2>3
<1>5. CASE mode = "jumbo"
  <2>1. SoFar = PartsOf(d.frame, d.part - 1)
    <3>1. CASE rx_skb_top = None
      <4>1. d.part - 1 = 0
        BY <1>5, <3>1 DEF IInv, Between
      <4>. QED BY <1>1, <3>1, <4>1, PartsOfIs DEF SoFar
    <3>2. CASE rx_skb_top # None
      BY <1>5, <3>2 DEF IInv, Between, SoFar
    <3>. QED BY <3>1, <3>2
  <2>2. /\ ~d.eop => /\ o.packet = <<>> /\ o.top # None
                     /\ o.top.data = SoFar \o Content(d)
        /\ d.eop => /\ o.top = None
                    /\ \/ o.packet = <<>>
                       \/ o.packet = SoFar \o Content(d) /\ d.frame \notin Bad
    BY <1>5, CleanTells DEF IInv, Types
  <2>. QED BY <1>3, <1>5, <2>1, <2>2
<1>. QED BY <1>4, <1>5

(* A packet after those that went up before. *)
LEMMA UpWhole ==
  ASSUME Assumption, NEW f \in Frame, f \notin Bad, up \in Seq(Seq(Nat \X Nat)), WholeFrames,
         up # <<>> => up[Len(up)][1][1] < f, up' = Append(up, PartsOf(f, Parts[f]))
  PROVE  /\ up' \in Seq(Seq(Nat \X Nat)) /\ WholeFrames' /\ up' # <<>>
         /\ up'[Len(up')][1][1] = f
<1> DEFINE p == PartsOf(f, Parts[f])
<1>1. Parts[f] \in Nat \ {0} /\ f \in Nat
  BY DEF Assumption, Frame
<1>2. p \in Seq(Nat \X Nat) /\ p[1][1] = f /\ p = [k \in 1 .. Parts[f] |-> <<f, k>>]
  <2>1. p = [k \in 1 .. Parts[f] |-> <<f, k>>]
    BY DEF PartsOf
  <2>2. p \in Seq(Nat \X Nat)
    BY <1>1, PartsOfIs
  <2>3. 1 \in 1 .. Parts[f]
    BY <1>1
  <2>. HIDE DEF p
  <2>. QED BY <2>1, <2>2, <2>3
<1>. HIDE DEF p
<1>3. /\ up' \in Seq(Seq(Nat \X Nat)) /\ up' # <<>> /\ Len(up') = Len(up) + 1
      /\ \A n \in 1 .. Len(up) : up'[n] = up[n]
      /\ up'[Len(up) + 1] = p /\ DOMAIN up' = 1 .. Len(up) + 1 /\ Len(up) \in Nat
      /\ DOMAIN up = 1 .. Len(up)
  <2>1. up' = Append(up, p)
    BY DEF p
  <2>. QED BY <1>2, <2>1, AppendProperties, LenProperties
<1>4. ASSUME NEW n \in 1 .. Len(up) + 1
      PROVE  LET g == up'[n][1][1] IN
             /\ up'[n] = [k \in 1 .. Parts[g] |-> <<g, k>>]
             /\ g \notin Bad
             /\ n > 1 => g > up'[n - 1][1][1]
  <2>1. CASE n \in 1 .. Len(up)
    <3>1. up'[n] = up[n] /\ (n > 1 => up'[n - 1] = up[n - 1])
      BY <1>3, <2>1
    <3>. QED BY <1>3, <2>1, <3>1, ZenonT(30) DEF WholeFrames
  <2>2. CASE n = Len(up) + 1
    <3>1. up'[n][1][1] = f
      BY <1>2, <1>3, <2>2
    <3>2. ASSUME n > 1 PROVE up'[n - 1][1][1] < f
      <4>1. n - 1 = Len(up) /\ Len(up) \in 1 .. Len(up) /\ up # <<>>
        BY <1>3, <2>2, <3>2
      <4>. QED BY <1>3, <4>1
    <3>3. up'[n] = [k \in 1 .. Parts[f] |-> <<f, k>>]
      BY <1>2, <1>3, <2>2
    <3>4. n > 1 => f > up'[n - 1][1][1]
      BY <3>2
    <3>. QED BY <3>1, <3>3, <3>4
  <2>3. n \in 1 .. Len(up) \/ n = Len(up) + 1
    BY <1>3
  <2>. QED BY <2>1, <2>2, <2>3
<1>5. WholeFrames'
  BY <1>3, <1>4 DEF WholeFrames
<1>. QED BY <1>2, <1>3, <1>5
-----------------------------------------------------------------------------
(* One step of the loop: a slot is cleaned, and the ring refilled when     *)
(* enough of them are.                                                     *)
LEMMA PollCleanKeeps == ASSUME Assumption, IInv, PollClean PROVE IInv'
<1> DEFINE c == poll.i
           d == desc[c]
           b == buffer[c]
           top == TopSkb(rx_skb_top)
<1>1. PICK o \in CleanRx(d, b) :
        LET r == [Current EXCEPT !.buffer[c] = o.slot, !.live = live \ o.gone]
            n == poll.cleaned + 1
        IN /\ rx_skb_top' = o.top /\ discarding' = o.flag
           /\ up' = IF o.packet = <<>> THEN up ELSE Append(up, o.packet)
           /\ Refill(r, IF n >= Write THEN n ELSE 0)
           /\ poll' = [poll EXCEPT !.i = After(c), !.work = @ + 1,
                                   !.cleaned = IF n >= Write THEN 0 ELSE n]
  BY DEF PollClean
<1> DEFINE r == [Current EXCEPT !.buffer[c] = o.slot, !.live = live \ o.gone]
           n == poll.cleaned + 1
           m == IF n >= Write THEN n ELSE 0
<1>2. /\ poll.pc = "scan" /\ d.dd /\ desc' = MarkRead(c)
      /\ UNCHANGED <<mode, next_to_clean, head, frame, part, resets>>
  BY DEF PollClean
<1>3. /\ poll \in [pc : {"idle", "scan"}, i : Slot, cleaned : Nat, work : Nat]
      /\ mode \in Modes /\ desc \in [Slot -> Descriptor] /\ head \in Slot
      /\ rx_skb_top \in Chain \cup {None} /\ discarding \in BOOLEAN
  BY DEF IInv, Types, Descriptor
<1>4. /\ poll'.pc = "scan" /\ poll'.i = After(c)
      /\ poll'.cleaned = (IF n >= Write THEN 0 ELSE n)
      /\ c \in Slot /\ poll.cleaned \in Nat /\ Write \in Nat
  BY <1>1, <1>2, <1>3 DEF Assumption
<1>5. Low = c /\ Low' = After(c) /\ After(c) \in Slot
  BY <1>2, <1>4, AfterIs DEF Low
<1>6. /\ Written' /\ desc' \in [Slot -> Descriptor]
      /\ c # head /\ NextFrame = d.frame /\ NextPart = d.part
      /\ d.frame \in Frame /\ d.part \in 1 .. Parts[d.frame]
      /\ d.eop <=> d.part = Parts[d.frame]
      /\ Follows(d.frame, d.part, d.eop, NextFrame', NextPart')
  <2>. HIDE DEF c
  <2>. QED BY <1>2, <1>4, <1>5, CleanedWritten
<1>7. /\ RingIs(mode, Current, c, top) /\ tail \in Slot /\ next_to_use \in Slot
      /\ buffer \in [Slot -> Buffer] /\ live \in SUBSET Skb /\ Accounted(buffer, live, top)
  BY <1>5 DEF IInv, Ring, RingIs, Current
<1>8. /\ Dist(c, head) <= Dist(c, tail) /\ Dist(c, tail) <= Dist(c, next_to_use)
      /\ Dist(c, next_to_use) + poll.cleaned < Count
      /\ Dist(c, head) \in Nat \ {0} /\ Dist(c, tail) \in Nat
      /\ Dist(c, next_to_use) \in Nat /\ Dist(c, c) = 0 /\ Count \in Nat
  <2>1. Dist(c, head) # Dist(c, c)
    BY <1>3, <1>4, <1>6, Distances
  <2>. QED BY <1>2, <1>3, <1>4, <1>5, <1>7, <2>1, Distances DEF IInv, Order, Off
<1>9. b \in Buffer /\ Full(mode, b) /\ b.skb \in Skb /\ d \in Descriptor
  <2>1. b \in Buffer /\ Full(mode, b)
    BY <1>4, <1>7, <1>8 DEF RingIs, Current
  <2>. QED BY <1>3, <1>4, <2>1 DEF Full, Buffer
<1>10. /\ o.slot \in Buffer /\ Spare(mode, o.slot)
       /\ Moves(o.slot, b, o.gone, top, TopSkb(o.top))
       /\ o.top \in Chain \cup {None} /\ o.flag \in BOOLEAN
  <2>1. mode # "jumbo" => rx_skb_top = None
    BY DEF IInv, Between
  <2>. HIDE DEF b, d
  <2>. QED BY <1>1, <1>3, <1>9, <2>1, CleanMoves
<1>11. /\ r.buffer = [buffer EXCEPT ![c] = o.slot] /\ r.live = live \ o.gone
       /\ r.use = next_to_use /\ r.tail = tail
  BY DEF Current
<1>12. \A i \in Slot :
         Dist(After(c), i) = IF i = c THEN Count - 1 ELSE Dist(c, i) - 1
  BY <1>4, OneFurther
<1>13. /\ Dist(After(c), head) = Dist(c, head) - 1
       /\ Dist(After(c), tail) = Dist(c, tail) - 1
       /\ Dist(After(c), next_to_use) = Dist(c, next_to_use) - 1
  BY <1>3, <1>7, <1>8, <1>12
<1>14. RingIs(mode, r, After(c), TopSkb(o.top))
  <2>1. Accounted(r.buffer, r.live, TopSkb(o.top))
    <3>1. b.skb # None
      BY <1>9 DEF Full
    <3>. HIDE DEF r, c, top
    <3>2. Accounted([buffer EXCEPT ![c] = o.slot], live \ o.gone, TopSkb(o.top))
      BY <1>4, <1>7, <1>10, <3>1, MovesAccounted
    <3>. QED BY <1>11, <3>2
  <2>2. r.buffer \in [Slot -> Buffer] /\ r.live \subseteq Skb
    BY <1>7, <1>10, <1>11
  <2>3. ASSUME NEW i \in Slot
        PROVE  IF Dist(After(c), i) < Dist(After(c), next_to_use)
               THEN Full(mode, r.buffer[i]) ELSE Spare(mode, r.buffer[i])
    <3>1. CASE i = c
      <4>1. r.buffer[i] = o.slot
        <5>. HIDE DEF r, c
        <5>. QED BY <1>4, <1>7, <1>11, <3>1
      <4>2. ~ (Dist(After(c), i) < Dist(After(c), next_to_use))
        BY <1>4, <1>8, <1>12, <1>13, <3>1
      <4>. QED BY <1>10, <4>1, <4>2
    <3>2. CASE i # c
      <4>1. r.buffer[i] = buffer[i]
        BY <1>7, <1>11, <3>2
      <4>2. IF Dist(c, i) < Dist(c, next_to_use) THEN Full(mode, buffer[i])
                                                 ELSE Spare(mode, buffer[i])
        BY <1>7 DEF RingIs, Current
      <4>3. Dist(c, i) \in Nat
        BY <1>4, Distances
      <4>4. Dist(After(c), i) < Dist(After(c), next_to_use)
              <=> Dist(c, i) < Dist(c, next_to_use)
        BY <1>8, <1>12, <1>13, <3>2, <4>3
      <4>. QED BY <4>1, <4>2, <4>4
    <3>. QED BY <3>1, <3>2
  <2>. HIDE DEF r
  <2>. QED BY <1>7, <1>11, <2>1, <2>2, <2>3 DEF RingIs
<1>15. m \in Nat /\ Dist(After(c), next_to_use) + m < Count
  BY <1>4, <1>8, <1>13
<1>16. PICK s : /\ buffer' = s.buffer /\ live' = s.live
                /\ next_to_use' = s.use /\ tail' = s.tail
                /\ RingIs(mode, s, After(c), TopSkb(o.top))
                /\ Dist(After(c), s.use) <= Dist(After(c), next_to_use) + m
                /\ Dist(After(c), tail) <= Dist(After(c), s.tail)
                /\ Dist(After(c), s.tail) <= Dist(After(c), s.use)
  <2>1. Refill(r, m)
    BY <1>1
  <2>2. \A x, y \in TopSkb(o.top) : x = y
    BY DEF TopSkb
  <2>3. Dist(After(c), r.tail) <= Dist(After(c), r.use)
    BY <1>8, <1>11, <1>13
  <2>. HIDE DEF r, m
  <2>4. \E s : /\ buffer' = s.buffer /\ live' = s.live
               /\ next_to_use' = s.use /\ tail' = s.tail
               /\ RingIs(mode, s, After(c), TopSkb(o.top))
               /\ Dist(After(c), s.use) <= Dist(After(c), r.use) + m
               /\ Dist(After(c), r.tail) <= Dist(After(c), s.tail)
               /\ Dist(After(c), s.tail) <= Dist(After(c), s.use)
    BY <1>3, <1>5, <1>11, <1>14, <1>15, <2>1, <2>2, <2>3, RefillIs
  <2>. QED BY <1>11, <2>4
<1>17. Types'
  <2>1. poll' \in [pc : {"idle", "scan"}, i : Slot, cleaned : Nat, work : Nat]
    <3> DEFINE left == IF n >= Write THEN 0 ELSE n
    <3>1. left \in Nat /\ poll.work + 1 \in Nat
      BY <1>3, <1>4
    <3>2. poll' = [poll EXCEPT !.i = After(c), !.work = poll.work + 1, !.cleaned = left]
      BY <1>1
    <3>. HIDE DEF left, c
    <3>. QED BY <1>3, <1>5, <3>1, <3>2
  <2>. QED BY <1>1, <1>2, <1>6, <1>10, <2>1 DEF IInv, Types, Descriptor
<1>18. Order'
  <2>1. s.tail \in Slot /\ s.use \in Slot
    BY <1>16 DEF RingIs
  <2>2. Dist(After(c), s.tail) \in Nat /\ Dist(After(c), s.use) \in Nat
        /\ Dist(After(c), s.use) < Count
    BY <1>5, <2>1, Distances
  <2>3. Dist(After(c), head) <= Dist(After(c), s.tail)
    BY <1>8, <1>13, <1>16, <2>2
  <2>4. Dist(After(c), s.use) + poll'.cleaned < Count
    BY <1>4, <1>8, <1>13, <1>16, <2>2
  <2>. QED BY <1>2, <1>5, <1>16, <2>3, <2>4 DEF Order, Off
<1>19. Ring'
  <2>1. RingIs(mode, Current', After(c), TopSkb(o.top))
    BY <1>16 DEF RingIs, Current
  <2>. QED BY <1>1, <1>2, <1>5, <2>1 DEF Ring, RingIs, TopSkb, Full, Spare, MapsAnew
<1>20. Between'
  <2>1. /\ \/ o.packet = <<>>
           \/ /\ d.eop /\ d.frame \notin Bad
              /\ o.packet = PartsOf(d.frame, Parts[d.frame])
        /\ mode # "jumbo" /\ ~d.eop => o.flag
        /\ mode = "jumbo" => IF d.eop THEN o.top = None
                             ELSE o.top # None /\ o.top.data = PartsOf(d.frame, d.part)
    <3>. HIDE DEF b, d
    <3>. QED BY <1>1, <1>6, <1>9, CleanedPacket
  <2>2. d.frame \in Nat /\ d.part \in Nat \ {0} /\ d.eop \in BOOLEAN
    BY <1>6, <1>9 DEF Frame, Assumption, Descriptor
  <2>3. mode' = mode /\ rx_skb_top' = o.top /\ discarding' = o.flag
    BY <1>1, <1>2
  <2>. HIDE DEF d
  <2>4. mode = "jumbo" => IF rx_skb_top' = None THEN NextPart' = 1
                          ELSE NextPart' > 1
                               /\ rx_skb_top'.data = PartsOf(NextFrame', NextPart' - 1)
    BY <1>6, <2>1, <2>2, <2>3 DEF Follows
  <2>5. mode # "jumbo" => rx_skb_top' = None /\ (NextPart' > 1 => discarding')
    <3>1. ASSUME mode # "jumbo" PROVE o.top = None
      <4>1. rx_skb_top = None /\ mode \in {"skb", "split"}
        BY <1>3, <3>1 DEF IInv, Between, Assumption
      <4>. QED BY <1>1, <3>1, <4>1 DEF CleanRx, CleanSkb, CleanSplit, Outcome
    <3>. QED BY <1>6, <2>1, <2>2, <2>3, <3>1 DEF Follows
  <2>6. up \in Seq(Seq(Nat \X Nat)) /\ WholeFrames
        /\ (up # <<>> => up[Len(up)][1][1] \in 1 .. d.frame - 1)
    BY <1>6 DEF IInv, Between
  <2>7. NextFrame' \in Nat
    <3>1. head \in Slot /\ After(c) \in Slot /\ frame \in Nat /\ Frames \in Nat
      BY <1>3, <1>5 DEF IInv, Types, Assumption
    <3>. QED BY <1>2, <1>5, <1>6, <3>1 DEF NextFrame, Descriptor
  <2>8. d.frame <= NextFrame' /\ (d.eop => d.frame < NextFrame')
    BY <1>6, <2>2, <2>7 DEF Follows
  <2>9. CASE o.packet = <<>>
    <3>1. up' = up
      BY <1>1, <2>9
    <3>2. up # <<>> => up[Len(up)][1][1] \in 1 .. NextFrame' - 1
      BY <2>2, <2>6, <2>7, <2>8, SMTT(30)
    <3>. QED BY <2>3, <2>4, <2>5, <2>6, <3>1, <3>2 DEF Between, WholeFrames
  <2>10. CASE o.packet # <<>>
    <3>1. up' = Append(up, PartsOf(d.frame, Parts[d.frame])) /\ d.frame \notin Bad /\ d.eop
      BY <1>1, <2>1, <2>10
    <3>2. up # <<>> => up[Len(up)][1][1] < d.frame
      BY <2>2, <2>6
    <3>3. /\ up' \in Seq(Seq(Nat \X Nat)) /\ WholeFrames' /\ up' # <<>>
          /\ up'[Len(up')][1][1] = d.frame
      BY <1>6, <2>6, <3>1, <3>2, UpWhole
    <3>4. d.frame \in 1 .. NextFrame' - 1
      BY <1>6, <2>2, <2>7, <2>8, <3>1 DEF Frame
    <3>. QED BY <2>3, <2>4, <2>5, <3>3, <3>4 DEF Between
  <2>. QED BY <2>9, <2>10
<1>. QED BY <1>6, <1>17, <1>18, <1>19, <1>20 DEF IInv
-----------------------------------------------------------------------------
LEMMA Step == ASSUME Assumption, IInv, [Next]_vars PROVE IInv'
<1>1. CASE Next
  BY <1>1, HwWriteKeeps, PollStartKeeps, PollCleanKeeps, PollEndKeeps, ResetKeeps
  DEF Next
<1>2. CASE UNCHANGED vars
  <2>1. UNCHANGED <<mode, next_to_use, next_to_clean, buffer, desc, rx_skb_top, discarding,
                    head, tail, frame, part, poll, live, up>>
    BY <1>2 DEF vars, ring, chain, hw
  <2>2. Low' = Low /\ Current' = Current
    BY <2>1 DEF Low, Current
  <2>3. NextFrame' = NextFrame /\ NextPart' = NextPart
    BY <2>1, <2>2 DEF NextFrame, NextPart
  <2>4. Ring'
    BY <2>1, <2>2 DEF IInv, Ring, RingIs, TopSkb, Full, Spare, MapsAnew
  <2>5. Types' /\ Order' /\ Written'
    BY <2>1, <2>2 DEF IInv, Types, Order, Written, Off
  <2>6. Between'
    BY <2>1, <2>3 DEF IInv, Between, WholeFrames
  <2>. QED BY <2>4, <2>5, <2>6 DEF IInv
<1>. QED BY <1>1, <1>2

LEMMA Invariance == ASSUME Assumption PROVE Spec => []IInv
BY Start, Step, PTL DEF Spec

(* The indices are places on the ring, and the buffers what they should be. *)
THEOREM TypeCorrectness == ASSUME Assumption PROVE Spec => []TypeOK
<1>1. ASSUME IInv PROVE TypeOK
  <2>1. poll.i \in Slot
    BY <1>1 DEF IInv, Types
  <2>2. \A i \in Slot : buffer[i].skb \in Skb \cup {None}
    BY <1>1 DEF IInv, Ring, RingIs, Current, Buffer
  <2>. QED BY <1>1, <2>1, <2>2 DEF IInv, Types, Ring, RingIs, Current, TypeOK
<1>. QED BY <1>1, Invariance, PTL

LEMMA Mapped ==
  ASSUME Assumption, IInv, MayNotMap => Modes \subseteq {"skb"} PROVE WritesAreMapped
<1>1. MapsAnew(mode) /\ Low \in Slot /\ head \in Slot /\ tail \in Slot
      /\ next_to_use \in Slot
  BY DEF IInv, Types, Ring, RingIs, Current, MapsAnew, Low
<1>2. Dist(Low, head) <= Dist(Low, tail) /\ Dist(Low, tail) <= Dist(Low, next_to_use)
  BY DEF IInv, Order, Off
<1>3. ASSUME NEW i \in Span(head, tail)
      PROVE  /\ buffer[i].dma = "ok" /\ ~desc[i].dd /\ buffer[i].skb # None
             /\ mode = "split" => buffer[i].pdma = "ok"
  <2>1. i \in Slot /\ Dist(Low, head) <= Dist(Low, i) /\ Dist(Low, i) < Dist(Low, tail)
    BY <1>1, <1>2, <1>3, SpanIs
  <2>2. Dist(Low, i) < Dist(Low, next_to_use) /\ ~ (Dist(Low, i) < Dist(Low, head))
    BY <1>1, <1>2, <2>1, Distances
  <2>3. Full(mode, buffer[i])
    BY <2>1, <2>2 DEF IInv, Ring, RingIs, Current
  <2>4. ~desc[i].dd
    BY <2>1, <2>2 DEF IInv, Written, Off
  <2>. QED BY <1>1, <2>3, <2>4 DEF Full
<1>. QED BY <1>3 DEF WritesAreMapped

(***************************************************************************)
(* What the controller may write into is mapped and has been read, however *)
(* polls, refills that fail and resets come between: if buffers can always *)
(* be mapped, or e1000_alloc_rx_buffers alone, which maps a buffer anew    *)
(* after an error, fills the ring.                                         *)
(***************************************************************************)
THEOREM MappedWrites ==
  ASSUME Assumption, MayNotMap => Modes \subseteq {"skb"}
  PROVE  Spec => []WritesAreMapped
BY Mapped, Invariance, PTL

LEMMA Owned == ASSUME IInv PROVE SkbsAccounted
BY DEF IInv, Ring, RingIs, Current, Accounted, TopSkb, SkbsAccounted

(***************************************************************************)
(* The alloc_rx_buf and clean_rx routines neither leak an skb nor give one *)
(* away that is still in use, also when allocations and mappings fail.     *)
(***************************************************************************)
THEOREM Ownership == ASSUME Assumption PROVE Spec => []SkbsAccounted
BY Owned, Invariance, PTL

(***************************************************************************)
(* The clean_rx routines pass up whole frames without an error, in order.  *)
(***************************************************************************)
THEOREM Delivery == ASSUME Assumption PROVE Spec => []WholeFrames
<1>1. IInv => WholeFrames
  BY DEF IInv, Between
<1>. QED BY <1>1, Invariance, PTL

(***************************************************************************)
(* The receive filters.  A call is the sequence of its accesses; what is   *)
(* lost while it runs is pending in what is left of it.                    *)
(***************************************************************************)
CONSTANTS Kinds, Rars, Ucs, Mcs, Macs, Vids, Cookies, Calls, Overlap
VARIABLES kind, rctl, rar, shra, mta, vfta, flags, uc, mc, vlans, mac, laa,
          active, mng, cookie, control, todo, held, calls

F == INSTANCE Filters

(* The steps of calls, and those that another one follows at once. *)
Accesses ==
  {<<"rxRead">>, <<"rxLists">>, <<"rxWrite">>, <<"restore">>, <<"hw">>, <<"mng">>, <<"mac0">>,
   <<"macLast">>} \cup
  ({"addRead", "addWrite", "killRead", "killWrite", "restoreFrom"} \X Nat) \cup
  ({"mngIs"} \X Cookies)

Opens(x) == x[1] \in {"addRead", "killRead", "rxRead", "rxLists"}
Continuation(x) ==
  CASE x[1] = "addRead"  -> <<"addWrite", x[2]>>
    [] x[1] = "killRead" -> <<"killWrite", x[2]>>
    [] x[1] = "rxRead"   -> <<"rxLists">>
    [] OTHER             -> <<"rxWrite">>
Continues(x) == x[1] \in {"addWrite", "killWrite", "rxLists", "rxWrite"}

(* A call: no step is missing inside, and a reset begins with the hardware. *)
Sound(s) ==
  /\ s \in Seq(Accesses)
  /\ \A i \in 1 .. Len(s) :
       /\ Opens(s[i]) => i < Len(s) /\ s[i + 1] = Continuation(s[i])
       /\ i > 1 /\ Continues(s[i]) => Opens(s[i - 1])
       /\ i > 1 => s[i] # <<"hw">>

Has(s, x) == \E i \in 1 .. Len(s) : s[i] = x
Cons(x, s) == <<x>> \o s

LEMMA ConsIs ==
  ASSUME NEW x \in Accesses, NEW s \in Seq(Accesses)
  PROVE  /\ Cons(x, s) \in Seq(Accesses) /\ Cons(x, s) # <<>>
         /\ Len(Cons(x, s)) = Len(s) + 1
         /\ Cons(x, s)[1] = x /\ \A i \in 1 .. Len(s) : Cons(x, s)[i + 1] = s[i]
         /\ Head(Cons(x, s)) = x
         /\ Tail(Cons(x, s)) = s
<1>1. <<x>> \in Seq(Accesses) /\ Len(<<x>>) = 1 /\ <<x>>[1] = x
  OBVIOUS
<1>2. /\ Cons(x, s) \in Seq(Accesses) /\ Len(Cons(x, s)) = 1 + Len(s)
      /\ \A i \in 1 .. 1 + Len(s) : Cons(x, s)[i] = IF i <= 1 THEN <<x>>[i] ELSE s[i - 1]
  BY <1>1, ConcatProperties DEF Cons
<1>3. Len(s) \in Nat
  OBVIOUS
<1>4. Cons(x, s)[1] = x /\ \A i \in 1 .. Len(s) : Cons(x, s)[i + 1] = s[i]
  BY <1>1, <1>2, <1>3
<1>5. Cons(x, s) # <<>>
  BY <1>2, <1>3
<1>6. Head(Cons(x, s)) = x
  BY <1>4, <1>2 DEF Cons
<1>7. Tail(Cons(x, s)) = s
  <2>1. /\ Tail(Cons(x, s)) \in Seq(Accesses) /\ Len(Tail(Cons(x, s))) = Len(s)
        /\ \A i \in 1 .. Len(s) : Tail(Cons(x, s))[i] = Cons(x, s)[i + 1]
    BY <1>2, <1>3, <1>5, HeadTailProperties
  <2>. QED BY <2>1, <1>4, SeqEqual
<1>. QED BY <1>2, <1>3, <1>4, <1>5, <1>6, <1>7

LEMMA HeadTail ==
  ASSUME NEW s \in Seq(Accesses), s # <<>>
  PROVE  /\ Tail(s) \in Seq(Accesses) /\ Head(s) \in Accesses
         /\ Len(s) \in Nat /\ Len(s) > 0 /\ Len(Tail(s)) = Len(s) - 1
         /\ Head(s) = s[1] /\ \A i \in 1 .. Len(Tail(s)) : Tail(s)[i] = s[i + 1]
         /\ \A x : Has(s, x) <=> Head(s) = x \/ Has(Tail(s), x)
<1>1. /\ Tail(s) \in Seq(Accesses) /\ Head(s) \in Accesses /\ Len(Tail(s)) = Len(s) - 1
      /\ \A i \in 1 .. Len(Tail(s)) : Tail(s)[i] = s[i + 1]
  BY HeadTailProperties
<1>2. Len(s) \in Nat /\ Len(s) > 0
  BY EmptySeq
<1>3. Head(s) = s[1]
  OBVIOUS
<1>4. ASSUME NEW x PROVE Has(s, x) <=> Head(s) = x \/ Has(Tail(s), x)
  <2>1. ASSUME Has(s, x) PROVE Head(s) = x \/ Has(Tail(s), x)
    <3>1. PICK i \in 1 .. Len(s) : s[i] = x
      BY <2>1 DEF Has
    <3>2. CASE i = 1
      BY <1>3, <3>1, <3>2
    <3>3. CASE i > 1
      <4>1. i - 1 \in 1 .. Len(Tail(s)) /\ Tail(s)[i - 1] = s[(i - 1) + 1] /\ (i - 1) + 1 = i
        BY <1>1, <1>2, <3>3
      <4>. QED BY <3>1, <4>1 DEF Has
    <3>. QED BY <1>2, <3>2, <3>3
  <2>2. ASSUME Head(s) = x PROVE Has(s, x)
    BY <1>2, <1>3, <2>2 DEF Has
  <2>3. ASSUME Has(Tail(s), x) PROVE Has(s, x)
    <3>1. PICK i \in 1 .. Len(Tail(s)) : Tail(s)[i] = x
      BY <2>3 DEF Has
    <3>2. i + 1 \in 1 .. Len(s) /\ s[i + 1] = x
      BY <1>1, <1>2, <3>1
    <3>. QED BY <3>2 DEF Has
  <2>. QED BY <2>1, <2>2, <2>3
<1>. QED BY <1>1, <1>2, <1>3, <1>4

LEMMA HasCons ==
  ASSUME NEW x \in Accesses, NEW s \in Seq(Accesses), NEW y
  PROVE  Has(Cons(x, s), y) <=> x = y \/ Has(s, y)
<1>. DEFINE c == Cons(x, s)
<1>1. c \in Seq(Accesses) /\ c # <<>> /\ Head(c) = x /\ Tail(c) = s
  BY ConsIs
<1>. HIDE DEF c
<1>2. Has(c, y) <=> Head(c) = y \/ Has(Tail(c), y)
  BY <1>1, HeadTail
<1>. QED BY <1>1, <1>2 DEF c

LEMMA HasNone == ASSUME NEW y PROVE ~ Has(<<>>, y)
BY DEF Has

LEMMA SoundEmpty == Sound(<<>>)
BY EmptySeq DEF Sound

LEMMA SoundTail ==
  ASSUME NEW s, Sound(s), s # <<>>
  PROVE  /\ Sound(Tail(s)) /\ ~ Has(Tail(s), <<"hw">>)
         /\ Opens(Head(s)) => Tail(s) # <<>> /\ Head(Tail(s)) = Continuation(Head(s))
         /\ ~ Opens(Head(s)) /\ Tail(s) # <<>> => ~ Continues(Head(Tail(s)))
<1>. DEFINE u == Tail(s)
<1>1. s \in Seq(Accesses) /\ u \in Seq(Accesses) /\ Len(s) \in Nat /\ Len(s) > 0
      /\ Len(u) = Len(s) - 1 /\ Head(s) = s[1] /\ \A i \in 1 .. Len(u) : u[i] = s[i + 1]
  BY HeadTail DEF Sound
<1>. HIDE DEF u
<1>2. ASSUME NEW i \in 1 .. Len(u)
      PROVE  /\ Opens(u[i]) => i < Len(u) /\ u[i + 1] = Continuation(u[i])
             /\ i > 1 /\ Continues(u[i]) => Opens(u[i - 1])
             /\ u[i] # <<"hw">>
  <2>1. i + 1 \in 1 .. Len(s) /\ i + 1 > 1 /\ u[i] = s[i + 1]
    BY <1>1
  <2>2. /\ Opens(s[i + 1]) => i + 1 < Len(s) /\ s[(i + 1) + 1] = Continuation(s[i + 1])
        /\ i + 1 > 1 /\ Continues(s[i + 1]) => Opens(s[(i + 1) - 1])
        /\ s[i + 1] # <<"hw">>
    BY <2>1 DEF Sound
  <2>3. i < Len(u) => u[i + 1] = s[(i + 1) + 1]
    BY <1>1
  <2>4. i > 1 => u[i - 1] = s[(i + 1) - 1]
    <3>1. i > 1 => i - 1 \in 1 .. Len(u) /\ (i - 1) + 1 = (i + 1) - 1
      BY <1>1
    <3>. QED BY <1>1, <3>1
  <2>. QED BY <1>1, <2>1, <2>2, <2>3, <2>4
<1>3. Sound(u) /\ ~ Has(u, <<"hw">>)
  BY <1>1, <1>2 DEF Sound, Has
<1>4. Opens(s[1]) => 1 < Len(s) /\ s[1 + 1] = Continuation(s[1])
  BY <1>1 DEF Sound
<1>5. u # <<>> => Head(u) = s[2] /\ 2 \in 1 .. Len(s)
  BY <1>1, HeadTail
<1>6. Len(u) > 0 => u # <<>>
  BY EmptySeq
<1>7. 2 \in 1 .. Len(s) => (Continues(s[2]) => Opens(s[2 - 1]))
  BY <1>1 DEF Sound
<1>. QED BY <1>1, <1>3, <1>4, <1>5, <1>6, <1>7 DEF u

(* A step that begins nothing may be put before a call, one that does before *)
(* the step that it begins.                                                  *)
LEMMA SoundCons ==
  ASSUME NEW x \in Accesses, NEW s, Sound(s), s # <<>> => Head(s) # <<"hw">>,
         Opens(x) => s # <<>> /\ Head(s) = Continuation(x),
         ~ Opens(x) /\ s # <<>> => ~ Continues(Head(s))
  PROVE  Sound(Cons(x, s)) /\ Cons(x, s) # <<>> /\ Head(Cons(x, s)) = x
<1>. DEFINE c == Cons(x, s)
<1>1. /\ s \in Seq(Accesses) /\ c \in Seq(Accesses) /\ Len(s) \in Nat /\ Len(c) = Len(s) + 1
      /\ c[1] = x /\ (\A i \in 1 .. Len(s) : c[i + 1] = s[i]) /\ Head(c) = x /\ c # <<>>
  <2>1. s \in Seq(Accesses)
    BY DEF Sound
  <2>2. Len(s) \in Nat
    BY <2>1
  <2>. HIDE DEF c
  <2>. QED BY <2>1, <2>2, ConsIs DEF c
<1>2. s # <<>> => Len(s) > 0 /\ Head(s) = s[1]
  BY <1>1, HeadTail
<1>3. s = <<>> => Len(s) = 0
  BY EmptySeq
<1>. HIDE DEF c
<1>4. ASSUME NEW i \in 1 .. Len(c)
      PROVE  /\ Opens(c[i]) => i < Len(c) /\ c[i + 1] = Continuation(c[i])
             /\ i > 1 /\ Continues(c[i]) => Opens(c[i - 1])
             /\ i > 1 => c[i] # <<"hw">>
  <2>1. CASE i = 1
    <3>1. s # <<>> => 1 \in 1 .. Len(s)
      BY <1>1, <1>2
    <3>2. s # <<>> => c[1 + 1] = s[1]
      BY <1>1, <3>1
    <3>. QED BY <1>1, <1>2, <2>1, <3>2
  <2>2. CASE i = 2
    <3>1. 1 \in 1 .. Len(s) /\ c[1 + 1] = s[1] /\ s # <<>>
      BY <1>1, <1>3, <2>2
    <3>2. Opens(s[1]) => 1 < Len(s) /\ s[1 + 1] = Continuation(s[1])
      BY <3>1 DEF Sound
    <3>3. 1 < Len(s) => c[2 + 1] = s[2]
      BY <1>1
    <3>. QED BY <1>1, <1>2, <2>2, <3>1, <3>2, <3>3
  <2>3. CASE i > 2
    <3>1. i - 1 \in 1 .. Len(s) /\ i - 1 > 1 /\ c[i] = s[i - 1] /\ c[i - 1] = s[(i - 1) - 1]
      <4>1. i - 1 \in 1 .. Len(s) /\ i - 2 \in 1 .. Len(s) /\ (i - 1) + 1 = i /\ (i - 2) + 1 = i - 1
            /\ (i - 1) - 1 = i - 2
        BY <1>1, <2>3
      <4>2. c[(i - 1) + 1] = s[i - 1] /\ c[(i - 2) + 1] = s[i - 2]
        BY <1>1, <4>1
      <4>. QED BY <2>3, <4>1, <4>2
    <3>2. /\ Opens(s[i - 1]) => i - 1 < Len(s) /\ s[(i - 1) + 1] = Continuation(s[i - 1])
          /\ Continues(s[i - 1]) => Opens(s[(i - 1) - 1])
          /\ s[i - 1] # <<"hw">>
      BY <3>1 DEF Sound
    <3>3. i - 1 < Len(s) => c[i + 1] = s[(i - 1) + 1]
      <4>1. i - 1 < Len(s) => i \in 1 .. Len(s) /\ (i - 1) + 1 = i
        BY <1>1
      <4>. QED BY <1>1, <4>1
    <3>. QED BY <1>1, <3>1, <3>2, <3>3
  <2>. QED BY <2>1, <2>2, <2>3
<1>5. Sound(c)
  BY <1>1, <1>4 DEF Sound
<1>. QED BY <1>1, <1>5 DEF c

LEMMA Forms ==
  ASSUME NEW x \in Accesses
  PROVE  /\ \A d \in {"rxRead", "rxLists", "rxWrite", "restore", "hw", "mng", "mac0", "macLast"} :
              x[1] = d <=> x = <<d>>
         /\ \A d \in {"addRead", "addWrite", "killRead", "killWrite", "restoreFrom"} :
              x[1] = d => x = <<d, x[2]>> /\ x[2] \in Nat
         /\ x[1] = "mngIs" => x = <<"mngIs", x[2]>> /\ x[2] \in Cookies
BY DEF Accesses

(* What a call may be put before. *)
Clear(s) == Sound(s) /\ (s # <<>> => Head(s) # <<"hw">> /\ ~ Continues(Head(s)))

LEMMA ClearOne ==
  ASSUME NEW x \in Accesses, NEW s, Clear(s), ~ Opens(x), ~ Continues(x), x # <<"hw">>
  PROVE  Clear(<<x>> \o s) /\ \A y : Has(<<x>> \o s, y) <=> x = y \/ Has(s, y)
<1>1. Sound(s) /\ s \in Seq(Accesses)
  BY DEF Clear, Sound
<1>2. Sound(Cons(x, s)) /\ Cons(x, s) # <<>> /\ Head(Cons(x, s)) = x
  BY <1>1, SoundCons DEF Clear
<1>3. \A y : Has(Cons(x, s), y) <=> x = y \/ Has(s, y)
  BY <1>1, HasCons
<1>4. Clear(Cons(x, s))
  BY <1>2 DEF Clear
<1>. QED BY <1>3, <1>4 DEF Cons

LEMMA TwoIs ==
  ASSUME NEW x \in Accesses, NEW y \in Accesses, NEW s \in Seq(Accesses)
  PROVE  <<x, y>> \o s = Cons(x, Cons(y, s))
<1>1. <<x>> \in Seq(Accesses) /\ <<y>> \in Seq(Accesses)
  OBVIOUS
<1>3. <<x, y>> = <<x>> \o <<y>>
  <2>. DEFINE a == <<x>>  b == <<y>>  p == <<x, y>>
  <2>1. /\ a \in Seq(Accesses) /\ b \in Seq(Accesses) /\ Len(a) = 1 /\ Len(b) = 1 /\ a[1] = x /\ b[1] = y
        /\ p \in Seq(Accesses) /\ Len(p) = 2 /\ p[1] = x /\ p[2] = y
    OBVIOUS
  <2>. HIDE DEF a, b, p
  <2>2. /\ a \o b \in Seq(Accesses) /\ Len(a \o b) = 1 + 1
        /\ \A i \in 1 .. 1 + 1 : (a \o b)[i] = IF i <= 1 THEN a[i] ELSE b[i - 1]
    <3>1. /\ a \o b \in Seq(Accesses) /\ Len(a \o b) = Len(a) + Len(b)
          /\ \A i \in 1 .. Len(a) + Len(b) :
               (a \o b)[i] = IF i <= Len(a) THEN a[i] ELSE b[i - Len(a)]
      BY <2>1, ConcatProperties
    <3>. QED BY <2>1, <3>1
  <2>3. \A i \in 1 .. 2 : p[i] = (a \o b)[i]
    <3>. SUFFICES ASSUME NEW i \in 1 .. 2 PROVE p[i] = (a \o b)[i]
      OBVIOUS
    <3>1. i = 1 \/ i = 2
      OBVIOUS
    <3>. QED BY <2>1, <2>2, <3>1
  <2>4. Len(p) = Len(a \o b)
    BY <2>1, <2>2
  <2>5. p = a \o b
    BY <2>1, <2>2, <2>3, <2>4, SeqEqual
  <2>. QED BY <2>5 DEF a, b, p
<1>2. (<<x>> \o <<y>>) \o s = <<x>> \o (<<y>> \o s)
  BY <1>1, ConcatAssociative
<1>. QED BY <1>1, <1>2, <1>3 DEF Cons

LEMMA ClearTwo ==
  ASSUME NEW x \in Accesses, NEW y \in Accesses, NEW s, Clear(s), Opens(x), y = Continuation(x),
         ~ Opens(y), ~ Continues(x), x # <<"hw">>, y # <<"hw">>
  PROVE  /\ Clear(<<x, y>> \o s)
         /\ \A z : Has(<<x, y>> \o s, z) <=> z = x \/ z = y \/ Has(s, z)
<1>1. Sound(s) /\ s \in Seq(Accesses)
  BY DEF Clear, Sound
<1>. DEFINE u == Cons(y, s)
<1>2. Sound(u) /\ u # <<>> /\ Head(u) = y
  BY <1>1, SoundCons DEF Clear
<1>3. \A z : Has(u, z) <=> y = z \/ Has(s, z)
  BY <1>1, HasCons
<1>4. <<x, y>> \o s = Cons(x, u)
  BY <1>1, TwoIs
<1>. HIDE DEF u
<1>5. u \in Seq(Accesses)
  BY <1>2 DEF Sound
<1>6. Sound(Cons(x, u)) /\ Cons(x, u) # <<>> /\ Head(Cons(x, u)) = x
  BY <1>2, SoundCons
<1>7. \A z : Has(Cons(x, u), z) <=> x = z \/ Has(u, z)
  BY <1>5, HasCons
<1>8. Clear(Cons(x, u))
  BY <1>6 DEF Clear
<1>. QED BY <1>3, <1>4, <1>7, <1>8

LEMMA ClearAdd ==
  ASSUME NEW v \in Nat, NEW s, Clear(s)
  PROVE  /\ Clear(F!Add(v) \o s)
         /\ \A z : Has(F!Add(v) \o s, z) <=>
                    z = <<"addRead", v>> \/ z = <<"addWrite", v>> \/ Has(s, z)
<1>. DEFINE x == <<"addRead", v>>  y == <<"addWrite", v>>
<1>1. /\ x \in Accesses /\ y \in Accesses /\ Opens(x) /\ ~ Opens(y) /\ ~ Continues(x)
      /\ y = Continuation(x) /\ x # <<"hw">> /\ y # <<"hw">>
  BY DEF Accesses, Opens, Continues, Continuation
<1>2. F!Add(v) = <<x, y>>
  BY DEF F!Add
<1>. HIDE DEF x, y
<1>3. /\ Clear(<<x, y>> \o s)
      /\ \A z : Has(<<x, y>> \o s, z) <=> z = x \/ z = y \/ Has(s, z)
  BY <1>1, ClearTwo
<1>. QED BY <1>2, <1>3 DEF x, y

LEMMA ClearKill ==
  ASSUME NEW v \in Nat, NEW s, Clear(s)
  PROVE  /\ Clear(F!Kill(v) \o s)
         /\ \A z : Has(F!Kill(v) \o s, z) <=>
                    z = <<"killRead", v>> \/ z = <<"killWrite", v>> \/ Has(s, z)
<1>. DEFINE x == <<"killRead", v>>  y == <<"killWrite", v>>
<1>1. /\ x \in Accesses /\ y \in Accesses /\ Opens(x) /\ ~ Opens(y) /\ ~ Continues(x)
      /\ y = Continuation(x) /\ x # <<"hw">> /\ y # <<"hw">>
  BY DEF Accesses, Opens, Continues, Continuation
<1>2. F!Kill(v) = <<x, y>>
  BY DEF F!Kill
<1>. HIDE DEF x, y
<1>3. /\ Clear(<<x, y>> \o s)
      /\ \A z : Has(<<x, y>> \o s, z) <=> z = x \/ z = y \/ Has(s, z)
  BY <1>1, ClearTwo
<1>. QED BY <1>2, <1>3 DEF x, y

LEMMA ClearEmpty == Clear(<<>>)
BY SoundEmpty DEF Clear

(* e1000e_set_rx_mode is three steps; what follows it may be anything. *)
LEMMA ClearMode ==
  ASSUME NEW s, Clear(s)
  PROVE  Clear(F!RxMode \o s) /\ Has(F!RxMode \o s, <<"rxRead">>)
         /\ \A z : Has(F!RxMode \o s, z) <=>
                     z \in {<<"rxRead">>, <<"rxLists">>, <<"rxWrite">>} \/ Has(s, z)
<1>. DEFINE x == <<"rxRead">>  y == <<"rxLists">>  w == <<"rxWrite">>
<1>1. /\ x \in Accesses /\ y \in Accesses /\ w \in Accesses
      /\ Opens(x) /\ Opens(y) /\ ~ Opens(w) /\ ~ Continues(x)
      /\ y = Continuation(x) /\ w = Continuation(y) /\ x # <<"hw">> /\ y # <<"hw">> /\ w # <<"hw">>
  BY DEF Accesses, Opens, Continues, Continuation
<1>2. F!RxMode = <<x, y, w>>
  BY DEF F!RxMode
<1>3. {<<"rxRead">>, <<"rxLists">>, <<"rxWrite">>} = {x, y, w} /\ <<"rxRead">> = x
  OBVIOUS
<1>. HIDE DEF x, y, w
<1>4. Sound(s) /\ s \in Seq(Accesses)
  BY DEF Clear, Sound
<1>. DEFINE t == Cons(w, s)  u == Cons(y, t)  r == Cons(x, u)
<1>5. Sound(t) /\ t # <<>> /\ Head(t) = w /\ \A z : Has(t, z) <=> w = z \/ Has(s, z)
  BY <1>1, <1>4, SoundCons, HasCons DEF Clear
<1>6. u = <<y, w>> \o s
  BY <1>1, <1>4, TwoIs
<1>. HIDE DEF t
<1>7. t \in Seq(Accesses)
  BY <1>5 DEF Sound
<1>8. Sound(u) /\ u # <<>> /\ Head(u) = y /\ \A z : Has(u, z) <=> y = z \/ Has(t, z)
  BY <1>1, <1>5, <1>7, SoundCons, HasCons
<1>. HIDE DEF u
<1>9. u \in Seq(Accesses)
  BY <1>8 DEF Sound
<1>10. Sound(r) /\ r # <<>> /\ Head(r) = x /\ \A z : Has(r, z) <=> x = z \/ Has(u, z)
  BY <1>1, <1>8, <1>9, SoundCons, HasCons
<1>11. r = <<x, y, w>> \o s
  <2>1. <<x>> \in Seq(Accesses) /\ <<y, w>> \in Seq(Accesses) /\ <<x, y, w>> = <<x>> \o <<y, w>>
    BY <1>1
  <2>2. (<<x>> \o <<y, w>>) \o s = <<x>> \o (<<y, w>> \o s)
    BY <1>4, <2>1, ConcatAssociative
  <2>. QED BY <1>6, <2>1, <2>2 DEF Cons
<1>. HIDE DEF r
<1>12. Clear(r)
  BY <1>1, <1>10 DEF Clear
<1>. QED BY <1>2, <1>3, <1>5, <1>8, <1>10, <1>11, <1>12

(* Some thread still has to make this access; it makes it next. *)
Pending(x) == \E t \in F!Threads : Has(todo[t], x)
Doing(t, x) == todo[t] # <<>> /\ Head(todo[t]) = x

List(l) == l \in Seq({l[k] : k \in DOMAIN l})

FilterTypes ==
  /\ kind \in Kinds
  /\ DOMAIN rar = 0 .. Rars - 1 /\ DOMAIN shra = 1 .. Rars - 1
  /\ DOMAIN todo = F!Threads /\ DOMAIN held = F!Threads
  /\ \A t \in F!Threads : Sound(todo[t])
  /\ List(uc) /\ vlans \subseteq Vids /\ active \subseteq Nat
  /\ mng \in Cookies \cup {F!NoVid} /\ cookie \in Cookies \cup {F!NoVid}

(* Calls do not overlap. *)
OneRuns == \A t, u \in F!Threads : todo[t] # <<>> /\ todo[u] # <<>> => t = u

(* The lists are where rc, a value of RCTL, makes the controller look for them. *)
Regs == IF kind = "pch2" THEN shra ELSE rar
Placed ==
  /\ Len(uc) <= F!Free
  /\ \A k \in 1 .. Len(uc) : Regs[F!Free - k + 1] = uc[k]
  /\ kind # "pch2" => \A i \in 1 .. F!Free - Len(uc) : rar[i] = F!NoAddress
Good(rc) ==
  /\ "promisc" \in flags => {"UPE", "MPE"} \subseteq rc
  /\ "UPE" \in rc => "promisc" \in flags \/ Len(uc) > F!Free \/ F!Shared
  /\ "UPE" \notin rc => Placed
  /\ "MPE" \notin rc => mta = F!MtaOf(mc)

(* Whoever resets the controller calls e1000e_set_rx_mode and *)
(* e1000_restore_vlan afterwards.                             *)
ResetRestores ==
  \A t \in F!Threads : Doing(t, <<"hw">>) =>
     Has(Tail(todo[t]), <<"rxRead">>) /\ Has(Tail(todo[t]), <<"restore">>)

(* Only the 82571 gets a second copy of the interface's address. *)
OwnCopy == \A t \in F!Threads : Has(todo[t], <<"macLast">>) => kind = "82571"

ListsInv ==
  /\ \A t \in F!Threads :
       /\ Doing(t, <<"rxLists">>) => held[t] \cap {"UPE", "MPE"} = {}
       /\ Doing(t, <<"rxWrite">>) => Pending(<<"rxRead">>) \/ Good(held[t])
  /\ \/ Pending(<<"rxRead">>)
     \/ \E t \in F!Threads : Doing(t, <<"rxLists">>) \/ Doing(t, <<"rxWrite">>)
     \/ Good(rctl)

(* Every VLAN of the stack is active and in the table, or will be. *)
VlanInv ==
  /\ \A t \in F!Threads : \A v \in Nat :
       /\ Doing(t, <<"addWrite", v>>) \/ Doing(t, <<"killWrite", v>>) =>
            held[t] = vfta \cap F!Word(v)
       /\ Has(todo[t], <<"killWrite", v>>) => v \notin vlans
  /\ F!HasVlan =>
       \A v \in vlans :
         /\ v \in active \/ Pending(<<"addWrite", v>>)
         /\ \/ v \in vfta \/ Pending(<<"addWrite", v>>) \/ Pending(<<"restore">>)
            \/ \E w \in 0 .. v : Pending(<<"restoreFrom", w>>)

(* Where the address of the interface is: the other port of the 82571 can *)
(* take it from the first register, not from the last.                    *)
MacInv ==
  /\ kind # "82571" => rar[0] = mac \/ Has(todo["rtnl"], <<"mac0">>)
  /\ kind = "82571" => \/ laa /\ rar[Rars - 1] = mac
                       \/ mac = "factory" /\ rar[0] = mac
                       \/ Has(todo["rtnl"], <<"macLast">>)

FilterInv == FilterTypes /\ OneRuns /\ ResetRestores /\ OwnCopy /\ ListsInv /\ VlanInv

(* Where a step takes a call: it makes its access, or gives up the access *)
(* that begins with it, or puts other accesses before the rest.           *)
Skips(t, v) ==
  /\ F!IsCookie(v)
  /\ Doing(t, <<"addRead", v>>) \/ Doing(t, <<"killRead", v>>)
Ahead(x) ==
  \/ x[1] \in {"addRead", "addWrite", "mngIs", "restoreFrom"}
  \/ mng # F!NoVid /\ (x = <<"killRead", mng>> \/ x = <<"killWrite", mng>>)
Advance(t, next) ==
  /\ Sound(next) /\ ~ Has(next, <<"hw">>)
  /\ next # <<>> /\ Continues(Head(next)) =>
       /\ Opens(Head(todo[t])) /\ Head(next) = Continuation(Head(todo[t]))
       /\ \A v \in Nat : ~ Skips(t, v)
  /\ Opens(Head(todo[t])) =>
       \/ next # <<>> /\ Head(next) = Continuation(Head(todo[t]))
       \/ \E v \in Nat : Skips(t, v)
  /\ \A x : Has(todo[t], x) =>
       \/ Doing(t, x) \/ Has(next, x)
       \/ \E v \in Nat : Skips(t, v) /\ (x = <<"addWrite", v>> \/ x = <<"killWrite", v>>)
  /\ \A x : Has(next, x) => Has(todo[t], x) \/ Ahead(x)

LEMMA AdvanceTail ==
  ASSUME FilterTypes, NEW t \in F!Threads, todo[t] # <<>>, \A v \in Nat : ~ Skips(t, v)
  PROVE  Advance(t, Tail(todo[t]))
<1>. DEFINE s == todo[t]
<1>1. Sound(s) /\ s \in Seq(Accesses) /\ s # <<>>
  BY DEF FilterTypes, Sound
<1>2. /\ Sound(Tail(s)) /\ ~ Has(Tail(s), <<"hw">>)
      /\ Opens(Head(s)) => Tail(s) # <<>> /\ Head(Tail(s)) = Continuation(Head(s))
      /\ ~ Opens(Head(s)) /\ Tail(s) # <<>> => ~ Continues(Head(Tail(s)))
  BY <1>1, SoundTail
<1>3. \A x : Has(s, x) <=> Head(s) = x \/ Has(Tail(s), x)
  BY <1>1, HeadTail
<1>. QED BY <1>1, <1>2, <1>3 DEF Advance, Doing

LEMMA AdvanceSkip ==
  ASSUME FilterTypes, NEW t \in F!Threads, NEW v \in Nat, Skips(t, v)
  PROVE  Advance(t, Tail(Tail(todo[t])))
<1>. DEFINE s == todo[t]  u == Tail(s)
<1>1. Sound(s) /\ s \in Seq(Accesses) /\ s # <<>> /\ Opens(Head(s))
      /\ (Head(s) = <<"addRead", v>> \/ Head(s) = <<"killRead", v>>)
  BY DEF FilterTypes, Sound, Skips, Doing, Opens
<1>2. /\ Sound(u) /\ ~ Has(u, <<"hw">>) /\ u # <<>> /\ Head(u) = Continuation(Head(s))
      /\ \A x : Has(s, x) <=> Head(s) = x \/ Has(u, x)
  BY <1>1, SoundTail, HeadTail
<1>3. Head(u) = <<"addWrite", v>> \/ Head(u) = <<"killWrite", v>>
  BY <1>1, <1>2 DEF Continuation
<1>. HIDE DEF u
<1>4. ~ Opens(Head(u))
  BY <1>3 DEF Opens
<1>5. u \in Seq(Accesses)
  BY <1>2 DEF Sound
<1>6. /\ Sound(Tail(u)) /\ ~ Has(Tail(u), <<"hw">>)
      /\ Tail(u) # <<>> => ~ Continues(Head(Tail(u)))
      /\ \A x : Has(u, x) <=> Head(u) = x \/ Has(Tail(u), x)
  BY <1>2, <1>4, <1>5, SoundTail, HeadTail
<1>. QED BY <1>1, <1>2, <1>3, <1>6 DEF Advance, Doing, u

(* What may be put before the rest of a call. *)
LEMMA AdvanceClear ==
  ASSUME FilterTypes, NEW t \in F!Threads, todo[t] # <<>>, ~ Opens(Head(todo[t])),
         NEW next, Clear(next), ~ Has(next, <<"hw">>),
         \A x : Has(Tail(todo[t]), x) => Has(next, x),
         \A x : Has(next, x) => Has(Tail(todo[t]), x) \/ Ahead(x)
  PROVE  Advance(t, next)
<1>1. todo[t] \in Seq(Accesses)
  BY DEF FilterTypes, Sound
<1>2. \A x : Has(todo[t], x) <=> Head(todo[t]) = x \/ Has(Tail(todo[t]), x)
  BY <1>1, HeadTail
<1>. QED BY <1>2 DEF Advance, Clear, Doing

LEMMA TailIsClear ==
  ASSUME FilterTypes, NEW t \in F!Threads, todo[t] # <<>>, ~ Opens(Head(todo[t]))
  PROVE  Clear(Tail(todo[t])) /\ ~ Has(Tail(todo[t]), <<"hw">>)
         /\ Tail(todo[t]) \in Seq(Accesses)
<1>1. Sound(todo[t])
  BY DEF FilterTypes
<1>2. /\ Sound(Tail(todo[t])) /\ ~ Has(Tail(todo[t]), <<"hw">>)
      /\ Tail(todo[t]) # <<>> => ~ Continues(Head(Tail(todo[t])))
  BY <1>1, SoundTail
<1>3. Tail(todo[t]) # <<>> => Has(Tail(todo[t]), Head(Tail(todo[t])))
  BY <1>2, HeadTail DEF Sound
<1>. QED BY <1>2, <1>3 DEF Clear, Sound

(* e1000_update_mng_vlan *)
LEMMA AdvanceMng ==
  ASSUME F!Assumption, FilterTypes, NEW t \in F!Threads, Doing(t, <<"mng">>), F!Mng(t)
  PROVE  Advance(t, todo'[t])
<1>. DEFINE s == todo[t]  u == Tail(s)
            kill == IF mng # F!NoVid /\ cookie # mng THEN F!Kill(mng) ELSE <<>>
            add == IF F!HasVlan /\ cookie # F!NoVid
                   THEN F!Add(cookie) \o << <<"mngIs", cookie>> >> ELSE <<>>
<1>1. s # <<>> /\ Head(s) = <<"mng">> /\ ~ Opens(Head(s))
  BY DEF Doing, Opens
<1>2. Clear(u) /\ ~ Has(u, <<"hw">>) /\ u \in Seq(Accesses)
  BY <1>1, TailIsClear
<1>3. todo'[t] = add \o kill \o u
  BY DEF F!Mng, FilterTypes
<1>4. mng # F!NoVid => mng \in Nat
  BY DEF FilterTypes, F!Assumption
<1>5. cookie # F!NoVid => cookie \in Nat /\ cookie \in Cookies
  BY DEF FilterTypes, F!Assumption
<1>. HIDE DEF s, u
<1>6. /\ kill \in Seq(Accesses) /\ Clear(kill \o u)
      /\ \A x : Has(u, x) => Has(kill \o u, x)
      /\ \A x : Has(kill \o u, x) => Has(u, x) \/ Ahead(x)
  <2>1. CASE mng # F!NoVid /\ cookie # mng
    <3>1. kill = F!Kill(mng)
      BY <2>1
    <3>2. F!Kill(mng) \in Seq(Accesses)
      <4>1. <<"killRead", mng>> \in Accesses /\ <<"killWrite", mng>> \in Accesses
        BY <1>4, <2>1 DEF Accesses
      <4>. QED BY <4>1 DEF F!Kill
    <3>3. /\ Clear(F!Kill(mng) \o u)
          /\ \A z : Has(F!Kill(mng) \o u, z) <=>
                     z = <<"killRead", mng>> \/ z = <<"killWrite", mng>> \/ Has(u, z)
      BY <1>2, <1>4, <2>1, ClearKill
    <3>. QED BY <2>1, <3>1, <3>2, <3>3 DEF Ahead
  <2>2. CASE ~ (mng # F!NoVid /\ cookie # mng)
    <3>1. kill = <<>> /\ <<>> \o u = u
      BY <1>2, <2>2, ConcatEmptySeq
    <3>2. <<>> \in Seq(Accesses)
      OBVIOUS
    <3>. HIDE DEF kill
    <3>. QED BY <1>2, <3>1, <3>2
  <2>. QED BY <2>1, <2>2
<1>. HIDE DEF kill
<1>7. /\ Clear(add \o kill \o u)
      /\ \A x : Has(kill \o u, x) => Has(add \o kill \o u, x)
      /\ \A x : Has(add \o kill \o u, x) => Has(kill \o u, x) \/ Ahead(x)
  <2>. DEFINE r == kill \o u  one == << <<"mngIs", cookie>> >>
  <2>1. r \in Seq(Accesses)
    BY <1>6 DEF Clear, Sound
  <2>2. CASE F!HasVlan /\ cookie # F!NoVid
    <3>1. <<"mngIs", cookie>> \in Accesses /\ F!Add(cookie) \in Seq(Accesses)
      <4>1. /\ <<"addRead", cookie>> \in Accesses /\ <<"addWrite", cookie>> \in Accesses
            /\ <<"mngIs", cookie>> \in Accesses
        BY <1>5, <2>2 DEF Accesses
      <4>. QED BY <4>1 DEF F!Add
    <3>2. add = F!Add(cookie) \o one
      BY <2>2
    <3>3. one \in Seq(Accesses)
      BY <3>1
    <3>4. /\ ~ Opens(<<"mngIs", cookie>>) /\ ~ Continues(<<"mngIs", cookie>>)
          /\ <<"mngIs", cookie>> # <<"hw">>
      BY DEF Opens, Continues
    <3>5. Clear(one \o r) /\ \A y : Has(one \o r, y) <=> <<"mngIs", cookie>> = y \/ Has(r, y)
      BY <1>6, <3>1, <3>4, ClearOne
    <3>. HIDE DEF one, add, r
    <3>6. /\ Clear(F!Add(cookie) \o (one \o r))
          /\ \A z : Has(F!Add(cookie) \o (one \o r), z) <=>
                     z = <<"addRead", cookie>> \/ z = <<"addWrite", cookie>> \/ Has(one \o r, z)
      BY <1>5, <2>2, <3>5, ClearAdd
    <3>7. (F!Add(cookie) \o one) \o r = F!Add(cookie) \o (one \o r)
      BY <2>1, <3>1, <3>3, ConcatAssociative
    <3>8. add \in Seq(Accesses)
      BY <3>1, <3>2, <3>3
    <3>9. add \o kill \o u = add \o r
      BY <1>2, <1>6, <3>8, ConcatAssociative DEF r
    <3>10. /\ Ahead(<<"addRead", cookie>>) /\ Ahead(<<"addWrite", cookie>>)
           /\ Ahead(<<"mngIs", cookie>>)
      BY DEF Ahead
    <3>11. add \o r = F!Add(cookie) \o (one \o r)
      BY <3>2, <3>7
    <3>12. Clear(add \o r) /\ \A z : Has(add \o r, z) <=>
                 z = <<"addRead", cookie>> \/ z = <<"addWrite", cookie>>
                 \/ <<"mngIs", cookie>> = z \/ Has(r, z)
      BY <3>5, <3>6, <3>11
    <3>. QED BY <3>9, <3>10, <3>12 DEF r
  <2>3. CASE ~ (F!HasVlan /\ cookie # F!NoVid)
    <3>1. add = <<>> /\ <<>> \o kill = kill
      BY <1>6, <2>3, ConcatEmptySeq
    <3>. QED BY <1>6, <3>1
  <2>. QED BY <2>2, <2>3
<1>. HIDE DEF add
<1>8. ~ Ahead(<<"hw">>)
  BY DEF Ahead
<1>9. ~ Has(todo'[t], <<"hw">>)
  BY <1>2, <1>3, <1>6, <1>7, <1>8
<1>10. /\ Clear(todo'[t]) /\ \A x : Has(u, x) => Has(todo'[t], x)
       /\ \A x : Has(todo'[t], x) => Has(u, x) \/ Ahead(x)
  BY <1>3, <1>6, <1>7
<1>. QED BY <1>1, <1>9, <1>10, AdvanceClear DEF s, u

(* e1000_restore_vlan *)
LEMMA PutAhead ==
  ASSUME FilterTypes, NEW t \in F!Threads, todo[t] # <<>>, ~ Opens(Head(todo[t])),
         NEW v \in Nat, NEW w \in Nat, NEW next,
         next = F!Add(v) \o << <<"restoreFrom", w>> >> \o Tail(todo[t])
  PROVE  Advance(t, next) /\ Has(next, <<"addWrite", v>>) /\ Has(next, <<"restoreFrom", w>>)
<1>. DEFINE u == Tail(todo[t])  x == <<"restoreFrom", w>>
<1>1. Clear(u) /\ ~ Has(u, <<"hw">>) /\ u \in Seq(Accesses)
  BY TailIsClear
<1>2. x \in Accesses /\ ~ Opens(x) /\ ~ Continues(x) /\ x # <<"hw">> /\ Ahead(x)
  BY DEF Accesses, Opens, Continues, Ahead
<1>3. F!Add(v) \in Seq(Accesses)
  <2>1. <<"addRead", v>> \in Accesses /\ <<"addWrite", v>> \in Accesses
    BY DEF Accesses
  <2>. QED BY <2>1 DEF F!Add
<1>. HIDE DEF u, x
<1>4. Clear(<<x>> \o u) /\ \A y : Has(<<x>> \o u, y) <=> x = y \/ Has(u, y)
  BY <1>1, <1>2, ClearOne
<1>5. /\ Clear(F!Add(v) \o (<<x>> \o u))
      /\ \A z : Has(F!Add(v) \o (<<x>> \o u), z) <=>
                 z = <<"addRead", v>> \/ z = <<"addWrite", v>> \/ Has(<<x>> \o u, z)
  BY <1>4, ClearAdd
<1>6. next = F!Add(v) \o (<<x>> \o u)
  <2>1. <<x>> \in Seq(Accesses)
    BY <1>2
  <2>2. next = F!Add(v) \o <<x>> \o u
    BY DEF u, x
  <2>. DEFINE a == F!Add(v)  b == <<x>>
  <2>3. a \in Seq(Accesses) /\ b \in Seq(Accesses)
    BY <1>3, <2>1
  <2>. HIDE DEF a, b
  <2>4. (a \o b) \o u = a \o (b \o u)
    BY <1>1, <2>3, ConcatAssociative
  <2>. QED BY <2>2, <2>4 DEF a, b
<1>7. /\ Ahead(<<"addRead", v>>) /\ Ahead(<<"addWrite", v>>)
      /\ <<"addRead", v>> # <<"hw">> /\ <<"addWrite", v>> # <<"hw">>
  BY DEF Ahead
<1>8. Clear(next) /\ \A z : Has(next, z) <=>
         z = <<"addRead", v>> \/ z = <<"addWrite", v>> \/ x = z \/ Has(u, z)
  BY <1>4, <1>5, <1>6
<1>9. Advance(t, next)
  <2>1. ~ Has(next, <<"hw">>)
    BY <1>1, <1>2, <1>7, <1>8
  <2>2. \A z : Has(u, z) => Has(next, z)
    BY <1>8
  <2>3. \A z : Has(next, z) => Has(u, z) \/ Ahead(z)
    BY <1>2, <1>7, <1>8
  <2>. QED BY <1>8, <2>1, <2>2, <2>3, AdvanceClear DEF u
<1>. QED BY <1>8, <1>9 DEF x

RestoresFrom(t, v) ==
  \/ (\A w \in active : w < v)
  \/ \E w \in active :
       /\ v <= w /\ \A x \in active : v <= x => w <= x
       /\ Has(todo'[t], <<"addWrite", w>>) /\ Has(todo'[t], <<"restoreFrom", w + 1>>)

LEMMA StepAdvances ==
  ASSUME F!Assumption, FilterTypes, NEW t \in F!Threads, F!Step(t)
  PROVE  /\ todo' = [todo EXCEPT ![t] = todo'[t]]
         /\ Advance(t, todo'[t])
         /\ Doing(t, <<"restore">>) => Has(todo'[t], <<"restoreFrom", 0>>)
         /\ \A v \in Nat : Doing(t, <<"restoreFrom", v>>) => RestoresFrom(t, v)
<1>. DEFINE x == Head(todo[t])
<1>1. todo[t] # <<>> /\ todo[t] \in Seq(Accesses) /\ DOMAIN todo = F!Threads
  BY DEF F!Step, F!Idle, FilterTypes, Sound
<1>2. x \in Accesses
  BY <1>1, HeadTail
<1>3. (x[1] \in {"addRead", "killRead"} => ~ F!IsCookie(x[2])) => Advance(t, Tail(todo[t]))
  <2>1. (x[1] \in {"addRead", "killRead"} => ~ F!IsCookie(x[2])) => \A v \in Nat : ~ Skips(t, v)
    BY DEF Skips, Doing
  <2>. QED BY <1>1, <2>1, AdvanceTail
<1>4. CASE /\ F!Goes(t) /\ x[1] \notin {"restore", "restoreFrom"}
           /\ x[1] \in {"addRead", "killRead"} => ~ F!IsCookie(x[2])
  <2>1. todo' = [todo EXCEPT ![t] = todo'[t]] /\ todo'[t] = Tail(todo[t])
    BY <1>1, <1>4 DEF F!Goes
  <2>2. ~ Doing(t, <<"restore">>) /\ \A v : ~ Doing(t, <<"restoreFrom", v>>)
    BY <1>4 DEF Doing
  <2>. QED BY <1>3, <1>4, <2>1, <2>2
<1>5. CASE /\ x[1] = "addRead" \/ x[1] = "killRead"
           /\ F!IsCookie(x[2]) /\ todo' = [todo EXCEPT ![t] = Tail(Tail(@))]
  <2>1. x[2] \in Nat /\ (x = <<"addRead", x[2]>> \/ x = <<"killRead", x[2]>>)
    BY <1>2, <1>5, Forms
  <2>2. Skips(t, x[2])
    BY <1>1, <1>5, <2>1 DEF Skips, Doing
  <2>3. Advance(t, Tail(Tail(todo[t])))
    BY <2>1, <2>2, AdvanceSkip
  <2>4. todo' = [todo EXCEPT ![t] = todo'[t]] /\ todo'[t] = Tail(Tail(todo[t]))
    BY <1>1, <1>5
  <2>5. ~ Doing(t, <<"restore">>) /\ \A v : ~ Doing(t, <<"restoreFrom", v>>)
    BY <1>5 DEF Doing
  <2>. QED BY <2>3, <2>4, <2>5
<1>6. CASE x[1] = "mng" /\ F!Mng(t)
  <2>1. Doing(t, <<"mng">>)
    BY <1>1, <1>2, <1>6, Forms DEF Doing
  <2>2. Advance(t, todo'[t])
    BY <1>6, <2>1, AdvanceMng
  <2>3. todo' = [todo EXCEPT ![t] = todo'[t]]
    BY <1>1, <1>6 DEF F!Mng
  <2>4. ~ Doing(t, <<"restore">>) /\ \A v : ~ Doing(t, <<"restoreFrom", v>>)
    BY <1>6 DEF Doing
  <2>. QED BY <2>2, <2>3, <2>4
<1>7. CASE x[1] = "restore" /\ F!Restore(t)
  <2>1. ~ Opens(x) /\ \A v : ~ Doing(t, <<"restoreFrom", v>>)
    BY <1>7 DEF Opens, Doing
  <2>2. todo' = [todo EXCEPT ![t] = todo'[t]]
        /\ todo'[t] = F!Add(0) \o << <<"restoreFrom", 0>> >> \o Tail(todo[t])
    BY <1>1, <1>7 DEF F!Restore
  <2>3. Advance(t, todo'[t]) /\ Has(todo'[t], <<"restoreFrom", 0>>)
    BY <1>1, <2>1, <2>2, PutAhead
  <2>. QED BY <2>1, <2>2, <2>3
<1>8. CASE x[1] = "restoreFrom" /\ F!RestoreFrom(t, x[2])
  <2>1. ~ Opens(x) /\ ~ Doing(t, <<"restore">>)
    BY <1>8 DEF Opens, Doing
  <2>2. x[2] \in Nat /\ \A v : Doing(t, <<"restoreFrom", v>>) => v = x[2]
    BY <1>2, <1>8, Forms DEF Doing
  <2>3. CASE (\A w \in active : w < x[2]) /\ F!Goes(t)
    <3>1. todo' = [todo EXCEPT ![t] = todo'[t]] /\ todo'[t] = Tail(todo[t])
      BY <1>1, <2>3 DEF F!Goes
    <3>2. RestoresFrom(t, x[2])
      BY <2>3 DEF RestoresFrom
    <3>. QED BY <1>3, <1>8, <2>1, <2>2, <3>1, <3>2
  <2>4. CASE \E w \in active :
               /\ x[2] <= w /\ \A u \in active : x[2] <= u => w <= u
               /\ todo' = [todo EXCEPT ![t] =
                             F!Add(w) \o << <<"restoreFrom", w + 1>> >> \o Tail(@)]
    <3>1. PICK w \in active :
               /\ x[2] <= w /\ \A u \in active : x[2] <= u => w <= u
               /\ todo' = [todo EXCEPT ![t] =
                             F!Add(w) \o << <<"restoreFrom", w + 1>> >> \o Tail(@)]
      BY <2>4
    <3>2. w \in Nat /\ w + 1 \in Nat
      BY DEF FilterTypes
    <3>3. todo' = [todo EXCEPT ![t] = todo'[t]]
          /\ todo'[t] = F!Add(w) \o << <<"restoreFrom", w + 1>> >> \o Tail(todo[t])
      BY <1>1, <3>1
    <3>4. /\ Advance(t, todo'[t]) /\ Has(todo'[t], <<"addWrite", w>>)
          /\ Has(todo'[t], <<"restoreFrom", w + 1>>)
      BY <1>1, <2>1, <3>2, <3>3, PutAhead
    <3>5. RestoresFrom(t, x[2])
      BY <3>1, <3>4 DEF RestoresFrom
    <3>. QED BY <2>1, <2>2, <3>3, <3>4, <3>5
  <2>. QED BY <1>8, <2>3, <2>4 DEF F!RestoreFrom
<1>9. \/ /\ F!Goes(t) /\ x[1] \notin {"restore", "restoreFrom"}
         /\ x[1] \in {"addRead", "killRead"} => ~ F!IsCookie(x[2])
      \/ /\ x[1] = "addRead" \/ x[1] = "killRead"
         /\ F!IsCookie(x[2]) /\ todo' = [todo EXCEPT ![t] = Tail(Tail(@))]
      \/ x[1] = "mng" /\ F!Mng(t)
      \/ x[1] = "restore" /\ F!Restore(t)
      \/ x[1] = "restoreFrom" /\ F!RestoreFrom(t, x[2])
  BY DEF F!Step, F!MacFirst, F!MacLast, F!RxRead, F!RxLists, F!RxWrite, F!AddRead, F!AddWrite,
         F!KillRead, F!KillWrite, F!MngIs, F!Hw
<1>. QED BY <1>4, <1>5, <1>6, <1>7, <1>8, <1>9

(* The calls. *)
Only(s, kinds) == \A x : Has(s, x) => x[1] \in kinds
Call(s) == Sound(s) /\ s # <<>> /\ ~ Continues(Head(s))

LEMMA ModeIs ==
  /\ Call(F!RxMode) /\ Has(F!RxMode, <<"rxRead">>) /\ Head(F!RxMode) # <<"hw">>
  /\ Only(F!RxMode, {"rxRead", "rxLists", "rxWrite"})
<1>1. F!RxMode \in Seq(Accesses) /\ F!RxMode # <<>>
  BY DEF F!RxMode, Accesses
<1>2. F!RxMode \o <<>> = F!RxMode
  BY <1>1, ConcatEmptySeq
<1>3. Clear(F!RxMode) /\ Has(F!RxMode, <<"rxRead">>)
      /\ \A z : Has(F!RxMode, z) <=>
                z \in {<<"rxRead">>, <<"rxLists">>, <<"rxWrite">>} \/ Has(<<>>, z)
  BY <1>2, ClearEmpty, ClearMode
<1>4. Only(F!RxMode, {"rxRead", "rxLists", "rxWrite"})
  BY <1>3, HasNone DEF Only
<1>. QED BY <1>1, <1>3, <1>4 DEF Clear, Call

LEMMA ConfigureIs ==
  /\ Call(F!Configure) /\ Clear(F!Configure)
  /\ Has(F!Configure, <<"rxRead">>) /\ Has(F!Configure, <<"restore">>)
  /\ Only(F!Configure, {"rxRead", "rxLists", "rxWrite", "restore"})
<1>. DEFINE x == <<"restore">>  r == <<x>>
<1>1. x \in Accesses /\ ~ Opens(x) /\ ~ Continues(x) /\ x # <<"hw">>
  BY DEF Accesses, Opens, Continues
<1>2. r \in Seq(Accesses)
  BY <1>1
<1>3. F!Configure = F!RxMode \o r
  BY DEF F!Configure
<1>. HIDE DEF x
<1>4. <<x>> \o <<>> = <<x>>
  BY <1>2, ConcatEmptySeq
<1>. HIDE DEF r
<1>5. Clear(r) /\ \A y : Has(r, y) <=> x = y \/ Has(<<>>, y)
  <2>1. Clear(<<x>> \o <<>>) /\ \A y : Has(<<x>> \o <<>>, y) <=> x = y \/ Has(<<>>, y)
    BY <1>1, ClearOne, ClearEmpty
  <2>. QED BY <1>4, <2>1 DEF r
<1>6. /\ Clear(F!Configure) /\ Has(F!Configure, <<"rxRead">>)
      /\ \A z : Has(F!Configure, z) <=>
                z \in {<<"rxRead">>, <<"rxLists">>, <<"rxWrite">>} \/ Has(r, z)
  BY <1>3, <1>5, ClearMode
<1>7. F!Configure # <<>>
  BY <1>6, HasNone
<1>. QED BY <1>5, <1>6, <1>7, HasNone DEF Call, Only, Clear, x

LEMMA ResetIs ==
  /\ Call(F!Reset) /\ Head(F!Reset) = <<"hw">>
  /\ Has(Tail(F!Reset), <<"rxRead">>) /\ Has(Tail(F!Reset), <<"restore">>)
  /\ Only(F!Reset, {"hw", "mng", "rxRead", "rxLists", "rxWrite", "restore"})
<1>. DEFINE x == <<"hw">>  y == <<"mng">>  s == F!Configure  u == Cons(y, s)
<1>1. /\ x \in Accesses /\ y \in Accesses /\ ~ Opens(x) /\ ~ Continues(x) /\ ~ Opens(y)
      /\ ~ Continues(y) /\ x # y
  BY DEF Accesses, Opens, Continues
<1>2. Sound(s) /\ s \in Seq(Accesses)
  BY ConfigureIs DEF Clear, Sound
<1>3. F!Reset = <<x, y>> \o s
  BY DEF F!Reset
<1>4. x = <<"hw">> /\ y = <<"mng">>
  OBVIOUS
<1>. HIDE DEF x, y, s
<1>5. F!Reset = Cons(x, u)
  BY <1>1, <1>2, <1>3, TwoIs
<1>6. Sound(u) /\ u # <<>> /\ Head(u) = y
  BY <1>1, <1>2, <1>4, ConfigureIs, SoundCons DEF Clear, s
<1>7. \A z : Has(u, z) <=> y = z \/ Has(s, z)
  BY <1>1, <1>2, HasCons
<1>. HIDE DEF u
<1>8. u \in Seq(Accesses)
  BY <1>6 DEF Sound
<1>9. Sound(F!Reset) /\ F!Reset # <<>> /\ Head(F!Reset) = x
  BY <1>1, <1>4, <1>5, <1>6, SoundCons
<1>10. Tail(F!Reset) = u /\ \A z : Has(F!Reset, z) <=> x = z \/ Has(u, z)
  BY <1>1, <1>5, <1>8, ConsIs, HasCons
<1>11. /\ Has(s, <<"rxRead">>) /\ Has(s, <<"restore">>)
       /\ \A z : Has(s, z) => z[1] \in {"rxRead", "rxLists", "rxWrite", "restore"}
  BY ConfigureIs DEF Only, s
<1>12. Only(F!Reset, {"hw", "mng", "rxRead", "rxLists", "rxWrite", "restore"})
  <2>1. x[1] = "hw" /\ y[1] = "mng"
    BY <1>4
  <2>. QED BY <1>7, <1>10, <1>11, <2>1 DEF Only
<1>. QED BY <1>1, <1>4, <1>7, <1>9, <1>10, <1>11, <1>12 DEF Call

LEMMA AddIs ==
  ASSUME NEW v \in Nat
  PROVE  /\ Call(F!Add(v)) /\ Head(F!Add(v)) # <<"hw">>
         /\ Has(F!Add(v), <<"addWrite", v>>) /\ Only(F!Add(v), {"addRead", "addWrite"})
<1>1. F!Add(v) \in Seq(Accesses) /\ F!Add(v) # <<>>
  <2>1. <<"addRead", v>> \in Accesses /\ <<"addWrite", v>> \in Accesses
    BY DEF Accesses
  <2>. QED BY <2>1 DEF F!Add
<1>2. F!Add(v) \o <<>> = F!Add(v)
  BY <1>1, ConcatEmptySeq
<1>3. Clear(F!Add(v)) /\ \A z : Has(F!Add(v), z) <=>
                z = <<"addRead", v>> \/ z = <<"addWrite", v>> \/ Has(<<>>, z)
  BY <1>2, ClearEmpty, ClearAdd
<1>. QED BY <1>1, <1>3, HasNone DEF Clear, Call, Only

LEMMA KillIs ==
  ASSUME NEW v \in Nat
  PROVE  /\ Call(F!Kill(v)) /\ Head(F!Kill(v)) # <<"hw">>
         /\ \A x : Has(F!Kill(v), x) => x = <<"killRead", v>> \/ x = <<"killWrite", v>>
<1>1. F!Kill(v) \in Seq(Accesses) /\ F!Kill(v) # <<>>
  <2>1. <<"killRead", v>> \in Accesses /\ <<"killWrite", v>> \in Accesses
    BY DEF Accesses
  <2>. QED BY <2>1 DEF F!Kill
<1>2. F!Kill(v) \o <<>> = F!Kill(v)
  BY <1>1, ConcatEmptySeq
<1>3. Clear(F!Kill(v)) /\ \A z : Has(F!Kill(v), z) <=>
                z = <<"killRead", v>> \/ z = <<"killWrite", v>> \/ Has(<<>>, z)
  BY <1>2, ClearEmpty, ClearKill
<1>. QED BY <1>1, <1>3, HasNone DEF Clear, Call

LEMMA OneIs ==
  ASSUME NEW d \in {"mng", "mac0", "macLast"}
  PROVE  /\ Clear(<< <<d>> >>) /\ << <<d>> >> \in Seq(Accesses) /\ << <<d>> >> # <<>>
         /\ \A x : Has(<< <<d>> >>, x) <=> x = <<d>>
<1>. DEFINE x == <<d>>
<1>1. x \in Accesses /\ ~ Opens(x) /\ ~ Continues(x) /\ x # <<"hw">>
  BY DEF Accesses, Opens, Continues
<1>. HIDE DEF x
<1>2. <<x>> \in Seq(Accesses) /\ <<x>> # <<>>
  BY <1>1
<1>3. <<x>> \o <<>> = <<x>>
  BY <1>2, ConcatEmptySeq
<1>4. Clear(<<x>>) /\ \A y : Has(<<x>>, y) <=> x = y \/ Has(<<>>, y)
  BY <1>1, <1>3, ClearEmpty, ClearOne
<1>. QED BY <1>2, <1>4, HasNone DEF x

MacSteps ==
  << <<"mac0">> >> \o IF kind = "82571" THEN << <<"macLast">> >> ELSE <<>>
LEMMA MacStepsAre ==
  /\ Call(MacSteps) /\ Head(MacSteps) # <<"hw">> /\ Has(MacSteps, <<"mac0">>)
  /\ kind = "82571" <=> Has(MacSteps, <<"macLast">>)
  /\ Only(MacSteps, {"mac0", "macLast"})
<1>. DEFINE x == <<"mac0">>  last == IF kind = "82571" THEN << <<"macLast">> >> ELSE <<>>
<1>1. x \in Accesses /\ ~ Opens(x) /\ ~ Continues(x) /\ x # <<"hw">>
  BY DEF Accesses, Opens, Continues
<1>2. /\ Clear(last) /\ Only(last, {"macLast"})
      /\ kind = "82571" <=> Has(last, <<"macLast">>)
  BY OneIs, ClearEmpty, HasNone DEF Only
<1>3. MacSteps = <<x>> \o last /\ x = <<"mac0">> /\ x[1] = "mac0" /\ x # <<"macLast">>
  BY DEF MacSteps
<1>. HIDE DEF x, last
<1>4. Clear(MacSteps) /\ \A y : Has(MacSteps, y) <=> x = y \/ Has(last, y)
  BY <1>1, <1>2, <1>3, ClearOne
<1>5. MacSteps # <<>>
  BY <1>4, HasNone
<1>. QED BY <1>2, <1>3, <1>4, <1>5 DEF Clear, Call, Only

LEMMA TypesStart == ASSUME F!Assumption, F!Init PROVE FilterTypes
<1>1. DOMAIN rar = 0 .. Rars - 1 /\ DOMAIN shra = 1 .. Rars - 1
  BY DEF F!Init
<1>2. \A t \in F!Threads : Sound(todo[t])
  BY ConfigureIs, SoundEmpty DEF F!Init, Call
<1>3. List(uc)
  BY DEF F!Init, List
<1>. QED BY <1>1, <1>2, <1>3 DEF F!Init, FilterTypes, F!NoVid

LEMMA BeginTypes ==
  ASSUME F!Assumption, FilterTypes, NEW t \in F!Threads, NEW steps, Call(steps), F!Begin(t, steps),
         List(uc'), vlans' \subseteq Vids
  PROVE  /\ FilterTypes' /\ todo'[t] = steps
         /\ \A u \in F!Threads : u # t => todo'[u] = todo[u]
<1>1. /\ DOMAIN todo' = F!Threads /\ todo'[t] = steps
      /\ \A u \in F!Threads : u # t => todo'[u] = todo[u]
  BY DEF F!Begin, FilterTypes
<1>2. \A u \in F!Threads : Sound(todo'[u])
  BY <1>1 DEF FilterTypes, Call
<1>3. UNCHANGED <<kind, rar, shra, held, active, mng, cookie>>
  BY DEF F!Begin, F!table, F!vlan
<1>. QED BY <1>1, <1>2, <1>3 DEF FilterTypes

(* What the calls are, and what they leave alone. *)
Begins(t, steps) ==
  /\ F!Begin(t, steps) /\ Call(steps)
  /\ UNCHANGED <<kind, rctl, rar, shra, mta, vfta, active, mng, cookie, laa, held>>
  /\ \/ /\ steps = F!RxMode /\ UNCHANGED <<vlans, mac>>
     \/ /\ UNCHANGED <<flags, uc, mc>>
        /\ \/ \E v \in Vids :
                \/ steps = F!Add(v) /\ vlans' = vlans \cup {v} /\ UNCHANGED mac
                \/ steps = F!Kill(v) /\ vlans' = vlans \ {v} /\ UNCHANGED mac
           \/ steps = F!Reset /\ UNCHANGED <<vlans, mac>>
           \/ steps = << <<"mng">> >> /\ UNCHANGED <<vlans, mac>>
           \/ steps = MacSteps /\ UNCHANGED vlans
  /\ steps = MacSteps => t = "rtnl"

LEMMA CallsAre ==
  ASSUME F!Assumption, FilterTypes,
         F!SetRxMode \/ F!SetMac \/ F!ResetTask \/ F!WatchMng
           \/ \E v \in Vids : F!AddVid(v) \/ F!KillVid(v)
  PROVE  List(uc') /\ vlans' \subseteq Vids
         /\ \E t \in F!Threads : \E steps : Begins(t, steps)
<1>0. << <<"mng">> >> # MacSteps /\ F!RxMode # MacSteps /\ F!Reset # MacSteps
      /\ \A v \in Vids : F!Add(v) # MacSteps /\ F!Kill(v) # MacSteps
  <2>1. Has(MacSteps, <<"mac0">>)
    BY MacStepsAre
  <2>2. ~ Has(<< <<"mng">> >>, <<"mac0">>)
    BY OneIs
  <2>3. ~ Has(F!RxMode, <<"mac0">>)
    BY ModeIs DEF Only
  <2>4. ~ Has(F!Reset, <<"mac0">>)
    BY ResetIs DEF Only
  <2>5. ASSUME NEW v \in Vids
        PROVE  ~ Has(F!Add(v), <<"mac0">>) /\ ~ Has(F!Kill(v), <<"mac0">>)
    <3>1. v \in Nat
      BY DEF F!Assumption
    <3>2. Only(F!Add(v), {"addRead", "addWrite"})
      BY <3>1, AddIs
    <3>3. ~ Has(F!Add(v), <<"mac0">>)
      BY <3>2 DEF Only
    <3>4. <<"mac0">> # <<"killRead", v>> /\ <<"mac0">> # <<"killWrite", v>>
      OBVIOUS
    <3>. QED BY <3>1, <3>3, <3>4, KillIs
  <2>. QED BY <2>1, <2>2, <2>3, <2>4, <2>5
<1>1. CASE F!SetRxMode
  <2>1. Begins("stack", F!RxMode)
    BY <1>0, <1>1, ModeIs DEF F!SetRxMode, Begins, F!Begin, F!table, F!vlan
  <2>2. List(uc') /\ vlans' \subseteq Vids
    BY <1>1 DEF F!SetRxMode, FilterTypes, F!Assumption, List
  <2>. QED BY <2>1, <2>2 DEF F!Threads
<1>2. CASE F!SetMac
  <2>1. Begins("rtnl", MacSteps)
    BY <1>2, MacStepsAre DEF F!SetMac, Begins, F!Begin, F!table, F!vlan, F!asked, MacSteps
  <2>2. List(uc') /\ vlans' \subseteq Vids
    BY <1>2 DEF F!SetMac, F!asked, FilterTypes, List
  <2>. QED BY <2>1, <2>2 DEF F!Threads
<1>3. CASE F!ResetTask
  <2>1. Begins("rtnl", F!Reset)
    BY <1>0, <1>3, ResetIs DEF F!ResetTask, Begins, F!Begin, F!table, F!vlan, F!asked
  <2>2. List(uc') /\ vlans' \subseteq Vids
    BY <1>3 DEF F!ResetTask, F!asked, FilterTypes, List
  <2>. QED BY <2>1, <2>2 DEF F!Threads
<1>4. CASE F!WatchMng
  <2>0. Call(<< <<"mng">> >>)
    BY OneIs DEF Call, Clear
  <2>1. Begins("wd", << <<"mng">> >>)
    BY <1>0, <1>4, <2>0 DEF F!WatchMng, Begins, F!Begin, F!table, F!vlan, F!asked
  <2>2. List(uc') /\ vlans' \subseteq Vids
    BY <1>4 DEF F!WatchMng, F!asked, FilterTypes, List
  <2>. QED BY <2>1, <2>2 DEF F!Threads
<1>5. ASSUME NEW v \in Vids, F!AddVid(v) \/ F!KillVid(v)
      PROVE  List(uc') /\ vlans' \subseteq Vids
             /\ \E t \in F!Threads : \E steps : Begins(t, steps)
  <2>0. v \in Nat
    BY DEF F!Assumption
  <2>1. F!AddVid(v) => Begins("rtnl", F!Add(v))
    BY <1>0, <2>0, AddIs DEF F!AddVid, Begins, F!Begin, F!table, F!vlan
  <2>2. F!KillVid(v) => Begins("rtnl", F!Kill(v))
    BY <1>0, <2>0, KillIs DEF F!KillVid, Begins, F!Begin, F!table, F!vlan
  <2>3. List(uc') /\ vlans' \subseteq Vids
    BY <1>5 DEF F!AddVid, F!KillVid, FilterTypes, List
  <2>. QED BY <1>5, <2>1, <2>2, <2>3 DEF F!Threads
<1>. QED BY <1>1, <1>2, <1>3, <1>4, <1>5

LEMMA StepTypes ==
  ASSUME F!Assumption, FilterTypes, NEW t \in F!Threads, F!Step(t)
  PROVE  FilterTypes' /\ \A u \in F!Threads : u # t => todo'[u] = todo[u]
<1>. DEFINE x == Head(todo[t])
<1>1. /\ DOMAIN todo' = F!Threads /\ Sound(todo'[t])
      /\ \A u \in F!Threads : u # t => todo'[u] = todo[u]
  BY StepAdvances DEF FilterTypes, Advance
<1>2. todo[t] \in Seq(Accesses) /\ todo[t] # <<>> /\ x \in Accesses
  <2>1. todo[t] \in Seq(Accesses) /\ todo[t] # <<>>
    BY DEF F!Step, F!Idle, FilterTypes, Sound
  <2>. QED BY <2>1, HeadTail
<1>3. /\ x[1] = "addWrite" => x[2] \in Nat
      /\ x[1] = "mngIs" => x[2] \in Cookies
  BY <1>2, Forms
<1>4. UNCHANGED <<kind, uc, vlans, cookie>>
  BY DEF F!Step, F!asked
<1>5. DOMAIN rar' = 0 .. Rars - 1 /\ DOMAIN shra' = 1 .. Rars - 1
  BY DEF FilterTypes, F!Step, F!MacFirst, F!MacLast, F!RxRead, F!RxLists, F!RxWrite, F!AddRead,
         F!AddWrite, F!KillRead, F!KillWrite, F!Mng, F!MngIs, F!Restore, F!RestoreFrom, F!Hw,
         F!table, F!Fresh, F!WriteUc, F!Put, F!Zeroed
<1>6. DOMAIN held' = F!Threads
  BY DEF FilterTypes, F!Step, F!MacFirst, F!MacLast, F!RxRead, F!RxLists, F!RxWrite, F!AddRead,
         F!AddWrite, F!KillRead, F!KillWrite, F!Mng, F!MngIs, F!Restore, F!RestoreFrom, F!Hw, F!Holds
<1>7. active' \subseteq Nat /\ mng' \in Cookies \cup {F!NoVid}
  BY <1>3 DEF FilterTypes, F!Step, F!MacFirst, F!MacLast, F!RxRead, F!RxLists, F!RxWrite, F!AddRead,
         F!AddWrite, F!KillRead, F!KillWrite, F!Mng, F!MngIs, F!Restore, F!RestoreFrom, F!Hw,
         F!vlan, F!FilterOff
<1>8. \A u \in F!Threads : Sound(todo'[u])
  BY <1>1 DEF FilterTypes
<1>. QED BY <1>1, <1>4, <1>5, <1>6, <1>7, <1>8 DEF FilterTypes, List

LEMMA TypesStep == ASSUME F!Assumption, FilterTypes, F!Next PROVE FilterTypes'
<1>1. CASE F!SetRxMode \/ F!SetMac \/ F!ResetTask \/ F!WatchMng
             \/ \E v \in Vids : F!AddVid(v) \/ F!KillVid(v)
  BY <1>1, CallsAre, BeginTypes DEF Begins
<1>2. CASE F!WatchLaa \/ F!OtherPortResets \/ F!FirmwareChanges
  BY <1>2 DEF F!WatchLaa, F!OtherPortResets, F!FirmwareChanges, F!table, F!vlan, F!asked,
              FilterTypes, List
<1>3. CASE \E t \in F!Threads : F!Step(t)
  BY <1>3, StepTypes
<1>. QED BY <1>1, <1>2, <1>3 DEF F!Next

LEMMA FilterTyped == ASSUME F!Assumption PROVE F!Spec => []FilterTypes
<1>1. ASSUME FilterTypes, UNCHANGED F!vars PROVE FilterTypes'
  BY <1>1 DEF F!vars, F!table, F!vlan, F!asked, FilterTypes, List
<1>. QED BY <1>1, TypesStart, TypesStep, PTL DEF F!Spec

(* The unicast list is written from the last free register down; the *)
(* first register, and the last one of the 82571, are left alone.    *)
LEMMA FreeIs ==
  ASSUME F!Assumption
  PROVE  F!Free \in Nat /\ F!Free < Rars /\ (kind = "82571" => F!Free < Rars - 1)
BY DEF F!Free, F!Assumption

LEMMA PutIs ==
  ASSUME F!Assumption, NEW list, NEW n \in Nat, n <= F!Free, NEW f, NEW i \in DOMAIN f, i \in Nat
  PROVE  /\ i = 0 \/ i > F!Free => F!Put(f, F!Placed(list, n))[i] = f[i]
         /\ \A k \in 1 .. n : i = F!Free - k + 1 => F!Put(f, F!Placed(list, n))[i] = list[k]
<1>. DEFINE pairs == F!Placed(list, n)
<1>1. F!Free \in Nat
  BY FreeIs
<1>2. \A p \in pairs : \E k \in 1 .. n : p = <<F!Free - k + 1, list[k]>>
  BY DEF F!Placed
<1>3. \A k \in 1 .. n : <<F!Free - k + 1, list[k]>> \in pairs
  BY DEF F!Placed
<1>4. F!Put(f, pairs)[i] = IF \E p \in pairs : p[1] = i
                            THEN (CHOOSE p \in pairs : p[1] = i)[2] ELSE f[i]
  BY DEF F!Put
<1>. HIDE DEF pairs
<1>5. ASSUME i = 0 \/ i > F!Free PROVE F!Put(f, pairs)[i] = f[i]
  <2>1. \A p \in pairs : p[1] # i
    BY <1>1, <1>2, <1>5
  <2>. QED BY <1>4, <2>1
<1>6. ASSUME NEW k \in 1 .. n, i = F!Free - k + 1 PROVE F!Put(f, pairs)[i] = list[k]
  <2>1. \A p \in pairs : p[1] = i => p[2] = list[k]
    <3>. SUFFICES ASSUME NEW p \in pairs, p[1] = i PROVE p[2] = list[k]
      OBVIOUS
    <3>1. PICK h \in 1 .. n : p = <<F!Free - h + 1, list[h]>>
      BY <1>2
    <3>2. h = k
      BY <1>1, <1>6, <3>1
    <3>. QED BY <3>1, <3>2
  <2>2. <<F!Free - k + 1, list[k]>> \in pairs /\ <<F!Free - k + 1, list[k]>>[1] = i
    BY <1>3, <1>6
  <2>. DEFINE c == CHOOSE p \in pairs : p[1] = i
  <2>3. c \in pairs /\ c[1] = i
    BY <2>2
  <2>4. F!Put(f, pairs)[i] = c[2]
    BY <1>4, <2>2
  <2>. QED BY <2>1, <2>3, <2>4
<1>. QED BY <1>5, <1>6 DEF pairs

LEMMA WrittenUc ==
  ASSUME F!Assumption, FilterTypes, NEW fails \in 1 .. Len(uc) + 1, F!WriteUc(fails),
         UNCHANGED <<kind, uc>>
  PROVE  /\ \A i \in DOMAIN rar : i = 0 \/ i > F!Free => rar'[i] = rar[i]
         /\ F!UcFails(fails) \/ Placed'
<1>1. F!Free \in Nat /\ F!Free < Rars /\ Len(uc) \in Nat /\ Rars \in Nat
      /\ DOMAIN rar = 0 .. Rars - 1 /\ DOMAIN shra = 1 .. Rars - 1
  BY FreeIs DEF FilterTypes, List, F!Assumption
<1>2. CASE Len(uc) > F!Free
  BY <1>1, <1>2 DEF F!WriteUc, F!UcFails
<1>3. CASE Len(uc) <= F!Free
  <2>. DEFINE n == IF fails <= Len(uc) THEN fails - 1 ELSE Len(uc)
              zero == IF fails <= Len(uc) THEN 0 ELSE F!Free - n
  <2>1. /\ n \in Nat /\ n <= F!Free /\ zero \in Nat /\ zero <= F!Free
        /\ ~ F!UcFails(fails) => n = Len(uc) /\ zero = F!Free - Len(uc)
    BY <1>1, <1>3 DEF F!UcFails
  <2>2. IF kind = "pch2"
        THEN shra' = F!Put(shra, F!Placed(uc, n)) /\ rar' = F!Zeroed(rar, zero)
        ELSE rar' = F!Zeroed(F!Put(rar, F!Placed(uc, n)), zero) /\ UNCHANGED shra
    BY <1>1, <1>3 DEF F!WriteUc
  <2>. HIDE DEF n, zero
  <2>3. \A i \in DOMAIN rar : i = 0 \/ i > F!Free => rar'[i] = rar[i]
    <3>. SUFFICES ASSUME NEW i \in DOMAIN rar, i = 0 \/ i > F!Free PROVE rar'[i] = rar[i]
      OBVIOUS
    <3>1. i \in Nat /\ i \notin 1 .. zero
      BY <1>1, <2>1
    <3>2. F!Put(rar, F!Placed(uc, n))[i] = rar[i]
      BY <2>1, <3>1, PutIs
    <3>3. DOMAIN F!Put(rar, F!Placed(uc, n)) = DOMAIN rar
      BY DEF F!Put
    <3>. QED BY <2>2, <3>1, <3>2, <3>3 DEF F!Zeroed
  <2>4. ASSUME ~ F!UcFails(fails) PROVE Placed'
    <3>1. n = Len(uc) /\ zero = F!Free - Len(uc) /\ F!Free' = F!Free
      BY <2>1, <2>4 DEF F!Free
    <3>2. ASSUME NEW k \in 1 .. Len(uc) PROVE Regs'[F!Free - k + 1] = uc[k]
      <4>. DEFINE i == F!Free - k + 1
      <4>1. i \in Nat /\ i > F!Free - Len(uc) /\ i \in 1 .. Rars - 1
        BY <1>1, <1>3
      <4>2. i \in DOMAIN rar /\ i \in DOMAIN shra
        BY <1>1, <4>1
      <4>. HIDE DEF i
      <4>3. i = F!Free - k + 1
        BY DEF i
      <4>4. F!Put(rar, F!Placed(uc, n))[i] = uc[k]
        BY <2>1, <3>1, <4>1, <4>2, <4>3, PutIs
      <4>5. F!Put(shra, F!Placed(uc, n))[i] = uc[k]
        BY <2>1, <3>1, <4>1, <4>2, <4>3, PutIs
      <4>6. i \notin 1 .. zero
        BY <1>1, <3>1, <4>1
      <4>7. DOMAIN F!Put(rar, F!Placed(uc, n)) = DOMAIN rar
        BY DEF F!Put
      <4>. QED BY <2>2, <4>2, <4>3, <4>4, <4>5, <4>6, <4>7 DEF Regs, F!Zeroed
    <3>3. ASSUME kind # "pch2", NEW i \in 1 .. F!Free - Len(uc) PROVE rar'[i] = F!NoAddress
      <4>1. DOMAIN F!Put(rar, F!Placed(uc, n)) = DOMAIN rar
        BY DEF F!Put
      <4>2. i \in DOMAIN rar /\ i \in 1 .. zero
        BY <1>1, <3>1
      <4>. QED BY <2>2, <3>3, <4>1, <4>2 DEF F!Zeroed
    <3>. QED BY <1>3, <3>1, <3>2, <3>3 DEF Placed, F!NoAddress
  <2>. QED BY <2>3, <2>4
<1>. QED BY <1>1, <1>2, <1>3

(* What a step does to the registers of the interface's address. *)
LEMMA MacRegisters ==
  ASSUME F!Assumption, FilterTypes, NEW t \in F!Threads, F!Step(t)
  PROVE  /\ rar'[0] = rar[0] \/ rar'[0] = mac
         /\ kind = "82571" /\ laa /\ rar[Rars - 1] = mac => laa' /\ rar'[Rars - 1] = mac
         /\ Doing(t, <<"mac0">>) => rar'[0] = mac
         /\ Doing(t, <<"macLast">>) => laa' /\ rar'[Rars - 1] = mac
         /\ UNCHANGED <<mac, kind>>
<1>. DEFINE x == Head(todo[t])
<1>1. /\ DOMAIN rar = 0 .. Rars - 1 /\ Rars \in Nat /\ Rars > 1
      /\ 0 \in DOMAIN rar /\ Rars - 1 \in DOMAIN rar /\ 0 # Rars - 1
  BY DEF FilterTypes, F!Assumption
<1>2. UNCHANGED <<mac, kind>>
  BY DEF F!Step
<1>3. /\ Doing(t, <<"mac0">>) => x[1] = "mac0"
      /\ Doing(t, <<"macLast">>) => x[1] = "macLast"
  BY DEF Doing
<1>4. CASE x[1] = "mac0" /\ F!MacFirst(t)
  BY <1>1, <1>2, <1>3, <1>4 DEF F!MacFirst
<1>5. CASE x[1] = "macLast" /\ F!MacLast(t)
  BY <1>1, <1>2, <1>3, <1>5 DEF F!MacLast
<1>6. CASE x[1] = "hw" /\ F!Hw(t) /\ UNCHANGED laa
  <2>1. rar'[0] = mac
    BY <1>1, <1>6 DEF F!Hw, F!Fresh
  <2>2. ASSUME kind = "82571", laa, rar[Rars - 1] = mac PROVE rar'[Rars - 1] = mac
    BY <1>1, <1>6, <2>2 DEF F!Hw, F!Fresh
  <2>. QED BY <1>2, <1>3, <1>6, <2>1, <2>2
<1>7. CASE x[1] = "rxLists" /\ F!RxLists(t) /\ UNCHANGED <<laa, uc>>
  <2>1. CASE UNCHANGED rar
    BY <1>2, <1>3, <1>7, <2>1
  <2>2. CASE \E fails \in 1 .. Len(uc) + 1 : F!WriteUc(fails)
    <3>1. \A i \in DOMAIN rar : i = 0 \/ i > F!Free => rar'[i] = rar[i]
      BY <1>2, <1>7, <2>2, WrittenUc
    <3>2. kind = "82571" => Rars - 1 > F!Free
      BY FreeIs
    <3>. QED BY <1>1, <1>2, <1>3, <1>7, <3>1, <3>2
  <2>3. Len(uc) \in Nat
    BY DEF FilterTypes, List
  <2>4. CASE "promisc" \in flags
    BY <1>7, <2>1, <2>4 DEF F!RxLists
  <2>5. CASE "promisc" \notin flags
    <3>1. PICK fails \in (IF F!Shared THEN 1 .. Len(uc) + 1 ELSE {Len(uc) + 1}) : F!WriteUc(fails)
      BY <1>7, <2>5 DEF F!RxLists
    <3>2. fails \in 1 .. Len(uc) + 1
      BY <2>3, <3>1
    <3>. QED BY <2>2, <3>1, <3>2
  <2>. QED BY <2>4, <2>5
<1>8. CASE UNCHANGED <<rar, laa>> /\ x[1] # "mac0" /\ x[1] # "macLast"
  BY <1>2, <1>3, <1>8
<1>9. UNCHANGED uc
  BY DEF F!Step, F!asked
<1>. QED BY <1>4, <1>5, <1>6, <1>7, <1>8, <1>9
     DEF F!Step, F!RxRead, F!RxWrite, F!AddRead, F!AddWrite, F!KillRead, F!KillWrite, F!Mng,
         F!MngIs, F!Restore, F!RestoreFrom, F!table

LEMMA MacStart == ASSUME F!Assumption, F!Init PROVE MacInv
BY DEF F!Init, MacInv, F!Assumption

LEMMA MacStep ==
  ASSUME F!Assumption, FilterTypes, MacInv, F!Next
  PROVE  MacInv'
<1>0. "rtnl" \in F!Threads
  BY DEF F!Threads
<1>1. CASE F!SetRxMode \/ F!SetMac \/ F!ResetTask \/ F!WatchMng
             \/ \E v \in Vids : F!AddVid(v) \/ F!KillVid(v)
  <2>1. PICK t \in F!Threads : \E s : Begins(t, s)
    BY <1>1, CallsAre
  <2>2. PICK s : Begins(t, s)
    BY <2>1
  <2>3. /\ todo'[t] = s /\ \A u \in F!Threads : u # t => todo'[u] = todo[u]
        /\ todo[t] = <<>> /\ UNCHANGED <<kind, rar, laa>>
    <3>1. List(uc') /\ vlans' \subseteq Vids
      BY <1>1, CallsAre
    <3>2. F!Begin(t, s) /\ Call(s) /\ UNCHANGED <<kind, rar, laa>>
      BY <2>2 DEF Begins
    <3>3. todo[t] = <<>>
      BY <3>2 DEF F!Begin, F!MayBegin, F!Idle
    <3>. QED BY <3>1, <3>2, <3>3, BeginTypes
  <2>4. CASE s = MacSteps
    BY <1>0, <2>2, <2>3, <2>4, MacStepsAre DEF Begins, MacInv
  <2>5. CASE s # MacSteps
    <3>1. UNCHANGED mac
      BY <2>2, <2>5 DEF Begins
    <3>2. todo["rtnl"] = <<>> \/ todo'["rtnl"] = todo["rtnl"]
      BY <1>0, <2>3
    <3>. QED BY <2>3, <3>1, <3>2, HasNone DEF MacInv
  <2>. QED BY <2>4, <2>5
<1>2. CASE F!WatchLaa
  <2>1. DOMAIN rar = 0 .. Rars - 1 /\ Rars > 1 /\ Rars \in Nat
    BY DEF FilterTypes, F!Assumption
  <2>. QED BY <1>2, <2>1 DEF F!WatchLaa, MacInv
<1>3. CASE F!OtherPortResets
  <2>1. DOMAIN rar = 0 .. Rars - 1 /\ Rars > 1 /\ Rars \in Nat
    BY DEF FilterTypes, F!Assumption
  <2>. QED BY <1>3, <2>1 DEF F!OtherPortResets, MacInv
<1>4. CASE F!FirmwareChanges
  BY <1>4 DEF F!FirmwareChanges, F!table, MacInv
<1>5. ASSUME NEW t \in F!Threads, F!Step(t) PROVE MacInv'
  <2>1. \A x : x = <<"mac0">> \/ x = <<"macLast">> =>
             (Has(todo["rtnl"], x) => Doing(t, x) \/ Has(todo'["rtnl"], x))
    <3>1. \A u \in F!Threads : u # t => todo'[u] = todo[u]
      BY <1>5, StepTypes
    <3>2. CASE t = "rtnl"
      <4>1. Advance(t, todo'[t])
        BY <1>5, StepAdvances
      <4>2. \A v \in Nat : /\ <<"mac0">> # <<"addWrite", v>> /\ <<"mac0">> # <<"killWrite", v>>
                           /\ <<"macLast">> # <<"addWrite", v>> /\ <<"macLast">> # <<"killWrite", v>>
        OBVIOUS
      <4>. QED BY <3>2, <4>1, <4>2 DEF Advance
    <3>. QED BY <1>0, <3>1, <3>2
  <2>2. /\ rar'[0] = rar[0] \/ rar'[0] = mac
        /\ kind = "82571" /\ laa /\ rar[Rars - 1] = mac => laa' /\ rar'[Rars - 1] = mac
        /\ Doing(t, <<"mac0">>) => rar'[0] = mac
        /\ Doing(t, <<"macLast">>) => laa' /\ rar'[Rars - 1] = mac
        /\ UNCHANGED <<mac, kind>>
    BY <1>5, MacRegisters
  <2>3. CASE kind = "82571"
    BY <2>1, <2>2, <2>3 DEF MacInv
  <2>4. CASE kind # "82571"
    BY <2>1, <2>2, <2>4 DEF MacInv
  <2>. QED BY <2>3, <2>4
<1>. QED BY <1>1, <1>2, <1>3, <1>4, <1>5 DEF F!Next

LEMMA MacIsWritten == ASSUME F!Assumption, FilterTypes, MacInv PROVE F!MacIsHeard
<1>. SUFFICES ASSUME F!Idle("rtnl") PROVE mac \in F!Heard
  BY DEF F!MacIsHeard
<1>1. rar[0] = mac \/ rar[Rars - 1] = mac
  BY HasNone DEF F!Idle, MacInv
<1>2. 0 \in DOMAIN rar /\ Rars - 1 \in DOMAIN rar
  BY DEF FilterTypes, F!Assumption
<1>. QED BY <1>1, <1>2 DEF F!Heard

LEMMA MacStays ==
  ASSUME F!Assumption, FilterTypes, MacInv, [F!Next]_(F!vars) PROVE MacInv'
<1>1. ASSUME UNCHANGED F!vars PROVE MacInv'
  BY <1>1 DEF F!vars, F!table, MacInv
<1>. QED BY <1>1, MacStep

(* The controller hears the address of the interface whenever no change of it *)
(* is under way, whatever the other port of the 82571 resets; calls may       *)
(* overlap.                                                                   *)
THEOREM MacHeard == ASSUME F!Assumption PROVE F!Spec => []F!MacIsHeard
<1>1. F!Spec => []MacInv
  BY FilterTyped, MacStart, MacStays, PTL DEF F!Spec
<1>. QED BY <1>1, FilterTyped, MacIsWritten, PTL

(* When nobody is inside a call everything is in place. *)
LEMMA QuietIs ==
  ASSUME ListsInv, VlanInv, \A t \in F!Threads : todo[t] = <<>>
  PROVE  /\ Good(rctl)
         /\ F!HasVlan => \A v \in vlans : v \in active /\ v \in vfta
<1>1. \A x : ~ Pending(x)
  BY HasNone DEF Pending
<1>2. \A t \in F!Threads : \A x : ~ Doing(t, x)
  BY DEF Doing
<1>. QED BY <1>1, <1>2 DEF ListsInv, VlanInv

(* Only the address of the interface may be written elsewhere. *)
LEMMA GoodStays ==
  ASSUME F!Assumption, FilterTypes, UNCHANGED <<flags, uc, mc, kind, shra, mta>>,
         \A i \in DOMAIN rar : i = 0 \/ i > F!Free \/ rar'[i] = rar[i]
  PROVE  /\ Placed => Placed'
         /\ F!Free' = F!Free /\ F!Shared' = F!Shared /\ F!MtaOf(mc)' = F!MtaOf(mc)
<1>1. /\ F!Free' = F!Free /\ F!Shared' = F!Shared /\ F!MtaOf(mc)' = F!MtaOf(mc)
      /\ F!Free \in Nat /\ F!Free < Rars /\ Len(uc) \in Nat
      /\ DOMAIN rar = 0 .. Rars - 1 /\ Rars \in Nat
  BY FreeIs DEF F!Free, F!Shared, FilterTypes, List, F!Assumption
<1>2. ASSUME Placed PROVE Placed'
  <2>1. Len(uc) <= F!Free
    BY <1>2 DEF Placed
  <2>2. ASSUME NEW k \in 1 .. Len(uc) PROVE Regs'[F!Free - k + 1] = uc[k]
    <3>1. F!Free - k + 1 \in DOMAIN rar /\ F!Free - k + 1 # 0 /\ ~ F!Free - k + 1 > F!Free
      BY <1>1, <2>1
    <3>2. Regs[F!Free - k + 1] = uc[k]
      BY <1>2 DEF Placed
    <3>. QED BY <3>1, <3>2 DEF Regs
  <2>3. ASSUME kind # "pch2", NEW i \in 1 .. F!Free - Len(uc) PROVE rar'[i] = F!NoAddress
    <3>1. i \in DOMAIN rar /\ i # 0 /\ ~ i > F!Free
      BY <1>1, <2>1
    <3>2. rar[i] = F!NoAddress
      BY <1>2, <2>3 DEF Placed
    <3>. QED BY <3>1, <3>2
  <2>. QED BY <1>1, <2>1, <2>2, <2>3 DEF Placed, F!NoAddress
<1>. QED BY <1>1, <1>2

LEMMA FilterStart == ASSUME F!Assumption, F!Init PROVE FilterInv
<1>1. /\ todo["rtnl"] = F!Configure /\ "rtnl" \in F!Threads
      /\ \A t \in F!Threads : t # "rtnl" => todo[t] = <<>>
  BY DEF F!Init, F!Threads
<1>2. OneRuns
  BY <1>1 DEF OneRuns
<1>3. Pending(<<"rxRead">>)
  BY <1>1, ConfigureIs DEF Pending
<1>4. \A t \in F!Threads : todo[t] # <<>> => ~ Continues(Head(todo[t])) /\ Head(todo[t]) # <<"hw">>
  BY <1>1, ConfigureIs DEF Clear
<1>5. ResetRestores
  BY <1>4 DEF ResetRestores, Doing
<1>6. ListsInv
  BY <1>3, <1>4 DEF ListsInv, Doing, Continues
<1>7. VlanInv
  <2>1. vlans = {}
    BY DEF F!Init
  <2>2. \A t \in F!Threads : \A v \in Nat :
          ~ Doing(t, <<"addWrite", v>>) /\ ~ Doing(t, <<"killWrite", v>>)
    BY <1>4 DEF Doing, Continues
  <2>. QED BY <2>1, <2>2 DEF VlanInv
<1>8. OwnCopy
  BY <1>1, ConfigureIs, HasNone DEF Only, OwnCopy
<1>. QED BY <1>2, <1>5, <1>6, <1>7, <1>8, TypesStart DEF FilterInv

LEMMA CallKeeps ==
  ASSUME F!Assumption, ~ Overlap, FilterInv,
         F!SetRxMode \/ F!SetMac \/ F!ResetTask \/ F!WatchMng
           \/ \E v \in Vids : F!AddVid(v) \/ F!KillVid(v)
  PROVE  FilterInv'
<1>1. PICK t \in F!Threads : \E s : Begins(t, s)
  BY CallsAre DEF FilterInv
<1>2. PICK s : Begins(t, s)
  BY <1>1
<1>3. Call(s) /\ F!Begin(t, s)
  BY <1>2 DEF Begins
<1>4. /\ FilterTypes' /\ todo'[t] = s
      /\ \A u \in F!Threads : todo[u] = <<>> /\ (u # t => todo'[u] = <<>>)
  <2>1. \A u \in F!Threads : todo[u] = <<>>
    BY <1>3 DEF F!Begin, F!MayBegin, F!Quiet, F!Idle
  <2>2. List(uc') /\ vlans' \subseteq Vids
    BY CallsAre DEF FilterInv
  <2>. QED BY <1>3, <2>1, <2>2, BeginTypes DEF FilterInv
<1>5. /\ Good(rctl)
      /\ F!HasVlan => \A v \in vlans : v \in active /\ v \in vfta
  BY <1>4, QuietIs DEF FilterInv
<1>6. OneRuns'
  BY <1>4 DEF OneRuns, F!Threads
<1>7. \A u \in F!Threads : todo'[u] # <<>> => ~ Continues(Head(todo'[u]))
  BY <1>3, <1>4 DEF Call
<1>8. ResetRestores'
  <2>1. s # F!Reset => Head(s) # <<"hw">>
    <3>1. Head(<< <<"mng">> >>) # <<"hw">>
      BY OneIs DEF Clear
    <3>. QED BY <1>2, <3>1, ModeIs, MacStepsAre, AddIs, KillIs DEF Begins, F!Assumption
  <2>2. ASSUME NEW u \in F!Threads, todo'[u] # <<>>, Head(todo'[u]) = <<"hw">>
        PROVE  Has(Tail(todo'[u]), <<"rxRead">>) /\ Has(Tail(todo'[u]), <<"restore">>)
    <3>1. todo'[u] = F!Reset
      BY <1>4, <2>1, <2>2
    <3>. QED BY <3>1, ResetIs
  <2>. QED BY <2>2 DEF ResetRestores, Doing, F!Threads
<1>9. ListsInv'
  <2>1. \A u \in F!Threads : ~ Doing(u, <<"rxLists">>)' /\ ~ Doing(u, <<"rxWrite">>)'
    BY <1>7 DEF Doing, Continues
  <2>2. CASE s = F!RxMode
    <3>1. Pending(<<"rxRead">>)'
      BY <1>4, <2>2, ModeIs DEF Pending
    <3>. QED BY <2>1, <3>1 DEF ListsInv
  <2>3. CASE s # F!RxMode
    <3>1. UNCHANGED <<flags, uc, mc, kind, rctl, rar, shra, mta>>
      BY <1>2, <2>3 DEF Begins
    <3>2. /\ Placed => Placed'
          /\ F!Free' = F!Free /\ F!Shared' = F!Shared /\ F!MtaOf(mc)' = F!MtaOf(mc)
      BY <3>1, GoodStays DEF FilterInv
    <3>3. Good(rctl)'
      BY <1>5, <3>1, <3>2 DEF Good
    <3>. QED BY <2>1, <3>3 DEF ListsInv
  <2>. QED BY <2>2, <2>3
<1>10. VlanInv'
  <2>1. \A u \in F!Threads : \A v \in Nat :
          ~ Doing(u, <<"addWrite", v>>)' /\ ~ Doing(u, <<"killWrite", v>>)'
    BY <1>7 DEF Doing, Continues
  <2>2. ASSUME NEW u \in F!Threads, NEW v \in Nat, Has(todo'[u], <<"killWrite", v>>)
        PROVE  v \notin vlans'
    <3>1. todo'[u] = s
      BY <1>4, <2>2, HasNone
    <3>2. ~ Has(F!RxMode, <<"killWrite", v>>) /\ ~ Has(F!Reset, <<"killWrite", v>>)
      BY ModeIs, ResetIs DEF Only
    <3>3. ~ Has(MacSteps, <<"killWrite", v>>)
      BY MacStepsAre DEF Only
    <3>4. ~ Has(<< <<"mng">> >>, <<"killWrite", v>>)
      BY OneIs
    <3>5. PICK w \in Vids : s = F!Add(w) \/ (s = F!Kill(w) /\ vlans' = vlans \ {w})
      <4>1. s # F!RxMode /\ s # F!Reset /\ s # MacSteps /\ s # << <<"mng">> >>
        BY <2>2, <3>1, <3>2, <3>3, <3>4
      <4>. QED BY <1>2, <4>1 DEF Begins
    <3>6. w \in Nat
      BY DEF F!Assumption
    <3>7. ~ Has(F!Add(w), <<"killWrite", v>>)
      <4>1. Only(F!Add(w), {"addRead", "addWrite"})
        BY <3>6, AddIs
      <4>. QED BY <4>1 DEF Only
    <3>8. <<"killWrite", v>> = <<"killRead", w>> \/ <<"killWrite", v>> = <<"killWrite", w>>
      BY <2>2, <3>1, <3>5, <3>6, <3>7, KillIs
    <3>9. v = w
      BY <3>8
    <3>. QED BY <2>2, <3>1, <3>5, <3>7, <3>9
  <2>3. ASSUME F!HasVlan', NEW v \in vlans'
        PROVE  \/ Pending(<<"addWrite", v>>)'
               \/ v \in active' /\ v \in vfta'
    <3>1. F!HasVlan /\ UNCHANGED <<active, vfta>>
      BY <1>2, <2>3 DEF Begins, F!HasVlan
    <3>2. CASE v \in vlans
      <4>1. v \in active /\ v \in vfta
        BY <1>5, <3>1, <3>2
      <4>. QED BY <3>1, <4>1
    <3>3. CASE v \notin vlans
      <4>1. s = F!Add(v) /\ v \in Nat
        BY <1>2, <2>3, <3>3 DEF Begins, F!Assumption
      <4>2. Has(todo'[t], <<"addWrite", v>>)
        BY <1>4, <4>1, AddIs
      <4>. QED BY <4>2 DEF Pending
    <3>. QED BY <3>2, <3>3
  <2>. QED BY <2>1, <2>2, <2>3 DEF VlanInv
<1>11. OwnCopy'
  <2>1. ASSUME NEW u \in F!Threads, Has(todo'[u], <<"macLast">>) PROVE kind' = "82571"
    <3>1. todo'[u] = s /\ UNCHANGED kind
      BY <1>2, <1>4, <2>1, HasNone DEF Begins
    <3>2. ~ Has(F!RxMode, <<"macLast">>) /\ ~ Has(F!Reset, <<"macLast">>)
      BY ModeIs, ResetIs DEF Only
    <3>3. ~ Has(<< <<"mng">> >>, <<"macLast">>)
      BY OneIs
    <3>4. ASSUME NEW w \in Vids
          PROVE  ~ Has(F!Add(w), <<"macLast">>) /\ ~ Has(F!Kill(w), <<"macLast">>)
      <4>1. w \in Nat
        BY DEF F!Assumption
      <4>2. Only(F!Add(w), {"addRead", "addWrite"})
        BY <4>1, AddIs
      <4>3. <<"macLast">> # <<"killRead", w>> /\ <<"macLast">> # <<"killWrite", w>>
        OBVIOUS
      <4>. QED BY <4>1, <4>2, <4>3, KillIs DEF Only
    <3>5. s = MacSteps
      BY <1>2, <2>1, <3>1, <3>2, <3>3, <3>4 DEF Begins
    <3>. QED BY <2>1, <3>1, <3>5, MacStepsAre
  <2>. QED BY <2>1 DEF OwnCopy, F!Threads
<1>. QED BY <1>4, <1>6, <1>8, <1>9, <1>10, <1>11 DEF FilterInv

(* The watchdog's address, the other port and the firmware. *)
LEMMA OthersKeep ==
  ASSUME F!Assumption, FilterInv, F!WatchLaa \/ F!OtherPortResets \/ F!FirmwareChanges
  PROVE  FilterInv'
<1>1. FilterTypes'
  BY TypesStep DEF F!Next, FilterInv
<1>2. UNCHANGED <<kind, rctl, shra, mta, vfta, flags, uc, mc, vlans, active, todo, held>>
  BY DEF F!WatchLaa, F!OtherPortResets, F!FirmwareChanges, F!table, F!vlan, F!asked
<1>3. \A i \in DOMAIN rar : i = 0 \/ rar'[i] = rar[i]
  BY DEF F!WatchLaa, F!OtherPortResets, F!FirmwareChanges, F!table
<1>4. /\ Placed => Placed'
      /\ F!Free' = F!Free /\ F!Shared' = F!Shared /\ F!MtaOf(mc)' = F!MtaOf(mc)
  BY <1>2, <1>3, GoodStays DEF FilterInv
<1>5. OneRuns' /\ ResetRestores' /\ OwnCopy'
  BY <1>2 DEF FilterInv, OneRuns, ResetRestores, OwnCopy, Doing
<1>6. ListsInv'
  <2>1. Good(rctl) => Good(rctl)'
    BY <1>2, <1>4 DEF Good
  <2>2. \A t \in F!Threads : Good(held[t]) => Good(held[t])'
    BY <1>2, <1>4 DEF Good
  <2>3. \A t \in F!Threads : \A x : Doing(t, x)' <=> Doing(t, x)
    BY <1>2 DEF Doing
  <2>4. Pending(<<"rxRead">>)' <=> Pending(<<"rxRead">>)
    BY <1>2 DEF Pending
  <2>5. \A t \in F!Threads : held'[t] = held[t]
    BY <1>2
  <2>. QED BY <2>1, <2>2, <2>3, <2>4, <2>5 DEF FilterInv, ListsInv
<1>7. VlanInv'
  BY <1>2 DEF FilterInv, VlanInv, Doing, Pending, F!HasVlan
<1>. QED BY <1>1, <1>5, <1>6, <1>7 DEF FilterInv

(* Where the calls of all threads are after a step of t. *)
LEMMA OnlyOne ==
  ASSUME F!Assumption, FilterInv, NEW t \in F!Threads, F!Step(t)
  PROVE  /\ todo[t] # <<>> /\ \A u \in F!Threads : u # t => todo[u] = <<>> /\ todo'[u] = <<>>
         /\ \A x : Pending(x) <=> Has(todo[t], x)
         /\ \A x : Pending(x)' <=> Has(todo'[t], x)
         /\ \A u \in F!Threads : \A x : Doing(u, x)' => u = t /\ Doing(t, x)'
         /\ Advance(t, todo'[t]) /\ Head(todo[t]) \in Accesses
<1>1. todo[t] # <<>>
  BY DEF F!Step, F!Idle
<1>2. \A u \in F!Threads : u # t => todo[u] = <<>>
  BY <1>1 DEF FilterInv, OneRuns
<1>3. \A u \in F!Threads : u # t => todo'[u] = <<>>
  BY <1>2, StepTypes DEF FilterInv
<1>4. Advance(t, todo'[t])
  BY StepAdvances DEF FilterInv
<1>5. Head(todo[t]) \in Accesses
  <2>1. todo[t] \in Seq(Accesses)
    BY DEF FilterInv, FilterTypes, Sound
  <2>. QED BY <1>1, <2>1, HeadTail
<1>6. \A x : Pending(x) <=> Has(todo[t], x)
  BY <1>2, HasNone DEF Pending
<1>7. \A x : Pending(x)' <=> Has(todo'[t], x)
  BY <1>3, HasNone DEF Pending
<1>8. \A u \in F!Threads : \A x : Doing(u, x)' => u = t /\ Doing(t, x)'
  BY <1>3 DEF Doing
<1>. QED BY <1>1, <1>2, <1>3, <1>4, <1>5, <1>6, <1>7, <1>8

(* What a step begins, it does next. *)
LEMMA StepBegins ==
  ASSUME F!Assumption, FilterInv, NEW t \in F!Threads, F!Step(t)
  PROVE  /\ Doing(t, <<"rxLists">>)' <=> Doing(t, <<"rxRead">>)
         /\ Doing(t, <<"rxWrite">>)' <=> Doing(t, <<"rxLists">>)
         /\ \A v \in Nat :
              /\ Doing(t, <<"addWrite", v>>)' => Doing(t, <<"addRead", v>>) /\ ~ Skips(t, v)
              /\ Doing(t, <<"killWrite", v>>)' => Doing(t, <<"killRead", v>>) /\ ~ Skips(t, v)
<1>. DEFINE x == Head(todo[t])  next == todo'[t]
<1>1. Advance(t, next) /\ todo[t] # <<>> /\ x \in Accesses
  BY OnlyOne
<1>2. \A y : Doing(t, y) <=> x = y
  BY <1>1 DEF Doing
<1>3. /\ next # <<>> /\ Continues(Head(next)) =>
           Opens(x) /\ Head(next) = Continuation(x) /\ \A v \in Nat : ~ Skips(t, v)
      /\ Opens(x) => (next # <<>> /\ Head(next) = Continuation(x)) \/ \E v \in Nat : Skips(t, v)
  BY <1>1 DEF Advance
<1>4. /\ x[1] = "rxRead" => x = <<"rxRead">>
      /\ x[1] = "rxLists" => x = <<"rxLists">>
      /\ x[1] = "addRead" => x = <<"addRead", x[2]>>
      /\ x[1] = "killRead" => x = <<"killRead", x[2]>>
  BY <1>1, Forms
<1>. HIDE DEF x, next
<1>5. ASSUME x = <<"rxRead">> \/ x = <<"rxLists">>
      PROVE  next # <<>> /\ Head(next) = Continuation(x)
  <2>1. Opens(x)
    BY <1>5 DEF Opens
  <2>2. \A v \in Nat : ~ Skips(t, v)
    <3>1. \A v \in Nat : x # <<"addRead", v>> /\ x # <<"killRead", v>>
      BY <1>5
    <3>. QED BY <1>2, <3>1 DEF Skips
  <2>. QED BY <1>3, <2>1, <2>2
<1>6. ASSUME next # <<>>, Head(next) = <<"rxLists">> PROVE x = <<"rxRead">>
  <2>1. Continues(Head(next))
    BY <1>6 DEF Continues
  <2>2. Opens(x) /\ <<"rxLists">> = Continuation(x)
    BY <1>3, <1>6, <2>1
  <2>3. x[1] = "rxRead"
    BY <2>2 DEF Opens, Continuation
  <2>. QED BY <1>4, <2>3
<1>7. ASSUME next # <<>>, Head(next) = <<"rxWrite">> PROVE x = <<"rxLists">>
  <2>1. Continues(Head(next))
    BY <1>7 DEF Continues
  <2>2. Opens(x) /\ <<"rxWrite">> = Continuation(x)
    BY <1>3, <1>7, <2>1
  <2>3. x[1] = "rxLists"
    BY <2>2 DEF Opens, Continuation
  <2>. QED BY <1>4, <2>3
<1>8. ASSUME NEW v \in Nat, next # <<>>, Head(next) = <<"addWrite", v>>
      PROVE  x = <<"addRead", v>> /\ ~ Skips(t, v)
  <2>1. Continues(Head(next))
    BY <1>8 DEF Continues
  <2>2. Opens(x) /\ <<"addWrite", v>> = Continuation(x) /\ ~ Skips(t, v)
    BY <1>3, <1>8, <2>1
  <2>3. x[1] = "addRead" /\ x[2] = v
    BY <2>2 DEF Opens, Continuation
  <2>. QED BY <1>4, <2>2, <2>3
<1>9. ASSUME NEW v \in Nat, next # <<>>, Head(next) = <<"killWrite", v>>
      PROVE  x = <<"killRead", v>> /\ ~ Skips(t, v)
  <2>1. Continues(Head(next))
    BY <1>9 DEF Continues
  <2>2. Opens(x) /\ <<"killWrite", v>> = Continuation(x) /\ ~ Skips(t, v)
    BY <1>3, <1>9, <2>1
  <2>3. x[1] = "killRead" /\ x[2] = v
    BY <2>2 DEF Opens, Continuation
  <2>. QED BY <1>4, <2>2, <2>3
<1>10. /\ Continuation(<<"rxRead">>) = <<"rxLists">>
       /\ Continuation(<<"rxLists">>) = <<"rxWrite">>
  BY DEF Continuation
<1>11. Doing(t, <<"rxLists">>)' <=> Doing(t, <<"rxRead">>)
  BY <1>2, <1>5, <1>6, <1>10 DEF Doing, next
<1>12. Doing(t, <<"rxWrite">>)' <=> Doing(t, <<"rxLists">>)
  BY <1>2, <1>5, <1>7, <1>10 DEF Doing, next
<1>13. ASSUME NEW v \in Nat
       PROVE  /\ Doing(t, <<"addWrite", v>>)' => Doing(t, <<"addRead", v>>) /\ ~ Skips(t, v)
              /\ Doing(t, <<"killWrite", v>>)' => Doing(t, <<"killRead", v>>) /\ ~ Skips(t, v)
  BY <1>2, <1>8, <1>9 DEF Doing, next
<1>. QED BY <1>11, <1>12, <1>13

LEMMA StepKeepsCalls ==
  ASSUME F!Assumption, FilterInv, NEW t \in F!Threads, F!Step(t)
  PROVE  OneRuns' /\ ResetRestores' /\ OwnCopy'
<1>1. /\ \A u \in F!Threads : u # t => todo'[u] = <<>>
      /\ Advance(t, todo'[t])
  BY OnlyOne
<1>2. OneRuns'
  BY <1>1 DEF OneRuns, F!Threads
<1>3. ResetRestores'
  <2>1. todo'[t] # <<>> => Head(todo'[t]) # <<"hw">>
    <3>1. todo'[t] \in Seq(Accesses) /\ ~ Has(todo'[t], <<"hw">>)
      BY <1>1 DEF Advance, Sound
    <3>. QED BY <3>1, HeadTail
  <2>. QED BY <1>1, <2>1 DEF ResetRestores, Doing, F!Threads
<1>4. OwnCopy'
  <2>1. Has(todo'[t], <<"macLast">>) => Has(todo[t], <<"macLast">>)
    <3>1. ~ Ahead(<<"macLast">>)
      <4>1. mng # F!NoVid => <<"macLast">> # <<"killRead", mng>> /\ <<"macLast">> # <<"killWrite", mng>>
        OBVIOUS
      <4>. QED BY <4>1 DEF Ahead
    <3>. QED BY <1>1, <3>1 DEF Advance
  <2>2. UNCHANGED kind
    BY DEF F!Step
  <2>. QED BY <1>1, <2>1, <2>2, HasNone DEF FilterInv, OwnCopy, F!Threads
<1>. QED BY <1>2, <1>3, <1>4

(* e1000e_set_rx_mode writes the lists where the value of RCTL that it is *)
(* going to write says.                                                    *)
LEMMA ListsAreGood ==
  ASSUME F!Assumption, FilterInv, NEW t \in F!Threads, Doing(t, <<"rxLists">>), F!RxLists(t),
         UNCHANGED <<kind, flags, uc, mc>>
  PROVE  Good(held[t])'
<1>1. held[t] \cap {"UPE", "MPE"} = {} /\ Len(uc) \in Nat /\ DOMAIN held = F!Threads
  BY DEF FilterInv, ListsInv, FilterTypes, List
<1>2. F!Free' = F!Free /\ F!Shared' = F!Shared
  BY DEF F!Free, F!Shared
<1>3. CASE "promisc" \in flags
  <2>1. held'[t] = held[t] \cup {"UPE", "MPE"}
    BY <1>1, <1>3 DEF F!RxLists, F!Holds
  <2>. QED BY <1>3, <2>1 DEF Good
<1>4. CASE "promisc" \notin flags
  <2>1. PICK noMemory \in BOOLEAN,
             fails \in (IF F!Shared THEN 1 .. Len(uc) + 1 ELSE {Len(uc) + 1}) :
               /\ IF "allmulti" \in flags THEN UNCHANGED mta ELSE F!WriteMc(noMemory)
               /\ F!WriteUc(fails)
               /\ F!Holds(t, held[t]
                             \union (IF "allmulti" \in flags \/ noMemory THEN {"MPE"} ELSE {})
                             \union (IF F!UcFails(fails) THEN {"UPE"} ELSE {}))
    BY <1>4 DEF F!RxLists
  <2>2. fails \in 1 .. Len(uc) + 1
    BY <1>1, <2>1
  <2>3. F!UcFails(fails) \/ Placed'
    BY <2>1, <2>2, WrittenUc DEF FilterInv
  <2>4. F!UcFails(fails) => Len(uc) > F!Free \/ F!Shared
    BY <1>1, <2>1 DEF F!UcFails
  <2>5. held'[t] = held[t]
                   \union (IF "allmulti" \in flags \/ noMemory THEN {"MPE"} ELSE {})
                   \union (IF F!UcFails(fails) THEN {"UPE"} ELSE {})
    BY <1>1, <2>1 DEF F!Holds
  <2>6. "UPE" \in held'[t] <=> F!UcFails(fails)
    BY <1>1, <2>5
  <2>7. "MPE" \notin held'[t] => mta' = F!MtaOf(mc)
    BY <2>1, <2>5 DEF F!WriteMc
  <2>. QED BY <1>2, <1>4, <2>3, <2>4, <2>6, <2>7 DEF Good
<1>. QED BY <1>3, <1>4

LEMMA StepKeepsLists ==
  ASSUME F!Assumption, FilterInv, NEW t \in F!Threads, F!Step(t)
  PROVE  ListsInv'
<1>. DEFINE x == Head(todo[t])  next == todo'[t]
<1>1. /\ \A u \in F!Threads : u # t => todo[u] = <<>> /\ todo'[u] = <<>>
      /\ Advance(t, next) /\ todo[t] # <<>> /\ x \in Accesses
  BY OnlyOne
<1>2. \A y : Doing(t, y) <=> x = y
  BY <1>1 DEF Doing
<1>3. /\ Doing(t, <<"rxLists">>)' <=> x = <<"rxRead">>
      /\ Doing(t, <<"rxWrite">>)' <=> x = <<"rxLists">>
  BY <1>2, StepBegins
<1>4. \A u \in F!Threads : u # t => /\ ~ Doing(u, <<"rxLists">>)' /\ ~ Doing(u, <<"rxWrite">>)'
                                    /\ \A y : ~ Doing(u, y) /\ ~ Has(todo[u], y)
  BY <1>1, HasNone DEF Doing
<1>5. UNCHANGED <<kind, flags, uc, mc>> /\ DOMAIN held = F!Threads
  BY DEF F!Step, F!asked, FilterInv, FilterTypes
<1>6. \A d \in {"rxRead", "rxLists", "rxWrite", "hw", "mac0", "macLast", "mng"} : x[1] = d <=> x = <<d>>
  BY <1>1, Forms
<1>7. Has(todo[t], <<"rxRead">>) => x = <<"rxRead">> \/ Has(next, <<"rxRead">>)
  <2>1. \A v : <<"rxRead">> # <<"addWrite", v>> /\ <<"rxRead">> # <<"killWrite", v>>
    OBVIOUS
  <2>. QED BY <1>1, <1>2, <2>1 DEF Advance
<1>8. Has(next, <<"rxRead">>) => Pending(<<"rxRead">>)'
  BY DEF Pending
<1>9. CASE x = <<"rxRead">>
  <2>1. F!RxRead(t)
    BY <1>6, <1>9 DEF F!Step
  <2>2. held'[t] \cap {"UPE", "MPE"} = {}
    BY <1>5, <2>1 DEF F!RxRead, F!Holds
  <2>. QED BY <1>3, <1>4, <1>9, <2>2 DEF ListsInv
<1>10. CASE x = <<"rxLists">>
  <2>1. F!RxLists(t)
    BY <1>6, <1>10 DEF F!Step
  <2>2. Good(held[t])'
    BY <1>2, <1>5, <1>10, <2>1, ListsAreGood
  <2>. QED BY <1>3, <1>4, <1>10, <2>2 DEF ListsInv
<1>11. ASSUME x # <<"rxRead">>, x # <<"rxLists">>,
              Pending(<<"rxRead">>)' \/ Good(rctl)'
       PROVE  ListsInv'
  BY <1>3, <1>4, <1>11 DEF ListsInv
<1>12. CASE x = <<"rxWrite">>
  <2>1. F!RxWrite(t)
    BY <1>6, <1>12 DEF F!Step
  <2>2. Pending(<<"rxRead">>) \/ Good(held[t])
    BY <1>2, <1>12 DEF FilterInv, ListsInv
  <2>3. Pending(<<"rxRead">>) => Has(todo[t], <<"rxRead">>)
    BY <1>4 DEF Pending
  <2>4. /\ Placed => Placed'
        /\ F!Free' = F!Free /\ F!Shared' = F!Shared /\ F!MtaOf(mc)' = F!MtaOf(mc)
    BY <1>5, <2>1, GoodStays DEF FilterInv, F!RxWrite
  <2>5. rctl' = held[t] /\ UNCHANGED mta
    BY <2>1 DEF F!RxWrite
  <2>6. Good(held[t]) => Good(rctl)'
    BY <1>5, <2>4, <2>5 DEF Good
  <2>. QED BY <1>7, <1>8, <1>11, <1>12, <2>2, <2>3, <2>6
<1>13. CASE x = <<"hw">>
  <2>1. F!Hw(t)
    BY <1>6, <1>13 DEF F!Step
  <2>2. next = Tail(todo[t])
    BY <2>1 DEF F!Hw, F!Goes, FilterInv, FilterTypes
  <2>3. Has(Tail(todo[t]), <<"rxRead">>)
    BY <1>2, <1>13 DEF FilterInv, ResetRestores
  <2>. QED BY <1>8, <1>11, <1>13, <2>2, <2>3
<1>14. CASE /\ x # <<"rxRead">> /\ x # <<"rxLists">> /\ x # <<"rxWrite">> /\ x # <<"hw">>
  <2>1. UNCHANGED <<rctl, shra, mta>>
    BY <1>6, <1>14 DEF F!Step, F!MacFirst, F!MacLast, F!AddRead, F!AddWrite, F!KillRead,
         F!KillWrite, F!Mng, F!MngIs, F!Restore, F!RestoreFrom, F!table
  <2>2. /\ x = <<"macLast">> => kind = "82571" /\ F!Free < Rars - 1
        /\ DOMAIN rar = 0 .. Rars - 1
    <3>1. x = <<"macLast">> => Has(todo[t], <<"macLast">>)
      <4>1. todo[t] \in Seq(Accesses)
        BY DEF FilterInv, FilterTypes, Sound
      <4>. QED BY <1>1, <4>1, HeadTail
    <3>. QED BY <3>1, FreeIs DEF FilterInv, OwnCopy, FilterTypes
  <2>3. \A i \in DOMAIN rar : i = 0 \/ i > F!Free \/ rar'[i] = rar[i]
    <3>1. CASE x = <<"macLast">>
      <4>1. rar' = [rar EXCEPT ![Rars - 1] = mac]
        BY <1>6, <3>1 DEF F!Step, F!MacLast
      <4>. QED BY <2>2, <3>1, <4>1
    <3>2. CASE x = <<"mac0">>
      <4>1. rar' = [rar EXCEPT ![0] = mac]
        BY <1>6, <3>2 DEF F!Step, F!MacFirst
      <4>. QED BY <4>1
    <3>3. CASE x # <<"mac0">> /\ x # <<"macLast">>
      <4>1. UNCHANGED rar
        BY <1>6, <1>14, <3>3 DEF F!Step, F!AddRead, F!AddWrite, F!KillRead,
             F!KillWrite, F!Mng, F!MngIs, F!Restore, F!RestoreFrom, F!table
      <4>. QED BY <4>1
    <3>. QED BY <3>1, <3>2, <3>3
  <2>4. /\ Placed => Placed'
        /\ F!Free' = F!Free /\ F!Shared' = F!Shared /\ F!MtaOf(mc)' = F!MtaOf(mc)
    BY <1>5, <2>1, <2>3, GoodStays DEF FilterInv
  <2>5. Good(rctl) => Good(rctl)'
    BY <1>5, <2>1, <2>4 DEF Good
  <2>6. Pending(<<"rxRead">>) \/ Good(rctl)
    BY <1>2, <1>4, <1>14 DEF FilterInv, ListsInv
  <2>7. Pending(<<"rxRead">>) => Has(todo[t], <<"rxRead">>)
    BY <1>4 DEF Pending
  <2>. QED BY <1>7, <1>8, <1>11, <1>14, <2>5, <2>6, <2>7
<1>. QED BY <1>9, <1>10, <1>12, <1>13, <1>14

(* The VLANs of the stack: what a step does to the table. *)
LEMMA VlanTable ==
  ASSUME F!Assumption, Cookies \cap Vids = {}, FilterInv, NEW t \in F!Threads, F!Step(t), F!HasVlan,
         NEW v \in vlans
  PROVE  /\ v \in active => v \in active'
         /\ v \in vfta /\ ~ Doing(t, <<"hw">>) => v \in vfta'
         /\ Doing(t, <<"addWrite", v>>) => v \in active' /\ v \in vfta'
<1>. DEFINE x == Head(todo[t])
<1>1. todo[t] # <<>> /\ x \in Accesses /\ todo[t] \in Seq(Accesses)
  BY OnlyOne DEF FilterInv, FilterTypes, Sound
<1>2. \A y : Doing(t, y) <=> x = y
  BY <1>1 DEF Doing
<1>3. v \in Nat /\ v # mng
  <2>1. v \in Vids /\ v \in Nat
    BY DEF FilterInv, FilterTypes, F!Assumption
  <2>2. mng \in Cookies \/ mng = -1
    BY DEF FilterInv, FilterTypes, F!NoVid
  <2>. QED BY <2>1, <2>2
<1>4. /\ x[1] = "addWrite" => x = <<"addWrite", x[2]>> /\ x[2] \in Nat
      /\ x[1] = "killWrite" => x = <<"killWrite", x[2]>> /\ x[2] \in Nat
      /\ x[1] = "hw" => x = <<"hw">>
  BY <1>1, Forms
<1>5. ASSUME x[1] = "addWrite" \/ x[1] = "killWrite" PROVE held[t] = vfta \cap F!Word(x[2])
  BY <1>2, <1>4, <1>5 DEF FilterInv, VlanInv
<1>6. x[1] = "killWrite" => x[2] # v
  <2>. SUFFICES ASSUME x[1] = "killWrite" PROVE x[2] \notin vlans
    OBVIOUS
  <2>1. Has(todo[t], x)
    BY <1>1, HeadTail
  <2>2. Has(todo[t], <<"killWrite", x[2]>>) /\ x[2] \in Nat
    BY <1>4, <2>1
  <2>. HIDE DEF x
  <2>. QED BY <2>2 DEF FilterInv, VlanInv
<1>7. \A w : x = <<"addWrite", w>> => x[1] = "addWrite" /\ x[2] = w
  OBVIOUS
<1>. HIDE DEF x
<1>8. CASE x[1] = "addWrite" /\ F!AddWrite(t, x[2])
  BY <1>2, <1>5, <1>7, <1>8 DEF F!AddWrite
<1>9. CASE x[1] = "killWrite" /\ F!KillWrite(t, x[2])
  BY <1>2, <1>5, <1>6, <1>7, <1>9 DEF F!KillWrite
<1>10. CASE x[1] = "rxLists" /\ F!RxLists(t)
  BY <1>2, <1>3, <1>7, <1>10 DEF F!RxLists, F!FilterOff, F!vlan
<1>11. CASE x[1] = "hw" /\ F!Hw(t)
  BY <1>2, <1>4, <1>7, <1>11 DEF F!Hw
<1>12. CASE x[1] \notin {"addWrite", "killWrite", "rxLists", "hw"}
  <2>1. UNCHANGED <<vfta, active>>
    BY <1>12 DEF F!Step, F!MacFirst, F!MacLast, F!RxRead, F!RxWrite, F!AddRead, F!KillRead,
         F!Mng, F!MngIs, F!Restore, F!RestoreFrom, F!vlan, x
  <2>. QED BY <1>2, <1>7, <1>12, <2>1
<1>. QED BY <1>8, <1>9, <1>10, <1>11, <1>12 DEF F!Step, x

LEMMA StepKeepsVlans ==
  ASSUME F!Assumption, Cookies \cap Vids = {}, FilterInv, NEW t \in F!Threads, F!Step(t)
  PROVE  VlanInv'
<1>. DEFINE x == Head(todo[t])  next == todo'[t]
<1>1. /\ \A u \in F!Threads : u # t => todo[u] = <<>> /\ todo'[u] = <<>>
      /\ Advance(t, next) /\ todo[t] # <<>> /\ x \in Accesses
  BY OnlyOne
<1>2. \A y : Doing(t, y) <=> x = y
  BY <1>1 DEF Doing
<1>3. UNCHANGED <<kind, vlans>> /\ DOMAIN held = F!Threads
  BY DEF F!Step, F!asked, FilterInv, FilterTypes
<1>4. vlans \subseteq Nat /\ vlans \cap Cookies = {}
      /\ (mng \in Cookies \/ mng = F!NoVid) /\ mng \notin vlans
  <2>1. vlans \subseteq Vids /\ Vids \subseteq Nat
    BY DEF FilterInv, FilterTypes, F!Assumption
  <2>2. mng \in Cookies \/ mng = F!NoVid
    BY DEF FilterInv, FilterTypes
  <2>3. F!NoVid \notin Nat
    BY DEF F!NoVid
  <2>. QED BY <2>1, <2>2, <2>3
<1>5. ASSUME NEW u \in F!Threads, NEW v \in Nat
      PROVE  /\ Doing(u, <<"addWrite", v>>)' \/ Doing(u, <<"killWrite", v>>)' =>
                  held'[u] = vfta' \cap F!Word(v)
             /\ Has(todo'[u], <<"killWrite", v>>) => v \notin vlans'
  <2>1. CASE u # t
    BY <1>1, <2>1, HasNone DEF Doing
  <2>2. ASSUME u = t, Doing(u, <<"addWrite", v>>)' \/ Doing(u, <<"killWrite", v>>)'
        PROVE  held'[u] = vfta' \cap F!Word(v)
    <3>1. (Doing(t, <<"addRead", v>>) \/ Doing(t, <<"killRead", v>>)) /\ ~ Skips(t, v)
      BY <2>2, StepBegins
    <3>2. ~ F!IsCookie(v)
      BY <3>1 DEF Skips
    <3>3. CASE Doing(t, <<"addRead", v>>)
      <4>1. x[1] = "addRead" /\ x[2] = v
        BY <3>3 DEF Doing
      <4>2. F!AddRead(t, v)
        BY <4>1 DEF F!Step
      <4>. QED BY <1>3, <2>2, <3>2, <4>2 DEF F!AddRead, F!Holds, F!vlan
    <3>4. CASE Doing(t, <<"killRead", v>>)
      <4>1. x[1] = "killRead" /\ x[2] = v
        BY <3>4 DEF Doing
      <4>2. F!KillRead(t, v)
        BY <4>1 DEF F!Step
      <4>. QED BY <1>3, <2>2, <3>2, <4>2 DEF F!KillRead, F!Holds
    <3>. QED BY <3>1, <3>3, <3>4
  <2>3. ASSUME u = t, Has(todo'[u], <<"killWrite", v>>) PROVE v \notin vlans'
    <3>1. Has(todo[t], <<"killWrite", v>>) \/ v = mng
      <4>1. \/ Has(todo[t], <<"killWrite", v>>)
            \/ <<"killWrite", v>> = <<"killRead", mng>> \/ <<"killWrite", v>> = <<"killWrite", mng>>
        BY <1>1, <2>3 DEF Advance, Ahead
      <4>. QED BY <4>1
    <3>2. Has(todo[t], <<"killWrite", v>>) => v \notin vlans
      BY DEF FilterInv, VlanInv
    <3>. QED BY <1>3, <1>4, <3>1, <3>2
  <2>. QED BY <2>1, <2>2, <2>3
<1>6. ASSUME F!HasVlan', NEW v \in vlans'
      PROVE  /\ v \in active' \/ Has(next, <<"addWrite", v>>)
             /\ \/ v \in vfta' \/ Has(next, <<"addWrite", v>>) \/ Has(next, <<"restore">>)
                \/ \E w \in 0 .. v : Has(next, <<"restoreFrom", w>>)
  <2>1. F!HasVlan /\ v \in vlans /\ v \in Nat
    BY <1>3, <1>4, <1>6 DEF F!HasVlan
  <2>2. /\ v \in active => v \in active'
        /\ v \in vfta /\ x # <<"hw">> => v \in vfta'
        /\ x = <<"addWrite", v>> => v \in active' /\ v \in vfta'
    BY <1>2, <2>1, VlanTable
  <2>3. Has(todo[t], <<"addWrite", v>>) => x = <<"addWrite", v>> \/ Has(next, <<"addWrite", v>>)
    <3>1. ASSUME NEW w \in Nat, Skips(t, w)
          PROVE  <<"addWrite", v>> # <<"addWrite", w>> /\ <<"addWrite", v>> # <<"killWrite", w>>
      <4>1. w = mng
        BY <3>1 DEF Skips, F!IsCookie
      <4>. QED BY <1>4, <2>1, <4>1
    <3>. QED BY <1>1, <1>2, <3>1 DEF Advance
  <2>4. Has(todo[t], <<"restore">>) => x = <<"restore">> \/ Has(next, <<"restore">>)
    <3>1. \A w : <<"restore">> # <<"addWrite", w>> /\ <<"restore">> # <<"killWrite", w>>
      OBVIOUS
    <3>. QED BY <1>1, <1>2, <3>1 DEF Advance
  <2>5. ASSUME NEW w \in 0 .. v, Has(todo[t], <<"restoreFrom", w>>)
        PROVE  x = <<"restoreFrom", w>> \/ Has(next, <<"restoreFrom", w>>)
    <3>1. \A z : /\ <<"restoreFrom", w>> # <<"addWrite", z>>
                /\ <<"restoreFrom", w>> # <<"killWrite", z>>
      OBVIOUS
    <3>. QED BY <1>1, <1>2, <2>5, <3>1 DEF Advance
  <2>6. /\ v \in active \/ Has(todo[t], <<"addWrite", v>>)
        /\ \/ v \in vfta \/ Has(todo[t], <<"addWrite", v>>) \/ Has(todo[t], <<"restore">>)
           \/ \E w \in 0 .. v : Has(todo[t], <<"restoreFrom", w>>)
    <3>1. \A y : Pending(y) => Has(todo[t], y)
      BY <1>1, HasNone DEF Pending
    <3>. QED BY <2>1, <3>1 DEF FilterInv, VlanInv
  <2>7. v \in active' \/ Has(next, <<"addWrite", v>>)
    BY <2>2, <2>3, <2>6
  <2>8. CASE x = <<"hw">>
    <3>1. F!Hw(t)
      <4>1. x[1] = "hw"
        BY <2>8
      <4>. QED BY <4>1 DEF F!Step
    <3>2. next = Tail(todo[t])
      BY <3>1 DEF F!Hw, F!Goes, FilterInv, FilterTypes
    <3>3. Has(Tail(todo[t]), <<"restore">>)
      BY <1>2, <2>8 DEF FilterInv, ResetRestores
    <3>. QED BY <2>7, <3>2, <3>3
  <2>9. CASE x = <<"restore">>
    <3>1. Has(next, <<"restoreFrom", 0>>) /\ 0 \in 0 .. v
      BY <1>2, <2>1, <2>9, StepAdvances DEF FilterInv
    <3>. QED BY <2>7, <3>1
  <2>10. ASSUME NEW w \in 0 .. v, x = <<"restoreFrom", w>>
         PROVE  \/ Has(next, <<"addWrite", v>>)
                \/ \E z \in 0 .. v : Has(next, <<"restoreFrom", z>>)
    <3>1. RestoresFrom(t, w) /\ w \in Nat
      BY <1>2, <2>1, <2>10, StepAdvances DEF FilterInv
    <3>2. x # <<"addWrite", v>>
      BY <2>10
    <3>3. CASE v \notin active
      BY <2>3, <2>6, <3>2, <3>3
    <3>4. CASE v \in active
      <4>1. w <= v /\ ~ v < w
        BY <2>1, <3>1
      <4>2. PICK z \in active :
              /\ w <= z /\ \A y \in active : w <= y => z <= y
              /\ Has(next, <<"addWrite", z>>) /\ Has(next, <<"restoreFrom", z + 1>>)
        BY <3>1, <3>4, <4>1 DEF RestoresFrom
      <4>3. z \in Nat /\ z <= v
        BY <3>4, <4>1, <4>2 DEF FilterInv, FilterTypes
      <4>4. z = v \/ z + 1 \in 0 .. v
        BY <2>1, <4>3
      <4>. QED BY <4>2, <4>4
    <3>. QED BY <3>3, <3>4
  <2>11. CASE x # <<"hw">> /\ x # <<"restore">>
    BY <2>2, <2>3, <2>4, <2>5, <2>6, <2>7, <2>10, <2>11
  <2>. QED BY <2>8, <2>9, <2>11
<1>7. \A y : Has(next, y) => Pending(y)'
  BY DEF Pending
<1>8. ASSUME F!HasVlan', NEW v \in vlans'
      PROVE  /\ v \in active' \/ Pending(<<"addWrite", v>>)'
             /\ \/ v \in vfta' \/ Pending(<<"addWrite", v>>)' \/ Pending(<<"restore">>)'
                \/ \E w \in 0 .. v : Pending(<<"restoreFrom", w>>)'
  BY <1>6, <1>7, <1>8
<1>. QED BY <1>5, <1>8 DEF VlanInv

LEMMA FilterStep ==
  ASSUME F!Assumption, ~ Overlap, Cookies \cap Vids = {}, FilterInv, F!Next
  PROVE  FilterInv'
<1>1. ASSUME NEW t \in F!Threads, F!Step(t) PROVE FilterInv'
  BY <1>1, TypesStep, StepKeepsCalls, StepKeepsLists, StepKeepsVlans DEF FilterInv, F!Next
<1>. QED BY <1>1, CallKeeps, OthersKeep DEF F!Next

LEMMA FilterStays ==
  ASSUME F!Assumption, ~ Overlap, Cookies \cap Vids = {}, FilterInv, [F!Next]_(F!vars)
  PROVE  FilterInv'
<1>1. ASSUME UNCHANGED F!vars PROVE FilterInv'
  <2>1. UNCHANGED <<kind, rctl, rar, shra, mta, vfta, flags, uc, mc, vlans, active, mng, cookie,
                    todo, held>>
    BY <1>1 DEF F!vars, F!table, F!vlan, F!asked
  <2>2. FilterTypes' /\ OneRuns' /\ ResetRestores' /\ OwnCopy'
    BY <1>1, <2>1 DEF FilterInv, FilterTypes, List, OneRuns, ResetRestores, OwnCopy, Doing
  <2>3. /\ Placed => Placed'
        /\ F!Free' = F!Free /\ F!Shared' = F!Shared /\ F!MtaOf(mc)' = F!MtaOf(mc)
    BY <1>1, <2>1, GoodStays DEF FilterInv
  <2>4. ListsInv'
    <3>1. Good(rctl) => Good(rctl)'
      BY <2>1, <2>3 DEF Good
    <3>2. \A t \in F!Threads : Good(held[t]) => Good(held[t])'
      BY <2>1, <2>3 DEF Good
    <3>3. \A t \in F!Threads : \A x : Doing(t, x)' <=> Doing(t, x)
      BY <2>1 DEF Doing
    <3>4. Pending(<<"rxRead">>)' <=> Pending(<<"rxRead">>)
      BY <2>1 DEF Pending
    <3>5. \A t \in F!Threads : held'[t] = held[t]
      BY <2>1
    <3>. QED BY <1>1, <3>1, <3>2, <3>3, <3>4, <3>5 DEF FilterInv, ListsInv
  <2>5. VlanInv'
    BY <1>1, <2>1 DEF FilterInv, VlanInv, Doing, Pending, F!HasVlan
  <2>. QED BY <2>2, <2>4, <2>5 DEF FilterInv
<1>. QED BY <1>1, FilterStep

LEMMA FilterInvariance ==
  ASSUME F!Assumption, ~ Overlap, Cookies \cap Vids = {}
  PROVE  F!Spec => []FilterInv
BY FilterStart, FilterStays, PTL DEF F!Spec

(* When no call is under way the controller hears the lists, and no more *)
(* than it has to, and the VLANs of the stack are in its table.          *)
LEMMA FiltersDoAgree == ASSUME F!Assumption, FilterInv PROVE F!FiltersAgree
<1>1. ASSUME F!Quiet
      PROVE  /\ Good(rctl)
             /\ F!HasVlan => \A v \in vlans : v \in active /\ v \in vfta
  BY <1>1, QuietIs DEF FilterInv, F!Quiet, F!Idle
<1>2. /\ Len(uc) \in Nat /\ DOMAIN uc = 1 .. Len(uc)
      /\ F!Free \in Nat /\ F!Free < Rars /\ Rars \in Nat
      /\ DOMAIN rar = 0 .. Rars - 1 /\ DOMAIN shra = 1 .. Rars - 1
  BY FreeIs DEF FilterInv, FilterTypes, List, F!Assumption
<1>3. F!ListsAreHeard
  <2>. SUFFICES ASSUME F!Quiet
                PROVE  /\ "promisc" \in flags => {"UPE", "MPE"} \subseteq rctl
                       /\ \A k \in DOMAIN uc : "UPE" \in rctl \/ uc[k] \in F!Heard
                       /\ \A a \in mc : "MPE" \in rctl \/ F!Hash(a) \in mta
    BY DEF F!ListsAreHeard
  <2>1. ASSUME NEW k \in DOMAIN uc, "UPE" \notin rctl PROVE uc[k] \in F!Heard
    <3>1. Len(uc) <= F!Free /\ Regs[F!Free - k + 1] = uc[k]
      BY <1>1, <1>2, <2>1 DEF Good, Placed
    <3>2. F!Free - k + 1 \in DOMAIN rar /\ F!Free - k + 1 \in DOMAIN shra
      BY <1>2, <3>1
    <3>. QED BY <3>1, <3>2 DEF Regs, F!Heard
  <2>2. ASSUME NEW a \in mc, "MPE" \notin rctl PROVE F!Hash(a) \in mta
    BY <1>1, <2>2 DEF Good, F!MtaOf
  <2>3. "promisc" \in flags => {"UPE", "MPE"} \subseteq rctl
    BY <1>1 DEF Good
  <2>. QED BY <2>1, <2>2, <2>3
<1>4. F!NothingElseIsHeard
  <2>. SUFFICES ASSUME F!Quiet
                PROVE  /\ "UPE" \in rctl => "promisc" \in flags \/ Len(uc) > F!Free \/ F!Shared
                       /\ "MPE" \notin rctl => mta = F!MtaOf(mc)
                       /\ ("UPE" \notin rctl /\ kind # "pch2") =>
                            \A i \in 1 .. F!Free :
                               rar[i] \in {F!NoAddress} \union {uc[k] : k \in DOMAIN uc}
    BY DEF F!NothingElseIsHeard
  <2>1. ASSUME "UPE" \notin rctl, kind # "pch2", NEW i \in 1 .. F!Free
        PROVE  rar[i] \in {F!NoAddress} \union {uc[k] : k \in DOMAIN uc}
    <3>1. Placed
      BY <1>1, <2>1 DEF Good
    <3>2. CASE i <= F!Free - Len(uc)
      <4>1. i \in 1 .. F!Free - Len(uc)
        BY <1>2, <3>2
      <4>. QED BY <2>1, <3>1, <4>1 DEF Placed
    <3>3. CASE i > F!Free - Len(uc)
      <4>. DEFINE k == F!Free + 1 - i
      <4>1. k \in 1 .. Len(uc) /\ F!Free - k + 1 = i
        BY <1>2, <3>3
      <4>. HIDE DEF k
      <4>2. rar[F!Free - k + 1] = uc[k]
        BY <2>1, <3>1, <4>1 DEF Placed, Regs
      <4>. QED BY <1>2, <4>1, <4>2
    <3>. QED BY <1>2, <3>2, <3>3
  <2>2. /\ "UPE" \in rctl => "promisc" \in flags \/ Len(uc) > F!Free \/ F!Shared
        /\ "MPE" \notin rctl => mta = F!MtaOf(mc)
    BY <1>1 DEF Good
  <2>. QED BY <2>1, <2>2
<1>5. F!VlansAreKept
  BY <1>1 DEF F!VlansAreKept
<1>. QED BY <1>3, <1>4, <1>5 DEF F!FiltersAgree

(* Where calls do not overlap and the firmware's VLAN is none of the stack's, *)
(* the filters follow the stack's lists through every sequence of calls,      *)
(* failures and resets.                                                       *)
THEOREM FiltersFollow ==
  ASSUME F!Assumption, ~ Overlap, Cookies \cap Vids = {}
  PROVE  F!Spec => []F!FiltersAgree
BY FilterInvariance, FiltersDoAgree, PTL DEF FilterInv
=============================================================================

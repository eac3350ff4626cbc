------------------------------- MODULE RxRing -------------------------------
(***************************************************************************)
(* The receive ring of the e1000e driver (netdev.c) in its three shapes:   *)
(* one buffer per frame, header and page ("split"), and chains of pages    *)
(* for jumbo frames.  The controller writes the frames 1 .. Frames in      *)
(* order, NAPI takes them off the ring and refills it, and a reset may     *)
(* change the shape.                                                       *)
(***************************************************************************)
EXTENDS Rings, FiniteSets, Sequences

CONSTANTS
  Frames,       \* how many frames arrive
  Parts,        \* the descriptors each of them takes
  Bad,          \* the frames with an error
  Modes,        \* the shapes in use: "skb", "split", "jumbo"
  Write,        \* E1000_RX_BUFFER_WRITE, a divisor of Count
  Budget,       \* what one call may clean
  Failures,     \* how many allocations may fail
  MayNotMap,    \* mapping a buffer may fail
  Resets,       \* how many resets there may be
  None

VARIABLES
  mode,                                  \* adapter->clean_rx, alloc_rx_buf
  next_to_use, next_to_clean, buffer, desc,
  rx_skb_top, discarding,                \* a chain, FLAG2_IS_DISCARDING
  head, tail, frame, part,               \* the controller
  poll,                                  \* the clean_rx call under way
  live,                                  \* the skbs the driver owns
  up,                                    \* what it passed to the stack
  failed, resets

ring == <<next_to_use, next_to_clean, buffer, desc>>
chain == <<rx_skb_top, discarding>>
hw == <<head, tail, frame, part>>
counts == <<failed, resets>>
vars == <<mode, ring, chain, hw, poll, live, up, counts>>

Frame == 1 .. Frames
Skb == 1 .. Count + 2

(* A chain of pages under construction, rx_skb_top: its skb, and the parts *)
(* of frames in it.                                                        *)
Chain == [skb : Skb, data : Seq(Nat \X Nat)]

Assumption ==
  /\ Count \in Nat /\ Count >= 2 /\ Frames \in Nat
  /\ Parts \in [Frame -> Nat \ {0}] /\ Modes \subseteq {"skb", "split", "jumbo"}
  /\ Write \in Nat \ {0} /\ Budget \in Nat /\ {Failures, Resets} \subseteq Nat
  /\ MayNotMap \in BOOLEAN /\ None \notin Skb \cup Chain

NewSkb(used) == CHOOSE s \in Skb \ used : \A t \in Skb \ used : s <= t

(* A slot: the buffer in dma is mapped, or its mapping failed; "page" is   *)
(* the page of a jumbo or of a split buffer, "pdma" the latter's mapping.  *)
NoBuffer == [skb |-> None, dma |-> "none", page |-> FALSE, pdma |-> "none"]
NoDesc == [dd |-> FALSE, frame |-> 0, part |-> 0, eop |-> FALSE]

-----------------------------------------------------------------------------
(* adapter->alloc_rx_buf.  One slot, and how far it gets when it fails.    *)

WithNewSkb(b, used) == [b EXCEPT !.skb = NewSkb(used)]
WithSkb(b, used) == IF b.skb = None THEN [b EXCEPT !.skb = NewSkb(used)] ELSE b

(* Both keep a mapping that they find, be it good or not; e1000_alloc_rx_  *)
(* buffers maps the buffer anew.                                           *)
KeepDma(d) == IF d = "none" THEN "ok" ELSE d

Prepared(b, used) ==
  CASE mode = "skb" -> [WithSkb(b, used) EXCEPT !.dma = "ok"]
    [] mode = "split" -> [skb |-> NewSkb(used), dma |-> "ok", page |-> TRUE,
                          pdma |-> KeepDma(b.pdma)]
    [] mode = "jumbo" -> [WithSkb(b, used) EXCEPT !.page = TRUE,
                                                 !.dma = KeepDma(b.dma)]

(* No memory: each shape leaves what it had got. *)
NoMemory(b, used) ==
  LET skbless == IF b.skb = None THEN {b} ELSE {}
      pageless == IF b.page THEN {} ELSE {b}
  IN CASE mode = "skb" -> skbless
       [] mode = "split" ->
            pageless \cup {[b EXCEPT !.page = TRUE, !.pdma = KeepDma(b.pdma)]}
       [] mode = "jumbo" -> skbless \cup {WithSkb(p, used) : p \in pageless}

(* dma_mapping_error: the error is left in dma, and in pdma. *)
NotMapped(b, used) ==
  CASE mode = "skb" -> {[WithSkb(b, used) EXCEPT !.dma = "bad"]}
    [] mode = "split" ->
         {[b EXCEPT !.page = TRUE, !.pdma = KeepDma(b.pdma), !.dma = "bad"]}
         \cup (IF b.page THEN {} ELSE {[b EXCEPT !.page = TRUE, !.pdma = "bad"]})
    [] mode = "jumbo" ->
         IF b.dma = "none"
         THEN {[WithSkb(b, used) EXCEPT !.page = TRUE, !.dma = "bad"]} ELSE {}

(* The slots at s.use are prepared one after the other, and the tail is    *)
(* written at every Write of them.                                         *)
FillSlot(s) ==
  LET b == Prepared(s.buffer[s.use], s.live) IN
  [buffer |-> [s.buffer EXCEPT ![s.use] = b],
   live |-> s.live \cup {b.skb}, use |-> After(s.use),
   tail |-> IF mode # "jumbo" /\ s.use % Write = 0 THEN s.use ELSE s.tail]
Filled(r, n) ==
  LET fill[k \in 0 .. n] ==
        IF k = 0 THEN {r} ELSE {FillSlot(s) : s \in fill[k - 1]}
  IN CHOOSE s \in fill[n] : TRUE

(* The jumbo routine writes the tail once, and one slot short. *)
Tell(s, n) ==
  IF mode = "jumbo" /\ n > 0 THEN [s EXCEPT !.tail = Before(s.use)] ELSE s

(* The rings that alloc_rx_buf(n) may leave behind, started from r. *)
Stuck(t) ==
  LET b == t.buffer[t.use]
  IN {[t EXCEPT !.buffer[t.use] = c, !.live = t.live \cup ({c.skb} \ {None})] :
        c \in NoMemory(b, t.live) \cup
              (IF MayNotMap THEN NotMapped(b, t.live) ELSE {})}
Whole(r, n) == Tell(Filled(r, n), n)
Short(r, n) == UNION {Stuck(Whole(r, k)) : k \in 0 .. n - 1}

Refill(r, n) ==
  \E s \in {Whole(r, n)} \cup (IF failed < Failures THEN Short(r, n) ELSE {}) :
    /\ buffer' = s.buffer /\ live' = s.live
    /\ next_to_use' = s.use /\ tail' = s.tail
    /\ failed' = IF s = Whole(r, n) THEN failed ELSE failed + 1

Empty == [buffer |-> [i \in Slot |-> NoBuffer], live |-> {}, use |-> 0, tail |-> 0]
Current == [buffer |-> buffer, live |-> live, use |-> next_to_use, tail |-> tail]

Idle == [pc |-> "idle", i |-> 0, cleaned |-> 0, work |-> 0]

Init ==
  /\ mode \in Modes
  /\ LET s == Whole(Empty, Count - 1)
     IN buffer = s.buffer /\ live = s.live /\ next_to_use = s.use /\ tail = s.tail
  /\ next_to_clean = 0 /\ desc = [i \in Slot |-> NoDesc]
  /\ rx_skb_top = None /\ discarding = FALSE
  /\ head = 0 /\ frame = 1 /\ part = 1
  /\ poll = Idle /\ up = <<>> /\ failed = 0 /\ resets = 0

-----------------------------------------------------------------------------
(* The controller writes the next part of a frame into the slot at the     *)
(* head, if the tail says that there is one.                               *)
HwWrite ==
  /\ head # tail /\ frame <= Frames
  /\ LET eop == part = Parts[frame] IN
     /\ desc' = [desc EXCEPT ![head] =
                   [dd |-> TRUE, frame |-> frame, part |-> part, eop |-> eop]]
     /\ frame' = IF eop THEN frame + 1 ELSE frame
     /\ part' = IF eop THEN 1 ELSE part + 1
  /\ head' = After(head)
  /\ UNCHANGED <<mode, next_to_use, next_to_clean, buffer, chain, tail, poll,
                 live, up, counts>>

-----------------------------------------------------------------------------
(* The three clean_rx routines.  Each takes one descriptor d with buffer b *)
(* and says what is left in the slot, of the chain, of the flag, which skb *)
(* leaves the driver and what goes up the stack.                           *)

Content(d) == << <<d.frame, d.part>> >>
Unmapped(b) == [b EXCEPT !.dma = "none"]
HasError(d) == d.eop /\ d.frame \in Bad

Outcome(b, top, flag, gone, packet) ==
  [slot |-> b, top |-> top, flag |-> flag, gone |-> gone, packet |-> packet]

(* A frame that did not fit one buffer is tossed up to and including the   *)
(* descriptor that ends it.                                                *)
TossedUnlessEnd(d) == ~d.eop
Tossed(d) == discarding \/ ~d.eop

(* e1000_clean_rx_irq: what is not passed up is recycled; a short packet   *)
(* is copied, and its buffer recycled too.                                 *)
CleanSkb(d, b) ==
  LET recycled == Unmapped(b)
      given == [Unmapped(b) EXCEPT !.skb = None]
  IN IF Tossed(d) THEN {Outcome(recycled, None, ~d.eop, {}, <<>>)}
     ELSE IF HasError(d) THEN {Outcome(recycled, None, FALSE, {}, <<>>)}
     ELSE {Outcome(recycled, None, FALSE, {}, Content(d)),
           Outcome(given, None, FALSE, {b.skb}, Content(d))}

(* e1000_clean_rx_irq_ps: the header buffer always leaves the ring, the    *)
(* page stays when nothing or little was in it.                            *)
CleanSplit(d, b) ==
  LET kept == [Unmapped(b) EXCEPT !.skb = None]
      taken == [kept EXCEPT !.page = FALSE, !.pdma = "none"]
  IN IF Tossed(d) THEN {Outcome(kept, None, ~d.eop, {b.skb}, <<>>)}
     ELSE IF HasError(d) THEN {Outcome(kept, None, FALSE, {b.skb}, <<>>)}
     ELSE {Outcome(s, None, FALSE, {b.skb}, Content(d)) : s \in {kept, taken}}

(* e1000_clean_jumbo_rx_irq: an error throws away the chain; a part that   *)
(* continues a chain gives up its page only, one that starts it its skb.   *)
CleanJumbo(d, b) ==
  LET u == Unmapped(b)
      used == [u EXCEPT !.page = FALSE]
      given == [used EXCEPT !.skb = None]
      copied == [u EXCEPT !.skb = None]
  IN IF HasError(d)
     THEN {Outcome(u, None, discarding,
                   IF rx_skb_top = None THEN {} ELSE {rx_skb_top.skb}, <<>>)}
     ELSE IF ~d.eop
     THEN IF rx_skb_top = None
          THEN {Outcome(given, [skb |-> b.skb, data |-> Content(d)], discarding,
                        {}, <<>>)}
          ELSE {Outcome(used, [rx_skb_top EXCEPT !.data = @ \o Content(d)],
                        discarding, {}, <<>>)}
     ELSE IF rx_skb_top # None
     THEN {Outcome(used, None, discarding, {rx_skb_top.skb},
                   rx_skb_top.data \o Content(d))}
     ELSE {Outcome(s, None, discarding, {b.skb}, Content(d)) : s \in {copied, given}}

CleanRx(d, b) ==
  CASE mode = "skb" -> CleanSkb(d, b)
    [] mode = "split" -> CleanSplit(d, b)
    [] mode = "jumbo" -> CleanJumbo(d, b)

PollStart ==
  /\ poll.pc = "idle"
  /\ poll' = [pc |-> "scan", i |-> next_to_clean, cleaned |-> 0, work |-> 0]
  /\ UNCHANGED <<mode, ring, chain, hw, live, up, counts>>

(* One turn of the loop; every Write descriptors the ring is refilled. *)
KeepDone(i) == desc
MarkRead(i) == [desc EXCEPT ![i].dd = FALSE]

PollClean ==
  /\ poll.pc = "scan" /\ desc[poll.i].dd /\ poll.work < Budget
  /\ \E o \in CleanRx(desc[poll.i], buffer[poll.i]) :
       LET r == [Current EXCEPT !.buffer[poll.i] = o.slot, !.live = live \ o.gone]
           n == poll.cleaned + 1
       IN /\ rx_skb_top' = o.top /\ discarding' = o.flag
          /\ up' = IF o.packet = <<>> THEN up ELSE Append(up, o.packet)
          /\ Refill(r, IF n >= Write THEN n ELSE 0)
          /\ poll' = [poll EXCEPT !.i = After(poll.i), !.work = @ + 1,
                                  !.cleaned = IF n >= Write THEN 0 ELSE n]
  /\ desc' = MarkRead(poll.i)
  /\ UNCHANGED <<mode, next_to_clean, head, frame, part, resets>>

(* What the last refill of a call asks for: whatever is missing. *)
AskCleaned(i) == poll.cleaned
AskUnused(i) == DescUnused(i, next_to_use)

PollEnd ==
  /\ poll.pc = "scan" /\ (~desc[poll.i].dd \/ poll.work = Budget)
  /\ next_to_clean' = poll.i
  /\ Refill(Current, AskUnused(poll.i))
  /\ poll' = Idle
  /\ UNCHANGED <<mode, desc, chain, head, frame, part, up, resets>>

(* e1000_clean_rx_ring once no poll runs, then e1000_configure_rx for a    *)
(* shape and alloc_rx_buf for the whole ring.  A frame the controller was  *)
(* writing is lost.                                                        *)
Reset ==
  /\ poll.pc = "idle" /\ resets < Resets
  /\ resets' = resets + 1
  /\ mode' \in Modes
  /\ rx_skb_top' = None /\ discarding' = FALSE
  /\ desc' = [i \in Slot |-> NoDesc]
  /\ next_to_clean' = 0 /\ head' = 0
  /\ frame' = IF part > 1 THEN frame + 1 ELSE frame
  /\ part' = 1
  /\ LET s == Whole(Empty, Count - 1)'
     IN buffer' = s.buffer /\ live' = s.live /\ next_to_use' = s.use /\ tail' = s.tail
  /\ UNCHANGED <<poll, up, failed>>

Next == HwWrite \/ PollStart \/ PollClean \/ PollEnd \/ Reset

(* The watchdog raises an interrupt every two seconds, so a poll comes     *)
(* even when the controller has no descriptors to write.                   *)
Spec == Init /\ [][Next]_vars
FairSpec == Spec /\ WF_vars(HwWrite) /\ WF_vars(PollStart \/ PollClean \/ PollEnd)

-----------------------------------------------------------------------------
TypeOK ==
  /\ mode \in Modes
  /\ {next_to_use, next_to_clean, head, tail, poll.i} \subseteq Slot
  /\ \A i \in Slot : buffer[i].skb \in Skb \cup {None}
  /\ desc \in [Slot -> [dd : BOOLEAN, frame : 0 .. Frames, part : Nat, eop : BOOLEAN]]
  /\ live \subseteq Skb

(* What the controller may write into is mapped, header and page, and has  *)
(* been read: no descriptor is handed out with a mapping that failed.      *)
WritesAreMapped ==
  \A i \in Span(head, tail) :
    /\ buffer[i].dma = "ok" /\ ~desc[i].dd
    /\ buffer[i].skb # None
    /\ mode = "split" => buffer[i].pdma = "ok"

(* Every skb the driver owns is in one slot or heads the chain, and none   *)
(* that it gave away or freed is still on the ring: nothing leaks through  *)
(* errors, copies, chains, failed allocations and resets.                  *)
SkbsAccounted ==
  LET held == {i \in Slot : buffer[i].skb # None}
      top == IF rx_skb_top = None THEN {} ELSE {rx_skb_top.skb}
  IN /\ \A i, j \in held : buffer[i].skb = buffer[j].skb => i = j
     /\ {buffer[i].skb : i \in held} \cup top = live
     /\ {buffer[i].skb : i \in held} \cap top = {}

(* What goes up the stack is one whole frame without an error, never a     *)
(* fragment nor parts of two frames, and frames go up in order, although   *)
(* polls, refills and resets cut between the parts of a frame.             *)
WholeFrames ==
  \A n \in DOMAIN up :
    LET f == up[n][1][1] IN
    /\ up[n] = [k \in 1 .. Parts[f] |-> <<f, k>>]
    /\ f \notin Bad
    /\ n > 1 => f > up[n - 1][1][1]

(* The ring never runs dry for good: every frame finds its descriptors in  *)
(* the end, although allocations fail and the tail is written only every   *)
(* Write slots.                                                            *)
AllArrived == frame > Frames
EveryFrameFindsRoom == <>AllArrived
=============================================================================

------------------------------ MODULE SelfTest ------------------------------
(***************************************************************************)
(* Two of the offline tests of ethtool.c: e1000_intr_test raises interrupt *)
(* causes and looks which of them arrive, e1000_loopback_test sets up two  *)
(* rings of its own and sends frames to itself.  A test is worth what its  *)
(* verdict is worth: 0 for a sound card, and something else for a faulty   *)
(* one.  Whatever fails on the way, what it set up has to be taken down.   *)
(***************************************************************************)
EXTENDS Integers, FiniteSets, Sequences

CONSTANTS
  Tested, Untested,  \* the causes that are tested, 0 .. Tested - 1, and those after
  RxSeq,             \* E1000_ICR_RXSEQ, which is not tested on ICH
  Lsc,               \* E1000_ICR_LSC
  LinkChanges,       \* the link may change even while LSC is enabled
  Count, Batch,      \* of the test rings (256), of a round (64)
  Laps,              \* how often a round may look at the whole ring
  MayFail,           \* steps of the setup that may fail
  BreaksLate,        \* the loop may break after the first round, not only before
  OldFrames,         \* a receive buffer may hold a frame of an earlier test
  Cable              \* frames may come in once the rings are freed

VARIABLES
  at, test, verdict,
  fault, ich, shared,     \* of the card; FLAG_IS_ICH; shared_int
  icr, ims, test_icr,
  cause, step,            \* the iteration, and how far it is
  heap, bad,              \* what setup_desc_rings holds; mappings that failed
  misfreed, stray,        \* an address unmapped that never was; a write beside the buffers
  loop, content,          \* the wire; what the receive buffers hold
  reg, pos                \* TDH, TDT, RDH, RDT, RCTL.EN; j, k, l, good_cnt, looks

intr == <<fault, ich, shared, icr, ims, test_icr, cause, step>>
mem == <<heap, bad, misfreed, stray>>
lb == <<loop, content, reg, pos>>
vars == <<at, test, verdict, intr, mem, lb>>

(* What the constants may be; with one cause alone, a card that skips it is not *)
(* tested at all.                                                               *)
Assumption ==
  /\ Tested \in Nat \ {0, 1} /\ Untested \in Nat
  /\ Count \in Nat /\ Batch \in 1 .. Count - 1

Cause == 0 .. Tested + Untested - 1
Slot == 0 .. Count - 1

\* A sound card; a cause that never interrupts; one whose mask does nothing; and
\* one that is raised along with another.
Fault(k, c, d) == [kind |-> k, of |-> c, with |-> d]
Faults == {Fault("none", 0, 0)}
            \cup {Fault(k, c, c) : k \in {"mute", "leaky"}, c \in Cause}
            \cup UNION {{Fault("cross", c, d) : d \in Cause \ {c}} : c \in Cause}

NoRegs == [tdh |-> 0, tdt |-> 0, rdh |-> 0, rdt |-> 0, rx |-> FALSE]
Start == [j |-> 0, k |-> 0, l |-> 0, good |-> 0, looks |-> 0]

Init == /\ at = "idle" /\ test = "none" /\ verdict = 0
        /\ fault \in Faults /\ ich \in BOOLEAN /\ shared = FALSE
        /\ icr = {} /\ ims = {} /\ test_icr = {} /\ cause = 0 /\ step = "mask"
        /\ heap = {} /\ bad = {} /\ misfreed = FALSE /\ stray = FALSE
        /\ loop = "good"
        /\ content = [s \in Slot |-> "zero"] /\ reg = NoRegs /\ pos = Start

-----------------------------------------------------------------------------
(* e1000_intr_test.  The handler, e1000_test_intr, adds what it reads from *)
(* ICR to test_icr; reading clears ICR.                                    *)

Raised(cs) ==
  IF fault.kind = "cross" /\ fault.with \in cs THEN cs \cup {fault.of} ELSE cs

Interrupts(pending, enabled) ==
  \E c \in pending : \/ fault.kind = "leaky" /\ fault.of = c
                     \/ c \in enabled /\ ~(fault.kind = "mute" /\ fault.of = c)

\* Interrupt or not, once causes have been raised.
Answer(cs, enabled, seen) ==
  LET pending == icr \cup Raised(cs) IN
  IF Interrupts(pending, enabled)
  THEN icr' = {} /\ test_icr' = seen \cup pending
  ELSE icr' = pending /\ test_icr' = seen

BeginIntr(how) ==
    /\ at = "idle"
    /\ at' = "try" /\ test' = "intr" /\ shared' = (how = "shared")
    /\ ims' = {} /\ cause' = 0
    /\ step' = IF how = "shared" THEN "post" ELSE "mask"
    /\ UNCHANGED <<verdict, fault, ich, icr, test_icr, mem, lb>>

NoHandler ==
    /\ at = "idle" /\ "irq" \in MayFail
    /\ at' = "done" /\ test' = "intr" /\ verdict' = 1
    /\ UNCHANGED <<intr, mem, lb>>

Others == Cause \ {cause}

TryMask ==
    /\ at = "try" /\ step = "mask" /\ ~(ich /\ cause = RxSeq)
    /\ ims' = ims \ {cause} /\ Answer({cause}, ims \ {cause}, {})
    /\ at' = "look"
    /\ UNCHANGED <<test, verdict, fault, ich, shared, cause, step, mem, lb>>

TryPost ==
    /\ at = "try" /\ step = "post" /\ ~(ich /\ cause = RxSeq)
    /\ ims' = ims \cup {cause} /\ Answer({cause}, ims \cup {cause}, {})
    /\ at' = "look"
    /\ UNCHANGED <<test, verdict, fault, ich, shared, cause, step, mem, lb>>

TryOthers ==
    /\ at = "try" /\ step = "others"
    /\ ims' = ims \ Others /\ Answer(Others, ims \ Others, {})
    /\ at' = "look"
    /\ UNCHANGED <<test, verdict, fault, ich, shared, cause, step, mem, lb>>

LinkChange ==
    /\ at = "look" /\ (LinkChanges \/ Lsc \notin ims)
    /\ Answer({Lsc}, ims, test_icr)
    /\ UNCHANGED <<at, test, verdict, fault, ich, shared, ims, cause, step, mem, lb>>

Code == CASE step = "mask"   -> IF cause \in test_icr THEN 3 ELSE 0
          [] step = "post"   -> IF cause \in test_icr THEN 0 ELSE 4
          [] step = "others" -> IF test_icr = {} THEN 0 ELSE 5

EndIntr(code) == at' = "done" /\ verdict' = code /\ ims' = {}

FirstStep == IF shared THEN "post" ELSE "mask"

NextCause ==
    IF cause + 1 < Tested
    THEN /\ cause' = cause + 1 /\ step' = FirstStep /\ at' = "try"
         /\ UNCHANGED <<verdict, ims>>
    ELSE EndIntr(0) /\ UNCHANGED <<cause, step>>

Skip ==
    /\ at = "try" /\ ich /\ cause = RxSeq /\ step = FirstStep
    /\ NextCause
    /\ UNCHANGED <<test, fault, ich, shared, icr, test_icr, mem, lb>>

LookFails ==
    /\ at = "look" /\ Code # 0
    /\ EndIntr(Code)
    /\ UNCHANGED <<test, fault, ich, shared, icr, test_icr, cause, step, mem, lb>>

LookPasses ==
    /\ at = "look" /\ Code = 0
    /\ IF shared \/ step = "others" THEN NextCause
       ELSE /\ step' = (IF step = "mask" THEN "post" ELSE "others")
            /\ at' = "try"
            /\ UNCHANGED <<cause, verdict, ims>>
    /\ UNCHANGED <<test, fault, ich, shared, icr, test_icr, mem, lb>>

-----------------------------------------------------------------------------
(* e1000_setup_desc_rings: the memory in the order in which it is asked    *)
(* for.  A failure frees what e1000_free_desc_rings makes out.             *)

Ring(r) == <<<<r, "info", 0>>, <<r, "desc", 0>>>>
Buffers(r) == [n \in 1 .. 2 * Count |->
                 <<r, IF n % 2 = 1 THEN "skb" ELSE "map", (n - 1) \div 2>>]
Program == Ring("tx") \o Buffers("tx") \o Ring("rx") \o Buffers("rx")

Owned(r) == {Program[n] : n \in DOMAIN Program} \cap ({r} \X {"skb", "map"} \X Slot)
Whole(r) == {<<r, "info", 0>>, <<r, "desc", 0>>} \subseteq heap

Freed == (UNION {IF Whole(r) THEN Owned(r) ELSE {} : r \in {"tx", "rx"}})
           \cup {o \in heap : o[2] \in {"info", "desc"}}

FreeDescRings ==
    /\ heap' = heap \ Freed
    /\ misfreed' = (misfreed \/ bad \cap Freed # {})
    /\ bad' = {}

BeginLoopback ==
    /\ at = "idle" /\ fault.kind = "none" /\ ~ich
    /\ at' = "setup" /\ test' = "loopback"
    /\ UNCHANGED <<verdict, intr, mem, lb>>

Asked == Program[Cardinality(heap) + 1]

\* The memory of a receive buffer is not cleared: memset gets a length of 0.
Fresh(o) ==
    IF o[1] = "rx" /\ o[2] = "skb"
    THEN \E old \in {"zero"} \cup (IF OldFrames THEN {"frame"} ELSE {}) :
             content' = [content EXCEPT ![o[3]] = old]
    ELSE UNCHANGED content

Allocate ==
    /\ at = "setup" /\ Cardinality(heap) < Len(Program)
    /\ heap' = heap \cup {Asked}
    /\ Fresh(Asked)
    /\ reg' = CASE Asked = <<"tx", "desc", 0>> -> [reg EXCEPT !.tdh = 0, !.tdt = 0]
                [] Asked = <<"rx", "desc", 0>> -> [reg EXCEPT !.rdh = 0, !.rdt = 0, !.rx = TRUE]
                [] OTHER -> reg
    /\ UNCHANGED <<at, test, verdict, intr, bad, misfreed, stray, loop, pos>>

NoMemory(o) == (IF o[1] = "tx" THEN 0 ELSE 4)
              + CASE o[2] = "info" -> 1 [] o[2] = "desc" -> 2 [] o[2] = "skb" -> 3 [] OTHER -> 4

\* A mapping that failed leaves the error code in buffer_info.dma.
AllocateFails ==
    /\ at = "setup" /\ Cardinality(heap) < Len(Program) /\ Asked[2] \in MayFail
    /\ bad' = IF Asked[2] = "map" THEN {Asked} ELSE {}
    /\ at' = "failed" /\ verdict' = NoMemory(Asked)
    /\ UNCHANGED <<test, intr, heap, misfreed, stray, lb>>

AllocateUndone ==
    /\ at = "failed"
    /\ FreeDescRings /\ at' = "done"
    /\ UNCHANGED <<test, verdict, intr, stray, lb>>

\* e1000_setup_loopback_test, and the first line of e1000_run_loopback_test.
SetupLoopback ==
    /\ at = "setup" /\ Cardinality(heap) = Len(Program)
    /\ at' = "send" /\ reg' = [reg EXCEPT !.rdt = Count - 1]
    /\ UNCHANGED <<test, verdict, intr, mem, loop, content, pos>>

SetupLoopbackFails ==
    /\ at = "setup" /\ Cardinality(heap) = Len(Program) /\ "loop" \in MayFail
    /\ at' = "failed" /\ verdict' = 7
    /\ UNCHANGED <<test, intr, mem, lb>>

-----------------------------------------------------------------------------
(* e1000_run_loopback_test                                                 *)

Rounds == (Count \div Batch) * 2 + 2

Send ==
    /\ at = "send"
    /\ LET k == (pos.k + Batch) % Count IN
       /\ pos' = [pos EXCEPT !.k = k, !.good = 0, !.looks = 0]
       /\ reg' = [reg EXCEPT !.tdt = k]
    /\ at' = "wait"
    /\ UNCHANGED <<test, verdict, intr, mem, loop, content>>

\* A frame goes round, if there is a descriptor for it.
HwLoops ==
    /\ at = "wait" /\ reg.tdh # reg.tdt
    /\ LET arrives == loop = "good" /\ reg.rdh # reg.rdt IN
       /\ content' = IF arrives THEN [content EXCEPT ![reg.rdh] = "frame"] ELSE content
       /\ reg' = [reg EXCEPT !.tdh = (@ + 1) % Count,
                             !.rdh = IF arrives THEN (@ + 1) % Count ELSE @]
    /\ UNCHANGED <<at, test, verdict, intr, mem, loop, pos>>

LoopBreaks ==
    /\ loop = "good"
    /\ \/ at = "send" /\ pos.j = 0
       \/ BreaksLate /\ at \in {"send", "wait"}
    /\ loop' = "broken"
    /\ UNCHANGED <<at, test, verdict, intr, mem, content, reg, pos>>

\* The frames had 200 ms to arrive.
CheckFrame ==
    /\ at = "wait" /\ reg.tdh = reg.tdt
    /\ pos.good < Batch /\ pos.looks < Laps * Count
    /\ pos' = [pos EXCEPT !.l = (@ + 1) % Count, !.looks = @ + 1,
                          !.good = IF content[pos.l] = "frame" THEN @ + 1 ELSE @]
    /\ UNCHANGED <<at, test, verdict, intr, mem, loop, content, reg>>

RoundPasses ==
    /\ at = "wait" /\ pos.good = Batch
    /\ IF pos.j + 1 < Rounds THEN at' = "send" /\ pos' = [pos EXCEPT !.j = @ + 1]
                             ELSE at' = "cleanup" /\ UNCHANGED pos
    /\ UNCHANGED <<test, verdict, intr, mem, loop, content, reg>>

RoundFails ==
    /\ at = "wait" /\ reg.tdh = reg.tdt
    /\ pos.good < Batch /\ pos.looks >= Count
    /\ at' = "cleanup" /\ verdict' = 13
    /\ UNCHANGED <<test, intr, mem, lb>>

\* e1000_loopback_cleanup opens the loop; then the rings are freed, and
\* e1000_diag_test resets the adapter.
Cleanup ==
    /\ at = "cleanup"
    /\ at' = "open"
    /\ UNCHANGED <<test, verdict, intr, mem, lb>>

FreeRings ==
    /\ at = "open"
    /\ FreeDescRings /\ at' = "freed"
    /\ UNCHANGED <<test, verdict, intr, stray, lb>>

ResetAdapter ==
    /\ at = "freed"
    /\ reg' = NoRegs /\ at' = "done"
    /\ UNCHANGED <<test, verdict, intr, mem, loop, content, pos>>

CableFrame ==
    /\ at = "open" \/ (Cable /\ at = "freed")
    /\ reg.rx /\ reg.rdh # reg.rdt
    /\ stray' = (stray \/ <<"rx", "map", reg.rdh>> \notin heap)
    /\ reg' = [reg EXCEPT !.rdh = (@ + 1) % Count]
    /\ UNCHANGED <<at, test, verdict, intr, heap, bad, misfreed, loop, content, pos>>

Next ==
    \/ \E how \in {"own", "shared"} : BeginIntr(how)
    \/ NoHandler \/ TryMask \/ TryPost \/ TryOthers \/ LinkChange
    \/ Skip \/ LookFails \/ LookPasses
    \/ BeginLoopback \/ Allocate \/ AllocateFails \/ AllocateUndone
    \/ SetupLoopback \/ SetupLoopbackFails
    \/ Send \/ HwLoops \/ LoopBreaks \/ CheckFrame \/ RoundPasses \/ RoundFails
    \/ Cleanup \/ FreeRings \/ ResetAdapter \/ CableFrame

Spec == Init /\ [][Next]_vars

-----------------------------------------------------------------------------

\* The types of the variables.
TypeOK ==
    /\ test \in {"none", "intr", "loopback"}
    /\ at \in {"idle", "try", "look", "setup", "failed", "send", "wait",
               "cleanup", "open", "freed", "done"}
    /\ verdict \in {0, 1, 2, 3, 4, 5, 6, 7, 8, 13}
    /\ icr \subseteq Cause /\ ims \subseteq Cause /\ test_icr \subseteq Cause
    /\ cause \in 0 .. Tested - 1 /\ step \in {"mask", "post", "others"}
    /\ heap \subseteq {Program[n] : n \in DOMAIN Program}
    /\ content \in [Slot -> {"zero", "frame"}]
    /\ reg.tdh \in Slot /\ reg.tdt \in Slot /\ reg.rdh \in Slot /\ reg.rdt \in Slot
    /\ pos.l \in Slot /\ pos.good \in 0 .. Batch /\ pos.j \in 0 .. Rounds

\* What e1000_intr_test can find: a cause that never comes; and, if the interrupt
\* is not shared, one that comes masked or along with another.
Looked(c) == c < Tested /\ ~(ich /\ c = RxSeq)
Detectable ==
    CASE fault.kind = "none" -> FALSE
      [] fault.kind = "mute" -> Looked(fault.of)
      [] fault.kind = "leaky" -> ~shared
      [] OTHER -> ~shared /\ Looked(fault.of)

\* A sound card passes e1000_intr_test and a card with a fault that it can find does
\* not, whatever the causes that were raised while masked leave pending.
InterruptVerdict ==
    test = "intr" /\ at = "done" /\ verdict # 1 => (verdict # 0) = Detectable

\* e1000_loopback_test passes if and only if the loop passes on frames.
LoopbackVerdict ==
    test = "loopback" /\ at = "done" /\ verdict \in {0, 13} =>
        (verdict = 0) = (loop = "good")

\* Wherever the setup of the test rings fails, what it got is given back, nothing
\* else is; and no frame is written to memory that was.
NothingIsHeld ==
    /\ at = "done" => heap = {}
    /\ ~misfreed /\ ~stray
=============================================================================

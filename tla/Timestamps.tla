----------------------------- MODULE Timestamps -----------------------------
(***************************************************************************)
(* Hardware timestamps of the e1000e driver.  The controller has one       *)
(* register for the time of a transmitted packet and one for the time of a *)
(* received frame; each holds a time until it is read.  Nothing in them    *)
(* says whose time it is: the driver marks one packet at a time, and takes *)
(* the receive register to belong to the frame at hand.                    *)
(*                                                                         *)
(* A time is the packet or frame it was taken of.                          *)
(***************************************************************************)
EXTENDS Naturals, Sequences, FiniteSets

CONSTANTS
  Packets,      \* packets to send, each of which asks for its time
  Frames,       \* what arrives: [seen |-> a frame of Frame, bad |-> BOOLEAN]
  TxTypes,      \* hwtstamp_config.tx_type of the calls
  Filters,      \* hwtstamp_config.rx_filter of the calls
  Calls,        \* how many calls of e1000e_hwtstamp_set
  Resets,       \* whether the adapter is reset
  Removes,      \* whether it is removed
  MayRefuse,    \* the registers may not take what a call writes
  Slow,         \* a packet may stay on the ring longer than the time it has
  Overlap,      \* the watchdog and calls may clear a time that a frame waits for
  LateXmit,     \* a packet may be under way in e1000_xmit_frame during removal
  None

VARIABLES
  cfg,          \* adapter->hwtstamp_config
  tsync,        \* TSYNCTXCTL, TSYNCRXCTL, RXMTRL and RXUDP
  told,         \* what the last call was asked for, and answered
  skb,          \* adapter->tx_hwtstamp_skb
  work,         \* tx_hwtstamp_work: idle, queued, or about to tell a time
  xmit,         \* the packet that is past the test of __E1000_DOWN
  ring, txTime, \* packets to send, and whether they are marked; TXSTMP
  txTold,       \* <<packet, time>> told to the stack
  packet,
  rxRing, rxTime, \* frames to clean, with TST of the descriptor; RXSTMP
  poll,         \* the frame for which RXSTMP is about to be read
  rxTold, frame,
  check,        \* FLAG2_CHECK_RX_HWTSTAMP
  calls,
  removal       \* how far e1000_remove got

settings == <<cfg, tsync, told, calls>>
tx == <<skb, work, xmit, ring, txTime, txTold, packet>>
rx == <<rxRing, rxTime, poll, rxTold, frame, check>>
vars == <<settings, tx, rx, removal>>

-----------------------------------------------------------------------------
(* Frames and filters.  A frame is of PTP version 1 or 2, or no PTP (0);   *)
(* over Ethernet or UDP; and a message of some type.  "path" stands for    *)
(* the Path Delay messages.                                                *)

Frame == [ver : {0}, layer : {"l2"}, msg : {"none"}]
           \cup [ver : {1}, layer : {"l4"}, msg : {"sync", "delay"}]
           \cup [ver : {2}, layer : {"l2", "l4"}, msg : {"sync", "delay", "path"}]

(* What the constants may be. *)
Assumption ==
  /\ Packets \in Nat /\ None \notin Nat
  /\ Frames \in Seq([seen : Frame, bad : BOOLEAN])

Events(v, layers, msgs) == {f \in Frame : f.ver = v /\ f.layer \in layers /\ f.msg \in msgs}
AllMsgs == {"sync", "delay", "path"}
Both == {"l2", "l4"}

\* What a filter asks for (include/uapi/linux/net_tstamp.h).
Asked(filter) ==
  CASE filter = "none"         -> {}
    [] filter = "v1_l4_sync"   -> Events(1, {"l4"}, {"sync"})
    [] filter = "v1_l4_delay"  -> Events(1, {"l4"}, {"delay"})
    [] filter = "v1_l4_event"  -> Events(1, {"l4"}, AllMsgs)
    [] filter = "v2_l2_sync"   -> Events(2, {"l2"}, {"sync"})
    [] filter = "v2_l2_delay"  -> Events(2, {"l2"}, {"delay"})
    [] filter = "v2_l4_sync"   -> Events(2, {"l4"}, {"sync"})
    [] filter = "v2_l4_delay"  -> Events(2, {"l4"}, {"delay"})
    [] filter = "v2_sync"      -> Events(2, Both, {"sync"})
    [] filter = "v2_delay"     -> Events(2, Both, {"delay"})
    [] filter = "v2_l2_event"  -> Events(2, {"l2"}, AllMsgs)
    [] filter = "v2_l4_event"  -> Events(2, {"l4"}, AllMsgs)
    [] filter = "v2_event"     -> Events(2, Both, AllMsgs)
    [] filter \in {"ntp_all", "all"} -> Frame

Supported == {"none", "v1_l4_sync", "v1_l4_delay", "v1_l4_event", "v2_l2_sync",
              "v2_l2_delay", "v2_l4_sync", "v2_l4_delay", "v2_sync", "v2_delay",
              "v2_l2_event", "v2_l4_event", "v2_event", "ntp_all", "all"}

(* The switch of e1000e_config_hwtstamp: the type of TSYNCRXCTL, the       *)
(* message of RXMTRL, and which of RXMTRL's Ethertype and RXUDP are set.   *)
Rule(type, msg, layers) == [type |-> type, msg |-> msg, layers |-> layers]

RuleOf(filter) ==
  CASE filter = "none" -> Rule("off", "sync", {})
    [] filter = "v1_l4_sync" -> Rule("l4_v1", "sync", {"l4"})
    [] filter = "v1_l4_delay" -> Rule("l4_v1", "delay", {"l4"})
    [] filter = "v2_l2_sync" -> Rule("l2_v2", "sync", {"l2"})
    [] filter = "v2_l2_delay" -> Rule("l2_v2", "delay", {"l2"})
    [] filter \in {"v2_l4_sync", "v2_sync"} -> Rule("l2_l4_v2", "sync", Both)
    [] filter \in {"v2_l4_delay", "v2_delay"} -> Rule("l2_l4_v2", "delay", Both)
    [] filter \in {"v2_l4_event", "v2_l2_event", "v2_event"} ->
         Rule("event_v2", "sync", Both)
    [] OTHER -> Rule("all", "sync", Both)

\* What it makes of the filter it stores, and what the ioctl returns.
Widened(filter) ==
  CASE filter \in {"v2_l4_event", "v2_l2_event"} -> "v2_event"
    [] filter \in {"v1_l4_event", "ntp_all"} -> "all"
    [] OTHER -> filter

Returned(filter) ==
  IF filter \in {"v2_l4_sync", "v2_l2_sync", "v2_sync",
                 "v2_l4_delay", "v2_l2_delay", "v2_delay"}
  THEN "some" ELSE Widened(filter)

\* The frames whose time the controller takes under a rule.
Taken(rule) ==
  LET v == IF rule.type = "l4_v1" THEN 1 ELSE 2
      hears == CASE rule.type = "l4_v1" -> {"l4"}
                 [] rule.type = "l2_v2" -> {"l2"}
                 [] OTHER -> Both
  IN CASE rule.type = "off" -> {}
       [] rule.type = "all" -> Frame
       [] rule.type = "event_v2" -> Events(2, rule.layers, AllMsgs)
       [] OTHER -> Events(v, hears \cap rule.layers, {rule.msg, "path"})

-----------------------------------------------------------------------------

Off == [tx |-> "off", rx |-> "none"]
TsyncOff == [tx |-> FALSE, rule |-> RuleOf("none")]

NoTime == [of |-> None, valid |-> FALSE]

Init == /\ cfg = Off /\ tsync = TsyncOff
        /\ told = [asked |-> Off, ok |-> TRUE, answer |-> "none"]
        /\ skb = None /\ work = [at |-> "idle"] /\ xmit = None
        /\ ring = <<>> /\ txTime = NoTime /\ txTold = {} /\ packet = 1
        /\ rxRing = <<>> /\ rxTime = NoTime /\ poll = None
        /\ rxTold = {} /\ frame = 1 /\ check = FALSE
        /\ calls = 0 /\ removal = "none"

\* A time register: it takes a time unless it holds one, and is cleared by a read.
Latched(r, x) == IF r.valid THEN r ELSE [of |-> x, valid |-> TRUE]
Cleared(r) == [r EXCEPT !.valid = FALSE]

-----------------------------------------------------------------------------
(* e1000_xmit_frame: the test of __E1000_DOWN, and what concerns the time. *)

XmitStart ==
    /\ xmit = None /\ packet <= Packets /\ removal = "none"
    /\ xmit' = packet /\ packet' = packet + 1
    /\ UNCHANGED <<settings, skb, work, ring, txTime, txTold, rx, removal>>

XmitMarks ==
    /\ xmit # None /\ skb = None
    /\ skb' = xmit
    /\ work' = IF work.at = "tell" THEN work ELSE [at |-> "queued"]
    /\ ring' = Append(ring, [packet |-> xmit, marked |-> TRUE])
    /\ xmit' = None
    /\ UNCHANGED <<settings, txTime, txTold, packet, rx, removal>>

XmitSkips ==
    /\ xmit # None /\ skb # None
    /\ ring' = Append(ring, [packet |-> xmit, marked |-> FALSE])
    /\ xmit' = None
    /\ UNCHANGED <<settings, skb, work, txTime, txTold, packet, rx, removal>>

\* The controller sends a packet.
HwSend ==
    /\ ring # <<>>
    /\ ring' = Tail(ring)
    /\ txTime' = IF Head(ring).marked /\ tsync.tx
                 THEN Latched(txTime, Head(ring).packet) ELSE txTime
    /\ UNCHANGED <<settings, skb, work, xmit, txTold, packet, rx, removal>>

(* e1000e_tx_hwtstamp_work.  As long as there is neither a time nor a      *)
(* timeout it puts itself on the queue again.                              *)
Idle == [at |-> "idle"]

WorkReads ==
    /\ work.at = "queued" /\ txTime.valid
    /\ work' = [at |-> "tell", skb |-> skb, time |-> txTime.of]
    /\ txTime' = Cleared(txTime)
    /\ skb' = None
    /\ UNCHANGED <<settings, xmit, ring, txTold, packet, rx, removal>>

\* XmitMarks may have queued the work again in the meantime.
WorkTells ==
    /\ work.at = "tell"
    /\ txTold' = txTold \cup {<<work.skb, work.time>>}
    /\ work' = IF skb = None THEN Idle ELSE [at |-> "queued"]
    /\ UNCHANGED <<settings, skb, xmit, ring, txTime, packet, rx, removal>>

OnRing(p) == \E i \in DOMAIN ring : ring[i].packet = p

WorkTimesOut ==
    /\ work.at = "queued" /\ ~txTime.valid
    /\ Slow \/ ~OnRing(skb)
    /\ skb' = None /\ work' = Idle
    /\ UNCHANGED <<settings, xmit, ring, txTime, txTold, packet, rx, removal>>

-----------------------------------------------------------------------------
(* Receiving.  The controller marks the descriptor of the frame whose time *)
(* it takes; a frame with an error is dropped before e1000_receive_skb.    *)

HwReceive ==
    /\ frame <= Len(Frames) /\ removal = "none"
    /\ LET takes == Frames[frame].seen \in Taken(tsync.rule) /\ ~rxTime.valid IN
       /\ rxRing' = Append(rxRing, [frame |-> frame, tst |-> takes])
       /\ rxTime' = IF takes THEN Latched(rxTime, frame) ELSE rxTime
    /\ frame' = frame + 1
    /\ UNCHANGED <<settings, tx, poll, rxTold, check, removal>>

\* Mistake: the time that is there is taken for this frame's.
HasTimeNow(d) == rxTime.valid

\* e1000e_rx_hwtstamp looks at TST and VALID, and then reads the time.
HasTime(d) == d.tst /\ rxTime.valid

RxPasses ==
    /\ poll = None /\ rxRing # <<>>
    /\ Frames[Head(rxRing).frame].bad \/ ~HasTime(Head(rxRing))
    /\ rxRing' = Tail(rxRing)
    /\ UNCHANGED <<settings, tx, rxTime, poll, rxTold, frame, check, removal>>

RxLooks ==
    /\ poll = None /\ rxRing # <<>>
    /\ ~Frames[Head(rxRing).frame].bad /\ HasTime(Head(rxRing))
    /\ poll' = Head(rxRing).frame
    /\ rxRing' = Tail(rxRing)
    /\ UNCHANGED <<settings, tx, rxTime, rxTold, frame, check, removal>>

RxReads ==
    /\ poll # None
    /\ rxTold' = rxTold \cup {<<poll, rxTime.of>>}
    /\ rxTime' = Cleared(rxTime)
    /\ check' = FALSE
    /\ poll' = None
    /\ UNCHANGED <<settings, tx, rxRing, frame, removal>>

\* Clearing a register whose time a good frame still waits for.
Waits == poll # None \/ \E i \in DOMAIN rxRing :
                            rxRing[i].tst /\ ~Frames[rxRing[i].frame].bad
MayClear == Overlap \/ ~Waits

\* e1000_watchdog_task: a time that nobody read from one call to the next is stuck.
WatchdogLooks ==
    /\ cfg.rx # "none" /\ removal = "none"
    /\ ~check
    /\ check' = TRUE
    /\ UNCHANGED <<settings, tx, rxRing, rxTime, poll, rxTold, frame, removal>>

WatchdogClears ==
    /\ cfg.rx # "none" /\ removal = "none"
    /\ check /\ rxTime.valid /\ MayClear
    /\ rxTime' = Cleared(rxTime)
    /\ UNCHANGED <<settings, tx, rxRing, poll, rxTold, frame, check, removal>>

-----------------------------------------------------------------------------
(* e1000e_config_hwtstamp, called by e1000e_hwtstamp_set and by a reset.   *)

Valid(c) == c.tx \in {"off", "on"} /\ c.rx \in Supported
Stored(c) == [c EXCEPT !.rx = Widened(@)]
Written(c) == [tx |-> c.tx = "on", rule |-> RuleOf(c.rx)]

BothCleared == txTime' = Cleared(txTime) /\ rxTime' = Cleared(rxTime)

MaySet == calls < Calls /\ removal = "none"
Told(c, ok, answer) == told' = [asked |-> c, ok |-> ok, answer |-> answer]

SetRejected(c) ==
    /\ MaySet /\ ~Valid(c)
    /\ Told(c, FALSE, "none") /\ calls' = calls + 1
    /\ UNCHANGED <<cfg, tsync, tx, rx, removal>>

SetRefused(c) ==
    /\ MaySet /\ Valid(c) /\ MayRefuse
    /\ cfg' = Stored(c)
    /\ \/ UNCHANGED tsync
       \/ tsync' = [tsync EXCEPT !.tx = c.tx = "on"]
    /\ Told(c, FALSE, "none") /\ calls' = calls + 1
    /\ UNCHANGED <<tx, rx, removal>>

SetHwtstamp(c) ==
    /\ MaySet /\ Valid(c) /\ MayClear
    /\ cfg' = Stored(c) /\ tsync' = Written(c)
    /\ Told(c, TRUE, Returned(c.rx)) /\ calls' = calls + 1
    /\ BothCleared
    /\ UNCHANGED <<skb, work, xmit, ring, txTold, packet,
                   rxRing, poll, rxTold, frame, check, removal>>

\* e1000e_reset: the registers and the rings are emptied, e1000e_systim_reset
\* writes the settings again.  NAPI is off and nobody transmits.
Reset ==
    /\ Resets /\ xmit = None /\ poll = None /\ removal = "none"
    /\ tsync' = Written(cfg)
    /\ BothCleared
    /\ ring' = <<>> /\ rxRing' = <<>>
    /\ UNCHANGED <<cfg, told, calls, skb, work, xmit, txTold, packet,
                   poll, rxTold, frame, check, removal>>

(* e1000_remove: __E1000_DOWN, the work and its packet, unregister_netdev. *)

RemoveDown ==
    /\ Removes /\ removal = "none"
    /\ LateXmit \/ xmit = None
    /\ removal' = "down"
    /\ UNCHANGED <<settings, tx, rx>>

RemoveCancels ==
    /\ removal = "down" /\ work.at # "tell"
    /\ work' = Idle /\ skb' = None
    /\ removal' = "cancelled"
    /\ UNCHANGED <<settings, xmit, ring, txTime, txTold, packet, rx>>

RemoveUnregisters ==
    /\ removal = "cancelled" /\ xmit = None /\ poll = None
    /\ removal' = "gone"
    /\ ring' = <<>> /\ rxRing' = <<>>
    /\ UNCHANGED <<settings, skb, work, xmit, txTime, txTold, packet,
                   rxTime, poll, rxTold, frame, check>>

Next ==
    \/ XmitStart \/ XmitMarks \/ XmitSkips \/ HwSend
    \/ WorkReads \/ WorkTells \/ WorkTimesOut
    \/ HwReceive \/ RxPasses \/ RxLooks \/ RxReads
    \/ WatchdogLooks \/ WatchdogClears
    \/ \E c \in [tx : TxTypes, rx : Filters] :
           SetRejected(c) \/ SetRefused(c) \/ SetHwtstamp(c)
    \/ Reset
    \/ RemoveDown \/ RemoveCancels \/ RemoveUnregisters

Spec == Init /\ [][Next]_vars

-----------------------------------------------------------------------------

\* The types of the variables.
TypeOK ==
    /\ cfg \in [tx : {"off", "on"}, rx : Supported]
    /\ tsync.tx \in BOOLEAN /\ tsync.rule \in {RuleOf(f) : f \in Supported}
    /\ skb \in 1 .. Packets \cup {None} /\ xmit \in 1 .. Packets \cup {None}
    /\ work.at \in {"idle", "queued", "tell"}
    /\ ring \in Seq([packet : 1 .. Packets, marked : BOOLEAN])
    /\ txTime \in [of : 1 .. Packets \cup {None}, valid : BOOLEAN]
    /\ rxRing \in Seq([frame : DOMAIN Frames, tst : BOOLEAN])
    /\ rxTime \in [of : DOMAIN Frames \cup {None}, valid : BOOLEAN]
    /\ poll \in DOMAIN Frames \cup {None} /\ check \in BOOLEAN
    /\ removal \in {"none", "down", "cancelled", "gone"}

\* "At most one packet in the queue may be marked for time stamping" (netdev.c:3593).
OneIsMarked ==
    \A i, j \in DOMAIN ring : ring[i].marked /\ ring[j].marked => i = j

\* The stack is told of every packet the time at which that packet left, and of
\* every frame the time at which that frame came, if it is told one at all.
TimesAreTheirs == \A pair \in txTold \cup rxTold : pair[1] = pair[2]

\* What e1000e_hwtstamp_set answers is what the controller does, resets included:
\* it takes the time of every frame asked for, and of no other unless it says so.
AnswerIsTrue ==
    told.ok => /\ tsync.tx = (told.asked.tx = "on")
               /\ Asked(told.asked.rx) \subseteq Taken(tsync.rule)
               /\ told.answer # "some" => Taken(tsync.rule) = Asked(told.answer)

\* After e1000_remove neither the work nor its packet is left.
NothingIsLeft == removal = "gone" => skb = None /\ work.at = "idle"
=============================================================================

----------------------------- MODULE RingMemory -----------------------------
(***************************************************************************)
(* The memory of the transmit and the receive ring.  An open interface has *)
(* both; ethtool may change the number of descriptors of either, of an     *)
(* open interface too (e1000_set_ringparam).  The interrupt handlers keep  *)
(* pointers to the two struct e1000_ring, so new memory is set up in       *)
(* copies of them, and copied over the old once all of it is there.        *)
(***************************************************************************)
EXTENDS Naturals

CONSTANTS
  Asks,            \* numbers of descriptors that ethtool asks for
  Min, Max,        \* E1000_MIN_TXD, E1000_MAX_TXD
  Multiple,        \* REQ_TX_DESCRIPTOR_MULTIPLE, which divides Max
  Blocks           \* blocks of memory to look at

VARIABLES
  running,         \* netif_running
  count,           \* adapter->tx_ring_count, rx_ring_count
  ring, temp,      \* of tx and rx: count, and a block for buffer_info and desc
  heap,            \* the size of each block, 0 for one that is free
  call,            \* the call under way: at, and the counts it sets
  err, old         \* its outcome; the rings and counts before it

vars == <<running, count, ring, temp, heap, call, err, old>>

(* What the constants may be. *)
Assumption ==
  /\ Blocks \in Nat /\ Asks \subseteq Nat
  /\ Min \in Nat \ {0} /\ Max \in Nat /\ Min <= Max /\ Multiple \in Nat \ {0}

Kinds == {"tx", "rx"}
Block == 1 .. Blocks
NoBlock == 0
Free(b) == heap[b] = 0

NoRing == [count |-> 0, block |-> NoBlock]
NoTemp == [r \in Kinds |-> NoRing]
NoCall == [at |-> "none", new |-> [r \in Kinds |-> 0]]

Init == /\ running = FALSE
        /\ count = [r \in Kinds |-> Min]
        /\ ring = [r \in Kinds |-> [count |-> Min, block |-> NoBlock]]
        /\ temp = NoTemp
        /\ heap = [b \in Block |-> 0]
        /\ call = NoCall /\ err = FALSE /\ old = <<ring, count>>

Ends(failed) == call' = NoCall /\ err' = failed
Goes(place) == call' = [call EXCEPT !.at = place]

-----------------------------------------------------------------------------
(* e1000e_setup_tx_resources, e1000e_setup_rx_resources and their          *)
(* counterparts, e1000e_free_tx_resources and e1000e_free_rx_resources.    *)

SetUp(r) == \E b \in Block :
    /\ Free(b)
    /\ heap' = [heap EXCEPT ![b] = ring[r].count]
    /\ ring' = [ring EXCEPT ![r].block = b]

SetUpTemp(r, n) == \E b \in Block :
    /\ Free(b)
    /\ heap' = [heap EXCEPT ![b] = n]
    /\ temp' = [temp EXCEPT ![r] = [count |-> n, block |-> b]]

Without(blocks) == [b \in Block |-> IF b \in blocks THEN 0 ELSE heap[b]]

(* e1000e_open and e1000e_close *)

Open ==
    /\ call.at = "none" /\ ~running
    /\ Goes("openTx") /\ old' = <<ring, count>>
    /\ UNCHANGED <<running, count, ring, temp, heap, err>>

OpenTx ==
    /\ call.at = "openTx"
    /\ \/ SetUp("tx") /\ Goes("openRx") /\ UNCHANGED err
       \/ Ends(TRUE) /\ UNCHANGED <<ring, heap>>
    /\ UNCHANGED <<running, count, temp, old>>

OpenRx ==
    /\ call.at = "openRx"
    /\ \/ SetUp("rx") /\ Ends(FALSE) /\ running' = TRUE
       \/ /\ heap' = Without({ring["tx"].block})
          /\ ring' = [ring EXCEPT !["tx"].block = NoBlock]
          /\ Ends(TRUE) /\ UNCHANGED running
    /\ UNCHANGED <<count, temp, old>>

Close ==
    /\ call.at = "none" /\ running
    /\ heap' = Without({ring[r].block : r \in Kinds})
    /\ ring' = [r \in Kinds |-> [ring[r] EXCEPT !.block = NoBlock]]
    /\ running' = FALSE /\ err' = FALSE
    /\ UNCHANGED <<count, temp, call, old>>

-----------------------------------------------------------------------------
(* e1000_set_ringparam *)

Clamped(n) == IF n < Min THEN Min ELSE IF n > Max THEN Max ELSE n
Aligned(n) == ((n + Multiple - 1) \div Multiple) * Multiple
Rounded(ask) == [r \in Kinds |-> Aligned(Clamped(ask[r]))]

\* set_tx and set_rx
Sets(r) == call.new[r] # count[r]

SetRingparam(ask) ==
    /\ call.at = "none" /\ Rounded(ask) # count
    /\ old' = <<ring, count>>
    /\ IF running
       THEN /\ call' = [at |-> "setTx", new |-> Rounded(ask)]
            /\ UNCHANGED <<count, ring, err>>
       ELSE /\ count' = Rounded(ask)
            /\ ring' = [r \in Kinds |-> [ring[r] EXCEPT !.count = Rounded(ask)[r]]]
            /\ err' = FALSE
            /\ UNCHANGED call
    /\ UNCHANGED <<running, temp, heap>>

\* There is no memory for temp_tx or temp_rx.
NoTempMemory ==
    /\ call.at = "setTx"
    /\ Ends(TRUE)
    /\ UNCHANGED <<running, count, ring, temp, heap, old>>

SetTx ==
    /\ call.at = "setTx"
    /\ IF Sets("tx") THEN SetUpTemp("tx", call.new["tx"]) ELSE UNCHANGED <<heap, temp>>
    /\ Goes("setRx")
    /\ UNCHANGED <<running, count, ring, err, old>>

\* err_setup
SetTxFails ==
    /\ call.at = "setTx" /\ Sets("tx")
    /\ Ends(TRUE)
    /\ UNCHANGED <<running, count, ring, temp, heap, old>>

SetRx ==
    /\ call.at = "setRx"
    /\ IF Sets("rx") THEN SetUpTemp("rx", call.new["rx"]) ELSE UNCHANGED <<heap, temp>>
    /\ Goes("copy")
    /\ UNCHANGED <<running, count, ring, err, old>>

\* err_setup_rx: the new transmit ring is given back, if there is one.
SetRxFails ==
    /\ call.at = "setRx" /\ Sets("rx")
    /\ heap' = IF Sets("tx") THEN Without({temp["tx"].block}) ELSE heap
    /\ temp' = NoTemp
    /\ Ends(TRUE)
    /\ UNCHANGED <<running, count, ring, old>>

CopyBack ==
    /\ call.at = "copy"
    /\ heap' = Without({ring[r].block : r \in {k \in Kinds : Sets(k)}})
    /\ ring' = [r \in Kinds |-> IF Sets(r) THEN temp[r] ELSE ring[r]]
    /\ count' = call.new
    /\ temp' = NoTemp
    /\ Ends(FALSE)
    /\ UNCHANGED <<running, old>>

Next ==
    \/ Open \/ OpenTx \/ OpenRx \/ Close
    \/ \E ask \in [Kinds -> Asks] : SetRingparam(ask)
    \/ NoTempMemory \/ SetTx \/ SetTxFails \/ SetRx \/ SetRxFails \/ CopyBack

Spec == Init /\ [][Next]_vars

-----------------------------------------------------------------------------

\* The types of the variables.
TypeOK ==
    /\ running \in BOOLEAN /\ err \in BOOLEAN
    /\ count \in [Kinds -> Min .. Max] /\ heap \in [Block -> 0 .. Max]
    /\ ring \in [Kinds -> [count : Min .. Max, block : 0 .. Blocks]]
    /\ temp \in [Kinds -> [count : 0 .. Max, block : 0 .. Blocks]]
    /\ call.at \in {"none", "openTx", "openRx", "setTx", "setRx", "copy"}

\* Between two calls the memory in use is that of the rings of an open interface,
\* as large as the rings are thought to be; and a call that failed has changed
\* nothing.  This is what e1000_set_ringparam takes its detour for.
RingsAreWhole ==
    call.at = "none" =>
        /\ \A r \in Kinds : ring[r].count = count[r]
        /\ \A r \in Kinds : IF running THEN /\ ring[r].block # NoBlock
                                            /\ heap[ring[r].block] = count[r]
                                       ELSE ring[r].block = NoBlock
        /\ {b \in Block : ~Free(b)} = {ring[r].block : r \in Kinds} \ {NoBlock}
        /\ running => ring["tx"].block # ring["rx"].block
        /\ err => <<ring, count>> = old
=============================================================================

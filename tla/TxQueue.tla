------------------------------ MODULE TxQueue ------------------------------
(***************************************************************************)
(* What the transmit half of the driver promises to the network stack: a   *)
(* first-in first-out queue.  A packet that the driver accepts is sent     *)
(* once, after every packet accepted before it, or not at all when the     *)
(* adapter is reset; it is freed once, never before it is sent or lost.    *)
(***************************************************************************)
EXTENDS Sequences, FiniteSets

CONSTANT Packet

VARIABLES
  held,     \* the packets accepted and not yet sent
  wire,     \* the packets sent
  freed     \* the packets the driver has let go of

vars == <<held, wire, freed>>

Init == held = <<>> /\ wire = <<>> /\ freed = {}

InFlight == {held[k] : k \in DOMAIN held} \cup {wire[k] : k \in DOMAIN wire}

Accept(p) ==
  /\ p \notin InFlight \cup freed
  /\ held' = Append(held, p)
  /\ UNCHANGED <<wire, freed>>

Drop(p) ==
  /\ p \notin InFlight \cup freed
  /\ freed' = freed \cup {p}
  /\ UNCHANGED <<held, wire>>

Send ==
  /\ held # <<>>
  /\ wire' = Append(wire, Head(held)) /\ held' = Tail(held)
  /\ UNCHANGED freed

(* The packets reclaimed by one pass are the oldest of those sent. *)
Complete ==
  \E P \in SUBSET {wire[k] : k \in DOMAIN wire} :
    /\ P # {} /\ P \cap freed = {}
    /\ freed' = freed \cup P
    /\ UNCHANGED <<held, wire>>

(* A reset loses what is held and frees everything. *)
Lose ==
  /\ held' = <<>>
  /\ freed' = freed \cup InFlight
  /\ UNCHANGED wire

Next ==
  \/ Send \/ Complete \/ Lose
  \/ \E p \in Packet : Accept(p) \/ Drop(p)

Spec == Init /\ [][Next]_vars
=============================================================================

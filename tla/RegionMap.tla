----------------------------- MODULE RegionMap -----------------------------
(***************************************************************************)
(* What the three operations on a region tree promise their caller, with   *)
(* the tree abstracted away: a map is a set of regions with distinct start *)
(* addresses.                                                              *)
(*                                                                         *)
(*  - insert_region adds the region and returns 1, or returns 0 and leaves *)
(*    the map alone because a region with that start is present;           *)
(*  - lookup_region returns a region that covers the address; it returns   *)
(*    NULL only if no region covers it, or if the map is ambiguous, where  *)
(*    the answer depends on the tree's shape;                              *)
(*  - delete_region removes a region that covers the address and returns   *)
(*    1, or returns 0 under the conditions of a NULL lookup.               *)
(***************************************************************************)
EXTENDS Regions

CONSTANT Candidate   \* the regions a caller inserts

VARIABLES
  map,     \* the regions held
  reply    \* the last completed call: its name, argument and result

vars == <<map, reply>>

NoReply == [op |-> "none"]

Init == map = {} /\ reply = NoReply

Insert(r) ==
  \/ /\ \A s \in map : s.addr # r.addr
     /\ map' = map \cup {r}
     /\ reply' = [op |-> "insert", arg |-> r, res |-> 1]
  \/ /\ \E s \in map : s.addr = r.addr
     /\ map' = map
     /\ reply' = [op |-> "insert", arg |-> r, res |-> 0]

Lookup(a, r) ==
  /\ MayFind(map, a, r)
  /\ map' = map
  /\ reply' = [op |-> "lookup", arg |-> a, res |-> r]

Delete(a, r) ==
  /\ MayFind(map, a, r)
  /\ map' = map \ {r}
  /\ reply' = [op |-> "delete", arg |-> a, res |-> IF r = NoRegion THEN 0 ELSE 1]

Next ==
  \/ \E r \in Candidate : Insert(r)
  \/ \E a \in Address, r \in map \cup {NoRegion} : Lookup(a, r) \/ Delete(a, r)

Spec == Init /\ [][Next]_vars
=============================================================================

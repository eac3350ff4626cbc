----------------------------- MODULE RegionTree -----------------------------
(***************************************************************************)
(* The region tree of carat-cop.c: insert_region, lookup_region and        *)
(* delete_region on one tree, one iteration of a while loop at a time.     *)
(*                                                                         *)
(* A node is the memory of a memory_region_t: the caller of insert_region  *)
(* (list_to_tree) allocates it and fills in addr, len and protect.  A node *)
(* that insert_region rejects, or that delete_region unlinks, stays        *)
(* allocated: nothing in the code frees it.                                *)
(***************************************************************************)
EXTENDS Regions, RbTree

CONSTANT Candidate   \* the regions the caller inserts

ASSUME CandidateAssumption == Candidate \subseteq Region

VARIABLES
  tree,     \* *root
  region,   \* the data of each node
  used,     \* the nodes that have been allocated
  pc,       \* the operation in progress
  new,      \* insert_region's new_region
  slot,     \* insert_region's n, and with it parent
  addr,     \* lookup_region's lookup_addr
  n,        \* lookup_region's n
  reply     \* the last completed call

vars == <<tree, region, used, pc, new, slot, addr, n, reply>>

Key == [x \in Node |-> region[x].addr]

(* The regions the tree holds. *)
Held == {region[x] : x \in Members(tree)}

NoReply == [op |-> "none"]

Init ==
  /\ tree = EmptyTree
  /\ region = [x \in Node |-> [addr |-> 0, len |-> 0, protect |-> {}]]
  /\ used = {}
  /\ pc = "idle"
  /\ new = Nil
  /\ slot = RootSlot
  /\ addr = 0
  /\ n = Nil
  /\ reply = NoReply

(* The frame of a finished call is gone. *)
Return(r) ==
  /\ pc' = "idle"
  /\ new' = Nil
  /\ slot' = RootSlot
  /\ addr' = 0
  /\ n' = Nil
  /\ reply' = r
-----------------------------------------------------------------------------
(***************************************************************************)
(* insert_region                                                           *)
(***************************************************************************)
InsertCall(x, r) ==
  /\ pc = "idle"
  /\ x \notin used
  /\ used' = used \cup {x}
  /\ region' = [region EXCEPT ![x] = r]
  /\ pc' = "insert"
  /\ new' = x
  /\ slot' = RootSlot
  /\ UNCHANGED <<tree, addr, n, reply>>

(* The node *n the loop of insert_region looks at. *)
Current == At(tree, slot)

InsertReturn(res) ==
  Return([op |-> "insert", arg |-> region[new], res |-> res])

(* Mistake: parent is not updated. *)
InsertLeftOldParent ==
  /\ pc = "insert" /\ Current # Nil
  /\ Key[Current] > Key[new]
  /\ slot' = [parent |-> slot.parent, side |-> "left"]
  /\ UNCHANGED <<tree, region, used, pc, new, addr, n, reply>>

InsertLeft ==
  /\ pc = "insert" /\ Current # Nil
  /\ Key[Current] > Key[new]
  /\ slot' = [parent |-> Current, side |-> "left"]
  /\ UNCHANGED <<tree, region, used, pc, new, addr, n, reply>>

(* Mistakes: the wrong turn; an equal start address is not rejected. *)
InsertRightTurnsLeft ==
  /\ pc = "insert" /\ Current # Nil
  /\ Key[Current] < Key[new]
  /\ slot' = [parent |-> Current, side |-> "left"]
  /\ UNCHANGED <<tree, region, used, pc, new, addr, n, reply>>

InsertRightIfEqual ==
  /\ pc = "insert" /\ Current # Nil
  /\ Key[Current] <= Key[new]
  /\ slot' = [parent |-> Current, side |-> "right"]
  /\ UNCHANGED <<tree, region, used, pc, new, addr, n, reply>>

InsertRight ==
  /\ pc = "insert" /\ Current # Nil
  /\ Key[Current] < Key[new]
  /\ slot' = [parent |-> Current, side |-> "right"]
  /\ UNCHANGED <<tree, region, used, pc, new, addr, n, reply>>

InsertDuplicate ==
  /\ pc = "insert" /\ Current # Nil
  /\ Key[Current] = Key[new]
  /\ InsertReturn(0)
  /\ UNCHANGED <<tree, region, used>>

InsertLink ==
  /\ pc = "insert" /\ Current = Nil
  /\ tree' \in RbInsertColor(RbLinkNode(tree, new, slot))
  /\ InsertReturn(1)
  /\ UNCHANGED <<region, used>>
-----------------------------------------------------------------------------
(***************************************************************************)
(* lookup_region, called by a guard or by delete_region.                   *)
(***************************************************************************)
SearchCall(op, a) ==
  /\ pc = "idle"
  /\ pc' = op
  /\ addr' = a
  /\ n' = tree.root
  /\ UNCHANGED <<tree, region, used, new, slot, reply>>

Searching == pc \in {"lookup", "delete"}

(* Mistake: the wrong turn. *)
SearchLeftTurnsRight ==
  /\ Searching /\ n # Nil
  /\ Precedes(addr, region[n])
  /\ n' = tree.right[n]
  /\ UNCHANGED <<tree, region, used, pc, new, slot, addr, reply>>

SearchLeft ==
  /\ Searching /\ n # Nil
  /\ Precedes(addr, region[n])
  /\ n' = tree.left[n]
  /\ UNCHANGED <<tree, region, used, pc, new, slot, addr, reply>>

(* Mistakes: the search begins again, or stays where it is. *)
SearchRightRestarts ==
  /\ Searching /\ n # Nil
  /\ Follows(addr, region[n])
  /\ n' = tree.root
  /\ UNCHANGED <<tree, region, used, pc, new, slot, addr, reply>>

SearchRightStays ==
  /\ Searching /\ n # Nil
  /\ Follows(addr, region[n])
  /\ UNCHANGED vars

SearchRight ==
  /\ Searching /\ n # Nil
  /\ Follows(addr, region[n])
  /\ n' = tree.right[n]
  /\ UNCHANGED <<tree, region, used, pc, new, slot, addr, reply>>

(* Mistake: the end of the region is not tested. *)
FoundIfStarted == n # Nil /\ ~ Precedes(addr, region[n])

Found == n # Nil /\ Covers(region[n], addr)

LookupFound ==
  /\ pc = "lookup" /\ Found
  /\ Return([op |-> "lookup", arg |-> addr, res |-> region[n]])
  /\ UNCHANGED <<tree, region, used>>

LookupMissing ==
  /\ pc = "lookup" /\ n = Nil
  /\ Return([op |-> "lookup", arg |-> addr, res |-> NoRegion])
  /\ UNCHANGED <<tree, region, used>>

(***************************************************************************)
(* delete_region: rb_erase unlinks the region the search found.            *)
(***************************************************************************)
DeleteFound ==
  /\ pc = "delete" /\ Found
  /\ tree' \in RbErase(tree, n)
  /\ Return([op |-> "delete", arg |-> addr, res |-> 1])
  /\ UNCHANGED <<region, used>>

DeleteMissing ==
  /\ pc = "delete" /\ n = Nil
  /\ Return([op |-> "delete", arg |-> addr, res |-> 0])
  /\ UNCHANGED <<tree, region, used>>
-----------------------------------------------------------------------------
Call ==
  \/ \E x \in Node, r \in Candidate : InsertCall(x, r)
  \/ \E op \in {"lookup", "delete"}, a \in Address : SearchCall(op, a)

Step ==
  \/ InsertLeft \/ InsertRight \/ InsertDuplicate \/ InsertLink
  \/ SearchLeft \/ SearchRight
  \/ LookupFound \/ LookupMissing
  \/ DeleteFound \/ DeleteMissing

Next == Call \/ Step

Spec == Init /\ [][Next]_vars

(* A call that has begun runs: its caller makes it take its next step. *)
FairSpec == Spec /\ WF_vars(Step)
-----------------------------------------------------------------------------
TypeOK ==
  /\ tree \in Tree
  /\ region \in [Node -> Region]
  /\ used \in SUBSET Node
  /\ pc \in {"idle", "insert", "lookup", "delete"}
  /\ new \in Pointer
  /\ slot \in Slot
  /\ addr \in Address
  /\ n \in Pointer

(***************************************************************************)
(* Whatever the order of insertions, and wherever the rotations move the   *)
(* nodes, the links form a search tree on distinct start addresses: the    *)
(* slot the loop of insert_region stops at is the right one.               *)
(***************************************************************************)
TreeIsOrdered ==
  /\ SearchTree(tree, Key)
  /\ \A x, y \in Members(tree) : Key[x] = Key[y] => x = y
  /\ Members(tree) \subseteq used

(***************************************************************************)
(* While insert_region descends, the new start address lies on the side of *)
(* every ancestor of the current slot on which the slot lies, and no node  *)
(* outside the current subtree has the same start address.                 *)
(***************************************************************************)
InsertPosition ==
  pc = "insert" =>
    /\ new \in used \ Members(tree) /\ region[new] \in Candidate
    /\ slot = RootSlot \/ slot.parent \in Members(tree)
    /\ Fits(tree, Key, Key[new], slot)
    /\ \A x \in Members(tree) \ Below(tree, Current) : Key[x] # Key[new]

(***************************************************************************)
(* While lookup_region descends an unambiguous tree, every region that     *)
(* covers the address is still below the current node: no turn loses it.   *)
(***************************************************************************)
SearchKeepsCover ==
  Searching =>
    /\ n \in Members(tree) \cup {Nil}
    /\ Unambiguous(Held) =>
         \A x \in Members(tree) :
           Covers(region[x], addr) => x \in Below(tree, n)

(***************************************************************************)
(* Each iteration of a loop looks at a strictly smaller subtree, so a      *)
(* lookup or an insertion visits a node at most once and ends.             *)
(***************************************************************************)
LoopsDescend ==
  [][/\ Searching /\ pc' = pc
          => Below(tree, n') \subseteq Below(tree, n) \ {n}
     /\ pc = "insert" /\ pc' = pc
          => Below(tree, Current') \subseteq Below(tree, Current) \ {Current}]_vars

(* Every call that begins returns. *)
Calling == pc # "idle"
CallsReturn == Calling ~> ~Calling

(***************************************************************************)
(* The three functions together are the operations of a set of regions: a  *)
(* search misses an address the tree covers only if the regions overlap in *)
(* the sense of Unambiguous, and nothing else depends on the tree's shape. *)
(***************************************************************************)
Map == INSTANCE RegionMap WITH map <- Held

MapSpec == Map!Spec
=============================================================================

------------------------------- MODULE RbTree -------------------------------
(***************************************************************************)
(* The part of <linux/rbtree.h> that carat-cop.c relies on: the links of a *)
(* binary tree, linking a leaf, erasing a node, and rebalancing.           *)
(*                                                                         *)
(* Colours are left out.  Rebalancing after an insertion or an erasure is  *)
(* a small number of rotations; which ones the colours call for is left    *)
(* open, so every tree the library could produce is among the results.     *)
(*                                                                         *)
(* `below' is an auxiliary field, not in the code: below[x] is the set of  *)
(* nodes of the subtree rooted at x.  No operation tests it.               *)
(***************************************************************************)
EXTENDS Integers

CONSTANTS Node,   \* the memory of the nodes
          Nil     \* the NULL pointer

ASSUME NilAssumption == Nil \notin Node

Pointer == Node \cup {Nil}

Tree == [root  : Pointer,
         left  : [Node -> Pointer],
         right : [Node -> Pointer],
         below : [Node -> SUBSET Node]]

(* RB_ROOT *)
EmptyTree == [root  |-> Nil,
              left  |-> [x \in Node |-> Nil],
              right |-> [x \in Node |-> Nil],
              below |-> [x \in Node |-> {}]]

Below(t, p) == IF p = Nil THEN {} ELSE t.below[p]

Members(t) == Below(t, t.root)

(***************************************************************************)
(* A slot is what a `struct rb_node **' points at: the root of the tree or *)
(* the left or right link of a node.                                       *)
(***************************************************************************)
RootSlot == [parent |-> Nil, side |-> "root"]

Slot == {RootSlot} \cup [parent : Node, side : {"left", "right"}]

At(t, s) == IF s.side = "root" THEN t.root
            ELSE IF s.side = "left" THEN t.left[s.parent]
                                    ELSE t.right[s.parent]

(***************************************************************************)
(* rb_link_node: the new leaf x has no children and is stored in slot s.   *)
(***************************************************************************)
RbLinkNode(t, x, s) ==
  LET Link(f, side) ==
        [k \in Node |-> IF k = x THEN Nil
                        ELSE IF s.side = side /\ k = s.parent THEN x ELSE f[k]]
  IN  [root  |-> IF s.side = "root" THEN x ELSE t.root,
       left  |-> Link(t.left, "left"),
       right |-> Link(t.right, "right"),
       below |-> [k \in Node |->
                    IF k = x THEN {x}
                    ELSE IF s.side # "root" /\ s.parent \in t.below[k]
                    THEN t.below[k] \cup {x}
                    ELSE t.below[k]]]

(* Slot s lies in the left (right) subtree of node k. *)
OnLeft(t, s, k) == IF s.parent = k THEN s.side = "left"
                                   ELSE s.parent \in Below(t, t.left[k])

OnRight(t, s, k) == IF s.parent = k THEN s.side = "right"
                                    ELSE s.parent \in Below(t, t.right[k])

(* The key v belongs into the subtree that hangs, or would hang, at slot s. *)
Fits(t, key, v, s) ==
  \A k \in Members(t) :
    s # RootSlot /\ s.parent \in t.below[k] =>
      (OnLeft(t, s, k) /\ v < key[k]) \/ (OnRight(t, s, k) /\ key[k] < v)

(* Every link to x becomes a link to y. *)
Redirect(f, x, y) == [k \in Node |-> IF f[k] = x THEN y ELSE f[k]]

(***************************************************************************)
(* The rotations about x: its right (left) child y takes its place and x   *)
(* becomes the left (right) child of y.                                    *)
(***************************************************************************)
RotateLeft(t, x) ==
  LET y == t.right[x] IN
  [root  |-> IF t.root = x THEN y ELSE t.root,
   left  |-> [Redirect(t.left, x, y) EXCEPT ![y] = x],
   right |-> [Redirect(t.right, x, y) EXCEPT ![x] = t.left[y]],
   below |-> [t.below EXCEPT
                ![y] = t.below[x],
                ![x] = {x} \cup Below(t, t.left[x]) \cup Below(t, t.left[y])]]

Mirror(t) ==
  [root |-> t.root, left |-> t.right, right |-> t.left, below |-> t.below]

RotateRight(t, x) == Mirror(RotateLeft(Mirror(t), x))

Rotated(t) ==
  {RotateLeft(t, x) : x \in {k \in Members(t) : t.right[k] # Nil}}
  \cup {RotateRight(t, x) : x \in {k \in Members(t) : t.left[k] # Nil}}

AtMostTwoRotations(t) ==
  {t} \cup Rotated(t) \cup UNION {Rotated(u) : u \in Rotated(t)}

(***************************************************************************)
(* rb_insert_color: recolouring and at most two rotations.                 *)
(***************************************************************************)
RbInsertColor(t) == AtMostTwoRotations(t)

(***************************************************************************)
(* rb_erase: x is brought to a place where it has at most one child, which *)
(* then takes its place; here by rotations, whose freedom also covers the  *)
(* rebalancing.                                                            *)
(***************************************************************************)
Splice(t, x) ==
  LET c == IF t.left[x] = Nil THEN t.right[x] ELSE t.left[x] IN
  [root  |-> IF t.root = x THEN c ELSE t.root,
   left  |-> [Redirect(t.left, x, c) EXCEPT ![x] = Nil],
   right |-> [Redirect(t.right, x, c) EXCEPT ![x] = Nil],
   below |-> [k \in Node |-> IF k = x THEN {} ELSE t.below[k] \ {x}]]

RbErase(t, x) ==
  {Splice(u, x) : u \in {v \in AtMostTwoRotations(t) :
                            v.left[x] = Nil \/ v.right[x] = Nil}}

(***************************************************************************)
(* t is a search tree: `below' describes its links, no two links lead to   *)
(* the same node, and the keys of a left (right) subtree are smaller       *)
(* (larger) than the key of its parent.                                    *)
(***************************************************************************)
IsChild(t, p, x) == p = t.left[x] \/ p = t.right[x]

(* Subtrees are nested, and a subtree without its root is entered at its root. *)
Nested(t) ==
  \A x \in Members(t) : \A y \in t.below[x] :
    /\ t.below[y] \subseteq t.below[x]
    /\ y # x => \A p \in Members(t) : IsChild(t, y, p) => p \in t.below[x]

Linked(t) ==
  /\ t.root \in Members(t) \cup {Nil}
  /\ \A x \in Members(t) :
       /\ t.left[x] \in Members(t) \cup {Nil}
       /\ t.right[x] \in Members(t) \cup {Nil}
       /\ t.below[x] = {x} \cup Below(t, t.left[x]) \cup Below(t, t.right[x])
       /\ t.below[x] \subseteq Members(t)
  /\ \A p, x, y \in Members(t) : IsChild(t, p, x) /\ IsChild(t, p, y) => x = y
  /\ Nested(t)
  /\ \A x \in Node \ Members(t) :
       t.left[x] = Nil /\ t.right[x] = Nil /\ t.below[x] = {}

Ordered(t, key) ==
  \A x \in Members(t) :
    /\ \A y \in Below(t, t.left[x]) : key[y] < key[x]
    /\ \A y \in Below(t, t.right[x]) : key[x] < key[y]

SearchTree(t, key) == Linked(t) /\ Ordered(t, key)
=============================================================================

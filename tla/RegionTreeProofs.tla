-------------------------- MODULE RegionTreeProofs --------------------------
(***************************************************************************)
(* The operations on a region tree, for every number of addresses, every   *)
(* set of nodes and every set of regions: type correctness, the order of   *)
(* the tree, the loop invariants, and the refinement of RegionMap.         *)
(***************************************************************************)
EXTENDS RegionTree, TLAPS

-----------------------------------------------------------------------------
(***************************************************************************)
(* What linking a leaf, rotating and splicing do to a search tree, for     *)
(* every set of nodes and every tree.                                      *)
(***************************************************************************)

(***************************************************************************)
(* The facts about one node of a search tree that the proofs below use.    *)
(***************************************************************************)
LEMMA Local ==
  ASSUME NEW t \in Tree, NEW key \in [Node -> Int], SearchTree(t, key),
         NEW x \in Members(t)
  PROVE  /\ x \in Node
         /\ x \in t.below[x]
         /\ t.left[x] # Nil => t.left[x] \in Below(t, t.left[x])
         /\ t.right[x] # Nil => t.right[x] \in Below(t, t.right[x])
         /\ t.left[x] # x /\ t.right[x] # x
         /\ x \notin Below(t, t.left[x]) /\ x \notin Below(t, t.right[x])
         /\ Below(t, t.left[x]) \cap Below(t, t.right[x]) = {}
         /\ t.left[x] = t.right[x] => t.left[x] = Nil
<1>1. Members(t) \subseteq Node
  BY NilAssumption DEF Members, Below, Tree, Pointer
<1>2. \A k \in Members(t) : k \in t.below[k]
  BY DEF SearchTree, Linked
<1>3. /\ t.left[x] # Nil => t.left[x] \in Below(t, t.left[x])
      /\ t.right[x] # Nil => t.right[x] \in Below(t, t.right[x])
  <2>1. t.left[x] \in Members(t) \cup {Nil} /\ t.right[x] \in Members(t) \cup {Nil}
    BY DEF SearchTree, Linked
  <2>. QED BY <1>2, <2>1 DEF Below
<1>4. /\ Below(t, t.left[x]) \subseteq Members(t)
      /\ Below(t, t.right[x]) \subseteq Members(t)
  BY DEF SearchTree, Linked
<1>5. x \notin Below(t, t.left[x]) /\ x \notin Below(t, t.right[x])
  BY <1>1 DEF SearchTree, Ordered
<1>6. Below(t, t.left[x]) \cap Below(t, t.right[x]) = {}
  <2>1. SUFFICES ASSUME NEW y \in Below(t, t.left[x]), y \in Below(t, t.right[x])
                 PROVE  FALSE
    OBVIOUS
  <2>2. key[y] \in Int /\ key[x] \in Int
    BY <1>1, <1>4
  <2>3. key[y] < key[x] /\ key[x] < key[y]
    BY <2>1 DEF SearchTree, Ordered
  <2>. QED BY <2>2, <2>3
<1>. QED BY <1>1, <1>2, <1>3, <1>5, <1>6, NilAssumption DEF Members

(***************************************************************************)
(* The same facts in the form the rotation proof uses, for all nodes.      *)
(***************************************************************************)
LEMMA LocalAll ==
  ASSUME NEW t \in Tree, NEW key \in [Node -> Int], SearchTree(t, key)
  PROVE  /\ Members(t) \subseteq Node
         /\ Nil \notin Members(t)
         /\ \A k \in Members(t) :
              /\ k \in t.below[k]
              /\ t.left[k] \in Members(t) \cup {Nil}
              /\ t.right[k] \in Members(t) \cup {Nil}
              /\ t.below[k] = {k} \cup Below(t, t.left[k]) \cup Below(t, t.right[k])
              /\ t.below[k] \subseteq Members(t)
              /\ k \notin Below(t, t.left[k]) /\ k \notin Below(t, t.right[k])
              /\ t.left[k] # k /\ t.right[k] # k
              /\ t.left[k] = t.right[k] => t.left[k] = Nil
  BY Local, NilAssumption DEF SearchTree, Linked, Members, Below, Tree, Pointer

(***************************************************************************)
(* No node is below one of its own descendants.                            *)
(***************************************************************************)
LEMMA NoCycle ==
  ASSUME NEW t \in Tree, NEW key \in [Node -> Int], SearchTree(t, key),
         NEW x \in Members(t), NEW y \in t.below[x], y # x
  PROVE  x \notin t.below[y]
<1>1. /\ \A k \in Members(t) : \A m \in t.below[k] : t.below[m] \subseteq t.below[k]
      /\ t.below[x] = {x} \cup Below(t, t.left[x]) \cup Below(t, t.right[x])
      /\ t.left[x] \in Members(t) \cup {Nil} /\ t.right[x] \in Members(t) \cup {Nil}
  BY DEF SearchTree, Linked, Nested
<1>2. x \notin Below(t, t.left[x]) /\ x \notin Below(t, t.right[x])
  BY Local
<1>3. CASE y \in Below(t, t.left[x])
  BY <1>1, <1>2, <1>3 DEF Below
<1>4. CASE y \in Below(t, t.right[x])
  BY <1>1, <1>2, <1>4 DEF Below
<1>. QED BY <1>1, <1>3, <1>4

(***************************************************************************)
(* A rotation rearranges a search tree and keeps it one.                   *)
(***************************************************************************)
LEMMA RotateLeftKeeps ==
  ASSUME NEW t \in Tree, NEW key \in [Node -> Int], SearchTree(t, key),
         NEW x \in Members(t), t.right[x] # Nil
  PROVE  /\ RotateLeft(t, x) \in Tree
         /\ Members(RotateLeft(t, x)) = Members(t)
         /\ SearchTree(RotateLeft(t, x), key)
<1> DEFINE u == RotateLeft(t, x)
           y == t.right[x]
           c == t.left[y]
           M == Members(t)
           bx == {x} \cup Below(t, t.left[x]) \cup Below(t, c)
<1>1. /\ M \subseteq Node /\ Nil \notin M
      /\ x \in Node /\ y \in Node /\ y \in M /\ x # y
      /\ x # Nil /\ y # Nil
  BY LocalAll
<1>2. /\ t.left \in [Node -> Pointer] /\ t.right \in [Node -> Pointer]
      /\ t.below \in [Node -> SUBSET Node] /\ t.root \in Pointer
  BY DEF Tree
<1> HIDE DEF u
<1>3. /\ u.root = (IF t.root = x THEN y ELSE t.root)
      /\ u.left = [k \in Node |-> IF k = y THEN x
                                  ELSE IF t.left[k] = x THEN y ELSE t.left[k]]
      /\ u.right = [k \in Node |-> IF k = x THEN c
                                   ELSE IF t.right[k] = x THEN y ELSE t.right[k]]
      /\ u.below = [k \in Node |-> IF k = x THEN bx
                                   ELSE IF k = y THEN t.below[x] ELSE t.below[k]]
      /\ u = [root |-> u.root, left |-> u.left, right |-> u.right, below |-> u.below]
  BY <1>1, <1>2 DEF u, RotateLeft, Redirect
<1> HIDE DEF y, c
<1>4. /\ y = t.right[x] /\ c = t.left[y]
      /\ t.left[x] \in M \cup {Nil} /\ c \in M \cup {Nil} /\ t.right[y] \in M \cup {Nil}
      /\ t.left[x] # x /\ c # y /\ t.right[y] # y
      /\ t.left[x] # y
  BY <1>1, LocalAll DEF y, c
<1>5. /\ t.below[x] = {x} \cup Below(t, t.left[x]) \cup t.below[y]
      /\ t.below[y] = {y} \cup Below(t, c) \cup Below(t, t.right[y])
      /\ t.below[x] \subseteq M /\ t.below[y] \subseteq M
      /\ x \notin t.below[y] /\ x \in t.below[x]
  BY <1>1, <1>4, LocalAll DEF Below
<1>6. c # x /\ t.right[y] # x
  BY <1>1, <1>4, <1>5, LocalAll DEF Below
<1>7. t.root # y /\ t.root \in M
  BY <1>1, <1>5 DEF Members, Below, SearchTree, Linked
<1>8. \A k \in M : k # x => t.left[k] # y /\ t.right[k] # y
  BY <1>1, <1>4 DEF SearchTree, Linked, IsChild
<1>9. \A p \in M \cup {Nil} : Below(u, p) = IF p = x THEN bx
                                           ELSE IF p = y THEN t.below[x] ELSE Below(t, p)
  BY <1>1, <1>3 DEF Below
<1>10. bx \subseteq M
  BY <1>4, <1>5, LocalAll DEF Below
<1>11. u \in Tree
  <2>1. u.root \in Pointer
    BY <1>1, <1>2, <1>3 DEF Pointer
  <2>2. c \in Pointer
    BY <1>1, <1>4 DEF Pointer
  <2>3. u.left \in [Node -> Pointer] /\ u.right \in [Node -> Pointer]
    BY <1>1, <1>2, <1>3, <2>2 DEF Pointer
  <2>4. u.below \in [Node -> SUBSET Node]
    BY <1>1, <1>2, <1>3, <1>10
  <2>. QED BY <2>1, <2>3, <2>4, <1>3 DEF Tree
<1>12. Members(u) = M
  <2>1. t.root = x => M = t.below[x]
    BY <1>1 DEF Members, Below
  <2>2. Members(u) = Below(u, IF t.root = x THEN y ELSE t.root)
    BY <1>3 DEF Members
  <2>3. t.root # x => Below(t, t.root) = M
    BY DEF Members
  <2>. QED BY <1>1, <1>7, <1>9, <2>1, <2>2, <2>3
<1>13. \A k \in M : k # x /\ k # y =>
         /\ Below(u, u.left[k]) = Below(t, t.left[k])
         /\ Below(u, u.right[k]) = Below(t, t.right[k])
         /\ u.below[k] = t.below[k]
  <2> SUFFICES ASSUME NEW k \in M, k # x, k # y
               PROVE  /\ Below(u, u.left[k]) = Below(t, t.left[k])
                      /\ Below(u, u.right[k]) = Below(t, t.right[k])
                      /\ u.below[k] = t.below[k]
    OBVIOUS
  <2>1. t.left[k] \in M \cup {Nil} /\ t.right[k] \in M \cup {Nil}
    BY LocalAll
  <2>2. u.left[k] = (IF t.left[k] = x THEN y ELSE t.left[k])
    BY <1>1, <1>3
  <2>3. u.right[k] = (IF t.right[k] = x THEN y ELSE t.right[k])
    BY <1>1, <1>3
  <2>4. Below(u, u.left[k]) = Below(t, t.left[k])
    BY <1>1, <1>8, <1>9, <2>1, <2>2 DEF Below
  <2>5. Below(u, u.right[k]) = Below(t, t.right[k])
    BY <1>1, <1>8, <1>9, <2>1, <2>3 DEF Below
  <2>. QED BY <2>4, <2>5, <1>1, <1>3
<1>14. /\ u.left[x] = t.left[x] /\ u.right[x] = c /\ u.below[x] = bx
       /\ u.left[y] = x /\ u.right[y] = t.right[y] /\ u.below[y] = t.below[x]
  BY <1>1, <1>3, <1>4, <1>6
<1>15. /\ Below(u, u.left[x]) = Below(t, t.left[x])
       /\ Below(u, u.right[x]) = Below(t, c)
       /\ Below(u, u.left[y]) = bx
       /\ Below(u, u.right[y]) = Below(t, t.right[y])
  BY <1>1, <1>4, <1>6, <1>9, <1>14
<1>16. Linked(u)
  <2>1. u.root \in M \cup {Nil}
    BY <1>1, <1>3, <1>7
  <2>2. \A k \in M : u.left[k] \in M \cup {Nil} /\ u.right[k] \in M \cup {Nil}
    <3>1. \A k \in M : t.left[k] \in M \cup {Nil} /\ t.right[k] \in M \cup {Nil}
      BY LocalAll
    <3>2. \A k \in M : k \in Node
      BY <1>1
    <3>3. ASSUME NEW k \in M PROVE u.left[k] \in M \cup {Nil}
      <4>1. u.left[k] \in {x, y, t.left[k]}
        BY <1>3, <3>2
      <4>. QED BY <1>1, <3>1, <4>1
    <3>4. ASSUME NEW k \in M PROVE u.right[k] \in M \cup {Nil}
      <4>1. u.right[k] \in {c, y, t.right[k]}
        BY <1>3, <3>2
      <4>. QED BY <1>1, <1>4, <3>1, <4>1
    <3>. QED BY <3>3, <3>4
  <2>3. \A k \in M : /\ u.below[k] \subseteq M
                     /\ u.below[k] = {k} \cup Below(u, u.left[k]) \cup Below(u, u.right[k])
    <3> SUFFICES ASSUME NEW k \in M
                 PROVE  /\ u.below[k] \subseteq M
                        /\ u.below[k] = {k} \cup Below(u, u.left[k]) \cup Below(u, u.right[k])
      OBVIOUS
    <3>1. CASE k = x
      BY <3>1, <1>10, <1>14, <1>15
    <3>2. CASE k = y
      BY <3>2, <1>5, <1>14, <1>15
    <3>3. CASE k # x /\ k # y
      BY <3>3, <1>13, LocalAll
    <3>. QED BY <3>1, <3>2, <3>3
  <2>4. \A p, j, k \in M : IsChild(u, p, j) /\ IsChild(u, p, k) => j = k
    <3>1. \A p, j, k \in M : IsChild(t, p, j) /\ IsChild(t, p, k) => j = k
      BY DEF SearchTree, Linked
    <3>2. \A p, k \in M : k # x /\ k # y /\ IsChild(u, p, k) =>
            \/ p # x /\ p # y /\ IsChild(t, p, k)
            \/ p = y /\ IsChild(t, x, k)
      BY <1>1, <1>3, <1>8 DEF IsChild
    <3>3. \A p \in M : IsChild(u, p, x) =>
            \/ p = t.left[x] /\ IsChild(t, p, x) /\ p # x /\ p # y
            \/ p = c /\ IsChild(t, p, y) /\ p # x /\ p # y
      BY <1>1, <1>4, <1>6, <1>14 DEF IsChild
    <3>4. \A p \in M : IsChild(u, p, y) =>
            p = x \/ (p = t.right[y] /\ IsChild(t, p, y) /\ p # x /\ p # y)
      BY <1>1, <1>4, <1>6, <1>14 DEF IsChild
    <3>5. ~ (c \in M /\ c = t.right[y])
      BY <1>1, <1>4, LocalAll
    <3> SUFFICES ASSUME NEW p \in M, NEW j \in M, NEW k \in M,
                        IsChild(u, p, j), IsChild(u, p, k), j # k
                 PROVE  FALSE
      OBVIOUS
    <3>. QED BY <1>1, <3>1, <3>2, <3>3, <3>4, <3>5
  <2>5. \A k \in Node \ M : u.left[k] = Nil /\ u.right[k] = Nil /\ u.below[k] = {}
    BY <1>1, <1>3 DEF SearchTree, Linked
  <2>6. \A k \in M : \A m \in t.below[k] :
          /\ t.below[m] \subseteq t.below[k]
          /\ m # k => \A p \in M : IsChild(t, m, p) => p \in t.below[k]
    BY DEF SearchTree, Linked, Nested
  <2>10. /\ x \notin Below(t, t.left[x]) /\ y \notin Below(t, t.left[x])
         /\ x \notin Below(t, c) /\ y \notin Below(t, c)
    <3>1. y \in Below(t, t.right[x])
      BY <1>1, <1>4, LocalAll DEF Below
    <3>2. x \notin Below(t, t.left[x]) /\ y \notin Below(t, t.left[x])
      BY <3>1, Local
    <3>3. x \notin Below(t, c) /\ y \notin Below(t, c)
      BY <1>1, <1>4, <1>5, LocalAll
    <3>. QED BY <3>2, <3>3
  <2>7. \A k \in M : \A m \in u.below[k] : u.below[m] \subseteq u.below[k]
    <3>1. /\ \A m \in Below(t, t.left[x]) : t.below[m] \subseteq Below(t, t.left[x])
          /\ \A m \in Below(t, c) : t.below[m] \subseteq Below(t, c)
      BY <1>4, <2>6 DEF Below
    <3>4. bx \subseteq t.below[x]
      BY <1>5
    <3> SUFFICES ASSUME NEW k \in M, NEW m \in u.below[k]
                 PROVE  u.below[m] \subseteq u.below[k]
      OBVIOUS
    <3>5. CASE k = x
      <4>1. m \in bx /\ u.below[k] = bx /\ m \in Node
        BY <1>1, <1>10, <1>14, <3>5
      <4>2. CASE m = x
        BY <3>5, <4>2
      <4>3. CASE m \in Below(t, t.left[x]) \/ m \in Below(t, c)
        <5>1. u.below[m] = t.below[m]
          BY <1>3, <2>10, <4>1, <4>3
        <5>. QED BY <3>1, <4>1, <4>3, <5>1
      <4>. QED BY <4>1, <4>2, <4>3
    <3>6. CASE k = y
      <4>1. m \in t.below[x] /\ m \in M
        BY <1>5, <1>14, <3>6
      <4>. QED BY <1>1, <1>3, <1>14, <2>6, <3>4, <3>6, <4>1
    <3>7. CASE k # x /\ k # y
      <4>1. u.below[k] = t.below[k] /\ m \in M /\ m \in t.below[k]
        BY <1>13, <3>7, LocalAll
      <4>2. m = y => x \in t.below[k]
        BY <1>1, <1>4, <2>6, <3>7, <4>1 DEF IsChild
      <4>. QED BY <1>1, <1>3, <1>14, <2>6, <3>4, <4>1, <4>2
    <3>. QED BY <3>5, <3>6, <3>7
  <2>8. \A k \in M : \A m \in u.below[k] : m # k =>
          \A p \in M : IsChild(u, m, p) => p \in u.below[k]
    <3> SUFFICES ASSUME NEW k \in M, NEW m \in u.below[k], m # k,
                        NEW p \in M, IsChild(u, m, p)
                 PROVE  p \in u.below[k]
      OBVIOUS
    <3>1. m \in M
      BY <2>3
    <3>2. \/ m # x /\ m # y /\ m # c /\ IsChild(t, m, p)
          \/ m = c /\ p = x
          \/ m = x /\ p = y
          \/ m = y /\ p # x /\ p # y /\ IsChild(t, x, p)
      <4>1. CASE p = x
        BY <1>1, <1>4, <1>6, <1>14, <3>1, <4>1, LocalAll DEF IsChild
      <4>2. CASE p = y
        BY <1>1, <1>4, <1>6, <1>14, <3>1, <4>2, LocalAll DEF IsChild
      <4>3. CASE p # x /\ p # y
        <5>1. \A j \in M : j # y => t.left[j] # c \/ c = Nil
          <6>1. \A i, j, h \in M : IsChild(t, i, j) /\ IsChild(t, i, h) => j = h
            BY DEF SearchTree, Linked
          <6>. QED BY <1>1, <1>4, <6>1 DEF IsChild
        <5>2. \A j \in M : j # y => t.right[j] # c \/ c = Nil
          <6>1. \A i, j, h \in M : IsChild(t, i, j) /\ IsChild(t, i, h) => j = h
            BY DEF SearchTree, Linked
          <6>. QED BY <1>1, <1>4, <6>1 DEF IsChild
        <5>. QED BY <1>1, <1>3, <1>8, <3>1, <4>3, <5>1, <5>2 DEF IsChild
      <4>. QED BY <4>1, <4>2, <4>3
    <3>3. CASE k # x /\ k # y
      <4>1. u.below[k] = t.below[k]
        BY <1>13, <3>3
      <4>2. x \in t.below[k] => y \in t.below[k]
        BY <1>5, <2>6, LocalAll
      <4>3. y \in t.below[k] => x \in t.below[k]
        BY <1>4, <2>6, <3>3 DEF IsChild
      <4>4. m = c => y \in t.below[k]
        BY <1>1, <1>4, <2>6, <3>1, <4>1 DEF IsChild
      <4>5. m = y => \A j \in M : IsChild(t, x, j) => j \in t.below[k]
        BY <2>6, <3>3, <4>1, <4>3
      <4>. QED BY <2>6, <3>1, <3>2, <4>1, <4>2, <4>3, <4>4, <4>5
    <3>4. CASE k = x
      <4>1. m \in Below(t, t.left[x]) \/ m \in Below(t, c)
        BY <1>14, <3>4
      <4>2. m # y
        BY <2>10, <4>1
      <4>3. m # x
        BY <3>4
      <4>4. CASE m = c
        BY <1>14, <3>2, <3>4, <4>2, <4>3, <4>4
      <4>5. CASE m # c /\ m \in Below(t, t.left[x])
        <5>1. m = t.left[x] => p = x
          <6>1. \A i, j, h \in M : IsChild(t, i, j) /\ IsChild(t, i, h) => j = h
            BY DEF SearchTree, Linked
          <6>. QED BY <3>1, <3>2, <4>2, <4>3, <4>5, <6>1 DEF IsChild
        <5>2. m # t.left[x] => p \in Below(t, t.left[x])
          BY <1>4, <2>6, <3>2, <4>2, <4>3, <4>5 DEF Below
        <5>. QED BY <1>14, <3>4, <5>1, <5>2
      <4>6. CASE m # c /\ m \in Below(t, c)
        <5>1. p \in Below(t, c)
          BY <1>4, <2>6, <3>2, <4>2, <4>3, <4>6 DEF Below
        <5>. QED BY <1>14, <3>4, <5>1
      <4>. QED BY <4>1, <4>4, <4>5, <4>6
    <3>5. CASE k = y
      <4>1. u.below[k] = t.below[x] /\ m \in t.below[x]
        BY <1>14, <3>5
      <4>2. m # x => \A j \in M : IsChild(t, m, j) => j \in t.below[x]
        BY <2>6, <4>1
      <4>. QED BY <1>5, <3>2, <3>5, <4>1, <4>2, LocalAll
    <3>. QED BY <3>3, <3>4, <3>5
  <2>9. Nested(u)
    BY <1>12, <2>7, <2>8 DEF Nested
  <2>. QED BY <1>12, <2>1, <2>2, <2>3, <2>4, <2>5, <2>9 DEF Linked
<1>17. Ordered(u, key)
  <2>1. \A k \in M : /\ \A z \in Below(t, t.left[k]) : key[z] < key[k]
                     /\ \A z \in Below(t, t.right[k]) : key[k] < key[z]
    BY DEF SearchTree, Ordered
  <2>2. \A k \in M : key[k] \in Int
    BY <1>1
  <2>3. t.right[x] = y /\ Below(t, y) = t.below[y]
    BY <1>1, <1>4 DEF Below
  <2>4. key[x] < key[y]
    BY <1>1, <1>5, <2>1, <2>3
  <2>5. \A z \in Below(t, c) : key[x] < key[z] /\ key[z] < key[y]
    BY <1>1, <1>4, <1>5, <2>1, <2>3
  <2>6. \A z \in bx : key[z] < key[y]
    BY <1>1, <1>4, <1>5, <2>1, <2>2, <2>4, <2>5
  <2> SUFFICES ASSUME NEW k \in M
               PROVE  /\ \A z \in Below(u, u.left[k]) : key[z] < key[k]
                      /\ \A z \in Below(u, u.right[k]) : key[k] < key[z]
    BY <1>12 DEF Ordered
  <2>7. CASE k = x
    BY <2>7, <1>15, <2>1, <2>5
  <2>8. CASE k = y
    BY <2>8, <1>1, <1>4, <1>15, <2>1, <2>6
  <2>9. CASE k # x /\ k # y
    BY <2>9, <1>13, <2>1
  <2>. QED BY <2>7, <2>8, <2>9
<1>. QED BY <1>11, <1>12, <1>16, <1>17 DEF SearchTree, u

(***************************************************************************)
(* Exchanging left and right turns a search tree into a search tree for    *)
(* the negated keys; it carries the left rotation over to the right one.   *)
(***************************************************************************)
LEMMA MirrorKeeps ==
  ASSUME NEW t \in Tree, NEW key \in [Node -> Int], SearchTree(t, key)
  PROVE  /\ Mirror(t) \in Tree
         /\ Members(Mirror(t)) = Members(t)
         /\ SearchTree(Mirror(t), [k \in Node |-> - key[k]])
<1> DEFINE u == Mirror(t)
           neg == [k \in Node |-> - key[k]]
<1>1. /\ u.root = t.root /\ u.left = t.right /\ u.right = t.left
      /\ u.below = t.below
  BY DEF Mirror
<1>2. u \in Tree
  BY DEF Mirror, Tree
<1>3. \A p : Below(u, p) = Below(t, p)
  BY <1>1 DEF Below
<1>4. Members(u) = Members(t)
  BY <1>1, <1>3 DEF Members
<1> HIDE DEF u
<1>5. Linked(u)
  BY <1>1, <1>3, <1>4 DEF SearchTree, Linked, Nested, IsChild
<1>6. Ordered(u, neg)
  <2>1. Members(t) \subseteq Node
    BY LocalAll
  <2>2. \A x \in Members(t) : /\ Below(t, t.left[x]) \subseteq Node
                              /\ Below(t, t.right[x]) \subseteq Node
    BY <2>1 DEF SearchTree, Linked
  <2>3. \A x, y \in Node : neg[x] < neg[y] <=> key[y] < key[x]
    OBVIOUS
  <2> HIDE DEF neg
  <2>. QED BY <1>1, <1>3, <1>4, <2>1, <2>2, <2>3 DEF SearchTree, Ordered
<1>. QED BY <1>2, <1>4, <1>5, <1>6 DEF SearchTree, u

LEMMA RotateRightKeeps ==
  ASSUME NEW t \in Tree, NEW key \in [Node -> Int], SearchTree(t, key),
         NEW x \in Members(t), t.left[x] # Nil
  PROVE  /\ RotateRight(t, x) \in Tree
         /\ Members(RotateRight(t, x)) = Members(t)
         /\ SearchTree(RotateRight(t, x), key)
<1> DEFINE m == Mirror(t)
           neg == [k \in Node |-> - key[k]]
           r == RotateLeft(m, x)
<1>1. /\ m \in Tree /\ Members(m) = Members(t) /\ SearchTree(m, neg)
      /\ neg \in [Node -> Int] /\ m.right[x] # Nil
  <2>1. m.right[x] # Nil
    BY DEF Mirror
  <2>2. neg \in [Node -> Int]
    OBVIOUS
  <2>. QED BY <2>1, <2>2, MirrorKeeps
<1>2. r \in Tree /\ Members(r) = Members(m) /\ SearchTree(r, neg)
  <2> HIDE DEF m, neg, r
  <2>. QED BY <1>1, RotateLeftKeeps DEF r
<1>3. key = [k \in Node |-> - neg[k]]
  OBVIOUS
<1> HIDE DEF r, neg, m
<1>4. /\ Mirror(r) \in Tree
      /\ Members(Mirror(r)) = Members(r)
      /\ SearchTree(Mirror(r), [k \in Node |-> - neg[k]])
  BY <1>1, <1>2, MirrorKeeps
<1>. QED BY <1>1, <1>2, <1>3, <1>4 DEF RotateRight, r, m

(***************************************************************************)
(* So rb_insert_color keeps the nodes and the order.                       *)
(***************************************************************************)
LEMMA RotationsKeep ==
  ASSUME NEW t \in Tree, NEW key \in [Node -> Int], SearchTree(t, key),
         NEW u \in AtMostTwoRotations(t)
  PROVE  u \in Tree /\ Members(u) = Members(t) /\ SearchTree(u, key)
<1>1. ASSUME NEW v \in Tree, SearchTree(v, key), NEW w \in Rotated(v)
      PROVE  w \in Tree /\ Members(w) = Members(v) /\ SearchTree(w, key)
  BY <1>1, RotateLeftKeeps, RotateRightKeeps DEF Rotated
<1>2. CASE u = t
  BY <1>2
<1>3. CASE u \in Rotated(t)
  BY <1>1, <1>3
<1>4. CASE \E v \in Rotated(t) : u \in Rotated(v)
  BY <1>1, <1>4
<1>. QED BY <1>2, <1>3, <1>4 DEF AtMostTwoRotations

(***************************************************************************)
(* Linking a leaf in an empty slot where its key fits.                     *)
(***************************************************************************)
LEMMA LinkKeeps ==
  ASSUME NEW t \in Tree, NEW key \in [Node -> Int], SearchTree(t, key),
         NEW x \in Node \ Members(t), NEW s \in Slot,
         s = RootSlot \/ s.parent \in Members(t),
         At(t, s) = Nil, Fits(t, key, key[x], s)
  PROVE  /\ RbLinkNode(t, x, s) \in Tree
         /\ Members(RbLinkNode(t, x, s)) = Members(t) \cup {x}
         /\ SearchTree(RbLinkNode(t, x, s), key)
<1> DEFINE u == RbLinkNode(t, x, s)
           M == Members(t)
           q == s.parent
<1>1. /\ M \subseteq Node /\ Nil \notin M /\ x \in Node /\ x \notin M /\ x # Nil
  BY LocalAll, NilAssumption
<1>2. /\ t.left \in [Node -> Pointer] /\ t.right \in [Node -> Pointer]
      /\ t.below \in [Node -> SUBSET Node] /\ t.root \in Pointer
  BY DEF Tree
<1>3. /\ \A k \in M : /\ t.left[k] \in M \cup {Nil} /\ t.right[k] \in M \cup {Nil}
                      /\ k \in t.below[k] /\ t.below[k] \subseteq M
                      /\ t.below[k] = {k} \cup Below(t, t.left[k]) \cup Below(t, t.right[k])
                      /\ k \notin Below(t, t.left[k]) /\ k \notin Below(t, t.right[k])
                      /\ Below(t, t.left[k]) \cap Below(t, t.right[k]) = {}
      /\ \A k \in Node \ M : t.left[k] = Nil /\ t.right[k] = Nil /\ t.below[k] = {}
      /\ t.root \in M \cup {Nil}
  <2>1. \A k \in M : Below(t, t.left[k]) \cap Below(t, t.right[k]) = {}
    BY Local
  <2>2. /\ \A k \in Node \ M : t.left[k] = Nil /\ t.right[k] = Nil /\ t.below[k] = {}
        /\ t.root \in M \cup {Nil}
    BY DEF SearchTree, Linked
  <2>. QED BY <2>1, <2>2, LocalAll
<1> HIDE DEF M
<1>4. CASE s.side = "root"
  <2>1. s = RootSlot
    BY <1>4 DEF Slot, RootSlot
  <2>2. t.root = Nil /\ M = {}
    BY <1>4, <2>1 DEF At, Members, Below, M
  <2>3. u = [root |-> x, left |-> [k \in Node |-> Nil], right |-> [k \in Node |-> Nil],
             below |-> [k \in Node |-> IF k = x THEN {x} ELSE {}]]
    <3>2. \A k \in Node : t.left[k] = Nil /\ t.right[k] = Nil /\ t.below[k] = {}
      BY <1>3, <2>2
    <3>. QED BY <1>4, <3>2 DEF RbLinkNode
  <2> HIDE DEF u
  <2>4. u \in Tree
    BY <1>1, <2>3 DEF Tree, Pointer
  <2>5. Members(u) = {x}
    BY <1>1, <2>3 DEF Members, Below
  <2>6. \A k \in Node : Below(u, u.left[k]) = {} /\ Below(u, u.right[k]) = {}
    BY <2>3 DEF Below
  <2>7. Linked(u)
    <3>1. u.left[x] = Nil /\ u.right[x] = Nil /\ u.below[x] = {x} /\ u.root = x
      BY <1>1, <2>3
    <3>2. \A k \in Node \ {x} : u.left[k] = Nil /\ u.right[k] = Nil /\ u.below[k] = {}
      BY <2>3
    <3>3. Nested(u)
      BY <2>5, <3>1 DEF Nested
    <3>4. \A p, j, k \in Members(u) : IsChild(u, p, j) /\ IsChild(u, p, k) => j = k
      BY <2>5
    <3>. QED BY <1>1, <2>5, <2>6, <3>1, <3>2, <3>3, <3>4 DEF Linked
  <2>8. Ordered(u, key)
    BY <1>1, <2>5, <2>6 DEF Ordered
  <2>. QED BY <2>2, <2>4, <2>5, <2>7, <2>8 DEF SearchTree, u, M
<1>5. CASE s.side # "root"
  <2>1. q \in M /\ s = [parent |-> q, side |-> s.side] /\ s.side \in {"left", "right"}
    BY <1>5 DEF Slot, RootSlot, M
  <2>2. s # RootSlot
    BY <1>5 DEF RootSlot
  <2> DEFINE L == s.side = "left"
  <2>4. /\ u.root = t.root
        /\ u.left = [k \in Node |-> IF k = x THEN Nil
                                    ELSE IF k = q /\ L THEN x ELSE t.left[k]]
        /\ u.right = [k \in Node |-> IF k = x THEN Nil
                                     ELSE IF k = q /\ ~ L THEN x ELSE t.right[k]]
        /\ u.below = [k \in Node |-> IF k = x THEN {x}
                                     ELSE IF q \in t.below[k] THEN t.below[k] \cup {x}
                                     ELSE t.below[k]]
        /\ u = [root |-> u.root, left |-> u.left, right |-> u.right, below |-> u.below]
    BY <1>5, <2>1 DEF RbLinkNode
  <2>5. /\ L => t.left[q] = Nil
        /\ ~ L => t.right[q] = Nil
    BY <2>1 DEF At
  <2> HIDE DEF u, q, L
  <2>6. u \in Tree
    <3>1. u.root \in Pointer
      BY <1>2, <2>4
    <3>2. u.left \in [Node -> Pointer] /\ u.right \in [Node -> Pointer]
      BY <1>1, <1>2, <2>4 DEF Pointer
    <3>3. u.below \in [Node -> SUBSET Node]
      BY <1>1, <1>2, <2>4
    <3>. QED BY <3>1, <3>2, <3>3, <2>4 DEF Tree
  <2>7. /\ Below(u, Nil) = {}
        /\ Below(u, x) = {x}
        /\ \A p \in M : Below(u, p) = IF q \in t.below[p] THEN t.below[p] \cup {x}
                                                         ELSE t.below[p]
    BY <1>1, <2>4 DEF Below
  <2>8. t.root \in M /\ M = t.below[t.root]
    BY <1>3, <2>1 DEF Members, Below, M
  <2>9. Members(u) = M \cup {x}
    BY <2>1, <2>4, <2>7, <2>8 DEF Members
  <2>10. \A k \in M :
           /\ Below(u, u.left[k]) = IF OnLeft(t, s, k) THEN Below(t, t.left[k]) \cup {x}
                                                       ELSE Below(t, t.left[k])
           /\ Below(u, u.right[k]) = IF OnRight(t, s, k) THEN Below(t, t.right[k]) \cup {x}
                                                         ELSE Below(t, t.right[k])
    <3> SUFFICES ASSUME NEW k \in M
                 PROVE  /\ Below(u, u.left[k]) = IF OnLeft(t, s, k)
                                                 THEN Below(t, t.left[k]) \cup {x}
                                                 ELSE Below(t, t.left[k])
                        /\ Below(u, u.right[k]) = IF OnRight(t, s, k)
                                                  THEN Below(t, t.right[k]) \cup {x}
                                                  ELSE Below(t, t.right[k])
      OBVIOUS
    <3>1. CASE k = q
      <4>1. /\ q \notin Below(t, t.left[q]) /\ q \notin Below(t, t.right[q])
            /\ t.left[q] \in M \cup {Nil} /\ t.right[q] \in M \cup {Nil}
        BY <1>3, <2>1
      <4>2. OnLeft(t, s, k) = L /\ OnRight(t, s, k) = ~ L
        BY <3>1, <2>1 DEF OnLeft, OnRight, L, q
      <4>3. CASE L
        <5>1. u.left[q] = x /\ u.right[q] = t.right[q] /\ t.left[q] = Nil
          BY <1>1, <2>1, <2>4, <2>5, <4>3
        <5>. QED BY <1>1, <2>7, <3>1, <4>1, <4>2, <4>3, <5>1 DEF Below
      <4>4. CASE ~ L
        <5>1. u.right[q] = x /\ u.left[q] = t.left[q] /\ t.right[q] = Nil
          BY <1>1, <2>1, <2>4, <2>5, <4>4
        <5>. QED BY <1>1, <2>7, <3>1, <4>1, <4>2, <4>4, <5>1 DEF Below
      <4>. QED BY <4>3, <4>4
    <3>2. CASE k # q
      <4>1. /\ OnLeft(t, s, k) = (q \in Below(t, t.left[k]))
            /\ OnRight(t, s, k) = (q \in Below(t, t.right[k]))
        BY <3>2 DEF OnLeft, OnRight, q
      <4>2. t.left[k] \in M \cup {Nil} /\ t.right[k] \in M \cup {Nil}
        BY <1>3
      <4>3. u.left[k] = t.left[k] /\ u.right[k] = t.right[k]
        BY <1>1, <2>4, <3>2
      <4>. QED BY <1>1, <2>7, <4>1, <4>2, <4>3 DEF Below
    <3>. QED BY <3>1, <3>2
  <2>11. \A k \in M : /\ OnLeft(t, s, k) \/ OnRight(t, s, k) => q \in t.below[k]
                      /\ q \in t.below[k] => OnLeft(t, s, k) \/ OnRight(t, s, k)
    <3> SUFFICES ASSUME NEW k \in M
                 PROVE  /\ OnLeft(t, s, k) \/ OnRight(t, s, k) => q \in t.below[k]
                        /\ q \in t.below[k] => OnLeft(t, s, k) \/ OnRight(t, s, k)
      OBVIOUS
    <3>1. t.below[k] = {k} \cup Below(t, t.left[k]) \cup Below(t, t.right[k])
      BY <1>3
    <3>2. CASE k = q
      BY <2>1, <3>1, <3>2 DEF OnLeft, OnRight, q
    <3>3. CASE k # q
      BY <3>1, <3>3 DEF OnLeft, OnRight, q
    <3>. QED BY <3>2, <3>3
  <2>12. Linked(u)
    <3>1. u.root \in M \cup {x}
      BY <2>4, <2>8
    <3>2. u.left[x] = Nil /\ u.right[x] = Nil /\ u.below[x] = {x}
      BY <1>1, <2>4
    <3>3. \A k \in M : /\ u.left[k] \in M \cup {x, Nil} /\ u.right[k] \in M \cup {x, Nil}
                       /\ u.below[k] \subseteq M \cup {x}
      <4> SUFFICES ASSUME NEW k \in M
                   PROVE  /\ u.left[k] \in M \cup {x, Nil} /\ u.right[k] \in M \cup {x, Nil}
                          /\ u.below[k] \subseteq M \cup {x}
        OBVIOUS
      <4>1. /\ t.left[k] \in M \cup {Nil} /\ t.right[k] \in M \cup {Nil}
            /\ t.below[k] \subseteq M /\ k \in Node
        BY <1>1, <1>3
      <4>. QED BY <2>4, <4>1
    <3>4. \A k \in M : u.below[k] = {k} \cup Below(u, u.left[k]) \cup Below(u, u.right[k])
      <4>1. \A k \in M : u.below[k] = IF q \in t.below[k] THEN t.below[k] \cup {x}
                                                          ELSE t.below[k]
        BY <1>1, <2>4
      <4>. QED BY <1>3, <2>10, <2>11, <4>1
    <3>5. \A p, j, k \in M \cup {x} : IsChild(u, p, j) /\ IsChild(u, p, k) => j = k
      <4>1. \A p, j, k \in M : IsChild(t, p, j) /\ IsChild(t, p, k) => j = k
        BY DEF SearchTree, Linked, M
      <4>2. \A p \in M \cup {x} : ~ IsChild(u, p, x)
        BY <1>1, <3>2 DEF IsChild
      <4>3. \A p \in M, k \in M : IsChild(u, p, k) => IsChild(t, p, k)
        BY <1>1, <2>4 DEF IsChild
      <4>4. \A k \in M : IsChild(u, x, k) => k = q
        BY <1>1, <1>3, <2>4 DEF IsChild
      <4>. QED BY <4>1, <4>2, <4>3, <4>4
    <3>6. \A k \in Node \ (M \cup {x}) :
            u.left[k] = Nil /\ u.right[k] = Nil /\ u.below[k] = {}
      <4> SUFFICES ASSUME NEW k \in Node \ (M \cup {x})
                   PROVE  u.left[k] = Nil /\ u.right[k] = Nil /\ u.below[k] = {}
        OBVIOUS
      <4>1. k # x /\ k # q /\ t.left[k] = Nil /\ t.right[k] = Nil /\ t.below[k] = {}
        BY <1>3, <2>1
      <4>. QED BY <2>4, <4>1
    <3>7. Nested(u)
      <4>1. \A k \in M : \A m \in t.below[k] :
              /\ t.below[m] \subseteq t.below[k]
              /\ m # k => \A p \in M : IsChild(t, m, p) => p \in t.below[k]
        BY DEF SearchTree, Linked, Nested, M
      <4>2. \A k \in M : u.below[k] = IF q \in t.below[k] THEN t.below[k] \cup {x}
                                                          ELSE t.below[k]
        BY <1>1, <2>4
      <4>3. \A k \in M \cup {x} : \A m \in u.below[k] : u.below[m] \subseteq u.below[k]
        <5> SUFFICES ASSUME NEW k \in M \cup {x}, NEW m \in u.below[k]
                     PROVE  u.below[m] \subseteq u.below[k]
          OBVIOUS
        <5>1. CASE k = x
          BY <3>2, <5>1
        <5>2. CASE k \in M
          <6>1. u.below[k] = IF q \in t.below[k] THEN t.below[k] \cup {x} ELSE t.below[k]
            BY <4>2, <5>2
          <6>2. CASE m = x
            BY <3>2, <6>2
          <6>3. CASE m # x
            <7>1. m \in t.below[k] /\ m \in M
              BY <1>3, <5>2, <6>1, <6>3
            <7>2. u.below[m] = IF q \in t.below[m] THEN t.below[m] \cup {x} ELSE t.below[m]
              BY <4>2, <7>1
            <7>3. t.below[m] \subseteq t.below[k]
              BY <4>1, <5>2, <7>1
            <7>. QED BY <6>1, <7>2, <7>3
          <6>. QED BY <6>2, <6>3
        <5>. QED BY <5>1, <5>2
      <4>4. \A p \in M \cup {x} : IsChild(u, x, p) => p = q
        BY <1>1, <1>3, <2>4, <3>2 DEF IsChild
      <4>5. \A m \in M, p \in M \cup {x} : IsChild(u, m, p) => p \in M /\ IsChild(t, m, p)
        BY <1>1, <2>4 DEF IsChild
      <4>6. \A k \in M \cup {x} : \A m \in u.below[k] : m # k =>
              \A p \in M \cup {x} : IsChild(u, m, p) => p \in u.below[k]
        <5> SUFFICES ASSUME NEW k \in M \cup {x}, NEW m \in u.below[k], m # k,
                            NEW p \in M \cup {x}, IsChild(u, m, p)
                     PROVE  p \in u.below[k]
          OBVIOUS
        <5>1. k \in M
          <6>1. CASE k = x
            BY <3>2, <6>1
          <6>. QED BY <6>1
        <5>4. u.below[k] = IF q \in t.below[k] THEN t.below[k] \cup {x} ELSE t.below[k]
          BY <4>2, <5>1
        <5>2. CASE m = x
          <6>1. q \in t.below[k]
            BY <1>1, <1>3, <5>1, <5>2, <5>4
          <6>2. p = q
            BY <4>4, <5>2
          <6>. QED BY <5>4, <6>1, <6>2
        <5>3. CASE m # x
          <6>1. m \in t.below[k] /\ m \in M
            BY <1>3, <5>1, <5>3, <5>4
          <6>2. p \in M /\ IsChild(t, m, p)
            BY <4>5, <6>1
          <6>. QED BY <4>1, <5>1, <5>4, <6>1, <6>2
        <5>. QED BY <5>2, <5>3
      <4>. QED BY <2>9, <4>3, <4>6 DEF Nested
    <3>. QED BY <2>7, <2>9, <3>1, <3>2, <3>3, <3>4, <3>5, <3>6, <3>7 DEF Linked
  <2>13. Ordered(u, key)
    <3>1. /\ Below(u, u.left[x]) = {} /\ Below(u, u.right[x]) = {}
      BY <1>1, <2>4, <2>7
    <3>2. \A k \in M : /\ OnLeft(t, s, k) => key[x] < key[k]
                       /\ OnRight(t, s, k) => key[k] < key[x]
      <4>1. \A k \in M : ~ (OnLeft(t, s, k) /\ OnRight(t, s, k))
        BY <1>3, <2>1 DEF OnLeft, OnRight
      <4>. QED BY <2>2, <2>11, <4>1 DEF Fits, M, q
    <3>3. \A k \in M : /\ \A z \in Below(t, t.left[k]) : key[z] < key[k]
                       /\ \A z \in Below(t, t.right[k]) : key[k] < key[z]
      BY DEF SearchTree, Ordered, M
    <3>. QED BY <2>9, <2>10, <3>1, <3>2, <3>3, ZenonT(30) DEF Ordered
  <2>. QED BY <2>6, <2>9, <2>12, <2>13 DEF SearchTree, u, M
<1>. QED BY <1>4, <1>5

(***************************************************************************)
(* Removing a node that has at most one child, and so rb_erase, keeps the  *)
(* other nodes and the order.                                              *)
(***************************************************************************)
LEMMA SpliceKeeps ==
  ASSUME NEW t \in Tree, NEW key \in [Node -> Int], SearchTree(t, key),
         NEW x \in Members(t), t.left[x] = Nil \/ t.right[x] = Nil
  PROVE  /\ Splice(t, x) \in Tree
         /\ Members(Splice(t, x)) = Members(t) \ {x}
         /\ SearchTree(Splice(t, x), key)
<1> DEFINE u == Splice(t, x)
           M == Members(t)
           c == IF t.left[x] = Nil THEN t.right[x] ELSE t.left[x]
<1>1. /\ M \subseteq Node /\ Nil \notin M /\ x \in Node /\ x # Nil
  BY LocalAll
<1>2. /\ t.left \in [Node -> Pointer] /\ t.right \in [Node -> Pointer]
      /\ t.below \in [Node -> SUBSET Node] /\ t.root \in Pointer
  BY DEF Tree
<1>3. /\ \A k \in M : /\ t.left[k] \in M \cup {Nil} /\ t.right[k] \in M \cup {Nil}
                      /\ k \in t.below[k] /\ t.below[k] \subseteq M
                      /\ t.below[k] = {k} \cup Below(t, t.left[k]) \cup Below(t, t.right[k])
                      /\ k \notin Below(t, t.left[k]) /\ k \notin Below(t, t.right[k])
                      /\ t.left[k] # k /\ t.right[k] # k
      /\ \A k \in Node \ M : t.left[k] = Nil /\ t.right[k] = Nil /\ t.below[k] = {}
      /\ t.root \in M
  <2>1. \A k \in Node \ M : t.left[k] = Nil /\ t.right[k] = Nil /\ t.below[k] = {}
    BY DEF SearchTree, Linked
  <2>2. t.root \in M
    BY DEF SearchTree, Linked, Members, Below
  <2>. QED BY <2>1, <2>2, LocalAll
<1>4. /\ u.root = (IF t.root = x THEN c ELSE t.root)
      /\ u.left = [k \in Node |-> IF k = x THEN Nil
                                  ELSE IF t.left[k] = x THEN c ELSE t.left[k]]
      /\ u.right = [k \in Node |-> IF k = x THEN Nil
                                   ELSE IF t.right[k] = x THEN c ELSE t.right[k]]
      /\ u.below = [k \in Node |-> IF k = x THEN {} ELSE t.below[k] \ {x}]
      /\ u = [root |-> u.root, left |-> u.left, right |-> u.right, below |-> u.below]
  BY <1>1, <1>2 DEF Splice, Redirect
<1>5. /\ c \in M \cup {Nil} /\ c # x
      /\ x \notin Below(t, c)
      /\ t.below[x] = {x} \cup Below(t, c)
  BY <1>1, <1>3 DEF Below
<1>6. c # Nil => IsChild(t, c, x)
  BY DEF IsChild
<1> HIDE DEF u, M, c
<1>7. u \in Tree
  <2>1. u.root \in Pointer
    BY <1>1, <1>3, <1>4, <1>5 DEF Pointer
  <2>2. c \in Pointer
    BY <1>1, <1>5 DEF Pointer
  <2>3. u.left \in [Node -> Pointer] /\ u.right \in [Node -> Pointer]
    BY <1>2, <1>4, <2>2 DEF Pointer
  <2>4. u.below \in [Node -> SUBSET Node]
    BY <1>2, <1>4
  <2>. QED BY <2>1, <2>3, <2>4, <1>4 DEF Tree
<1>8. \A p \in M \cup {Nil} : p # x => Below(u, p) = Below(t, p) \ {x}
  BY <1>1, <1>4 DEF Below
<1>9. Below(u, c) = t.below[x] \ {x}
  BY <1>5, <1>8
<1>10. Members(u) = M \ {x}
  <2>1. M = t.below[t.root]
    BY <1>1, <1>3 DEF Members, Below, M
  <2>2. Below(t, t.root) = t.below[t.root]
    BY <1>1, <1>3 DEF Below
  <2>. QED BY <1>3, <1>4, <1>8, <1>9, <2>1, <2>2 DEF Members
<1>11. \A k \in M : k # x =>
         /\ u.left[k] \in (M \ {x}) \cup {Nil} /\ u.right[k] \in (M \ {x}) \cup {Nil}
         /\ Below(u, u.left[k]) = Below(t, t.left[k]) \ {x}
         /\ Below(u, u.right[k]) = Below(t, t.right[k]) \ {x}
         /\ u.below[k] = t.below[k] \ {x}
  <2> SUFFICES ASSUME NEW k \in M, k # x
               PROVE  /\ u.left[k] \in (M \ {x}) \cup {Nil}
                      /\ u.right[k] \in (M \ {x}) \cup {Nil}
                      /\ Below(u, u.left[k]) = Below(t, t.left[k]) \ {x}
                      /\ Below(u, u.right[k]) = Below(t, t.right[k]) \ {x}
                      /\ u.below[k] = t.below[k] \ {x}
    OBVIOUS
  <2>1. /\ u.left[k] = IF t.left[k] = x THEN c ELSE t.left[k]
        /\ u.right[k] = IF t.right[k] = x THEN c ELSE t.right[k]
        /\ u.below[k] = t.below[k] \ {x}
    BY <1>1, <1>4
  <2>2. t.left[k] \in M \cup {Nil} /\ t.right[k] \in M \cup {Nil}
    BY <1>3
  <2>3. Below(t, x) = t.below[x]
    BY <1>1 DEF Below
  <2>4. Below(u, u.left[k]) = Below(t, t.left[k]) \ {x}
    BY <1>8, <1>9, <2>1, <2>2, <2>3
  <2>5. Below(u, u.right[k]) = Below(t, t.right[k]) \ {x}
    BY <1>8, <1>9, <2>1, <2>2, <2>3
  <2>. QED BY <1>5, <2>1, <2>2, <2>4, <2>5
<1>12. Linked(u)
  <2>1. u.root \in (M \ {x}) \cup {Nil}
    BY <1>3, <1>4, <1>5
  <2>2. \A k \in M \ {x} :
          /\ u.below[k] = {k} \cup Below(u, u.left[k]) \cup Below(u, u.right[k])
          /\ u.below[k] \subseteq M \ {x}
    <3> SUFFICES ASSUME NEW k \in M \ {x}
                 PROVE  /\ u.below[k] = {k} \cup Below(u, u.left[k]) \cup Below(u, u.right[k])
                        /\ u.below[k] \subseteq M \ {x}
      OBVIOUS
    <3>1. /\ u.below[k] = t.below[k] \ {x}
          /\ Below(u, u.left[k]) = Below(t, t.left[k]) \ {x}
          /\ Below(u, u.right[k]) = Below(t, t.right[k]) \ {x}
      BY <1>11
    <3>2. /\ t.below[k] = {k} \cup Below(t, t.left[k]) \cup Below(t, t.right[k])
          /\ t.below[k] \subseteq M
      BY <1>3
    <3>. QED BY <3>1, <3>2
  <2>3. \A p, j, k \in M \ {x} : IsChild(u, p, j) /\ IsChild(u, p, k) => j = k
    <3>1. \A p, j, k \in M : IsChild(t, p, j) /\ IsChild(t, p, k) => j = k
      BY DEF SearchTree, Linked, M
    <3>2. \A p, k \in M \ {x} : IsChild(u, p, k) =>
            IsChild(t, p, k) \/ (p = c /\ IsChild(t, x, k))
      BY <1>1, <1>4 DEF IsChild
    <3>3. x \in M
      BY DEF M
    <3>. QED BY <1>1, <1>6, <3>1, <3>2, <3>3
  <2>4. \A k \in Node \ (M \ {x}) : u.left[k] = Nil /\ u.right[k] = Nil /\ u.below[k] = {}
    <3> SUFFICES ASSUME NEW k \in Node \ (M \ {x})
                 PROVE  u.left[k] = Nil /\ u.right[k] = Nil /\ u.below[k] = {}
      OBVIOUS
    <3>1. CASE k = x
      BY <1>1, <1>4, <3>1
    <3>2. CASE k # x
      BY <1>1, <1>3, <1>4, <3>2
    <3>. QED BY <3>1, <3>2
  <2>5. Nested(u)
    <3>1. \A k \in M : \A m \in t.below[k] :
            /\ t.below[m] \subseteq t.below[k]
            /\ m # k => \A p \in M : IsChild(t, m, p) => p \in t.below[k]
      BY DEF SearchTree, Linked, Nested, M
    <3>2. \A p, k \in M \ {x} : IsChild(u, p, k) =>
            IsChild(t, p, k) \/ (p = c /\ IsChild(t, x, k))
      BY <1>1, <1>4 DEF IsChild
    <3>3. \A k \in M \ {x} : u.below[k] = t.below[k] \ {x}
      BY <1>11
    <3>4. \A k \in M \ {x} : \A m \in u.below[k] : u.below[m] \subseteq u.below[k]
      BY <1>3, <3>1, <3>3
    <3>5. \A k \in M \ {x} : \A m \in u.below[k] : m # k =>
            \A p \in M \ {x} : IsChild(u, m, p) => p \in u.below[k]
      <4> SUFFICES ASSUME NEW k \in M \ {x}, NEW m \in u.below[k], m # k,
                          NEW p \in M \ {x}, IsChild(u, m, p)
                   PROVE  p \in u.below[k]
        OBVIOUS
      <4>1. m \in M \ {x} /\ m \in t.below[k]
        BY <1>3, <3>3
      <4>2. CASE IsChild(t, m, p)
        BY <3>1, <3>3, <4>1, <4>2
      <4>3. CASE m = c /\ IsChild(t, x, p)
        <5>1. x \in M /\ x \in t.below[k]
          BY <1>1, <1>6, <3>1, <4>1, <4>3 DEF M
        <5>. QED BY <3>1, <3>3, <4>3, <5>1
      <4>. QED BY <3>2, <4>1, <4>2, <4>3
    <3>. QED BY <1>10, <3>4, <3>5 DEF Nested
  <2>. QED BY <1>10, <1>11, <2>1, <2>2, <2>3, <2>4, <2>5 DEF Linked
<1>13. Ordered(u, key)
  BY <1>10, <1>11 DEF SearchTree, Ordered, M
<1>. QED BY <1>7, <1>10, <1>12, <1>13 DEF SearchTree, u, M

LEMMA EraseKeeps ==
  ASSUME NEW t \in Tree, NEW key \in [Node -> Int], SearchTree(t, key),
         NEW x \in Members(t), NEW u \in RbErase(t, x)
  PROVE  u \in Tree /\ Members(u) = Members(t) \ {x} /\ SearchTree(u, key)
<1>1. PICK v \in AtMostTwoRotations(t) :
        u = Splice(v, x) /\ (v.left[x] = Nil \/ v.right[x] = Nil)
  BY DEF RbErase
<1>2. v \in Tree /\ Members(v) = Members(t) /\ SearchTree(v, key)
  BY RotationsKeep
<1>. QED BY <1>1, <1>2, SpliceKeeps

(***************************************************************************)
(* The keys of nodes outside the tree do not matter.                       *)
(***************************************************************************)
LEMMA KeysOfMembers ==
  ASSUME NEW t \in Tree, NEW key, NEW other, SearchTree(t, key),
         \A x \in Members(t) : other[x] = key[x]
  PROVE  SearchTree(t, other)
<1>1. \A x \in Members(t) : /\ Below(t, t.left[x]) \subseteq Members(t)
                            /\ Below(t, t.right[x]) \subseteq Members(t)
  BY DEF SearchTree, Linked
<1>. QED BY <1>1 DEF SearchTree, Ordered

LEMMA EmptyIsSearchTree ==
  ASSUME NEW key
  PROVE  EmptyTree \in Tree /\ Members(EmptyTree) = {} /\ SearchTree(EmptyTree, key)
<1>1. Members(EmptyTree) = {}
  BY DEF EmptyTree, Members, Below
<1>2. EmptyTree \in Tree
  BY DEF EmptyTree, Tree, Pointer
<1>3. Linked(EmptyTree) /\ Ordered(EmptyTree, key)
  BY <1>1 DEF Linked, Nested, Ordered, EmptyTree
<1>. QED BY <1>1, <1>2, <1>3 DEF SearchTree
-----------------------------------------------------------------------------
(* The inductive invariant. *)
IInv == TypeOK /\ TreeIsOrdered /\ InsertPosition /\ SearchKeepsCover

LEMMA KeyType ==
  ASSUME TypeOK
  PROVE  Key \in [Node -> Int] /\ \A x \in Node : Key[x] = region[x].addr
BY DEF TypeOK, Key, Region, Address

LEMMA InitIInv == Init => IInv
<1> SUFFICES ASSUME Init PROVE IInv
  OBVIOUS
<1>1. TypeOK
  <2>1. 0 \in Address
    BY ModulusAssumption DEF Address
  <2>. QED BY <2>1, EmptyIsSearchTree DEF Init, TypeOK, Region, Slot, Pointer
<1>2. TreeIsOrdered
  BY EmptyIsSearchTree DEF Init, TreeIsOrdered
<1>. QED BY <1>1, <1>2 DEF IInv, Init, InsertPosition, SearchKeepsCover, Searching

(***************************************************************************)
(* Calls                                                                   *)
(***************************************************************************)
LEMMA InsertCallIInv ==
  ASSUME IInv, NEW x \in Node, NEW r \in Candidate, InsertCall(x, r)
  PROVE  IInv'
<1>1. TypeOK'
  BY CandidateAssumption DEF IInv, TypeOK, InsertCall, Slot, Pointer
<1>2. x \notin Members(tree)
  BY DEF IInv, TreeIsOrdered, InsertCall
<1>3. \A k \in Members(tree) : Key'[k] = Key[k]
  <2>1. Members(tree) \subseteq Node
    BY KeyType, LocalAll DEF IInv, TreeIsOrdered, TypeOK
  <2>. QED BY <1>2, <2>1 DEF InsertCall, Key, IInv, TypeOK
<1>4. TreeIsOrdered'
  <2>1. SearchTree(tree, Key')
    BY <1>3, KeysOfMembers DEF IInv, TypeOK, TreeIsOrdered
  <2>. QED BY <1>3, <2>1 DEF IInv, TreeIsOrdered, InsertCall
<1>5. InsertPosition'
  <2>1. tree' = tree /\ new' = x /\ slot' = RootSlot /\ region'[x] = r /\ x \in used'
    BY DEF InsertCall, IInv, TypeOK
  <2>2. Below(tree, At(tree, RootSlot)) = Members(tree)
    BY DEF At, RootSlot, Members
  <2>3. Fits(tree, Key', Key'[x], RootSlot)
    BY DEF Fits
  <2>. QED BY <1>2, <2>1, <2>2, <2>3 DEF InsertPosition, Current
<1>6. SearchKeepsCover'
  BY DEF InsertCall, SearchKeepsCover, Searching
<1>. QED BY <1>1, <1>4, <1>5, <1>6 DEF IInv

LEMMA SearchCallIInv ==
  ASSUME IInv, NEW op \in {"lookup", "delete"}, NEW a \in Address, SearchCall(op, a)
  PROVE  IInv'
<1>1. TypeOK'
  BY DEF IInv, TypeOK, SearchCall, Tree
<1>2. TreeIsOrdered'
  BY DEF IInv, TreeIsOrdered, SearchCall, Key
<1>3. InsertPosition'
  BY DEF SearchCall, InsertPosition
<1>4. SearchKeepsCover'
  BY DEF SearchCall, SearchKeepsCover, IInv, TreeIsOrdered, SearchTree, Linked, Members
<1>. QED BY <1>1, <1>2, <1>3, <1>4 DEF IInv

(***************************************************************************)
(* The loop of insert_region                                               *)
(***************************************************************************)
LEMMA InsertStepIInv ==
  ASSUME IInv, InsertLeft \/ InsertRight
  PROVE  IInv'
<1> DEFINE c == Current
           v == Key[new]
<1>1. /\ c # Nil /\ pc = "insert" /\ tree' = tree /\ region' = region
      /\ new' = new /\ pc' = "insert" /\ used' = used /\ Key' = Key
      /\ addr' = addr /\ n' = n
  BY DEF InsertLeft, InsertRight, Key
<1>2. /\ tree \in Tree /\ Key \in [Node -> Int] /\ SearchTree(tree, Key)
  BY KeyType DEF IInv, TypeOK, TreeIsOrdered
<1>3. /\ new \in Node \ Members(tree) /\ slot \in Slot
      /\ slot = RootSlot \/ slot.parent \in Members(tree)
      /\ Fits(tree, Key, v, slot)
      /\ \A k \in Members(tree) \ Below(tree, c) : Key[k] # v
  BY <1>1 DEF IInv, TypeOK, InsertPosition
<1>4. /\ Members(tree) \subseteq Node /\ Nil \notin Members(tree)
      /\ c \in Members(tree) /\ v \in Int /\ Key[c] \in Int
  BY <1>1, <1>2, <1>3, LocalAll
     DEF At, Current, Members, SearchTree, Linked, Slot, RootSlot
<1>5. \/ Key[c] > v /\ slot' = [parent |-> c, side |-> "left"]
      \/ Key[c] < v /\ slot' = [parent |-> c, side |-> "right"]
  BY DEF InsertLeft, InsertRight
<1> HIDE DEF c, v
<1>6. \A k \in Members(tree) : c \in tree.below[k] /\ k # c =>
        /\ slot # RootSlot /\ slot.parent \in tree.below[k]
        /\ OnLeft(tree, slot, k) => c \in Below(tree, tree.left[k])
        /\ OnRight(tree, slot, k) => c \in Below(tree, tree.right[k])
  <2> SUFFICES ASSUME NEW k \in Members(tree), c \in tree.below[k], k # c
               PROVE  /\ slot # RootSlot /\ slot.parent \in tree.below[k]
                      /\ OnLeft(tree, slot, k) => c \in Below(tree, tree.left[k])
                      /\ OnRight(tree, slot, k) => c \in Below(tree, tree.right[k])
    OBVIOUS
  <2>1. k \notin tree.below[c]
    BY <1>2, NoCycle
  <2>2. slot # RootSlot
    BY <1>1, <1>4, <2>1 DEF c, Current, At, RootSlot, Members, Below
  <2>3. slot.parent \in Members(tree) /\ slot.side \in {"left", "right"}
    BY <1>3, <2>2 DEF Slot
  <2>4. c = (IF slot.side = "left" THEN tree.left[slot.parent] ELSE tree.right[slot.parent])
    BY <2>3 DEF c, Current, At
  <2>5. \A j \in Members(tree) : \A m \in tree.below[j] :
          /\ tree.below[m] \subseteq tree.below[j]
          /\ m # j => \A p \in Members(tree) : IsChild(tree, m, p) => p \in tree.below[j]
    BY <1>2 DEF SearchTree, Linked, Nested
  <2>6. slot.parent \in tree.below[k]
    BY <2>3, <2>4, <2>5 DEF IsChild
  <2>7. /\ c \in tree.below[c] /\ c \in tree.below[slot.parent]
        /\ tree.left[k] \in Members(tree) \cup {Nil}
        /\ tree.right[k] \in Members(tree) \cup {Nil}
    <3>1. c \in tree.below[c] /\ Below(tree, c) = tree.below[c]
      BY <1>1, <1>2, <1>4, LocalAll DEF Below
    <3>2. tree.below[slot.parent] = {slot.parent} \cup Below(tree, tree.left[slot.parent])
                                      \cup Below(tree, tree.right[slot.parent])
      BY <1>2, <2>3, LocalAll
    <3>. QED BY <1>2, <2>4, <3>1, <3>2, LocalAll
  <2>8. OnLeft(tree, slot, k) => c \in Below(tree, tree.left[k])
    <3>1. CASE slot.parent = k
      BY <1>4, <2>4, <2>7, <3>1 DEF OnLeft, Below
    <3>2. CASE slot.parent # k
      BY <2>5, <2>7, <3>2 DEF OnLeft, Below
    <3>. QED BY <3>1, <3>2
  <2>9. OnRight(tree, slot, k) => c \in Below(tree, tree.right[k])
    <3>1. CASE slot.parent = k
      BY <1>4, <2>3, <2>4, <2>7, <3>1 DEF OnRight, Below
    <3>2. CASE slot.parent # k
      BY <2>5, <2>7, <3>2 DEF OnRight, Below
    <3>. QED BY <3>1, <3>2
  <2>. QED BY <2>2, <2>6, <2>8, <2>9
<1>7. Fits(tree, Key, v, slot')
  <2> SUFFICES ASSUME NEW k \in Members(tree), c \in tree.below[k]
               PROVE  \/ OnLeft(tree, slot', k) /\ v < Key[k]
                      \/ OnRight(tree, slot', k) /\ Key[k] < v
    BY <1>5 DEF Fits
  <2>1. CASE k = c
    BY <1>4, <1>5, <2>1 DEF OnLeft, OnRight
  <2>2. CASE k # c
    <3>1. \/ OnLeft(tree, slot, k) /\ v < Key[k]
          \/ OnRight(tree, slot, k) /\ Key[k] < v
      BY <1>3, <1>6, <2>2 DEF Fits
    <3>. QED BY <1>5, <1>6, <2>2, <3>1 DEF OnLeft, OnRight
  <2>. QED BY <2>1, <2>2
<1>8. \A k \in Members(tree) \ Below(tree, At(tree, slot')) : Key[k] # v
  <2> SUFFICES ASSUME NEW k \in Members(tree), k \notin Below(tree, At(tree, slot')),
                      k \in Below(tree, c)
               PROVE  Key[k] # v
    BY <1>3
  <2>1. k \in {c} \cup Below(tree, tree.left[c]) \cup Below(tree, tree.right[c])
    BY <1>1, <1>2, <1>4, LocalAll DEF Below
  <2>2. /\ \A m \in Below(tree, tree.left[c]) : Key[m] < Key[c]
        /\ \A m \in Below(tree, tree.right[c]) : Key[c] < Key[m]
    BY <1>2, <1>4 DEF SearchTree, Ordered
  <2>3. Key[k] \in Int
    BY <1>2, <1>4
  <2>4. CASE slot' = [parent |-> c, side |-> "left"] /\ Key[c] > v
    <3>1. At(tree, slot') = tree.left[c]
      BY <2>4 DEF At
    <3>. QED BY <1>4, <2>1, <2>2, <2>3, <2>4, <3>1
  <2>5. CASE slot' = [parent |-> c, side |-> "right"] /\ Key[c] < v
    <3>1. At(tree, slot') = tree.right[c]
      BY <2>5 DEF At
    <3>. QED BY <1>4, <2>1, <2>2, <2>3, <2>5, <3>1
  <2>. QED BY <1>5, <2>4, <2>5
<1>9. slot' \in Slot /\ slot'.parent \in Members(tree)
  BY <1>4, <1>5 DEF Slot
<1>10. TypeOK'
  BY <1>1, <1>9 DEF IInv, TypeOK
<1>11. TreeIsOrdered'
  BY <1>1 DEF IInv, TreeIsOrdered
<1>12. InsertPosition'
  BY <1>1, <1>7, <1>8, <1>9 DEF IInv, InsertPosition, Current, v
<1>13. SearchKeepsCover'
  BY <1>1 DEF SearchKeepsCover, Searching
<1>. QED BY <1>10, <1>11, <1>12, <1>13 DEF IInv

(***************************************************************************)
(* A finished call leaves no local variable behind.                        *)
(***************************************************************************)
LEMMA ReturnIInv ==
  ASSUME TypeOK, NEW r, Return(r), tree' \in Tree, TreeIsOrdered',
         UNCHANGED <<region, used>>
  PROVE  IInv'
<1>1. 0 \in Address
  BY ModulusAssumption DEF Address
<1>. QED BY <1>1 DEF IInv, TypeOK, Return, InsertPosition, SearchKeepsCover, Searching,
                     Pointer, Slot

LEMMA InsertLinkIInv ==
  ASSUME IInv, InsertLink
  PROVE  /\ IInv'
         /\ Members(tree') = Members(tree) \cup {new}
         /\ \A k \in Members(tree) : Key[k] # Key[new]
<1>1. /\ tree \in Tree /\ Key \in [Node -> Int] /\ SearchTree(tree, Key)
      /\ Members(tree) \subseteq used
  BY KeyType DEF IInv, TypeOK, TreeIsOrdered
<1>2. /\ new \in Node \ Members(tree) /\ slot \in Slot /\ new \in used
      /\ slot = RootSlot \/ slot.parent \in Members(tree)
      /\ Fits(tree, Key, Key[new], slot) /\ At(tree, slot) = Nil
      /\ \A k \in Members(tree) : Key[k] # Key[new]
  BY DEF IInv, TypeOK, InsertPosition, InsertLink, Current, Below
<1>3. PICK t \in Tree : /\ Members(t) = Members(tree) \cup {new}
                        /\ SearchTree(t, Key)
                        /\ tree' \in RbInsertColor(t)
  <2>1. tree' \in RbInsertColor(RbLinkNode(tree, new, slot))
    BY DEF InsertLink
  <2>. QED BY <1>1, <1>2, <2>1, LinkKeeps
<1>4. tree' \in Tree /\ Members(tree') = Members(t) /\ SearchTree(tree', Key)
  BY <1>1, <1>3, RotationsKeep DEF RbInsertColor
<1>5. Key' = Key /\ used' = used /\ region' = region
  BY DEF InsertLink, Key
<1>6. \A x, y \in Members(tree') : Key[x] = Key[y] => x = y
  BY <1>2, <1>3, <1>4 DEF IInv, TreeIsOrdered
<1>7. TreeIsOrdered'
  BY <1>1, <1>2, <1>3, <1>4, <1>5, <1>6 DEF TreeIsOrdered
<1>8. Return([op |-> "insert", arg |-> region[new], res |-> 1])
  BY DEF InsertLink, InsertReturn
<1>. QED BY <1>2, <1>3, <1>4, <1>5, <1>7, <1>8, ReturnIInv DEF IInv

LEMMA InsertDuplicateIInv ==
  ASSUME IInv, InsertDuplicate
  PROVE  IInv' /\ Current \in Members(tree) /\ Key[Current] = Key[new]
<1>1. /\ tree \in Tree /\ Key \in [Node -> Int] /\ SearchTree(tree, Key)
  BY KeyType DEF IInv, TypeOK, TreeIsOrdered
<1>2. Current \in Members(tree)
  BY <1>1, LocalAll DEF InsertDuplicate, IInv, TypeOK, InsertPosition, At, Current,
                        Members, SearchTree, Linked, Slot, RootSlot
<1>3. TreeIsOrdered'
  BY DEF InsertDuplicate, IInv, TreeIsOrdered, Key
<1>4. Return([op |-> "insert", arg |-> region[new], res |-> 0])
  BY DEF InsertDuplicate, InsertReturn
<1>. QED BY <1>1, <1>2, <1>3, <1>4, ReturnIInv DEF IInv, InsertDuplicate

(***************************************************************************)
(* The loop of lookup_region.  The turn to the left relies on the order of *)
(* the tree, the turn to the right also on Unambiguous.                    *)
(***************************************************************************)
LEMMA SearchStepIInv ==
  ASSUME IInv, SearchLeft \/ SearchRight
  PROVE  IInv'
<1>1. /\ n \in Members(tree) /\ Searching /\ addr \in Address
      /\ UNCHANGED <<tree, region, used, pc, new, slot, addr>>
  BY DEF SearchLeft, SearchRight, IInv, SearchKeepsCover, TypeOK
<1>2. /\ tree \in Tree /\ Key \in [Node -> Int] /\ SearchTree(tree, Key)
      /\ \A x \in Node : Key[x] = region[x].addr
  BY KeyType DEF IInv, TypeOK, TreeIsOrdered
<1>3. /\ Members(tree) \subseteq Node /\ Nil \notin Members(tree)
      /\ tree.below[n] = {n} \cup Below(tree, tree.left[n]) \cup Below(tree, tree.right[n])
      /\ tree.left[n] \in Members(tree) \cup {Nil}
      /\ tree.right[n] \in Members(tree) \cup {Nil}
  BY <1>1, <1>2, LocalAll
<1>4. n' \in Members(tree) \cup {Nil}
  BY <1>3 DEF SearchLeft, SearchRight
<1>5. ASSUME Unambiguous(Held), NEW x \in Members(tree), Covers(region[x], addr)
      PROVE  x \in Below(tree, n')
  <2>1. x \in tree.below[n]
    BY <1>1, <1>3, <1>5 DEF IInv, SearchKeepsCover, Below
  <2>2. /\ region[x] \in Region /\ region[n] \in Region
        /\ Key[x] = region[x].addr /\ Key[n] = region[n].addr
        /\ region[x] \in Held /\ region[n] \in Held
    BY <1>1, <1>2, <1>3 DEF IInv, TypeOK, Held
  <2>3. /\ region[x].addr \in Int /\ region[n].addr \in Int /\ addr \in Int
        /\ EndOf(region[x]) \in Int /\ EndOf(region[n]) \in Int
    BY <1>1, <2>2, ModulusAssumption DEF Region, Address, EndOf
  <2>4. region[x].addr <= addr /\ addr < EndOf(region[x])
    BY <1>5, <2>3 DEF Covers, Precedes, Follows
  <2>5. /\ \A y \in Below(tree, tree.left[n]) : Key[y] < Key[n]
        /\ \A y \in Below(tree, tree.right[n]) : Key[n] < Key[y]
    BY <1>1, <1>2 DEF SearchTree, Ordered
  <2>6. CASE SearchLeft
    <3>1. addr < region[n].addr /\ n' = tree.left[n]
      BY <2>6 DEF SearchLeft, Precedes
    <3>2. x # n /\ x \notin Below(tree, tree.right[n])
      BY <2>2, <2>3, <2>4, <2>5, <3>1
    <3>. QED BY <1>3, <2>1, <3>1, <3>2
  <2>7. CASE SearchRight
    <3>1. addr >= region[n].addr /\ addr >= EndOf(region[n]) /\ n' = tree.right[n]
      BY <2>3, <2>7 DEF SearchRight, Follows, Precedes
    <3>2. x # n
      BY <2>3, <2>4, <3>1
    <3>3. x \notin Below(tree, tree.left[n])
      <4>1. SUFFICES ASSUME x \in Below(tree, tree.left[n]) PROVE FALSE
        OBVIOUS
      <4>2. region[x].addr < region[n].addr
        BY <2>2, <2>5, <4>1
      <4>3. Covers(region[x], region[n].addr)
        BY <2>3, <2>4, <3>1, <4>2 DEF Covers, Precedes, Follows
      <4>4. region[x] # region[n]
        BY <2>3, <4>2
      <4>. QED BY <1>5, <2>2, <4>3, <4>4 DEF Unambiguous
    <3>. QED BY <1>3, <2>1, <3>1, <3>2, <3>3
  <2>. QED BY <2>6, <2>7
<1>6. TypeOK'
  BY <1>1, <1>3, <1>4 DEF IInv, TypeOK, Pointer
<1>7. TreeIsOrdered'
  BY <1>1 DEF IInv, TreeIsOrdered, Key
<1>8. InsertPosition'
  BY <1>1 DEF InsertPosition, Searching
<1>9. SearchKeepsCover'
  BY <1>1, <1>4, <1>5 DEF SearchKeepsCover, Searching, Held
<1>. QED BY <1>6, <1>7, <1>8, <1>9 DEF IInv

LEMMA SearchReturnIInv ==
  ASSUME IInv, LookupFound \/ LookupMissing \/ DeleteMissing
  PROVE  IInv'
<1>1. PICK r : Return(r)
  BY DEF LookupFound, LookupMissing, DeleteMissing
<1>2. UNCHANGED <<tree, region, used>>
  BY DEF LookupFound, LookupMissing, DeleteMissing
<1>3. TreeIsOrdered'
  BY <1>2 DEF IInv, TreeIsOrdered, Key
<1>. QED BY <1>1, <1>2, <1>3, ReturnIInv DEF IInv, TypeOK

LEMMA DeleteFoundIInv ==
  ASSUME IInv, DeleteFound
  PROVE  IInv' /\ n \in Members(tree) /\ Members(tree') = Members(tree) \ {n}
<1>1. /\ tree \in Tree /\ Key \in [Node -> Int] /\ SearchTree(tree, Key)
  BY KeyType DEF IInv, TypeOK, TreeIsOrdered
<1>2. n \in Members(tree) /\ tree' \in RbErase(tree, n)
  BY DEF DeleteFound, Found, IInv, SearchKeepsCover, Searching
<1>3. tree' \in Tree /\ Members(tree') = Members(tree) \ {n} /\ SearchTree(tree', Key)
  BY <1>1, <1>2, EraseKeeps
<1>4. Key' = Key /\ used' = used /\ region' = region
  BY DEF DeleteFound, Key
<1>5. TreeIsOrdered'
  BY <1>3, <1>4 DEF IInv, TreeIsOrdered
<1>. QED BY <1>2, <1>3, <1>4, <1>5, ReturnIInv DEF IInv, DeleteFound

LEMMA NextIInv ==
  ASSUME IInv, Next
  PROVE  IInv'
BY InsertCallIInv, SearchCallIInv, InsertStepIInv, InsertDuplicateIInv, InsertLinkIInv,
   SearchStepIInv, SearchReturnIInv, DeleteFoundIInv DEF Next, Call, Step

LEMMA StutterIInv ==
  ASSUME IInv, UNCHANGED vars
  PROVE  IInv'
BY DEF IInv, TypeOK, TreeIsOrdered, InsertPosition, SearchKeepsCover, vars, Key, Held,
       Searching, Current
-----------------------------------------------------------------------------
(***************************************************************************)
(* The invariants of insert_region, lookup_region and delete_region hold   *)
(* whatever regions are inserted, looked up and deleted in whatever order. *)
(***************************************************************************)
THEOREM Invariance == Spec => []IInv
<1>1. IInv /\ [Next]_vars => IInv'
  BY NextIInv, StutterIInv
<1>. QED BY <1>1, InitIInv, PTL DEF Spec

(***************************************************************************)
(* The variables of the three functions keep their types.                  *)
(***************************************************************************)
THEOREM TypeCorrectness == Spec => []TypeOK
<1>1. IInv => TypeOK
  BY DEF IInv
<1>. QED BY <1>1, Invariance, PTL

(***************************************************************************)
(* The links written by insert_region and rearranged by rb_insert_color    *)
(* and rb_erase always form a search tree on distinct start addresses.     *)
(***************************************************************************)
THEOREM Ordering == Spec => []TreeIsOrdered
<1>1. IInv => TreeIsOrdered
  BY DEF IInv
<1>. QED BY <1>1, Invariance, PTL

(***************************************************************************)
(* The loop of insert_region stays on the path to the place of its key.    *)
(***************************************************************************)
THEOREM InsertLoop == Spec => []InsertPosition
<1>1. IInv => InsertPosition
  BY DEF IInv
<1>. QED BY <1>1, Invariance, PTL

(***************************************************************************)
(* The loop of lookup_region never turns away from a region that covers    *)
(* the address, in any tree whose regions are unambiguous.                 *)
(***************************************************************************)
THEOREM SearchLoop == Spec => []SearchKeepsCover
<1>1. IInv => SearchKeepsCover
  BY DEF IInv
<1>. QED BY <1>1, Invariance, PTL

(***************************************************************************)
(* No loop visits a node twice.                                            *)
(***************************************************************************)
LEMMA ChildIsSmaller ==
  ASSUME NEW t \in Tree, NEW key \in [Node -> Int], SearchTree(t, key),
         NEW x \in Members(t)
  PROVE  /\ Below(t, t.left[x]) \subseteq Below(t, x) \ {x}
         /\ Below(t, t.right[x]) \subseteq Below(t, x) \ {x}
BY LocalAll DEF Below

THEOREM Termination == Spec => LoopsDescend
<1> DEFINE Descends ==
      /\ Searching /\ pc' = pc => Below(tree, n') \subseteq Below(tree, n) \ {n}
      /\ pc = "insert" /\ pc' = pc
           => Below(tree, Current') \subseteq Below(tree, Current) \ {Current}
<1>1. ASSUME IInv, Next PROVE Descends
  <2>1. /\ tree \in Tree /\ Key \in [Node -> Int] /\ SearchTree(tree, Key)
    BY <1>1, KeyType DEF IInv, TypeOK, TreeIsOrdered
  <2>2. CASE SearchLeft \/ SearchRight
    <3>1. n \in Members(tree)
      BY <1>1, <2>2 DEF SearchLeft, SearchRight, IInv, SearchKeepsCover
    <3>. QED BY <2>1, <2>2, <3>1, ChildIsSmaller DEF SearchLeft, SearchRight, Searching
  <2>3. CASE InsertLeft \/ InsertRight
    <3>1. Current \in Members(tree)
      BY <1>1, <2>1, <2>3, LocalAll
         DEF InsertLeft, InsertRight, IInv, TypeOK, InsertPosition, At, Current, Members,
             SearchTree, Linked, Slot, RootSlot
    <3>2. /\ tree' = tree /\ pc = "insert"
          /\ \/ slot' = [parent |-> Current, side |-> "left"]
             \/ slot' = [parent |-> Current, side |-> "right"]
      BY <2>3 DEF InsertLeft, InsertRight
    <3>3. Current' \in {tree.left[Current], tree.right[Current]}
      <4>1. /\ At(tree, [parent |-> Current, side |-> "left"]) = tree.left[Current]
            /\ At(tree, [parent |-> Current, side |-> "right"]) = tree.right[Current]
        BY DEF At
      <4>2. Current' = At(tree', slot')
        BY DEF Current, At
      <4>. QED BY <3>2, <4>1, <4>2
    <3>4. Below(tree, Current') \subseteq Below(tree, Current) \ {Current}
      BY <2>1, <3>1, <3>3, ChildIsSmaller
    <3>. QED BY <3>2, <3>4 DEF Searching
  <2>4. CASE Call
    BY <2>4 DEF Call, InsertCall, SearchCall, Searching
  <2>5. CASE InsertDuplicate \/ InsertLink \/ LookupFound \/ LookupMissing
             \/ DeleteFound \/ DeleteMissing
    BY <2>5 DEF InsertDuplicate, InsertLink, InsertReturn, LookupFound, LookupMissing,
                DeleteFound, DeleteMissing, Return, Searching
  <2>. QED BY <1>1, <2>2, <2>3, <2>4, <2>5 DEF Next, Step
<1>2. IInv /\ [Next]_vars => [Descends]_vars
  BY <1>1
<1>. QED BY <1>2, Invariance, PTL DEF Spec, LoopsDescend
-----------------------------------------------------------------------------
(***************************************************************************)
(* The tree implements the map of RegionMap: the loops are stutters, the   *)
(* returns are its steps.                                                  *)
(***************************************************************************)
THEOREM Refinement == Spec => MapSpec
<1>1. Init => Map!Init
  BY EmptyIsSearchTree DEF Init, Map!Init, Held, NoReply, Map!NoReply
<1>2. ASSUME IInv, Next PROVE [Map!Next]_Map!vars
  <2>1. /\ tree \in Tree /\ Key \in [Node -> Int] /\ SearchTree(tree, Key)
        /\ \A x \in Node : Key[x] = region[x].addr
        /\ Members(tree) \subseteq Node
    BY <1>2, KeyType, LocalAll DEF IInv, TypeOK, TreeIsOrdered
  <2>2. CASE UNCHANGED <<tree, reply>> /\ \A x \in Members(tree) : region'[x] = region[x]
    BY <2>2 DEF Held, Map!vars
  <2>3. CASE Call
    <3>1. ASSUME NEW x \in Node, NEW r \in Candidate, InsertCall(x, r)
          PROVE  UNCHANGED <<tree, reply>> /\ \A y \in Members(tree) : region'[y] = region[y]
      BY <1>2, <2>1, <3>1 DEF InsertCall, IInv, TypeOK, TreeIsOrdered
    <3>2. ASSUME NEW op \in {"lookup", "delete"}, NEW a \in Address, SearchCall(op, a)
          PROVE  UNCHANGED <<tree, reply, region>>
      BY <3>2 DEF SearchCall
    <3>. QED BY <2>2, <2>3, <3>1, <3>2 DEF Call
  <2>4. CASE InsertLeft \/ InsertRight \/ SearchLeft \/ SearchRight
    BY <2>2, <2>4 DEF InsertLeft, InsertRight, SearchLeft, SearchRight
  <2>5. CASE InsertDuplicate
    <3>1. /\ Current \in Members(tree) /\ region[Current].addr = region[new].addr
          /\ region[new] \in Candidate
      BY <1>2, <2>1, <2>5, InsertDuplicateIInv
         DEF IInv, TypeOK, InsertPosition, InsertDuplicate, TreeIsOrdered
    <3>2. Held' = Held /\ reply' = [op |-> "insert", arg |-> region[new], res |-> 0]
      BY <2>5 DEF InsertDuplicate, InsertReturn, Return, Held
    <3>3. \E s \in Held : s.addr = region[new].addr
      BY <3>1 DEF Held
    <3>. QED BY <3>1, <3>2, <3>3 DEF Map!Next, Map!Insert
  <2>6. CASE InsertLink
    <3>1. /\ Members(tree') = Members(tree) \cup {new}
          /\ \A k \in Members(tree) : region[k].addr # region[new].addr
          /\ region[new] \in Candidate
      BY <1>2, <2>1, <2>6, InsertLinkIInv
         DEF IInv, TypeOK, InsertPosition, InsertLink
    <3>2. region' = region /\ reply' = [op |-> "insert", arg |-> region[new], res |-> 1]
      BY <2>6 DEF InsertLink, InsertReturn, Return
    <3>3. Held' = Held \cup {region[new]}
      BY <3>1, <3>2 DEF Held
    <3>4. \A s \in Held : s.addr # region[new].addr
      BY <3>1 DEF Held
    <3>. QED BY <3>1, <3>2, <3>3, <3>4 DEF Map!Next, Map!Insert
  <2>7. CASE LookupFound \/ DeleteFound
    <3>1. n \in Members(tree) /\ Covers(region[n], addr) /\ addr \in Address
      BY <1>2, <2>7 DEF IInv, SearchKeepsCover, TypeOK, LookupFound, DeleteFound, Found,
                        Searching
    <3>2. region[n] \in Held /\ region[n] # NoRegion
      BY <1>2, <2>1, <3>1, NoRegionAssumption DEF Held, IInv, TypeOK
    <3>3. Map!MayFind(Held, addr, region[n])
      BY <3>1, <3>2 DEF Map!MayFind, Map!Covers, Covers, Map!Precedes, Precedes,
                        Map!Follows, Follows, Map!EndOf, EndOf
    <3>4. CASE LookupFound
      <4>1. Held' = Held /\ reply' = [op |-> "lookup", arg |-> addr, res |-> region[n]]
        BY <3>4 DEF LookupFound, Return, Held
      <4>. QED BY <3>1, <3>2, <3>3, <4>1 DEF Map!Next, Map!Lookup, Map!Address, Address
    <3>5. CASE DeleteFound
      <4>1. /\ Members(tree') = Members(tree) \ {n} /\ region' = region
            /\ reply' = [op |-> "delete", arg |-> addr, res |-> 1]
        BY <1>2, <3>5, DeleteFoundIInv DEF DeleteFound, Return
      <4>2. \A x \in Members(tree) : region[x] = region[n] => x = n
        BY <1>2, <2>1, <3>1 DEF IInv, TreeIsOrdered
      <4>3. Held' = Held \ {region[n]}
        BY <3>1, <4>1, <4>2 DEF Held
      <4>. QED BY <3>1, <3>2, <3>3, <4>1, <4>3 DEF Map!Next, Map!Delete, Map!Address, Address
    <3>. QED BY <2>7, <3>4, <3>5
  <2>8. CASE LookupMissing \/ DeleteMissing
    <3>1. n = Nil /\ addr \in Address
      BY <1>2, <2>8 DEF IInv, TypeOK, LookupMissing, DeleteMissing
    <3>2. Unambiguous(Held) => \A s \in Held : ~ Covers(s, addr)
      BY <1>2, <2>8, <3>1 DEF IInv, SearchKeepsCover, Below, Held, LookupMissing,
                              DeleteMissing, Searching
    <3>3. Map!MayFind(Held, addr, NoRegion)
      BY <3>2 DEF Map!MayFind, Map!Covers, Covers, Map!Precedes, Precedes,
                  Map!Follows, Follows, Map!EndOf, EndOf, Map!Unambiguous, Unambiguous
    <3>4. CASE LookupMissing
      <4>1. Held' = Held /\ reply' = [op |-> "lookup", arg |-> addr, res |-> NoRegion]
        BY <3>4 DEF LookupMissing, Return, Held
      <4>. QED BY <3>1, <3>3, <4>1 DEF Map!Next, Map!Lookup, Map!Address, Address
    <3>5. CASE DeleteMissing
      <4>1. Held' = Held /\ reply' = [op |-> "delete", arg |-> addr, res |-> 0]
        BY <3>5 DEF DeleteMissing, Return, Held
      <4>2. NoRegion \notin Held
        BY <1>2, <2>1, NoRegionAssumption DEF Held, IInv, TypeOK
      <4>3. Held \ {NoRegion} = Held
        BY <4>2
      <4>. QED BY <3>1, <3>3, <4>1, <4>3 DEF Map!Next, Map!Delete, Map!Address, Address
    <3>. QED BY <2>8, <3>4, <3>5
  <2>. QED BY <1>2, <2>3, <2>4, <2>5, <2>6, <2>7, <2>8 DEF Next, Step
<1>3. IInv /\ [Next]_vars => [Map!Next]_Map!vars
  BY <1>2 DEF vars, Map!vars, Held
<1>. QED BY <1>1, <1>3, Invariance, PTL DEF Spec, MapSpec, Map!Spec
=============================================================================

-------------------------- MODULE GuardPassProofs --------------------------
(***************************************************************************)
(* The pass, for any functions, any instructions and any way pointers are  *)
(* derived: at every moment a guard stands right before the access it is   *)
(* for and nothing is lost, doubled or moved; and when the pass has ended, *)
(* each function is the intended one.                                      *)
(*                                                                         *)
(* The argument is in two halves.  While functions are scanned, the guards *)
(* recorded are those of the instructions that need one.  While guards are *)
(* inserted, every function is laid out by a map from the instructions of  *)
(* the source to their places: an inserted guard takes the place before,   *)
(* and moves the places behind it by one.                                  *)
(***************************************************************************)
EXTENDS GuardPass, TLAPS, WellFoundedInduction

(***************************************************************************)
(* What a pointer is derived from, and the recursion that defines compiled *)
(* code.  The proofs do induction in the form of sets of numbers: a set    *)
(* without a least member is empty.                                        *)
(***************************************************************************)
LEMMA LeastNumber ==
  ASSUME NEW T, T \subseteq Nat, T # {}
  PROVE  \E x \in T : \A y \in T : x <= y
<1> DEFINE R == OpToRel(<, Nat)
<1>1. IsWellFoundedOn(R, Nat)
  BY NatLessThanWellFounded
<1>2. \A x, y \in Nat : y < x => <<y, x>> \in R
  BY DEF OpToRel
<1>. HIDE DEF R
<1>3. PICK x \in T : \A y \in T : ~ (<<y, x>> \in R)
  BY <1>1, WFMin
<1>4. \A y \in T : ~ (y < x)
  BY <1>2, <1>3
<1>. QED BY <1>4

LEMMA Reaches ==
  ASSUME NEW S, NEW n \in Nat, 0 \in S, \A k \in 0 .. n - 1 : k \in S => k + 1 \in S
  PROVE  0 .. n \subseteq S
<1> DEFINE T == (0 .. n) \ S
<1>1. SUFFICES ASSUME T # {} PROVE FALSE
  OBVIOUS
<1>2. PICK x \in T : \A y \in T : x <= y
  <2>1. T \subseteq Nat
    OBVIOUS
  <2>. HIDE DEF T
  <2>. QED BY <1>1, <2>1, LeastNumber
<1>3. x - 1 \in S /\ x - 1 \in 0 .. n - 1
  BY <1>2
<1>. QED BY <1>3
-----------------------------------------------------------------------------
(***************************************************************************)
(* The recursion of Prefixes has a solution, and so is what it says.       *)
(***************************************************************************)
LEMMA PrefixesEquation ==
  ASSUME NEW f \in Function
  PROVE  LET n == Len(Body[f])
             p == Prefixes(f)
         IN  p = [k \in 0 .. n |-> IF k = 0 THEN <<>> ELSE p[k - 1] \o Guarded(Body[f][k])]
<1> DEFINE n == Len(Body[f])
           Is(c, m) == c = [k \in 0 .. m |->
                              IF k = 0 THEN <<>> ELSE c[k - 1] \o Guarded(Body[f][k])]
           Solved == {m \in Nat : \E c : Is(c, m)}
<1>1. n \in Nat
  BY GuardedCodeAssumption
<1>2. 0 \in Solved
  <2>1. Is([k \in 0 .. 0 |-> <<>>], 0)
    OBVIOUS
  <2>. QED BY <2>1
<1>3. ASSUME NEW m \in 0 .. n - 1, m \in Solved PROVE m + 1 \in Solved
  <2>1. m \in Nat /\ m + 1 \in Nat
    BY <1>1
  <2>2. PICK c : Is(c, m)
    BY <1>3
  <2> DEFINE d == [k \in 0 .. m + 1 |->
                     IF k = 0 THEN <<>> ELSE c[k - 1] \o Guarded(Body[f][k])]
  <2>3. ASSUME NEW k \in 0 .. m PROVE d[k] = c[k]
    BY <2>1, <2>2
  <2>4. ASSUME NEW k \in 0 .. m + 1, k # 0 PROVE d[k - 1] = c[k - 1]
    <3>1. k - 1 \in 0 .. m
      BY <2>1, <2>4
    <3>. QED BY <2>3, <3>1
  <2>5. Is(d, m + 1)
    BY <2>4
  <2>. QED BY <2>1, <2>5
<1>4. 0 .. n \subseteq Solved
  <2>. HIDE DEF Solved
  <2>. QED BY <1>1, <1>2, <1>3, Reaches
<1>5. \E c : Is(c, n)
  <2>1. n \in Solved
    <3>. HIDE DEF Solved
    <3>. QED BY <1>1, <1>4
  <2>. HIDE DEF Is
  <2>. QED BY <2>1
<1>. QED BY <1>5 DEF Prefixes
-----------------------------------------------------------------------------
(***************************************************************************)
(* A pointer is derived from at most one other: what it originates from is *)
(* a chain, and whether that ends on the stack is decided at its end.      *)
(***************************************************************************)
LEMMA OperandIsValue ==
  ASSUME NEW v \in Value, Derived(v)
  PROVE  Def[v].operand \in Value
BY GuardedCodeAssumption DEF Definition, Derived

LEMMA OriginsOfBase ==
  ASSUME NEW v \in Value, ~ Derived(v)
  PROVE  Origins(v) = {v}
<1>1. {v} \in SUBSET Value /\ v \in {v} /\ Closed({v})
  BY DEF Closed
<1>. QED BY <1>1 DEF Origins

LEMMA OriginsOfDerived ==
  ASSUME NEW v \in Value, Derived(v)
  PROVE  Origins(v) = {v} \cup Origins(Def[v].operand)
<1> DEFINE w == Def[v].operand
           S == {v} \cup Origins(w)
<1>1. w \in Value
  BY OperandIsValue
<1>2. w \in Origins(w) /\ S \in SUBSET Value
  BY <1>1 DEF Origins
<1>3. Closed(S)
  <2>1. ASSUME NEW u \in Origins(w), Derived(u) PROVE Def[u].operand \in Origins(w)
    <3>1. u \in Value /\ Def[u].operand \in Value
      BY <2>1, OperandIsValue DEF Origins
    <3>. QED BY <2>1, <3>1 DEF Origins, Closed
  <2>. QED BY <1>2, <2>1 DEF Closed
<1>4. Origins(v) \subseteq S
  BY <1>2, <1>3 DEF Origins
<1>5. S \subseteq Origins(v)
  <2>1. ASSUME NEW T \in SUBSET Value, v \in T, Closed(T) PROVE S \subseteq T
    <3>1. w \in T
      BY <2>1 DEF Closed
    <3>. QED BY <2>1, <3>1 DEF Origins
  <2>. QED BY <1>2, <2>1 DEF Origins
<1>. QED BY <1>4, <1>5

LEMMA StackIsDecidedByBase ==
  ASSUME NEW v \in Value
  PROVE  /\ Derived(v) => (OnStack(v) <=> OnStack(Def[v].operand))
         /\ ~ Derived(v) => (OnStack(v) <=> Def[v].kind = "alloca")
<1>1. ASSUME Derived(v) PROVE OnStack(v) <=> OnStack(Def[v].operand)
  <2>1. Def[v].kind # "alloca"
    BY <1>1 DEF Derived
  <2>. QED BY <1>1, <2>1, OriginsOfDerived DEF OnStack
<1>2. ASSUME ~ Derived(v) PROVE OnStack(v) <=> Def[v].kind = "alloca"
  BY <1>2, OriginsOfBase DEF OnStack
<1>. QED BY <1>1, <1>2
-----------------------------------------------------------------------------

Size(f) == Len(Body[f])

(* The guard of the k-th instruction of f, as insertGuard records it. *)
RecordOf(f, k) == [function |-> f, id |-> k, guard |-> GuardOf(Body[f][k])]

(* The guards of the first n instructions of f. *)
GuardsOf(f, n) == {RecordOf(f, k) : k \in {j \in 1 .. n : Needs(Body[f][j])}}
-----------------------------------------------------------------------------
(* While a pointer is followed, what is known of its base is known of it.  *)
ChaseInv ==
  phase = "chase" =>
    /\ index <= Size(function) /\ IsAccess(Current)
    /\ OnStack(baseptr) <=> OnStack(Current.pointer)

(* The guards recorded are those needed in what has been scanned. *)
ScanInv ==
  phase \in {"scan", "chase"} =>
    /\ function \notin scanned
    /\ toGuard = GuardsOf(function, index - 1)
    /\ allGuards = UNION {GuardsOf(f, Size(f)) : f \in scanned}

(* Afterwards those that are left to insert are needed. *)
InsertInv ==
  /\ phase = "done" => allGuards = {}
  /\ phase \in {"insert", "done"} =>
       allGuards \subseteq UNION {GuardsOf(f, Size(f)) : f \in Function}

(* The instructions of f before which a guard has been inserted. *)
Inserted(f) ==
  {k \in 1 .. Size(f) :
     phase \in {"insert", "done"} /\ Needs(Body[f][k]) /\ RecordOf(f, k) \notin allGuards}

(* A function with n instructions is laid out by pos: the k-th is at       *)
(* pos[k], behind its guard if it has one, and there is nothing else.      *)
Layout(f, c, pos, D) ==
  /\ pos[0] = 0 /\ pos[Size(f)] = Len(c)
  /\ \A k \in 1 .. Size(f) :
       /\ pos[k] = pos[k - 1] + IF k \in D THEN 2 ELSE 1
       /\ pos[k] \in 1 .. Len(c)
       /\ c[pos[k]] = [id |-> k, inst |-> Body[f][k]]
       /\ k \in D => c[pos[k] - 1] = [id |-> k, inst |-> GuardOf(Body[f][k])]
  /\ \A j, k \in 0 .. Size(f) : j < k => pos[j] < pos[k]
  /\ \A i \in 1 .. Len(c) : \E k \in 1 .. Size(f) :
       i = pos[k] \/ (k \in D /\ i = pos[k] - 1)

LayoutInv ==
  \A f \in Function : \E pos \in [0 .. Size(f) -> Nat] :
    Layout(f, code[f], pos, Inserted(f))

IInv == TypeOK /\ ChaseInv /\ ScanInv /\ InsertInv /\ LayoutInv
-----------------------------------------------------------------------------
(* Facts about the source. *)
LEMMA SourceFacts ==
  ASSUME NEW f \in Function
  PROVE  /\ Body[f] \in Seq(Instruction) /\ Size(f) \in Nat
         /\ \A k \in 1 .. Size(f) : Body[f][k] \in Instruction /\ Body[f][k].op # "guard"
BY GuardedCodeAssumption DEF Size, Instruction

LEMMA GuardTyped ==
  ASSUME NEW f \in Function, NEW k \in 1 .. Size(f), IsAccess(Body[f][k])
  PROVE  GuardOf(Body[f][k]) \in Guard /\ RecordOf(f, k) \in Record
<1>1. Body[f][k].pointer \in Value
  BY SourceFacts DEF Instruction, IsAccess
<1>2. GuardOf(Body[f][k]) \in Guard
  BY <1>1 DEF GuardOf, Guard, GuardFlags
<1>. QED BY <1>2, SourceFacts DEF RecordOf, Record

LEMMA GuardsTyped ==
  ASSUME NEW f \in Function, NEW n \in 0 .. Size(f)
  PROVE  GuardsOf(f, n) \in SUBSET Record
<1>1. ASSUME NEW k \in 1 .. n, Needs(Body[f][k]) PROVE RecordOf(f, k) \in Record
  BY <1>1, SourceFacts, GuardTyped DEF Needs
<1>. QED BY <1>1 DEF GuardsOf

LEMMA GuardsGrow ==
  ASSUME NEW f \in Function, NEW n \in 1 .. Size(f)
  PROVE  GuardsOf(f, n) = GuardsOf(f, n - 1) \cup
           IF Needs(Body[f][n]) THEN {RecordOf(f, n)} ELSE {}
<1>1. 1 .. n = (1 .. n - 1) \cup {n}
  BY SourceFacts
<1>. QED BY <1>1 DEF GuardsOf
-----------------------------------------------------------------------------
(* Inserting an element into a sequence before its k-th. *)
InsertAt(c, k, x) == SubSeq(c, 1, k - 1) \o <<x>> \o SubSeq(c, k, Len(c))

LEMMA InsertAtFacts ==
  ASSUME NEW S, NEW c \in Seq(S), NEW k \in 1 .. Len(c), NEW x \in S
  PROVE  /\ InsertAt(c, k, x) \in Seq(S)
         /\ Len(InsertAt(c, k, x)) = Len(c) + 1
         /\ \A j \in 1 .. Len(c) + 1 :
              InsertAt(c, k, x)[j] = IF j < k THEN c[j] ELSE IF j = k THEN x ELSE c[j - 1]
<1> DEFINE a == SubSeq(c, 1, k - 1)
           b == SubSeq(c, k, Len(c))
<1>1. a \in Seq(S) /\ Len(a) = k - 1 /\ \A j \in 1 .. k - 1 : a[j] = c[j]
  OBVIOUS
<1>2. b \in Seq(S) /\ Len(b) = Len(c) - k + 1
      /\ \A j \in 1 .. Len(c) - k + 1 : b[j] = c[k + j - 1]
  OBVIOUS
<1>. HIDE DEF a, b
<1> DEFINE m == a \o <<x>>
<1>3. m \in Seq(S) /\ Len(m) = k /\ m[k] = x /\ \A j \in 1 .. k - 1 : m[j] = c[j]
  BY <1>1
<1>. HIDE DEF m
<1>4. /\ m \o b \in Seq(S) /\ Len(m \o b) = Len(c) + 1
      /\ \A j \in 1 .. k : (m \o b)[j] = m[j]
      /\ \A j \in k + 1 .. Len(c) + 1 : (m \o b)[j] = b[j - k]
  BY <1>2, <1>3
<1>5. InsertAt(c, k, x) = m \o b
  BY DEF InsertAt, a, b, m
<1>. QED BY <1>2, <1>3, <1>4, <1>5
-----------------------------------------------------------------------------
(* What a layout says: where an instruction stands, and what a guard is    *)
(* followed by.                                                            *)
Coded == [id : Nat \ {0}, inst : Instruction \cup Guard]

LEMMA PlaceInLayout ==
  ASSUME NEW f \in Function, NEW c \in Seq(Coded), NEW D \in SUBSET (1 .. Size(f)),
         NEW pos \in [0 .. Size(f) -> Nat], Layout(f, c, pos, D),
         NEW k \in 1 .. Size(f)
  PROVE  PlaceOf(c, k) = pos[k]
<1>1. pos[k] \in 1 .. Len(c) /\ c[pos[k]] = [id |-> k, inst |-> Body[f][k]]
  BY DEF Layout
<1>2. c[pos[k]].id = k /\ c[pos[k]].inst.op # "guard"
  BY <1>1, SourceFacts
<1>3. ASSUME NEW i \in 1 .. Len(c), c[i].id = k, c[i].inst.op # "guard"
      PROVE  i = pos[k]
  <2>1. PICK j \in 1 .. Size(f) : i = pos[j] \/ (j \in D /\ i = pos[j] - 1)
    BY DEF Layout
  <2>2. /\ c[pos[j]] = [id |-> j, inst |-> Body[f][j]]
        /\ j \in D => c[pos[j] - 1] = [id |-> j, inst |-> GuardOf(Body[f][j])]
    BY DEF Layout
  <2>3. ~ (j \in D /\ i = pos[j] - 1)
    BY <1>3, <2>2 DEF GuardOf
  <2>. QED BY <1>3, <2>1, <2>2, <2>3
<1>. QED BY <1>1, <1>2, <1>3 DEF PlaceOf

LEMMA InsertInLayout ==
  ASSUME NEW f \in Function, NEW c \in Seq(Coded), NEW D \in SUBSET (1 .. Size(f)),
         NEW pos \in [0 .. Size(f) -> Nat], Layout(f, c, pos, D),
         NEW k \in 1 .. Size(f), k \notin D, IsAccess(Body[f][k])
  PROVE  LET d == InsertAt(c, pos[k], [id |-> k, inst |-> GuardOf(Body[f][k])])
         IN  /\ d \in Seq(Coded)
             /\ \E q \in [0 .. Size(f) -> Nat] : Layout(f, d, q, D \cup {k})
<1> DEFINE x == [id |-> k, inst |-> GuardOf(Body[f][k])]
           d == InsertAt(c, pos[k], x)
           q == [j \in 0 .. Size(f) |-> IF j < k THEN pos[j] ELSE pos[j] + 1]
           E == D \cup {k}
<1>1. x \in Coded
  BY SourceFacts, GuardTyped DEF Coded
<1>2. pos[k] \in 1 .. Len(c) /\ Size(f) \in Nat
  BY SourceFacts DEF Layout
<1>. HIDE DEF x
<1>3. /\ d \in Seq(Coded) /\ Len(d) = Len(c) + 1
      /\ \A j \in 1 .. Len(c) + 1 :
           d[j] = IF j < pos[k] THEN c[j] ELSE IF j = pos[k] THEN x ELSE c[j - 1]
  <2>1. /\ InsertAt(c, pos[k], x) \in Seq(Coded)
        /\ Len(InsertAt(c, pos[k], x)) = Len(c) + 1
        /\ \A j \in 1 .. Len(c) + 1 :
             InsertAt(c, pos[k], x)[j] =
               IF j < pos[k] THEN c[j] ELSE IF j = pos[k] THEN x ELSE c[j - 1]
    <3>1. /\ InsertAt(c, pos[k], x) \in Seq(Coded)
          /\ Len(InsertAt(c, pos[k], x)) = Len(c) + 1
      BY <1>1, <1>2, InsertAtFacts
    <3>2. \A j \in 1 .. Len(c) + 1 :
            InsertAt(c, pos[k], x)[j] =
              IF j < pos[k] THEN c[j] ELSE IF j = pos[k] THEN x ELSE c[j - 1]
      BY <1>1, <1>2, InsertAtFacts
    <3>. QED BY <3>1, <3>2
  <2>. QED BY <2>1
<1>. HIDE DEF d
<1>4. q \in [0 .. Size(f) -> Nat]
  OBVIOUS
<1>5. \A j \in 0 .. Size(f) : q[j] = IF j < k THEN pos[j] ELSE pos[j] + 1
  OBVIOUS
<1>. HIDE DEF q
<1>6. q[0] = 0 /\ q[Size(f)] = Len(d)
  BY <1>2, <1>3, <1>5 DEF Layout
<1>7. \A i, j \in 0 .. Size(f) : i < j => q[i] < q[j]
  <2>. SUFFICES ASSUME NEW i \in 0 .. Size(f), NEW j \in 0 .. Size(f), i < j
                PROVE  q[i] < q[j]
    OBVIOUS
  <2>1. pos[i] \in Nat /\ pos[j] \in Nat /\ pos[i] < pos[j]
    BY DEF Layout
  <2>. QED BY <2>1, <1>2, <1>5
<1>8. ASSUME NEW j \in 1 .. Size(f)
      PROVE  /\ q[j] = q[j - 1] + IF j \in E THEN 2 ELSE 1
             /\ q[j] \in 1 .. Len(d)
             /\ d[q[j]] = [id |-> j, inst |-> Body[f][j]]
             /\ j \in E => d[q[j] - 1] = [id |-> j, inst |-> GuardOf(Body[f][j])]
  <2>1. /\ pos[j] = pos[j - 1] + IF j \in D THEN 2 ELSE 1
        /\ pos[j] \in 1 .. Len(c) /\ c[pos[j]] = [id |-> j, inst |-> Body[f][j]]
        /\ j \in D => c[pos[j] - 1] = [id |-> j, inst |-> GuardOf(Body[f][j])]
        /\ j - 1 \in 0 .. Size(f) /\ pos[j - 1] \in Nat
    <3>1. j - 1 \in 0 .. Size(f) /\ pos[j - 1] \in Nat
      BY <1>2
    <3>. QED BY <3>1 DEF Layout
  <2>2. CASE j < k
    <3>1. q[j] = pos[j] /\ q[j - 1] = pos[j - 1] /\ pos[j] < pos[k]
      BY <2>2, <1>2, <1>5 DEF Layout
    <3>2. d[q[j]] = c[pos[j]] /\ (j \in D => d[q[j] - 1] = c[pos[j] - 1])
      BY <3>1, <2>1, <1>3, <1>2, SMTT(30)
    <3>. QED BY <2>1, <2>2, <3>1, <3>2, <1>3
  <2>3. CASE j = k
    <3>1. q[j] = pos[k] + 1 /\ q[j - 1] = pos[j - 1]
      BY <2>3, <1>2, <1>5
    <3>2. d[q[j]] = c[pos[k]] /\ d[q[j] - 1] = x
      BY <3>1, <1>3, <1>2
    <3>. QED BY <2>1, <2>3, <3>1, <3>2, <1>3, <1>2 DEF x
  <2>4. CASE j > k
    <3>1. q[j] = pos[j] + 1 /\ q[j - 1] = pos[j - 1] + 1 /\ pos[k] < pos[j]
      BY <2>4, <1>2, <1>5, SMTT(30) DEF Layout
    <3>2. pos[k] <= pos[j - 1]
      BY <2>4, <2>1, <1>2 DEF Layout
    <3>3. d[q[j]] = c[pos[j]]
      BY <3>1, <2>1, <1>3, <1>2, SMTT(30)
    <3>4. ASSUME j \in D PROVE d[q[j] - 1] = c[pos[j] - 1]
      <4>1. pos[j] > pos[k] + 1
        BY <3>2, <3>4, <2>1, <1>2
      <4>2. q[j] - 1 = pos[j] /\ pos[j] \in 1 .. Len(c) + 1
        BY <3>1, <2>1, <1>2, SMTT(30)
      <4>. QED BY <4>1, <4>2, <1>3, <1>2
    <3>. QED BY <2>1, <2>4, <3>1, <3>3, <3>4, <1>3, SMTT(30)
  <2>. QED BY <2>2, <2>3, <2>4
<1>9. ASSUME NEW i \in 1 .. Len(d)
      PROVE  \E j \in 1 .. Size(f) : i = q[j] \/ (j \in E /\ i = q[j] - 1)
  <2>1. CASE i = pos[k]
    <3>1. i = q[k] - 1
      BY <2>1, <1>5, <1>2
    <3>. QED BY <3>1
  <2>2. CASE i < pos[k]
    <3>1. PICK j \in 1 .. Size(f) : i = pos[j] \/ (j \in D /\ i = pos[j] - 1)
      BY <2>2, <1>2 DEF Layout
    <3>2. j < k
      <4>1. pos[j] = pos[j - 1] + IF j \in D THEN 2 ELSE 1
        BY DEF Layout
      <4>2. j - 1 \in 0 .. Size(f) /\ pos[j - 1] \in Nat
        BY <1>2
      <4>3. j - 1 > k => pos[j - 1] > pos[k]
        BY <4>2 DEF Layout
      <4>4. j > k => pos[j - 1] >= pos[k]
        BY <4>2, <4>3, <1>2
      <4>. QED BY <2>2, <3>1, <4>1, <4>2, <4>4, <1>2
    <3>3. q[j] = pos[j]
      BY <3>2, <1>5
    <3>. QED BY <3>1, <3>3
  <2>3. CASE i > pos[k]
    <3>1. PICK j \in 1 .. Size(f) : i - 1 = pos[j] \/ (j \in D /\ i - 1 = pos[j] - 1)
      <4>1. i - 1 \in 1 .. Len(c)
        BY <2>3, <1>2, <1>3
      <4>. QED BY <4>1 DEF Layout
    <3>2. j >= k
      BY <2>3, <3>1, <1>2 DEF Layout
    <3>3. q[j] = pos[j] + 1
      BY <3>2, <1>5
    <3>. QED BY <3>1, <3>3
  <2>. QED BY <2>1, <2>2, <2>3, <1>2
<1>10. Layout(f, d, q, E)
  BY <1>6, <1>7, <1>8, <1>9 DEF Layout
<1>. QED BY <1>3, <1>4, <1>10 DEF d, x
-----------------------------------------------------------------------------
(* The first state, and the steps. *)
LEMMA SameLayout ==
  ASSUME LayoutInv, UNCHANGED code, \A f \in Function : Inserted(f)' = Inserted(f)
  PROVE  LayoutInv'
BY DEF LayoutInv

LEMMA NothingInserted ==
  ASSUME phase \in {"scan", "chase"}
  PROVE  \A f \in Function : Inserted(f) = {}
BY DEF Inserted

LEMMA Start == Init => IInv
<1>. SUFFICES ASSUME Init PROVE IInv
  OBVIOUS
<1>1. \A f \in Function : Size(f) \in Nat /\ Len(Source(f)) = Size(f)
                          /\ Source(f) \in Seq(Coded) /\ GuardsOf(f, 0) = {}
  <2>. TAKE f \in Function
  <2>1. \A k \in 1 .. Size(f) : [id |-> k, inst |-> Body[f][k]] \in Coded
    BY SourceFacts DEF Coded
  <2>. QED BY <2>1, SourceFacts DEF Source, Size, GuardsOf
<1>2. TypeOK
  <2>1. code \in [Function -> Seq(Coded)]
    BY <1>1 DEF Init
  <2>2. function \in Function /\ index \in 1 .. Len(Body[function]) + 1
    BY <1>1 DEF Init, Size
  <2>. QED BY <2>1, <2>2 DEF Init, TypeOK, Coded
<1>3. ChaseInv /\ ScanInv /\ InsertInv
  BY <1>1 DEF Init, ChaseInv, ScanInv, InsertInv
<1>4. LayoutInv
  <2>. SUFFICES ASSUME NEW f \in Function
                PROVE  \E pos \in [0 .. Size(f) -> Nat] : Layout(f, code[f], pos, Inserted(f))
    BY DEF LayoutInv
  <2>1. Inserted(f) = {} /\ code[f] = Source(f)
    BY NothingInserted DEF Init
  <2> DEFINE pos == [k \in 0 .. Size(f) |-> k]
  <2>2. pos \in [0 .. Size(f) -> Nat]
    OBVIOUS
  <2>3. Layout(f, Source(f), pos, {})
    BY <1>1 DEF Layout, Source, Size
  <2>. QED BY <2>1, <2>2, <2>3
<1>. QED BY <1>2, <1>3, <1>4 DEF IInv

LEMMA ScanOtherKeeps == IInv /\ ScanOther => IInv'
<1>. SUFFICES ASSUME IInv, ScanOther PROVE IInv'
  OBVIOUS
<1>. USE DEF IInv
<1>1. index \in 1 .. Size(function) /\ function \in Function /\ Size(function) \in Nat
  BY SourceFacts DEF TypeOK, ScanOther, InFunction, Size
<1>2. TypeOK'
  <2>1. index' \in 1 .. Len(Body[function]) + 1
    BY <1>1 DEF ScanOther, Size
  <2>. QED BY <2>1 DEF TypeOK, ScanOther, InFunction
<1>3. GuardsOf(function, index) = GuardsOf(function, index - 1)
  <2>1. ~ Needs(Body[function][index])
    BY DEF ScanOther, Current, Needs
  <2>2. GuardsOf(function, index) = GuardsOf(function, index - 1) \cup {}
    BY <1>1, <2>1, GuardsGrow
  <2>. QED BY <2>2
<1>4. ChaseInv' /\ ScanInv' /\ InsertInv'
  BY <1>1, <1>3 DEF ChaseInv, ScanInv, InsertInv, ScanOther, InFunction
<1>5. LayoutInv'
  <2>1. \A f \in Function : Inserted(f)' = Inserted(f)
    BY DEF Inserted, ScanOther
  <2>. QED BY <2>1, SameLayout DEF ScanOther
<1>. QED BY <1>2, <1>4, <1>5

LEMMA ScanAccessKeeps == IInv /\ ScanAccess => IInv'
<1>. SUFFICES ASSUME IInv, ScanAccess PROVE IInv'
  OBVIOUS
<1>. USE DEF IInv
<1>1. index \in 1 .. Size(function) /\ function \in Function
  BY SourceFacts DEF TypeOK, ScanAccess, InFunction, Size
<1>2. Current.pointer \in Value
  BY <1>1, SourceFacts DEF ScanAccess, Current, IsAccess, Instruction
<1>3. TypeOK'
  BY <1>2 DEF TypeOK, ScanAccess
<1>4. Current' = Current
  BY DEF Current, ScanAccess
<1>5. ChaseInv' /\ ScanInv' /\ InsertInv'
  BY <1>1, <1>4 DEF ChaseInv, ScanInv, InsertInv, ScanAccess, InFunction
<1>6. LayoutInv'
  <2>1. \A f \in Function : Inserted(f)' = Inserted(f)
    BY DEF Inserted, ScanAccess, InFunction
  <2>. QED BY <2>1, SameLayout DEF ScanAccess
<1>. QED BY <1>3, <1>5, <1>6

LEMMA GetInternalPointerKeeps == IInv /\ GetInternalPointer => IInv'
<1>. SUFFICES ASSUME IInv, GetInternalPointer PROVE IInv'
  OBVIOUS
<1>. USE DEF IInv
<1>1. TypeOK'
  BY OperandIsValue DEF TypeOK, GetInternalPointer
<1>2. Current' = Current
  BY DEF Current, GetInternalPointer
<1>3. OnStack(baseptr') <=> OnStack(baseptr)
  BY StackIsDecidedByBase DEF GetInternalPointer, TypeOK
<1>4. ChaseInv' /\ ScanInv' /\ InsertInv'
  BY <1>2, <1>3 DEF ChaseInv, ScanInv, InsertInv, GetInternalPointer
<1>5. LayoutInv'
  <2>1. \A f \in Function : Inserted(f)' = Inserted(f)
    BY DEF Inserted, GetInternalPointer
  <2>. QED BY <2>1, SameLayout DEF GetInternalPointer
<1>. QED BY <1>1, <1>4, <1>5

LEMMA InsertGuardKeeps == IInv /\ InsertGuard => IInv'
<1>. SUFFICES ASSUME IInv, InsertGuard PROVE IInv'
  OBVIOUS
<1>. USE DEF IInv
<1>1. index \in 1 .. Size(function) /\ function \in Function /\ Size(function) \in Nat
  BY SourceFacts DEF TypeOK, ChaseInv, InsertGuard
<1>2. Needs(Current) <=> ~ (Def[baseptr].kind = "alloca" \/ FreshlyAllocated(Current.pointer))
  BY StackIsDecidedByBase DEF Needs, ChaseInv, InsertGuard, TypeOK
<1>3. toGuard' = GuardsOf(function, index)
  <2>1. toGuard = GuardsOf(function, index - 1)
    BY DEF InsertGuard, ScanInv
  <2>2. toGuard' = toGuard \cup IF Needs(Current) THEN {RecordOf(function, index)} ELSE {}
    BY <1>2 DEF InsertGuard, RecordOf, Current
  <2>3. GuardsOf(function, index) = GuardsOf(function, index - 1) \cup
          IF Needs(Current) THEN {RecordOf(function, index)} ELSE {}
    BY <1>1, GuardsGrow DEF Current
  <2>. QED BY <2>1, <2>2, <2>3
<1>4. TypeOK'
  <2>1. index' \in 1 .. Len(Body[function]) + 1
    BY <1>1 DEF InsertGuard, Size
  <2>2. toGuard' \in SUBSET Record
    BY <1>1, <1>3, GuardsTyped
  <2>. QED BY <2>1, <2>2 DEF TypeOK, InsertGuard
<1>5. ChaseInv' /\ ScanInv' /\ InsertInv'
  BY <1>1, <1>3 DEF ChaseInv, ScanInv, InsertInv, InsertGuard
<1>6. LayoutInv'
  <2>1. \A f \in Function : Inserted(f)' = Inserted(f)
    BY DEF Inserted, InsertGuard
  <2>. QED BY <2>1, SameLayout DEF InsertGuard
<1>. QED BY <1>4, <1>5, <1>6

LEMMA EndFunctionKeeps == IInv /\ EndFunction => IInv'
<1>. SUFFICES ASSUME IInv, EndFunction PROVE IInv'
  OBVIOUS
<1>. USE DEF IInv
<1>1. /\ function \in Function /\ Size(function) \in Nat /\ index - 1 = Size(function)
      /\ scanned \in SUBSET Function
  BY SourceFacts DEF TypeOK, EndFunction, Size
<1>2. toGuard = GuardsOf(function, Size(function))
  BY <1>1 DEF ScanInv, EndFunction
<1>3. allGuards' = UNION {GuardsOf(f, Size(f)) : f \in scanned'}
  BY <1>1, <1>2 DEF ScanInv, EndFunction
<1>4. \A f \in Function : GuardsOf(f, 0) = {} /\ Size(f) \in Nat
  BY SourceFacts DEF GuardsOf
<1>5. TypeOK'
  <2>1. function' \in Function /\ index' \in 1 .. Len(Body[function']) + 1
    BY <1>1, <1>4 DEF TypeOK, EndFunction, Size
  <2>2. phase' \in {"scan", "insert"} /\ scanned' \in SUBSET Function
    BY <1>1 DEF EndFunction
  <2>. QED BY <2>1, <2>2 DEF TypeOK, EndFunction
<1>6. ChaseInv' /\ ScanInv' /\ InsertInv'
  BY <1>1, <1>3, <1>4 DEF ChaseInv, ScanInv, InsertInv, EndFunction
<1>7. LayoutInv'
  <2>1. ASSUME NEW f \in Function, NEW k \in 1 .. Size(f), Needs(Body[f][k]), phase' = "insert"
        PROVE  RecordOf(f, k) \in allGuards'
    <3>1. f \in scanned' /\ RecordOf(f, k) \in GuardsOf(f, Size(f))
      BY <2>1 DEF EndFunction, GuardsOf
    <3>. QED BY <3>1, <1>3
  <2>2. \A f \in Function : Inserted(f) = {}
    BY NothingInserted DEF EndFunction
  <2>3. \A f \in Function : Inserted(f)' = {}
    BY <2>1 DEF Inserted, EndFunction
  <2>. QED BY <2>2, <2>3, SameLayout DEF EndFunction
<1>. QED BY <1>5, <1>6, <1>7

LEMMA CreateCallKeeps ==
  ASSUME IInv, NEW g \in allGuards, CreateCall(g)
  PROVE  IInv'
<1>. USE DEF IInv
<1>1. PICK f \in Function : g \in GuardsOf(f, Size(f))
  BY DEF InsertInv, CreateCall
<1>2. PICK k \in 1 .. Size(f) : g = RecordOf(f, k) /\ Needs(Body[f][k])
  BY <1>1 DEF GuardsOf
<1>3. g.function = f /\ g.id = k /\ g.guard = GuardOf(Body[f][k])
  BY <1>2 DEF RecordOf
<1>4. Inserted(f)' = Inserted(f) \cup {k} /\ k \notin Inserted(f)
  BY <1>2 DEF Inserted, CreateCall, RecordOf
<1>5. ASSUME NEW h \in Function, h # f PROVE Inserted(h)' = Inserted(h)
  BY <1>2, <1>5 DEF Inserted, CreateCall, RecordOf
<1>6. code \in [Function -> Seq(Coded)]
  BY DEF TypeOK, Coded
<1>7. PICK pos \in [0 .. Size(f) -> Nat] : Layout(f, code[f], pos, Inserted(f))
  BY DEF LayoutInv
<1>8. PlaceOf(code[f], k) = pos[k]
  <2>1. Inserted(f) \in SUBSET (1 .. Size(f))
    BY DEF Inserted
  <2>. QED BY <1>6, <1>7, <2>1, PlaceInLayout
<1> DEFINE d == InsertAt(code[f], pos[k], [id |-> k, inst |-> GuardOf(Body[f][k])])
<1>9. code' = [code EXCEPT ![f] = d]
  BY <1>3, <1>8 DEF CreateCall, InsertAt
<1>10. /\ d \in Seq(Coded)
       /\ \E q \in [0 .. Size(f) -> Nat] : Layout(f, d, q, Inserted(f) \cup {k})
  <2>1. Inserted(f) \in SUBSET (1 .. Size(f))
    BY DEF Inserted
  <2>2. IsAccess(Body[f][k])
    BY <1>2 DEF Needs
  <2>. QED BY <1>4, <1>6, <1>7, <2>1, <2>2, InsertInLayout
<1>. HIDE DEF d
<1>11. TypeOK'
  <2>1. code' \in [Function -> Seq(Coded)]
    BY <1>6, <1>9, <1>10
  <2>. QED BY <2>1 DEF TypeOK, Coded, CreateCall
<1>12. ChaseInv' /\ ScanInv' /\ InsertInv'
  BY DEF ChaseInv, ScanInv, InsertInv, CreateCall
<1>13. LayoutInv'
  <2>. SUFFICES ASSUME NEW h \in Function
                PROVE  \E q \in [0 .. Size(h) -> Nat] : Layout(h, code'[h], q, Inserted(h)')
    BY DEF LayoutInv
  <2>1. CASE h = f
    BY <2>1, <1>4, <1>6, <1>9, <1>10
  <2>2. CASE h # f
    <3>1. code'[h] = code[h] /\ Inserted(h)' = Inserted(h)
      BY <2>2, <1>5, <1>6, <1>9
    <3>. QED BY <3>1 DEF LayoutInv
  <2>. QED BY <2>1, <2>2
<1>. QED BY <1>11, <1>12, <1>13

LEMMA EndModuleKeeps == IInv /\ EndModule => IInv'
<1>. SUFFICES ASSUME IInv, EndModule PROVE IInv'
  OBVIOUS
<1>. USE DEF IInv
<1>1. TypeOK' /\ ChaseInv' /\ ScanInv' /\ InsertInv'
  BY DEF TypeOK, ChaseInv, ScanInv, InsertInv, EndModule
<1>2. \A f \in Function : Inserted(f)' = Inserted(f)
  BY DEF Inserted, EndModule
<1>. QED BY <1>1, <1>2, SameLayout DEF EndModule

LEMMA Step == IInv /\ [Next]_vars => IInv'
<1>. SUFFICES ASSUME IInv, [Next]_vars PROVE IInv'
  OBVIOUS
<1>1. CASE UNCHANGED vars
  <2>1. TypeOK' /\ ChaseInv' /\ ScanInv' /\ InsertInv'
    BY <1>1 DEF IInv, TypeOK, ChaseInv, ScanInv, InsertInv, Current, vars
  <2>2. \A f \in Function : Inserted(f)' = Inserted(f)
    BY <1>1 DEF Inserted, vars
  <2>. QED BY <1>1, <2>1, <2>2, SameLayout DEF IInv, vars
<1>2. CASE \E g \in allGuards : CreateCall(g)
  BY <1>2, CreateCallKeeps
<1>. QED
  BY <1>1, <1>2, ScanOtherKeeps, ScanAccessKeeps, GetInternalPointerKeeps, InsertGuardKeeps,
     EndFunctionKeeps, EndModuleKeeps DEF Next

LEMMA Invariance == Spec => []IInv
BY Start, Step, PTL DEF Spec
-----------------------------------------------------------------------------
(* The types of the pass: whatever the module, the scan stays within the   *)
(* functions and the guards within what the pass can make.                 *)
THEOREM TypeCorrectness == Spec => []TypeOK
BY Invariance, PTL DEF IInv

(* A layout is in the order of the source, each guard at its access. *)
LEMMA LayoutPrecedes == IInv => GuardPrecedesAccess
<1>. SUFFICES ASSUME IInv, NEW f \in Function
              PROVE  LET c == code[f] IN
                     /\ \A j, k \in DOMAIN c : j < k => c[j].id <= c[k].id
                     /\ \A k \in DOMAIN c :
                          c[k].inst.op = "guard" =>
                            /\ k + 1 \in DOMAIN c /\ c[k + 1].inst = Body[f][c[k].id]
                            /\ c[k].inst = GuardOf(c[k + 1].inst)
  BY DEF GuardPrecedesAccess
<1> DEFINE c == code[f]
           D == Inserted(f)
<1>1. c \in Seq(Coded) /\ DOMAIN c = 1 .. Len(c) /\ Len(c) \in Nat /\ Size(f) \in Nat
  <2>1. c \in Seq(Coded)
    BY DEF IInv, TypeOK, Coded
  <2>. HIDE DEF c
  <2>. QED BY <2>1, SourceFacts
<1>2. PICK pos \in [0 .. Size(f) -> Nat] : Layout(f, c, pos, D)
  BY DEF IInv, LayoutInv
<1>. HIDE DEF c, D
<1>3. ASSUME NEW k \in 1 .. Size(f)
      PROVE  /\ pos[k] \in 1 .. Len(c)
             /\ c[pos[k]].id = k /\ c[pos[k]].inst = Body[f][k]
  <2>1. pos[k] \in 1 .. Len(c) /\ c[pos[k]] = [id |-> k, inst |-> Body[f][k]]
    BY <1>2 DEF Layout
  <2>. QED BY <2>1
<1>4. ASSUME NEW i \in 1 .. Len(c)
      PROVE  \E k \in 1 .. Size(f) :
               /\ c[i].id = k
               /\ \/ i = pos[k] /\ c[i].inst = Body[f][k]
                  \/ i = pos[k] - 1 /\ i = pos[k - 1] + 1 /\ c[i].inst = GuardOf(Body[f][k])
  <2>1. PICK k \in 1 .. Size(f) : i = pos[k] \/ (k \in D /\ i = pos[k] - 1)
    BY <1>2 DEF Layout
  <2>2. CASE i = pos[k]
    BY <1>3, <2>2
  <2>3. CASE k \in D /\ i = pos[k] - 1
    <3>1. c[i] = [id |-> k, inst |-> GuardOf(Body[f][k])] /\ pos[k] = pos[k - 1] + 2
      BY <1>2, <2>3 DEF Layout
    <3>2. k - 1 \in 0 .. Size(f) /\ pos[k - 1] \in Nat
      BY <1>1
    <3>3. i = pos[k - 1] + 1
      BY <2>3, <3>1, <3>2
    <3>. QED BY <2>3, <3>1, <3>3
  <2>. QED BY <2>1, <2>2, <2>3
<1>5. ASSUME NEW i \in 1 .. Len(c), NEW j \in 1 .. Len(c), i < j PROVE c[i].id <= c[j].id
  <2>1. PICK k \in 1 .. Size(f) : c[i].id = k /\ (i = pos[k] \/ i = pos[k - 1] + 1)
    BY <1>4
  <2>2. PICK m \in 1 .. Size(f) : c[j].id = m /\ (j = pos[m] \/ j = pos[m] - 1)
    BY <1>4
  <2>3. ~ (m < k)
    <3>. SUFFICES ASSUME m < k PROVE FALSE
      OBVIOUS
    <3>1. m \in 0 .. Size(f) /\ k \in 0 .. Size(f) /\ k - 1 \in 0 .. Size(f)
      BY <1>1
    <3>2. pos[m] \in Nat /\ pos[k] \in Nat /\ pos[k - 1] \in Nat /\ pos[m] < pos[k]
      BY <1>2, <3>1 DEF Layout
    <3>3. m < k - 1 => pos[m] < pos[k - 1]
      BY <1>2, <3>1 DEF Layout
    <3>4. m = k - 1 \/ m < k - 1
      BY <3>1
    <3>. QED BY <1>5, <2>1, <2>2, <3>2, <3>3, <3>4
  <2>. QED BY <2>1, <2>2, <2>3
<1>6. ASSUME NEW i \in 1 .. Len(c), c[i].inst.op = "guard"
      PROVE  /\ i + 1 \in 1 .. Len(c) /\ c[i + 1].inst = Body[f][c[i].id]
             /\ c[i].inst = GuardOf(c[i + 1].inst)
  <2>1. PICK k \in 1 .. Size(f) :
          /\ c[i].id = k
          /\ \/ i = pos[k] /\ c[i].inst = Body[f][k]
             \/ i = pos[k] - 1 /\ c[i].inst = GuardOf(Body[f][k])
    BY <1>4
  <2>2. c[i].inst # Body[f][k]
    BY <1>6, SourceFacts
  <2>3. pos[k] \in Nat /\ pos[k] = i + 1
    BY <2>1, <2>2
  <2>4. pos[k] \in 1 .. Len(c) /\ c[pos[k]].inst = Body[f][k]
    BY <1>3
  <2>. QED BY <2>1, <2>2, <2>3, <2>4
<1>. QED BY <1>1, <1>5, <1>6 DEF c

(***************************************************************************)
(* runOnModule inserts the guards in the order of an unordered_map: after  *)
(* each insertion the instructions of the source still stand in their      *)
(* order, and each guard right before the access it was made for.          *)
(***************************************************************************)
THEOREM Precedence == Spec => []GuardPrecedesAccess
BY Invariance, LayoutPrecedes, PTL
-----------------------------------------------------------------------------
(* Appending one or two elements to a sequence given element by element.   *)
LEMMA AppendOne ==
  ASSUME NEW F, NEW m \in Nat
  PROVE  [i \in 1 .. m |-> F[i]] \o <<F[m + 1]>> = [i \in 1 .. m + 1 |-> F[i]]
OBVIOUS

LEMMA AppendTwo ==
  ASSUME NEW F, NEW m \in Nat
  PROVE  [i \in 1 .. m |-> F[i]] \o <<F[m + 1], F[m + 2]>> = [i \in 1 .. m + 2 |-> F[i]]
OBVIOUS

(* A function laid out with all the guards it needs is the compiled one.   *)
LEMMA LaidOut ==
  ASSUME NEW f \in Function, NEW c \in Seq(Coded), NEW pos \in [0 .. Size(f) -> Nat],
         Layout(f, c, pos, {k \in 1 .. Size(f) : Needs(Body[f][k])})
  PROVE  Instructions(c) = Compiled(f)
<1> DEFINE n == Size(f)
           p == Prefixes(f)
           F == Instructions(c)
           Code(m) == [i \in 1 .. m |-> F[i]]
           D == {k \in 1 .. n : Needs(Body[f][k])}
           S == {k \in 0 .. n : p[k] = Code(pos[k])}
<1>1. n \in Nat /\ Len(c) \in Nat
  BY SourceFacts
<1>2. p = [k \in 0 .. n |-> IF k = 0 THEN <<>> ELSE p[k - 1] \o Guarded(Body[f][k])]
  BY PrefixesEquation DEF Size
<1>. HIDE DEF p, F, D
<1>3. 0 \in S
  <2>1. p[0] = <<>> /\ pos[0] = 0
    BY <1>1, <1>2 DEF Layout
  <2>. QED BY <1>1, <2>1
<1>4. ASSUME NEW k \in 0 .. n - 1, k \in S PROVE k + 1 \in S
  <2> DEFINE i == Body[f][k + 1]
  <2>1. k + 1 \in 1 .. n /\ (k + 1) - 1 = k
    BY <1>1
  <2>2. p[k + 1] = Code(pos[k]) \o Guarded(i)
    <3>1. p[k] = Code(pos[k])
      BY <1>4
    <3>2. k + 1 \in 0 .. n /\ k + 1 # 0
      BY <2>1
    <3>3. p[k + 1] = p[(k + 1) - 1] \o Guarded(i)
      BY <1>2, <3>2, Zenon
    <3>. QED BY <2>1, <3>1, <3>3
  <2>3. /\ pos[k] \in Nat /\ pos[k + 1] \in 1 .. Len(c)
        /\ pos[k + 1] = pos[k] + IF Needs(i) THEN 2 ELSE 1
        /\ F[pos[k + 1]] = i
        /\ Needs(i) => F[pos[k] + 1] = GuardOf(i)
    <3>1. k \in 0 .. n /\ pos[k] \in Nat
      BY <1>1
    <3>2. /\ pos[k + 1] = pos[(k + 1) - 1] + IF k + 1 \in D THEN 2 ELSE 1
          /\ pos[k + 1] \in 1 .. Len(c)
          /\ c[pos[k + 1]] = [id |-> k + 1, inst |-> i]
          /\ k + 1 \in D => c[pos[k + 1] - 1] = [id |-> k + 1, inst |-> GuardOf(i)]
      BY <2>1 DEF Layout, D
    <3>3. k + 1 \in D <=> Needs(i)
      BY <2>1 DEF D
    <3>4. pos[k + 1] = pos[k] + IF Needs(i) THEN 2 ELSE 1
      BY <2>1, <3>2, <3>3
    <3>5. F[pos[k + 1]] = i
      BY <3>2 DEF F, Instructions
    <3>6. ASSUME Needs(i) PROVE F[pos[k] + 1] = GuardOf(i)
      <4>1. pos[k + 1] - 1 = pos[k] + 1 /\ pos[k] + 1 \in 1 .. Len(c)
        BY <1>1, <3>1, <3>2, <3>4, <3>6
      <4>2. c[pos[k] + 1].inst = GuardOf(i)
        BY <3>2, <3>3, <3>6, <4>1
      <4>. QED BY <4>1, <4>2 DEF F, Instructions
    <3>. QED BY <3>1, <3>2, <3>4, <3>5, <3>6
  <2>4. Code(pos[k]) \o Guarded(i) = Code(pos[k + 1])
    <3>1. CASE Needs(i)
      <4>1. Guarded(i) = <<F[pos[k] + 1], F[pos[k] + 2]>> /\ pos[k + 1] = pos[k] + 2
        BY <3>1, <2>3 DEF Guarded
      <4>. QED BY <4>1, <2>3, AppendTwo
    <3>2. CASE ~ Needs(i)
      <4>1. Guarded(i) = <<F[pos[k] + 1]>> /\ pos[k + 1] = pos[k] + 1
        BY <3>2, <2>3 DEF Guarded
      <4>. QED BY <4>1, <2>3, AppendOne
    <3>. QED BY <3>1, <3>2
  <2>5. p[k + 1] = Code(pos[k + 1])
    <3>. HIDE DEF Code
    <3>. QED BY <2>2, <2>4
  <2>6. k + 1 \in 0 .. n
    BY <2>1
  <2>. QED BY <2>5, <2>6
<1>5. n \in S
  <2>. HIDE DEF S
  <2>1. 0 .. n \subseteq S
    BY <1>1, <1>3, <1>4, Reaches
  <2>. QED BY <1>1, <2>1
<1>6. p[n] = Code(Len(c))
  BY <1>5 DEF Layout
<1>7. Code(Len(c)) = Instructions(c)
  BY <1>1 DEF F, Instructions
<1>. QED BY <1>6, <1>7 DEF Compiled, p, Size

(* At the end every guard recorded has been inserted. *)
LEMMA DoneAsIntended == IInv => GuardsInPlace
<1>. SUFFICES ASSUME IInv, phase = "done", NEW f \in Function
              PROVE  Instructions(code[f]) = Compiled(f)
  BY DEF GuardsInPlace
<1>1. Inserted(f) = {k \in 1 .. Size(f) : Needs(Body[f][k])}
  BY DEF IInv, InsertInv, Inserted
<1>2. PICK pos \in [0 .. Size(f) -> Nat] : Layout(f, code[f], pos, Inserted(f))
  BY DEF IInv, LayoutInv
<1>3. code[f] \in Seq(Coded)
  BY DEF IInv, TypeOK, Coded
<1>. QED BY <1>1, <1>2, <1>3, LaidOut

(***************************************************************************)
(* The compiled module is the intended one, whatever the order in which    *)
(* the functions were scanned and the guards inserted: every access that   *)
(* needs a guard has one, no other has, and nothing else has changed.      *)
(***************************************************************************)
THEOREM Intended == Spec => []GuardsInPlace
BY Invariance, DoneAsIntended, PTL
=============================================================================

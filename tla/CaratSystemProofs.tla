------------------------- MODULE CaratSystemProofs -------------------------
(***************************************************************************)
(* The policy module and the modules that it guards, in two parts.         *)
(*                                                                         *)
(* The policy module for any number of processes, guarded modules, trees   *)
(* and lists, and for lists of any length: the policy is always whole, a   *)
(* tree under construction is private, nobody is left inside a removed     *)
(* module, and the trees that guards and readers walk do not change.       *)
(* Hence the refinement: every step of it is a step of the register of     *)
(* whole policies, or none.  And what guards answer beside processes that  *)
(* replace the policy: what one whole list calls for, nothing for the last *)
(* address, and under the policy in five parts of user-space-app.c what    *)
(* its comments intend, in an address space of any size.                   *)
(*                                                                         *)
(* The composition, for any compiled modules, pointers and processes:      *)
(*   - whatever function the pass compiles, the guard of an access stands  *)
(*     right before it;                                                    *)
(*   - hence no access that needs a guard happens unasked;                 *)
(*   - the composition behaves as the policy module specifies, so that all *)
(*     of the first part applies to it;                                    *)
(*   - if a policy is written before the first client is loaded, no guard  *)
(*     ever faults.                                                        *)
(*                                                                         *)
(* The compiled function is defined by recursion on its length; the proof  *)
(* goes along its prefixes.                                                *)
(***************************************************************************)
EXTENDS CaratSystem, UserPolicies, TLAPS, WellFoundedInduction

(* No tree has content before it is allocated, and only allocated trees are in use. *)
HeapInv ==
  /\ \A t \in Root \ used : content[t] = {}
  /\ policy \in used \cup {Null}
  /\ \A p \in Process : root[p] \in used \cup {Null}
  /\ \A m \in Workload : map[m] \in used \cup {Null}

(* What the locals of a handler or a guard hold besides. *)
LocalsInv ==
  /\ \A p \in Process :
       /\ pc[p] \in {"user", "alloc"} => at[p] = 0
       /\ pc[p] \in {"alloc", "build"} => list[p] \in PolicyList \cup {Dangling}
       /\ pc[p] = "print" => root[p] # Null
  /\ \A m \in Workload : guard[m] = "search" => map[m] # Null

(* Position i is the first in s with its start address. *)
FirstAt(s, i) == \A h \in 1 .. i - 1 : s[h].addr # s[i].addr

(***************************************************************************)
(* Every start address read so far has its first region in the tree: the   *)
(* existence of a first position, carried along the loop of list_to_tree.  *)
(***************************************************************************)
ReadInv ==
  \A p \in Process : pc[p] = "build" =>
    \A j \in 1 .. at[p] : \E i \in 1 .. at[p] :
      FirstAt(list[p].nodes, i) /\ list[p].nodes[i].addr = list[p].nodes[j].addr

IInv == TypeOK /\ HeapInv /\ LocalsInv /\ TreesApart /\ ReadInv /\ PolicyIsWhole
        /\ NobodyInside

LEMMA ListFacts ==
  ASSUME NEW l \in PolicyList \cup {Dangling}
  PROVE  l \in List /\ l.nodes \in Seq(Region) /\ Len(l.nodes) \in Nat
<1>1. Dangling \in List
  BY DEF Dangling, List
<1>. QED BY <1>1, PolicyModuleAssumption DEF List

(***************************************************************************)
(* One iteration of list_to_tree: with the next region inserted the tree   *)
(* holds the first regions of one node more.                               *)
(***************************************************************************)
LEMMA InsertNext ==
  ASSUME NEW s \in Seq(Region), NEW k \in Nat, k < Len(s),
         \A j \in 1 .. k : \E i \in 1 .. k : FirstAt(s, i) /\ s[i].addr = s[j].addr
  PROVE  /\ WithRegion(FirstOfEach(s, k), s[k + 1]) = FirstOfEach(s, k + 1)
         /\ \A j \in 1 .. k + 1 : \E i \in 1 .. k + 1 :
              FirstAt(s, i) /\ s[i].addr = s[j].addr
<1>1. \A c \in Nat : FirstOfEach(s, c) = {s[i] : i \in {j \in 1 .. c : FirstAt(s, j)}}
  BY DEF FirstOfEach, FirstAt
<1>2. k + 1 \in Nat /\ 1 .. k + 1 = (1 .. k) \cup {k + 1}
  OBVIOUS
<1>3. CASE \E j \in 1 .. k : s[j].addr = s[k + 1].addr
  <2>1. ~ FirstAt(s, k + 1)
    BY <1>3 DEF FirstAt
  <2>2. FirstOfEach(s, k + 1) = FirstOfEach(s, k)
    BY <1>1, <1>2, <2>1
  <2>3. \E i \in 1 .. k : FirstAt(s, i) /\ s[i].addr = s[k + 1].addr
    BY <1>3
  <2>4. \E r \in FirstOfEach(s, k) : r.addr = s[k + 1].addr
    BY <1>1, <2>3
  <2>5. \A j \in 1 .. k + 1 : \E i \in 1 .. k + 1 : FirstAt(s, i) /\ s[i].addr = s[j].addr
    BY <1>2, <2>3
  <2>. QED BY <2>2, <2>4, <2>5 DEF WithRegion
<1>4. CASE \A j \in 1 .. k : s[j].addr # s[k + 1].addr
  <2>1. FirstAt(s, k + 1)
    BY <1>4 DEF FirstAt
  <2>2. FirstOfEach(s, k + 1) = FirstOfEach(s, k) \cup {s[k + 1]}
    BY <1>1, <1>2, <2>1
  <2>3. \A r \in FirstOfEach(s, k) : r.addr # s[k + 1].addr
    <3>1. \A r \in FirstOfEach(s, k) : \E i \in 1 .. k : r = s[i]
      BY <1>1
    <3>. QED BY <1>4, <3>1
  <2>4. \A j \in 1 .. k + 1 : \E i \in 1 .. k + 1 : FirstAt(s, i) /\ s[i].addr = s[j].addr
    BY <1>2, <2>1
  <2>. QED BY <2>2, <2>3, <2>4 DEF WithRegion
<1>. QED BY <1>3, <1>4

LEMMA EmptyTreeContent ==
  ASSUME NEW s PROVE FirstOfEach(s, 0) = {}
BY DEF FirstOfEach

LEMMA DanglingIsList ==
  Dangling \in List /\ Len(Dangling.nodes) = 0 /\ <<>> \in Seq(Region)
BY DEF Dangling, List

LEMMA InitIInv == Init => IInv
<1> SUFFICES ASSUME Init PROVE IInv
  OBVIOUS
<1>1. TypeOK
  <2>1. (CHOOSE a \in Access : TRUE) \in Access
    BY PolicyModuleAssumption
  <2>2. Dangling \in List /\ Len(Dangling.nodes) = 0 /\ <<>> \in Seq(Region)
    BY DanglingIsList
  <2>3. /\ content \in [Root -> SUBSET Region] /\ list \in [Process -> List]
        /\ at \in [Process -> Nat] /\ \A p \in Process : at[p] <= Len(list[p].nodes)
        /\ out \in [Process -> Seq(Region)] /\ access \in [Workload -> Access]
    BY <2>1, <2>2 DEF Init
  <2>4. /\ pc \in [Process -> {"user", "alloc", "build", "stored", "print", "dead"}]
        /\ file \in [Process -> {"closed", "start", "moved"}]
        /\ root \in [Process -> Root \cup {Null}]
        /\ reply \in [Process -> {"none", "done", "refused", "eof"}]
    BY DEF Init
  <2>5. /\ guard \in [Workload -> {"idle", "search", "dead"}]
        /\ map \in [Workload -> Root \cup {Null}]
        /\ verdict \in [Workload -> {"none", "nopolicy", "allowed", "disallowed"}]
    BY DEF Init
  <2>. QED BY <2>3, <2>4, <2>5 DEF Init, TypeOK
<1>. QED BY <1>1 DEF Init, IInv, HeapInv, LocalsInv, TreesApart, ReadInv, PolicyIsWhole,
                     NobodyInside

(***************************************************************************)
(* A step of a process that leaves every tree, and what others hold, as it *)
(* is keeps the invariant if it keeps what is said of this process.        *)
(***************************************************************************)
LEMMA OneProcess ==
  ASSUME IInv, NEW p \in Process, TypeOK',
         module = "absent" => pc'[p] = "user",
         UNCHANGED <<module, entry, policy, content, clients, guardVars>>,
         used \subseteq used',
         \A t \in used' \ used : content[t] = {},
         \A q \in Process \ {p} : /\ pc'[q] = pc[q] /\ list'[q] = list[q]
                                  /\ at'[q] = at[q] /\ root'[q] = root[q],
         root'[p] \in used' \cup {Null},
         pc'[p] # "build",
         pc'[p] \in {"user", "alloc"} => at'[p] = 0,
         pc'[p] = "alloc" => list'[p] \in PolicyList \cup {Dangling},
         pc'[p] = "print" => root'[p] # Null,
         \A q \in Process : pc[q] = "build" => root'[p] # root[q] \/ q = p
  PROVE  IInv'
<1>1. HeapInv'
  BY DEF IInv, HeapInv, guardVars
<1>2. LocalsInv'
  BY DEF IInv, LocalsInv, guardVars
<1>3. TreesApart'
  <2> SUFFICES ASSUME NEW q \in Process, pc'[q] = "build"
               PROVE  /\ root'[q] \in used' \ {policy'}
                      /\ \A o \in Process \ {q} : root'[o] # root'[q]
                      /\ \A m \in Workload : map'[m] # root'[q]
                      /\ content'[root'[q]] = FirstOfEach(list'[q].nodes, at'[q])
    BY DEF TreesApart
  <2>1. q # p /\ pc[q] = "build"
    OBVIOUS
  <2>2. /\ root[q] \in used \ {policy}
        /\ \A o \in Process \ {q} : root[o] # root[q]
        /\ \A m \in Workload : map[m] # root[q]
        /\ content[root[q]] = FirstOfEach(list[q].nodes, at[q])
    BY <2>1 DEF IInv, TreesApart
  <2>. QED BY <2>1, <2>2 DEF guardVars
<1>4. ReadInv'
  <2> SUFFICES ASSUME NEW q \in Process, pc'[q] = "build"
               PROVE  \A j \in 1 .. at'[q] : \E i \in 1 .. at'[q] :
                        /\ FirstAt(list'[q].nodes, i)
                        /\ list'[q].nodes[i].addr = list'[q].nodes[j].addr
    BY DEF ReadInv
  <2>1. pc[q] = "build" /\ list'[q] = list[q] /\ at'[q] = at[q]
    OBVIOUS
  <2>. QED BY <2>1 DEF IInv, ReadInv
<1>5. PolicyIsWhole'
  BY DEF IInv, PolicyIsWhole
<1>6. NobodyInside'
  BY DEF IInv, NobodyInside, guardVars
<1>. QED BY <1>1, <1>2, <1>3, <1>4, <1>5, <1>6 DEF IInv

(***************************************************************************)
(* Returns and faults: the locals of the thread are gone.                  *)
(***************************************************************************)
LEMMA LocalsGone ==
  ASSUME IInv, NEW p \in Process, NEW end \in {"user", "dead"},
         end = "dead" => module # "absent",
         pc' = [pc EXCEPT ![p] = end],
         list' = [list EXCEPT ![p] = Dangling],
         at' = [at EXCEPT ![p] = 0],
         root' = [root EXCEPT ![p] = Null],
         out' \in [Process -> Seq(Region)],
         reply' \in [Process -> {"none", "done", "refused", "eof"}],
         file' \in [Process -> {"closed", "start", "moved"}],
         UNCHANGED <<module, entry, policy, heapVars, clients, guardVars>>
  PROVE  IInv'
<1>1. /\ module' = module /\ entry' = entry /\ policy' = policy /\ content' = content
      /\ used' = used /\ clients' = clients /\ guard' = guard /\ access' = access
      /\ map' = map /\ verdict' = verdict
  BY DEF heapVars, guardVars
<1>2. TypeOK'
  <2>1. /\ pc' \in [Process -> {"user", "alloc", "build", "stored", "print", "dead"}]
        /\ list' \in [Process -> List] /\ at' \in [Process -> Nat]
        /\ root' \in [Process -> Root \cup {Null}]
    BY DanglingIsList DEF IInv, TypeOK
  <2>2. ASSUME NEW q \in Process PROVE at'[q] <= Len(list'[q].nodes)
    <3>1. CASE q = p
      <4>1. list'[q] = Dangling /\ at'[q] = 0
        BY <3>1 DEF IInv, TypeOK
      <4>2. Len(list'[q].nodes) = 0
        BY <4>1, DanglingIsList
      <4>. QED BY <4>1, <4>2
    <3>2. CASE q # p
      BY <3>2 DEF IInv, TypeOK
    <3>. QED BY <3>1, <3>2
  <2>. QED BY <1>1, <2>1, <2>2 DEF IInv, TypeOK
<1>3. \A q \in Process :
        IF q = p
        THEN pc'[q] = end /\ at'[q] = 0 /\ root'[q] = Null
        ELSE pc'[q] = pc[q] /\ list'[q] = list[q] /\ at'[q] = at[q] /\ root'[q] = root[q]
  BY DEF IInv, TypeOK
<1>4. module = "absent" => pc'[p] = "user"
  BY <1>3
<1>5. \A q \in Process : pc[q] = "build" => root'[p] # root[q] \/ q = p
  BY <1>3, PolicyModuleAssumption DEF IInv, TypeOK, TreesApart
<1>. QED BY <1>1, <1>2, <1>3, <1>4, <1>5, OneProcess DEF guardVars

LEMMA ReturnsIInv ==
  ASSUME IInv, NEW p \in Process,
         WriteRefused(p) \/ WriteReturn(p) \/ ReadRefused(p) \/ ReadReturn(p)
  PROVE  IInv'
<1>1. PICK r \in {"done", "refused", "eof"}, printed \in Seq(Region) :
        Leave(p, r, printed)
  <2>1. out[p] \in Seq(Region) /\ <<>> \in Seq(Region)
    BY DanglingIsList DEF IInv, TypeOK
  <2>. QED BY <2>1 DEF WriteRefused, WriteReturn, ReadRefused, ReadReturn
<1>2. file' \in [Process -> {"closed", "start", "moved"}]
  BY DEF IInv, TypeOK, WriteRefused, WriteReturn, ReadRefused, ReadReturn
<1>3. UNCHANGED <<module, entry, policy, heapVars, clients, guardVars>>
  BY DEF WriteRefused, WriteReturn, ReadRefused, ReadReturn
<1>4. /\ out' \in [Process -> Seq(Region)]
      /\ reply' \in [Process -> {"none", "done", "refused", "eof"}]
  BY <1>1 DEF IInv, TypeOK, Leave
<1>5. /\ pc' = [pc EXCEPT ![p] = "user"] /\ list' = [list EXCEPT ![p] = Dangling]
      /\ at' = [at EXCEPT ![p] = 0] /\ root' = [root EXCEPT ![p] = Null]
  BY <1>1 DEF Leave
<1>. QED BY <1>2, <1>3, <1>4, <1>5, LocalsGone

LEMMA FaultsIInv ==
  ASSUME IInv, NEW p \in Process,
         \/ NoMemoryForRoot(p) \/ NoMemoryForRegion(p) \/ BadPointer(p)
         \/ OutputFault(p) \/ PrintPastBuffer(p)
  PROVE  IInv'
<1>1. Die(p) /\ UNCHANGED <<module, entry, policy, heapVars, clients, file, guardVars>>
  BY DEF NoMemoryForRoot, NoMemoryForRegion, BadPointer, OutputFault, PrintPastBuffer
<1>2. module # "absent"
  BY DEF IInv, NobodyInside, NoMemoryForRoot, NoMemoryForRegion, BadPointer, OutputFault,
         PrintPastBuffer, MayCall
<1>3. /\ out' \in [Process -> Seq(Region)]
      /\ reply' \in [Process -> {"none", "done", "refused", "eof"}]
      /\ file' \in [Process -> {"closed", "start", "moved"}]
  BY <1>1, DanglingIsList DEF IInv, TypeOK, Die
<1>4. /\ pc' = [pc EXCEPT ![p] = "dead"] /\ list' = [list EXCEPT ![p] = Dangling]
      /\ at' = [at EXCEPT ![p] = 0] /\ root' = [root EXCEPT ![p] = Null]
  BY <1>1 DEF Die
<1>. QED BY <1>1, <1>2, <1>3, <1>4, LocalsGone

(***************************************************************************)
(* Loading, removing, opening and closing                                  *)
(***************************************************************************)
LEMMA LoadingIInv ==
  ASSUME IInv,
         \/ TestInit \/ TestExit \/ Removed
         \/ \E m \in Workload : LoadClient(m) \/ UnloadClient(m)
         \/ \E p \in Process : Open(p) \/ Close(p)
  PROVE  IInv'
<1>1. /\ UNCHANGED <<heapVars, pc, list, at, root, out, reply, guardVars>>
      /\ policy' \in {policy, Null}
  BY DEF TestInit, TestExit, Removed, LoadClient, UnloadClient, Open, Close, heapVars,
         guardVars, processVars
<1>2. TypeOK'
  <2>1. /\ module' \in {"absent", "live", "leaving"} /\ entry' \in BOOLEAN
        /\ clients' \in SUBSET Workload
        /\ file' \in [Process -> {"closed", "start", "moved"}]
    BY DEF IInv, TypeOK, TestInit, TestExit, Removed, LoadClient, UnloadClient, Open,
           Close, processVars
  <2>. QED BY <1>1, <2>1 DEF IInv, TypeOK, heapVars, guardVars
<1>3. HeapInv'
  BY <1>1 DEF IInv, HeapInv, heapVars, guardVars
<1>4. LocalsInv'
  BY <1>1 DEF IInv, LocalsInv, guardVars
<1>5. TreesApart'
  <2>. SUFFICES ASSUME NEW p \in Process, pc[p] = "build"
                PROVE  root[p] # policy'
    BY <1>1 DEF IInv, TreesApart, heapVars, guardVars
  <2>1. root[p] \in used \ {policy} /\ used \subseteq Root
    BY DEF IInv, TypeOK, TreesApart
  <2>. QED BY <1>1, <2>1, PolicyModuleAssumption
<1>6. ReadInv'
  BY <1>1 DEF IInv, ReadInv
<1>7. PolicyIsWhole'
  BY <1>1 DEF IInv, PolicyIsWhole, heapVars
<1>8. NobodyInside'
  BY DEF IInv, TypeOK, NobodyInside, TestInit, TestExit, Removed, LoadClient, UnloadClient,
         Open, Close, processVars, guardVars
<1>. QED BY <1>2, <1>3, <1>4, <1>5, <1>6, <1>7, <1>8 DEF IInv

LEMMA InputPolicyIInv ==
  ASSUME IInv, NEW p \in Process, NEW l \in PolicyList, InputPolicy(p, l)
  PROVE  IInv'
<1>1. PICK parsed \in {l, Dangling} : list' = [list EXCEPT ![p] = parsed]
  BY DEF InputPolicy
<1>2. parsed \in List /\ Len(parsed.nodes) \in Nat /\ parsed \in PolicyList \cup {Dangling}
  BY ListFacts
<1>3. /\ UNCHANGED <<module, entry, policy, content, used, clients, guardVars>>
      /\ file' = file /\ at' = at /\ root' = root
      /\ pc' = [pc EXCEPT ![p] = "alloc"] /\ pc[p] = "user" /\ entry
  BY DEF InputPolicy, MayCall, heapVars
<1>4. at[p] = 0 /\ module # "absent"
  BY <1>3 DEF IInv, LocalsInv, NobodyInside
<1>5. TypeOK'
  <2>1. ASSUME NEW q \in Process PROVE at'[q] <= Len(list'[q].nodes)
    BY <1>1, <1>2, <1>3, <1>4 DEF IInv, TypeOK
  <2>2. /\ pc' \in [Process -> {"user", "alloc", "build", "stored", "print", "dead"}]
        /\ list' \in [Process -> List] /\ out' \in [Process -> Seq(Region)]
        /\ reply' \in [Process -> {"none", "done", "refused", "eof"}]
    BY <1>1, <1>2, <1>3, DanglingIsList DEF IInv, TypeOK, InputPolicy
  <2>. QED BY <1>3, <2>1, <2>2 DEF IInv, TypeOK, guardVars
<1>6. \A q \in Process : /\ pc'[q] = IF q = p THEN "alloc" ELSE pc[q]
                         /\ list'[q] = IF q = p THEN parsed ELSE list[q]
  BY <1>1, <1>3 DEF IInv, TypeOK
<1>7. \A q \in Process : pc[q] = "build" => root'[p] # root[q] \/ q = p
  BY <1>3 DEF IInv, TreesApart
<1>. QED BY <1>2, <1>3, <1>4, <1>5, <1>6, <1>7, OneProcess DEF IInv, HeapInv

LEMMA OutputPolicyIInv ==
  ASSUME IInv, NEW p \in Process, OutputPolicy(p)
  PROVE  IInv'
<1>1. /\ UNCHANGED <<module, entry, policy, content, used, clients, guardVars>>
      /\ file' = file /\ at' = at /\ list' = list
      /\ pc' = [pc EXCEPT ![p] = "print"] /\ pc[p] = "user" /\ entry
      /\ root' = [root EXCEPT ![p] = policy] /\ policy # Null
  BY DEF OutputPolicy, MayCall, heapVars
<1>2. module # "absent"
  BY <1>1 DEF IInv, NobodyInside
<1>3. TypeOK'
  <2>1. /\ pc' \in [Process -> {"user", "alloc", "build", "stored", "print", "dead"}]
        /\ root' \in [Process -> Root \cup {Null}] /\ out' \in [Process -> Seq(Region)]
        /\ reply' \in [Process -> {"none", "done", "refused", "eof"}]
    BY <1>1, DanglingIsList DEF IInv, TypeOK, OutputPolicy
  <2>. QED BY <1>1, <2>1 DEF IInv, TypeOK, guardVars
<1>4. \A q \in Process : /\ pc'[q] = IF q = p THEN "print" ELSE pc[q]
                         /\ root'[q] = IF q = p THEN policy ELSE root[q]
  BY <1>1 DEF IInv, TypeOK
<1>5. \A q \in Process : pc[q] = "build" => root'[p] # root[q] \/ q = p
  BY <1>4 DEF IInv, TreesApart
<1>6. root'[p] \in used'
  BY <1>1, <1>4 DEF IInv, HeapInv
<1>. QED BY <1>1, <1>2, <1>3, <1>4, <1>5, <1>6, OneProcess

LEMMA PrintRegionIInv ==
  ASSUME IInv, NEW p \in Process, PrintRegion(p)
  PROVE  IInv'
<1>1. /\ UNCHANGED <<module, entry, policy, content, used, clients, guardVars>>
      /\ file' = file /\ at' = at /\ list' = list /\ pc' = pc /\ root' = root
      /\ reply' = reply /\ pc[p] = "print"
  BY DEF PrintRegion, heapVars
<1>2. PICK r \in Unprinted(p) : out' = [out EXCEPT ![p] = Append(@, r)]
  BY DEF PrintRegion
<1>3. r \in Region
  BY <1>1 DEF Unprinted, IInv, TypeOK, LocalsInv
<1>4. TypeOK'
  <2>1. out' \in [Process -> Seq(Region)]
    BY <1>2, <1>3 DEF IInv, TypeOK
  <2>. QED BY <1>1, <2>1 DEF IInv, TypeOK, guardVars
<1>5. module # "absent" /\ root[p] \in used
  BY <1>1 DEF IInv, NobodyInside, HeapInv, LocalsInv
<1>6. \A q \in Process : pc[q] = "build" => root'[p] # root[q] \/ q = p
  BY <1>1 DEF IInv, TreesApart
<1>. QED BY <1>1, <1>4, <1>5, <1>6, OneProcess DEF IInv, LocalsInv

LEMMA AllocRootIInv ==
  ASSUME IInv, NEW p \in Process, NEW t \in Root, AllocRoot(p, t)
  PROVE  IInv'
<1>1. /\ UNCHANGED <<module, entry, policy, content, clients, guardVars>>
      /\ file' = file /\ at' = at /\ list' = list /\ out' = out /\ reply' = reply
      /\ used' = used \cup {t} /\ t \notin used
      /\ pc' = [pc EXCEPT ![p] = "build"] /\ root' = [root EXCEPT ![p] = t]
      /\ pc[p] = "alloc"
  BY DEF AllocRoot
<1>2. \A q \in Process : /\ pc'[q] = IF q = p THEN "build" ELSE pc[q]
                         /\ root'[q] = IF q = p THEN t ELSE root[q]
  BY <1>1 DEF IInv, TypeOK
<1>3. at[p] = 0 /\ content[t] = {} /\ t # Null
  BY <1>1, PolicyModuleAssumption DEF IInv, LocalsInv, HeapInv
<1>4. TypeOK'
  BY <1>1 DEF IInv, TypeOK, guardVars
<1>5. HeapInv'
  BY <1>1, <1>2 DEF IInv, HeapInv, guardVars
<1>6. LocalsInv'
  BY <1>1, <1>2, <1>3 DEF IInv, LocalsInv, guardVars
<1>7. TreesApart'
  <2> SUFFICES ASSUME NEW q \in Process, pc'[q] = "build"
               PROVE  /\ root'[q] \in used' \ {policy'}
                      /\ \A o \in Process \ {q} : root'[o] # root'[q]
                      /\ \A m \in Workload : map'[m] # root'[q]
                      /\ content'[root'[q]] = FirstOfEach(list'[q].nodes, at'[q])
    BY DEF TreesApart
  <2>1. CASE q = p
    <3>1. content[t] = FirstOfEach(list[p].nodes, at[p])
      BY <1>3, EmptyTreeContent
    <3>. QED BY <1>1, <1>2, <1>3, <2>1, <3>1 DEF IInv, HeapInv, guardVars
  <2>2. CASE q # p
    <3>1. /\ root[q] \in used \ {policy}
          /\ \A o \in Process \ {q} : root[o] # root[q]
          /\ \A m \in Workload : map[m] # root[q]
          /\ content[root[q]] = FirstOfEach(list[q].nodes, at[q])
      BY <1>2, <2>2 DEF IInv, TreesApart
    <3>. QED BY <1>1, <1>2, <2>2, <3>1 DEF guardVars
  <2>. QED BY <2>1, <2>2
<1>8. ReadInv'
  <2> SUFFICES ASSUME NEW q \in Process, pc'[q] = "build"
               PROVE  \A j \in 1 .. at'[q] : \E i \in 1 .. at'[q] :
                        /\ FirstAt(list'[q].nodes, i)
                        /\ list'[q].nodes[i].addr = list'[q].nodes[j].addr
    BY DEF ReadInv
  <2>. QED BY <1>1, <1>2, <1>3 DEF IInv, ReadInv
<1>9. PolicyIsWhole'
  BY <1>1 DEF IInv, PolicyIsWhole
<1>10. NobodyInside'
  BY <1>1, <1>2 DEF IInv, NobodyInside, guardVars
<1>. QED BY <1>4, <1>5, <1>6, <1>7, <1>8, <1>9, <1>10 DEF IInv

LEMMA ListToTreeIInv ==
  ASSUME IInv, NEW p \in Process, ListToTree(p)
  PROVE  IInv' /\ \A t \in Root : t # root[p] => content'[t] = content[t]
<1> DEFINE s == list[p].nodes
           k == at[p]
<1>1. /\ UNCHANGED <<module, entry, policy, used, clients, guardVars>>
      /\ file' = file /\ list' = list /\ out' = out /\ reply' = reply /\ root' = root
      /\ pc' = pc /\ pc[p] = "build" /\ k # Len(s)
      /\ content' = [content EXCEPT ![root[p]] = WithRegion(@, s[k + 1])]
      /\ at' = [at EXCEPT ![p] = k + 1]
  BY DEF ListToTree, AtEnd
<1>2. /\ s \in Seq(Region) /\ k \in Nat /\ k < Len(s) /\ s[k + 1] \in Region
  <2>1. s \in Seq(Region) /\ k \in Nat /\ k <= Len(s)
    BY DEF IInv, TypeOK, List
  <2>. QED BY <1>1, <2>1
<1>3. /\ root[p] \in used \ {policy} /\ root[p] \in Root /\ used \subseteq Root
      /\ \A q \in Process \ {p} : root[q] # root[p]
      /\ \A m \in Workload : map[m] # root[p]
      /\ content[root[p]] = FirstOfEach(s, k)
  BY <1>1 DEF IInv, TypeOK, TreesApart
<1>4. \A j \in 1 .. k : \E i \in 1 .. k : FirstAt(s, i) /\ s[i].addr = s[j].addr
  BY <1>1 DEF IInv, ReadInv
<1> HIDE DEF s, k
<1>5. /\ WithRegion(FirstOfEach(s, k), s[k + 1]) = FirstOfEach(s, k + 1)
      /\ \A j \in 1 .. k + 1 : \E i \in 1 .. k + 1 : FirstAt(s, i) /\ s[i].addr = s[j].addr
  BY <1>2, <1>4, InsertNext
<1>6. /\ \A t \in Root : content'[t] = IF t = root[p] THEN FirstOfEach(s, k + 1)
                                                    ELSE content[t]
      /\ \A q \in Process : at'[q] = IF q = p THEN k + 1 ELSE at[q]
  BY <1>1, <1>3, <1>5 DEF IInv, TypeOK
<1>7. TypeOK'
  <2>1. content' \in [Root -> SUBSET Region]
    BY <1>1, <1>2, <1>3 DEF IInv, TypeOK, WithRegion
  <2>2. at' \in [Process -> Nat]
    BY <1>1, <1>2 DEF IInv, TypeOK
  <2>3. ASSUME NEW q \in Process PROVE at'[q] <= Len(list'[q].nodes)
    <3>1. CASE q = p
      BY <1>1, <1>2, <1>6, <3>1 DEF s
    <3>2. CASE q # p
      BY <1>1, <1>6, <3>2 DEF IInv, TypeOK
    <3>. QED BY <3>1, <3>2
  <2>. QED BY <1>1, <2>1, <2>2, <2>3 DEF IInv, TypeOK, guardVars
<1>8. HeapInv'
  BY <1>1, <1>3, <1>6 DEF IInv, HeapInv, guardVars
<1>9. LocalsInv'
  BY <1>1, <1>6 DEF IInv, LocalsInv, guardVars
<1>10. TreesApart'
  <2> SUFFICES ASSUME NEW q \in Process, pc[q] = "build"
               PROVE  /\ root[q] \in used \ {policy}
                      /\ \A o \in Process \ {q} : root[o] # root[q]
                      /\ \A m \in Workload : map[m] # root[q]
                      /\ content'[root[q]] = FirstOfEach(list[q].nodes, at'[q])
    BY <1>1 DEF TreesApart, guardVars
  <2>1. /\ root[q] \in used \ {policy}
        /\ \A o \in Process \ {q} : root[o] # root[q]
        /\ \A m \in Workload : map[m] # root[q]
        /\ content[root[q]] = FirstOfEach(list[q].nodes, at[q])
    BY DEF IInv, TreesApart
  <2>2. CASE q = p
    BY <1>3, <1>6, <2>1, <2>2 DEF s
  <2>3. CASE q # p
    BY <1>3, <1>6, <2>1, <2>3
  <2>. QED BY <2>2, <2>3
<1>11. ReadInv'
  <2> SUFFICES ASSUME NEW q \in Process, pc[q] = "build"
               PROVE  \A j \in 1 .. at'[q] : \E i \in 1 .. at'[q] :
                        /\ FirstAt(list[q].nodes, i)
                        /\ list[q].nodes[i].addr = list[q].nodes[j].addr
    BY <1>1 DEF ReadInv
  <2>1. CASE q = p
    BY <1>5, <1>6, <2>1 DEF s
  <2>2. CASE q # p
    BY <1>6, <2>2 DEF IInv, ReadInv
  <2>. QED BY <2>1, <2>2
<1>12. PolicyIsWhole'
  <2>1. policy # Null => policy \in Root /\ policy # root[p]
    BY <1>3 DEF IInv, TypeOK
  <2>. QED BY <1>1, <1>6, <2>1 DEF IInv, PolicyIsWhole
<1>13. NobodyInside'
  BY <1>1 DEF IInv, NobodyInside, guardVars
<1>. QED BY <1>6, <1>7, <1>8, <1>9, <1>10, <1>11, <1>12, <1>13 DEF IInv

LEMMA PublishIInv ==
  ASSUME IInv, NEW p \in Process, Publish(p)
  PROVE  IInv' /\ content[root[p]] = FirstOfEach(list[p].nodes, Len(list[p].nodes))
<1>1. /\ UNCHANGED <<module, entry, content, used, clients, guardVars>>
      /\ file' = file /\ at' = at /\ list' = list /\ out' = out /\ reply' = reply
      /\ root' = root /\ pc' = [pc EXCEPT ![p] = "stored"] /\ policy' = root[p]
      /\ pc[p] = "build" /\ at[p] = Len(list[p].nodes) /\ list[p].tail = "null"
  BY DEF Publish, AtEnd, heapVars
<1>2. \A q \in Process : pc'[q] = IF q = p THEN "stored" ELSE pc[q]
  BY <1>1 DEF IInv, TypeOK
<1>3. /\ root[p] \in used /\ root[p] \in Root
      /\ \A q \in Process \ {p} : root[q] # root[p]
      /\ content[root[p]] = FirstOfEach(list[p].nodes, Len(list[p].nodes))
  BY <1>1 DEF IInv, TypeOK, TreesApart
<1>4. TypeOK'
  BY <1>1, <1>3 DEF IInv, TypeOK, guardVars
<1>5. HeapInv'
  BY <1>1, <1>3 DEF IInv, HeapInv, guardVars
<1>6. LocalsInv'
  BY <1>1, <1>2 DEF IInv, LocalsInv, guardVars
<1>7. TreesApart'
  <2> SUFFICES ASSUME NEW q \in Process, pc'[q] = "build"
               PROVE  /\ root[q] \in used \ {root[p]}
                      /\ \A o \in Process \ {q} : root[o] # root[q]
                      /\ \A m \in Workload : map[m] # root[q]
                      /\ content[root[q]] = FirstOfEach(list[q].nodes, at[q])
    BY <1>1 DEF TreesApart, guardVars
  <2>. QED BY <1>2, <1>3 DEF IInv, TreesApart
<1>8. ReadInv'
  BY <1>1, <1>2 DEF IInv, ReadInv
<1>9. PolicyIsWhole'
  <2>1. list[p] \in PolicyList \cup {Dangling} /\ Dangling.tail = "bad"
    BY <1>1 DEF IInv, LocalsInv, Dangling
  <2>2. list[p] \in PolicyList
    BY <1>1, <2>1
  <2>. QED BY <1>1, <1>3, <2>2 DEF PolicyIsWhole
<1>10. NobodyInside'
  BY <1>1, <1>2 DEF IInv, NobodyInside, guardVars
<1>. QED BY <1>3, <1>4, <1>5, <1>6, <1>7, <1>8, <1>9, <1>10 DEF IInv

LEMMA GuardIInv ==
  ASSUME IInv, NEW m \in Workload,
         (\E a \in Access : TexasGuard(m, a)) \/ GuardReturn(m)
  PROVE  IInv'
<1>1. /\ UNCHANGED <<module, entry, policy, content, used, clients, processVars>>
  BY DEF TexasGuard, GuardReturn, heapVars
<1>2. /\ guard' \in [Workload -> {"idle", "search", "dead"}]
      /\ access' \in [Workload -> Access]
      /\ map' \in [Workload -> Root \cup {Null}]
      /\ verdict' \in [Workload -> {"none", "nopolicy", "allowed", "disallowed"}]
  <2>1. CASE \E a \in Access : TexasGuard(m, a)
    BY <2>1 DEF IInv, TypeOK, TexasGuard
  <2>2. CASE GuardReturn(m)
    <3>1. \A r, f : Logged(r, f) \in {"nopolicy", "allowed", "disallowed"}
      BY DEF Logged
    <3>. QED BY <2>2, <3>1 DEF IInv, TypeOK, GuardReturn
  <2>. QED BY <2>1, <2>2
<1>3. /\ \A o \in Workload \ {m} : guard'[o] = guard[o] /\ map'[o] = map[o]
      /\ map'[m] \in {policy, Null}
      /\ guard'[m] = "search" => map'[m] = policy /\ policy # Null
      /\ m \in clients \/ guard'[m] = "idle"
  BY DEF IInv, TypeOK, TexasGuard, GuardReturn
<1>4. TypeOK'
  BY <1>1, <1>2 DEF IInv, TypeOK, processVars
<1>5. HeapInv'
  BY <1>1, <1>3 DEF IInv, HeapInv, processVars
<1>6. LocalsInv'
  BY <1>1, <1>3 DEF IInv, LocalsInv, processVars
<1>7. TreesApart'
  <2> SUFFICES ASSUME NEW q \in Process, pc[q] = "build", NEW o \in Workload
               PROVE  map'[o] # root[q]
    BY <1>1 DEF IInv, TreesApart, processVars
  <2>1. root[q] \in used \ {policy} /\ map[o] # root[q] /\ root[q] # Null
    BY PolicyModuleAssumption DEF IInv, TreesApart, TypeOK
  <2>. QED BY <1>3, <2>1
<1>8. ReadInv'
  BY <1>1 DEF IInv, ReadInv, processVars
<1>9. PolicyIsWhole'
  BY <1>1 DEF IInv, PolicyIsWhole
<1>10. NobodyInside'
  BY <1>1, <1>3 DEF IInv, NobodyInside, processVars
<1>. QED BY <1>4, <1>5, <1>6, <1>7, <1>8, <1>9, <1>10 DEF IInv

-----------------------------------------------------------------------------
LEMMA NextIInv ==
  ASSUME IInv, Next
  PROVE  IInv'
<1>1. CASE TestInit \/ TestExit \/ Removed
  BY <1>1, LoadingIInv
<1>2. ASSUME NEW p \in Process, ProcessStep(p) PROVE IInv'
  <2>1. CASE Open(p) \/ Close(p)
    BY <2>1, LoadingIInv
  <2>2. CASE WriteRefused(p) \/ WriteReturn(p) \/ ReadRefused(p) \/ ReadReturn(p)
    BY <2>2, ReturnsIInv
  <2>3. CASE \/ NoMemoryForRoot(p) \/ NoMemoryForRegion(p) \/ BadPointer(p)
             \/ OutputFault(p) \/ PrintPastBuffer(p)
    BY <2>3, FaultsIInv
  <2>4. CASE \E l \in PolicyList : InputPolicy(p, l)
    BY <2>4, InputPolicyIInv
  <2>5. CASE \E t \in Root : AllocRoot(p, t)
    BY <2>5, AllocRootIInv
  <2>6. CASE ListToTree(p)
    BY <2>6, ListToTreeIInv
  <2>7. CASE Publish(p)
    BY <2>7, PublishIInv
  <2>8. CASE OutputPolicy(p) \/ PrintRegion(p)
    BY <2>8, OutputPolicyIInv, PrintRegionIInv
  <2>. QED BY <1>2, <2>1, <2>2, <2>3, <2>4, <2>5, <2>6, <2>7, <2>8
           DEF ProcessStep, HandlerStep
<1>3. ASSUME NEW m \in Workload, ClientStep(m) PROVE IInv'
  <2>1. CASE LoadClient(m) \/ UnloadClient(m)
    BY <2>1, LoadingIInv
  <2>2. CASE (\E a \in Access : TexasGuard(m, a)) \/ GuardReturn(m)
    BY <2>2, GuardIInv
  <2>. QED BY <1>3, <2>1, <2>2 DEF ClientStep
<1>. QED BY <1>1, <1>2, <1>3 DEF Next

LEMMA StutterIInv ==
  ASSUME IInv, UNCHANGED vars
  PROVE  IInv'
BY DEF IInv, TypeOK, HeapInv, LocalsInv, TreesApart, ReadInv, PolicyIsWhole, NobodyInside,
       vars, heapVars, processVars, guardVars

(* The parts of the invariant hold in every reachable state. *)
THEOREM Invariance == Spec => []IInv
BY InitIInv, NextIInv, StutterIInv, PTL DEF Spec

(***************************************************************************)
(* Every variable keeps its type; in particular list_to_tree never reads   *)
(* past the end of a list.                                                 *)
(***************************************************************************)
THEOREM TypeCorrectness == Spec => []TypeOK
<1>. IInv => TypeOK
  BY DEF IInv
<1>. QED BY Invariance, PTL

(***************************************************************************)
(* The policy in force is always the one a whole list describes, with any  *)
(* number of processes writing at once.                                    *)
(***************************************************************************)
THEOREM WholePolicies == Spec => []PolicyIsWhole
<1>. IInv => PolicyIsWhole
  BY DEF IInv
<1>. QED BY Invariance, PTL

(* No guard, reader or other writer ever holds a tree under construction. *)
THEOREM PrivateTrees == Spec => []TreesApart
<1>. IInv => TreesApart
  BY DEF IInv
<1>. QED BY Invariance, PTL

(* Nobody is inside carat-cop.ko when it has been removed. *)
THEOREM SafeRemoval == Spec => []NobodyInside
<1>. IInv => NobodyInside
  BY DEF IInv
<1>. QED BY Invariance, PTL

(***************************************************************************)
(* A step changes at most the tree of the process that takes it, and only  *)
(* if that process is building.                                            *)
(***************************************************************************)
LEMMA ContentKept ==
  ASSUME IInv, Next
  PROVE  content' = content \/
         \E p \in Process : ListToTree(p)
BY DEF Next, ProcessStep, HandlerStep, ClientStep, TestInit, TestExit, Removed, Open, Close,
       WriteRefused, WriteReturn, ReadRefused, ReadReturn, NoMemoryForRoot,
       NoMemoryForRegion, BadPointer, OutputFault, InputPolicy, AllocRoot, Publish,
       OutputPolicy, PrintRegion, PrintPastBuffer, LoadClient, UnloadClient, TexasGuard,
       GuardReturn, heapVars

LEMMA SnapshotStep ==
  ASSUME IInv, Next
  PROVE  /\ \A m \in Workload :
              guard[m] = "search" => content'[map[m]] = content[map[m]]
         /\ \A p \in Process :
              pc[p] = "print" => content'[root[p]] = content[root[p]]
<1>1. CASE content' = content
  BY <1>1
<1>2. ASSUME NEW q \in Process, ListToTree(q)
      PROVE  /\ \A m \in Workload :
                  guard[m] = "search" => content'[map[m]] = content[map[m]]
             /\ \A p \in Process :
                  pc[p] = "print" => content'[root[p]] = content[root[p]]
  <2>1. \A t \in Root : t # root[q] => content'[t] = content[t]
    BY <1>2, ListToTreeIInv
  <2>2. pc[q] = "build"
    BY <1>2 DEF ListToTree
  <2>3. \A m \in Workload : guard[m] = "search" => map[m] \in Root /\ map[m] # root[q]
    BY <2>2 DEF IInv, TypeOK, LocalsInv, TreesApart
  <2>4. \A p \in Process : pc[p] = "print" => root[p] \in Root /\ root[p] # root[q]
    BY <2>2 DEF IInv, TypeOK, LocalsInv, TreesApart
  <2>. QED BY <2>1, <2>3, <2>4
<1>. QED BY <1>1, <1>2, ContentKept

(***************************************************************************)
(* The tree that a guard searches or a reader prints does not change until *)
(* it has finished.                                                        *)
(***************************************************************************)
THEOREM Snapshots == Spec => SnapshotsHold
<1>1. IInv /\ [Next]_vars =>
        [/\ \A m \in Workload :
              guard[m] = "search" => content'[map[m]] = content[map[m]]
         /\ \A p \in Process :
              pc[p] = "print" => content'[root[p]] = content[root[p]]]_vars
  BY SnapshotStep
<1>. QED BY <1>1, Invariance, PTL DEF Spec, SnapshotsHold
-----------------------------------------------------------------------------
(***************************************************************************)
(* The policy module implements the register of whole policies: a write    *)
(* takes effect when it stores the pointer, a read and a guard when they   *)
(* load it.                                                                *)
(***************************************************************************)

(* insert_region refuses a second region with the same start address. *)
StartsDiffer ==
  \A t \in Root : \A r, s \in content[t] : r.addr = s.addr => r = s

(* A writer has printed nothing. *)
NothingPrinted ==
  \A p \in Process : pc[p] \in {"alloc", "build", "stored"} => out[p] = <<>>

RInv == IInv /\ StartsDiffer /\ OutputInOrder /\ NothingPrinted

LEMMA InitRInv == Init => RInv
BY InitIInv DEF Init, RInv, StartsDiffer, OutputInOrder, NothingPrinted

LEMMA StartsDifferStep ==
  ASSUME IInv, StartsDiffer, Next
  PROVE  StartsDiffer'
<1>1. CASE content' = content
  BY <1>1 DEF StartsDiffer
<1>2. ASSUME NEW p \in Process, ListToTree(p) PROVE StartsDiffer'
  <2>1. root[p] \in Root /\ content \in [Root -> SUBSET Region]
    BY <1>2, PolicyModuleAssumption DEF IInv, TypeOK, TreesApart, ListToTree
  <2>2. content' = [content EXCEPT ![root[p]] =
                      WithRegion(content[root[p]], list[p].nodes[at[p] + 1])]
    BY <1>2 DEF ListToTree
  <2>3. \A r, s \in WithRegion(content[root[p]], list[p].nodes[at[p] + 1]) :
          r.addr = s.addr => r = s
    BY <2>1 DEF StartsDiffer, WithRegion
  <2>. QED BY <2>1, <2>2, <2>3 DEF StartsDiffer
<1>. QED BY <1>1, <1>2, ContentKept

(***************************************************************************)
(* One iteration of output_policy's loop: the least region not yet printed *)
(* follows those printed.                                                  *)
(***************************************************************************)
LEMMA PrintStep ==
  ASSUME RInv, NEW p \in Process, PrintRegion(p)
  PROVE  OutputInOrder'
<1>1. /\ content' = content /\ root' = root /\ pc' = pc /\ pc[p] = "print"
  BY DEF PrintRegion, heapVars
<1>2. PICK r \in Unprinted(p) : /\ \A s \in Unprinted(p) : r.addr <= s.addr
                                /\ out' = [out EXCEPT ![p] = Append(@, r)]
  BY DEF PrintRegion
<1>3. /\ out \in [Process -> Seq(Region)] /\ root[p] \in Root
      /\ content[root[p]] \in SUBSET Region /\ r \in content[root[p]]
      /\ r \in Region
  BY <1>1 DEF RInv, IInv, TypeOK, LocalsInv, Unprinted
<1> DEFINE o == out[p]
           C == content[root[p]]
<1>4. /\ o \in Seq(Region) /\ Len(o) \in Nat /\ DOMAIN o = 1 .. Len(o)
      /\ out'[p] = Append(o, r) /\ DOMAIN Append(o, r) = 1 .. Len(o) + 1
      /\ \A i \in 1 .. Len(o) : Append(o, r)[i] = o[i] /\ o[i] \in Region
      /\ Append(o, r)[Len(o) + 1] = r
  BY <1>2, <1>3
<1>5. /\ \A i, j \in 1 .. Len(o) : i < j => o[i].addr < o[j].addr
      /\ C \ Unprinted(p) = {o[i] : i \in 1 .. Len(o)}
      /\ \A i \in 1 .. Len(o) : o[i].addr < r.addr
      /\ \A s \in C : r.addr = s.addr => r = s
  BY <1>1, <1>2, <1>3, <1>4 DEF RInv, OutputInOrder, StartsDiffer, Unprinted
<1>6. /\ \A s \in Region : s.addr \in Int
      /\ Unprinted(p) = {s \in C : \A i \in 1 .. Len(o) : o[i].addr < s.addr}
      /\ Unprinted(p)' = {s \in C : \A i \in 1 .. Len(o) + 1 : Append(o, r)[i].addr < s.addr}
  BY <1>1, <1>4 DEF Unprinted, Region, Address
<1>7. C \in SUBSET Region /\ r \in C
  BY <1>3
<1> HIDE DEF o, C
<1>8. \A i, j \in 1 .. Len(o) + 1 : i < j => Append(o, r)[i].addr < Append(o, r)[j].addr
  <2> SUFFICES ASSUME NEW i \in 1 .. Len(o) + 1, NEW j \in 1 .. Len(o) + 1, i < j
               PROVE  Append(o, r)[i].addr < Append(o, r)[j].addr
    OBVIOUS
  <2>1. i \in 1 .. Len(o)
    BY <1>4
  <2>2. CASE j \in 1 .. Len(o)
    BY <1>4, <1>5, <2>1, <2>2
  <2>3. CASE j = Len(o) + 1
    BY <1>4, <1>5, <2>1, <2>3
  <2>. QED BY <1>4, <2>2, <2>3
<1>9. C \ Unprinted(p)' = {Append(o, r)[i] : i \in 1 .. Len(o) + 1}
  <2>1. ASSUME NEW s \in C
        PROVE  s \in Unprinted(p)' <=> s \in Unprinted(p) /\ s # r
    <3>1. s \in Unprinted(p)' <=> s \in Unprinted(p) /\ r.addr < s.addr
      BY <1>4, <1>6
    <3>2. s \in Unprinted(p) => r.addr <= s.addr
      BY <1>2
    <3>3. s.addr \in Int /\ r.addr \in Int
      BY <1>6, <1>7
    <3>. QED BY <1>5, <3>1, <3>2, <3>3
  <2>2. C \ Unprinted(p)' = (C \ Unprinted(p)) \cup {r}
    BY <1>7, <2>1
  <2>3. {Append(o, r)[i] : i \in 1 .. Len(o) + 1} = {o[i] : i \in 1 .. Len(o)} \cup {r}
    BY <1>4
  <2>. QED BY <1>5, <2>2, <2>3
<1>10. ASSUME NEW q \in Process, pc[q] = "print", q # p
       PROVE  out'[q] = out[q] /\ Unprinted(q)' = Unprinted(q)
  BY <1>1, <1>2, <1>3, <1>10 DEF Unprinted
<1> SUFFICES ASSUME NEW q \in Process, pc[q] = "print"
             PROVE  /\ \A i, j \in DOMAIN out'[q] : i < j => out'[q][i].addr < out'[q][j].addr
                    /\ content[root[q]] \ Unprinted(q)' = {out'[q][i] : i \in DOMAIN out'[q]}
  BY <1>1 DEF OutputInOrder
<1>11. CASE q = p
  <2>1. /\ \A i, j \in DOMAIN out'[p] : i < j => out'[p][i].addr < out'[p][j].addr
        /\ C \ Unprinted(p)' = {out'[p][i] : i \in DOMAIN out'[p]}
    BY <1>4, <1>8, <1>9
  <2>2. /\ \A i, j \in DOMAIN out'[p] : i < j => out'[p][i].addr < out'[p][j].addr
        /\ content[root[p]] \ Unprinted(p)' = {out'[p][i] : i \in DOMAIN out'[p]}
    BY <2>1 DEF C
  <2>. QED BY <1>11, <2>2
<1>12. CASE q # p
  BY <1>10, <1>12 DEF RInv, OutputInOrder
<1>. QED BY <1>11, <1>12

LEMMA OutputInOrderStep ==
  ASSUME RInv, Next
  PROVE  OutputInOrder'
<1>1. ASSUME NEW p \in Process, PrintRegion(p) PROVE OutputInOrder'
  BY <1>1, PrintStep
<1>2. ASSUME NEW p \in Process, OutputPolicy(p) PROVE OutputInOrder'
  <2> SUFFICES ASSUME NEW q \in Process, pc'[q] = "print"
               PROVE  /\ \A i, j \in DOMAIN out'[q] :
                           i < j => out'[q][i].addr < out'[q][j].addr
                      /\ content'[root'[q]] \ Unprinted(q)' = {out'[q][i] : i \in DOMAIN out'[q]}
    BY DEF OutputInOrder
  <2>1. CASE q = p
    <3>1. out'[p] = <<>> /\ DOMAIN out'[p] = {}
      BY <1>2 DEF OutputPolicy, RInv, IInv, TypeOK
    <3>2. Unprinted(p)' = content'[root'[p]]
      BY <3>1 DEF Unprinted
    <3>. QED BY <2>1, <3>1, <3>2
  <2>2. CASE q # p
    <3>1. /\ pc[q] = "print" /\ out'[q] = out[q] /\ root'[q] = root[q]
          /\ content' = content
      BY <1>2, <2>2 DEF OutputPolicy, RInv, IInv, TypeOK, heapVars
    <3>2. Unprinted(q)' = Unprinted(q)
      BY <3>1 DEF Unprinted
    <3>. QED BY <3>1, <3>2 DEF RInv, OutputInOrder
  <2>. QED BY <2>1, <2>2
<1>3. CASE /\ \A p \in Process : ~ PrintRegion(p) /\ ~ OutputPolicy(p)
  <2>1. \A q \in Process : pc'[q] = "print" =>
          pc[q] = "print" /\ out'[q] = out[q] /\ root'[q] = root[q]
    BY <1>3 DEF RInv, IInv, TypeOK, Next, ProcessStep, HandlerStep, ClientStep, TestInit,
       TestExit, Removed, Open, Close, WriteRefused, WriteReturn, ReadRefused, ReadReturn,
       NoMemoryForRoot, NoMemoryForRegion, BadPointer, OutputFault, PrintPastBuffer,
       InputPolicy, AllocRoot,
       ListToTree, Publish, LoadClient, UnloadClient, TexasGuard, GuardReturn, Leave, Die,
       processVars
  <2>2. \A q \in Process : pc[q] = "print" => content'[root[q]] = content[root[q]]
    BY SnapshotStep DEF RInv
  <2>3. ASSUME NEW q \in Process, pc'[q] = "print"
        PROVE  Unprinted(q)' = Unprinted(q)
    BY <2>1, <2>2, <2>3 DEF Unprinted
  <2>. QED BY <2>1, <2>2, <2>3 DEF RInv, OutputInOrder
<1>. QED BY <1>1, <1>2, <1>3

LEMMA NothingPrintedStep ==
  ASSUME RInv, Next
  PROVE  NothingPrinted'
<1> SUFFICES ASSUME NEW q \in Process, pc'[q] \in {"alloc", "build", "stored"}
             PROVE  out'[q] = <<>>
  BY DEF NothingPrinted
<1> USE DEF RInv, IInv, TypeOK, NothingPrinted
<1>1. CASE \E p \in Process, l \in PolicyList : InputPolicy(p, l)
  BY <1>1 DEF InputPolicy
<1>2. CASE \E p \in Process : PrintRegion(p) \/ OutputPolicy(p)
  BY <1>2 DEF PrintRegion, OutputPolicy
<1>3. CASE \E p \in Process : \/ Leave(p, "done", out[p]) \/ Leave(p, "done", <<>>)
                               \/ Leave(p, "refused", <<>>) \/ Leave(p, "eof", <<>>)
                               \/ Die(p)
  BY <1>3 DEF Leave, Die
<1>4. CASE out' = out /\ pc' = pc
  BY <1>4
<1>5. CASE \E p \in Process : Publish(p) \/ \E t \in Root : AllocRoot(p, t)
  BY <1>5 DEF Publish, AllocRoot
<1>. QED BY <1>1, <1>2, <1>3, <1>4, <1>5 DEF Next, ProcessStep, HandlerStep, ClientStep,
       TestInit, TestExit, Removed, Open, Close, WriteRefused, WriteReturn, ReadRefused,
       ReadReturn, NoMemoryForRoot, NoMemoryForRegion, BadPointer, OutputFault,
       PrintPastBuffer, ListToTree,
       LoadClient, UnloadClient, TexasGuard, GuardReturn, processVars

LEMMA NextRInv ==
  ASSUME RInv, [Next]_vars
  PROVE  RInv'
<1>1. CASE Next
  BY <1>1, NextIInv, StartsDifferStep, OutputInOrderStep, NothingPrintedStep DEF RInv
<1>2. CASE UNCHANGED vars
  BY <1>2, StutterIInv DEF RInv, StartsDiffer, OutputInOrder, NothingPrinted, Unprinted,
     vars, heapVars, processVars
<1>. QED BY <1>1, <1>2

-----------------------------------------------------------------------------
LEMMA StoreInit == Init => Store!Init
<1> SUFFICES ASSUME Init PROVE Store!Init
  OBVIOUS
<1>1. /\ Doing = [p \in Process |-> "none"] /\ Subject = [p \in Process |-> {}]
      /\ Result = [p \in Process |-> <<>>]
  BY DEF Init, Doing, Subject, Result, Building
<1>2. Searched = [m \in Workload |-> {}] /\ Register = {}
  BY DEF Init, Searched, Register
<1>3. policy = Null /\ access \in [Workload -> Access]
  BY InitIInv DEF Init, IInv, TypeOK
<1>. QED BY <1>1, <1>2, <1>3 DEF Init, Store!Init

(* Nobody builds in the tree in force. *)
LEMMA PolicyKept ==
  ASSUME IInv, Next, policy # Null
  PROVE  content'[policy] = content[policy]
<1>1. CASE content' = content
  BY <1>1
<1>2. ASSUME NEW p \in Process, ListToTree(p) PROVE content'[policy] = content[policy]
  <2>1. policy \in Root /\ policy # root[p]
    BY <1>2 DEF IInv, TypeOK, TreesApart, ListToTree
  <2>. QED BY <1>2, <2>1, ListToTreeIInv
<1>. QED BY <1>1, <1>2, ContentKept

(***************************************************************************)
(* What a step leaves alone of the register's state if it changes no       *)
(* pointer that others follow.                                             *)
(***************************************************************************)
LEMMA RegisterKept ==
  ASSUME IInv, Next, policy' = policy
  PROVE  Register' = Register
BY PolicyKept DEF Register

LEMMA SearchedKept ==
  ASSUME IInv, Next, UNCHANGED guardVars
  PROVE  Searched' = Searched
<1>1. guard' = guard /\ map' = map
  BY DEF guardVars
<1>. QED BY <1>1, SnapshotStep DEF Searched

(* The state of the register. *)
Mapped == <<policy # Null, Register, Doing, Subject, Result, reply, guard, access, Searched,
            verdict>>

LEMMA Unseen ==
  ASSUME RInv, Next,
         policy' = policy, guardVars' = guardVars, list' = list, reply' = reply,
         \A p \in Process : pc'[p] = pc[p] \/ (pc[p] = "alloc" /\ pc'[p] = "build"),
         \A p \in Process : pc[p] = "print" => root'[p] = root[p],
         \A p \in Process : pc[p] = "print" \/ out'[p] = out[p]
  PROVE  Mapped' = Mapped
<1>1. \A p \in Process : pc[p] = "print" => content'[root[p]] = content[root[p]]
  BY SnapshotStep DEF RInv
<1>2. Register' = Register /\ Searched' = Searched
  BY RegisterKept, SearchedKept DEF RInv
<1>3. Doing' = Doing
  BY DEF Doing, Building
<1>4. Subject' = Subject
  BY <1>1 DEF Subject, Building
<1>5. Result' = Result
  BY DEF Result
<1>. QED BY <1>2, <1>3, <1>4, <1>5 DEF Mapped, guardVars

(* Steps that neither begin nor end a call, and do not replace the policy. *)
LEMMA StepsUnseen ==
  ASSUME RInv, Next
  PROVE  /\ TestInit \/ TestExit => Mapped' = Mapped
         /\ \A m \in Workload : LoadClient(m) \/ UnloadClient(m) => Mapped' = Mapped
         /\ \A p \in Process :
              Open(p) \/ Close(p) \/ ListToTree(p) \/ PrintRegion(p) => Mapped' = Mapped
         /\ \A p \in Process, t \in Root : AllocRoot(p, t) => Mapped' = Mapped
<1>1. ASSUME policy' = policy, guardVars' = guardVars, list' = list, reply' = reply,
             pc' = pc, root' = root, out' = out
      PROVE  Mapped' = Mapped
  <2>1. /\ \A p \in Process : pc'[p] = pc[p] \/ (pc[p] = "alloc" /\ pc'[p] = "build")
        /\ \A p \in Process : pc[p] = "print" => root'[p] = root[p]
        /\ \A p \in Process : pc[p] = "print" \/ out'[p] = out[p]
    BY <1>1
  <2>. QED BY <1>1, <2>1, Unseen
<1>2. ASSUME NEW p \in Process, PrintRegion(p) PROVE Mapped' = Mapped
  <2>1. /\ policy' = policy /\ guardVars' = guardVars /\ list' = list /\ reply' = reply
        /\ pc' = pc /\ root' = root /\ pc[p] = "print"
        /\ \A q \in Process : q # p => out'[q] = out[q]
    BY <1>2 DEF PrintRegion, RInv, IInv, TypeOK
  <2>2. /\ \A q \in Process : pc'[q] = pc[q] \/ (pc[q] = "alloc" /\ pc'[q] = "build")
        /\ \A q \in Process : pc[q] = "print" => root'[q] = root[q]
        /\ \A q \in Process : pc[q] = "print" \/ out'[q] = out[q]
    BY <2>1
  <2>. QED BY <2>1, <2>2, Unseen
<1>3. ASSUME NEW p \in Process, NEW t \in Root, AllocRoot(p, t) PROVE Mapped' = Mapped
  <2>1. /\ policy' = policy /\ guardVars' = guardVars /\ list' = list /\ reply' = reply
        /\ out' = out
        /\ \A q \in Process : q # p => pc'[q] = pc[q] /\ root'[q] = root[q]
        /\ pc[p] = "alloc" /\ pc'[p] = "build"
    BY <1>3 DEF AllocRoot, RInv, IInv, TypeOK
  <2>2. /\ \A q \in Process : pc'[q] = pc[q] \/ (pc[q] = "alloc" /\ pc'[q] = "build")
        /\ \A q \in Process : pc[q] = "print" => root'[q] = root[q]
        /\ \A q \in Process : pc[q] = "print" \/ out'[q] = out[q]
    BY <2>1
  <2>. QED BY <2>1, <2>2, Unseen
<1>4. TestInit \/ TestExit => Mapped' = Mapped
  BY <1>1 DEF TestInit, TestExit, processVars
<1>5. \A m \in Workload : LoadClient(m) \/ UnloadClient(m) => Mapped' = Mapped
  BY <1>1 DEF LoadClient, UnloadClient, processVars
<1>6. \A p \in Process : Open(p) \/ Close(p) \/ ListToTree(p) => Mapped' = Mapped
  BY <1>1 DEF Open, Close, ListToTree
<1>. QED BY <1>2, <1>3, <1>4, <1>5, <1>6

(***************************************************************************)
(* A step of process p takes it from one call, or one half of a call, to   *)
(* the next; the rest of the register's state stays.                       *)
(***************************************************************************)
Does(p, what, subject, result) ==
  /\ Doing' = [Doing EXCEPT ![p] = what]
  /\ Subject' = [Subject EXCEPT ![p] = subject]
  /\ Result' = [Result EXCEPT ![p] = result]
  /\ UNCHANGED <<guard, access, Searched, verdict>>
  /\ policy' = policy => Register' = Register

LEMMA OneDoes ==
  ASSUME RInv, Next, NEW p \in Process,
         UNCHANGED guardVars,
         \A q \in Process \ {p} :
           /\ pc'[q] = pc[q] /\ list'[q] = list[q] /\ root'[q] = root[q]
           /\ out'[q] = out[q]
  PROVE  Does(p, Doing'[p], Subject'[p], Result'[p])
<1>1. \A q \in Process : pc[q] = "print" => content'[root[q]] = content[root[q]]
  BY SnapshotStep DEF RInv
<1>2. \A q \in Process \ {p} :
        Doing'[q] = Doing[q] /\ Subject'[q] = Subject[q] /\ Result'[q] = Result[q]
  BY <1>1 DEF Doing, Subject, Result, Building
<1>3. /\ Doing' = [q \in Process |-> Doing'[q]] /\ Doing = [q \in Process |-> Doing[q]]
      /\ Subject' = [q \in Process |-> Subject'[q]]
      /\ Subject = [q \in Process |-> Subject[q]]
      /\ Result' = [q \in Process |-> Result'[q]] /\ Result = [q \in Process |-> Result[q]]
  BY DEF Doing, Subject, Result
<1>4. Searched' = Searched /\ (policy' = policy => Register' = Register)
  BY RegisterKept, SearchedKept DEF RInv
<1>5. UNCHANGED <<guard, access, verdict>>
  BY DEF guardVars
<1>. QED BY <1>2, <1>3, <1>4, <1>5 DEF Does

(* Setting an entry to what it is changes nothing. *)
LEMMA SameEntry ==
  ASSUME NEW p \in Process
  PROVE  /\ [Doing EXCEPT ![p] = Doing[p]] = Doing
         /\ [Subject EXCEPT ![p] = Subject[p]] = Subject
         /\ [Result EXCEPT ![p] = Result[p]] = Result
BY DEF Doing, Subject, Result

(* A return and a fault leave nothing of the call. *)
LEMMA LeaveDoes ==
  ASSUME RInv, Next, NEW p \in Process, NEW r, NEW printed, Leave(p, r, printed),
         UNCHANGED guardVars
  PROVE  Does(p, "none", {}, printed) /\ reply' = [reply EXCEPT ![p] = r]
<1>1. /\ pc'[p] = "user" /\ out'[p] = printed
      /\ \A q \in Process \ {p} :
           /\ pc'[q] = pc[q] /\ list'[q] = list[q] /\ root'[q] = root[q]
           /\ out'[q] = out[q]
  BY DEF Leave, RInv, IInv, TypeOK
<1>2. Doing'[p] = "none" /\ Subject'[p] = {} /\ Result'[p] = printed
  BY <1>1 DEF Doing, Subject, Result, Building
<1>3. Does(p, Doing'[p], Subject'[p], Result'[p])
  BY <1>1, OneDoes
<1>. QED BY <1>2, <1>3 DEF Leave

LEMMA DieDoes ==
  ASSUME RInv, Next, NEW p \in Process, Die(p), UNCHANGED guardVars
  PROVE  Does(p, "dead", {}, <<>>) /\ reply' = [reply EXCEPT ![p] = "none"]
<1>1. /\ pc'[p] = "dead" /\ out'[p] = <<>>
      /\ \A q \in Process \ {p} :
           /\ pc'[q] = pc[q] /\ list'[q] = list[q] /\ root'[q] = root[q]
           /\ out'[q] = out[q]
  BY DEF Die, RInv, IInv, TypeOK
<1>2. Doing'[p] = "dead" /\ Subject'[p] = {} /\ Result'[p] = <<>>
  BY <1>1 DEF Doing, Subject, Result, Building
<1>3. Does(p, Doing'[p], Subject'[p], Result'[p])
  BY <1>1, OneDoes
<1>. QED BY <1>2, <1>3 DEF Die
-----------------------------------------------------------------------------
(* One lemma per operation of the register. *)
LEMMA Refuses ==
  ASSUME RInv, Next, NEW p \in Process, WriteRefused(p) \/ ReadRefused(p)
  PROVE  Store!Refuse(p)
<1>1. PICK r \in {"refused", "eof"} : Leave(p, r, <<>>)
  BY DEF WriteRefused, ReadRefused
<1>2. pc[p] = "user" /\ policy' = policy /\ UNCHANGED guardVars
  BY DEF WriteRefused, ReadRefused, MayCall
<1>3. Does(p, "none", {}, <<>>) /\ reply' = [reply EXCEPT ![p] = r]
  BY <1>1, <1>2, LeaveDoes
<1>4. Doing[p] = "none" /\ Subject[p] = {}
  BY <1>2 DEF Doing, Subject, Building
<1>. QED BY <1>2, <1>3, <1>4, SameEntry DEF Does, Store!Refuse, Store!workload

LEMMA BeginsWrite ==
  ASSUME RInv, Next, NEW p \in Process, NEW l \in PolicyList, InputPolicy(p, l)
  PROVE  \E parsed \in PolicyList \cup {Dangling} : Store!WriteBegin(p, parsed)
<1>1. PICK parsed \in {l, Dangling} : list' = [list EXCEPT ![p] = parsed]
  BY DEF InputPolicy
<1>2. /\ pc[p] = "user" /\ pc'[p] = "alloc" /\ list'[p] = parsed /\ out'[p] = <<>>
      /\ policy' = policy /\ UNCHANGED guardVars
      /\ reply' = [reply EXCEPT ![p] = "none"]
      /\ \A q \in Process \ {p} :
           /\ pc'[q] = pc[q] /\ list'[q] = list[q] /\ root'[q] = root[q]
           /\ out'[q] = out[q]
  BY <1>1 DEF InputPolicy, MayCall, RInv, IInv, TypeOK
<1>3. Does(p, Doing'[p], Subject'[p], Result'[p])
  BY <1>2, OneDoes
<1>4. /\ Doing[p] = "none"
      /\ Doing'[p] = IF parsed.tail = "null" THEN "write" ELSE "doomed"
      /\ Subject'[p] = FirstOfEach(parsed.nodes, Len(parsed.nodes))
      /\ Result'[p] = <<>>
  BY <1>2 DEF Doing, Subject, Result, Building
<1>5. Store!WriteBegin(p, parsed)
  BY <1>2, <1>3, <1>4 DEF Does, Store!WriteBegin, Store!Step, Store!workload,
     FirstOfEach, Store!FirstOfEach
<1>. QED BY <1>5

LEMMA TakesWrite ==
  ASSUME RInv, Next, NEW p \in Process, Publish(p)
  PROVE  Store!WriteTake(p)
<1>1. /\ pc[p] = "build" /\ list[p].tail = "null" /\ at[p] = Len(list[p].nodes)
      /\ pc'[p] = "stored" /\ policy' = root[p] /\ content' = content
      /\ out' = out /\ reply' = reply /\ UNCHANGED guardVars
      /\ \A q \in Process \ {p} :
           /\ pc'[q] = pc[q] /\ list'[q] = list[q] /\ root'[q] = root[q]
           /\ out'[q] = out[q]
  BY DEF Publish, AtEnd, RInv, IInv, TypeOK, heapVars
<1>2. /\ root[p] \in Root /\ root[p] # Null
      /\ content[root[p]] = FirstOfEach(list[p].nodes, Len(list[p].nodes))
  BY <1>1, PolicyModuleAssumption DEF RInv, IInv, TypeOK, TreesApart
<1>3. Does(p, Doing'[p], Subject'[p], Result'[p])
  BY <1>1, OneDoes
<1>4. /\ Doing[p] = "write" /\ Doing'[p] = "written"
      /\ Subject[p] = content[root[p]] /\ Subject'[p] = {}
      /\ Result'[p] = Result[p]
  BY <1>1, <1>2 DEF Doing, Subject, Result, Building
<1>5. Register' = Subject[p] /\ (policy # Null)' = TRUE
  BY <1>1, <1>2, <1>4 DEF Register
<1>. QED BY <1>1, <1>3, <1>4, <1>5, SameEntry
       DEF Does, Store!WriteTake, Store!Step, Store!workload

LEMMA EndsWrite ==
  ASSUME RInv, Next, NEW p \in Process, WriteReturn(p)
  PROVE  Store!WriteEnd(p)
<1>1. pc[p] = "stored" /\ policy' = policy /\ Leave(p, "done", <<>>) /\ UNCHANGED guardVars
  BY DEF WriteReturn
<1>2. Does(p, "none", {}, <<>>) /\ reply' = [reply EXCEPT ![p] = "done"]
  BY <1>1, LeaveDoes
<1>3. Doing[p] = "written" /\ Subject[p] = {} /\ Result[p] = <<>>
  BY <1>1 DEF Doing, Subject, Result, Building, RInv, NothingPrinted
<1>. QED BY <1>1, <1>2, <1>3, SameEntry DEF Does, Store!WriteEnd, Store!Step, Store!workload

LEMMA TakesRead ==
  ASSUME RInv, Next, NEW p \in Process, OutputPolicy(p)
  PROVE  Store!ReadTake(p)
<1>1. /\ pc[p] = "user" /\ pc'[p] = "print" /\ policy # Null /\ policy' = policy
      /\ root'[p] = policy /\ out'[p] = <<>> /\ content' = content
      /\ reply' = [reply EXCEPT ![p] = "none"] /\ UNCHANGED guardVars
      /\ \A q \in Process \ {p} :
           /\ pc'[q] = pc[q] /\ list'[q] = list[q] /\ root'[q] = root[q]
           /\ out'[q] = out[q]
  BY DEF OutputPolicy, MayCall, RInv, IInv, TypeOK, heapVars
<1>2. Does(p, Doing'[p], Subject'[p], Result'[p])
  BY <1>1, OneDoes
<1>3. /\ Doing[p] = "none" /\ Doing'[p] = "read"
      /\ Subject'[p] = Register /\ Result'[p] = <<>>
  BY <1>1 DEF Doing, Subject, Result, Building, Register
<1>. QED BY <1>1, <1>2, <1>3 DEF Does, Store!ReadTake, Store!Step, Store!workload

LEMMA EndsRead ==
  ASSUME RInv, Next, NEW p \in Process, ReadReturn(p)
  PROVE  Store!ReadEnd(p)
<1>1. /\ pc[p] = "print" /\ Unprinted(p) = {} /\ policy' = policy /\ UNCHANGED guardVars
  BY DEF ReadReturn
<1>2. /\ Doing[p] = "read" /\ Subject[p] = content[root[p]] /\ Result[p] = <<>>
  BY <1>1 DEF Doing, Subject, Result, Building
<1>3. Store!InOrder(out[p], Subject[p])
  BY <1>1, <1>2 DEF RInv, OutputInOrder, Store!InOrder
<1>4. CASE Leave(p, "done", out[p])
  <2>1. Does(p, "none", {}, out[p]) /\ reply' = [reply EXCEPT ![p] = "done"]
    BY <1>1, <1>4, LeaveDoes
  <2>2. Result'[p] = out[p]
    BY <2>1 DEF Does, Result
  <2>. QED BY <1>1, <1>2, <1>3, <2>1, <2>2 DEF Does, Store!ReadEnd, Store!Step, Store!workload
<1>5. CASE Leave(p, "refused", <<>>)
  <2>1. Does(p, "none", {}, <<>>) /\ reply' = [reply EXCEPT ![p] = "refused"]
    BY <1>1, <1>5, LeaveDoes
  <2>. QED BY <1>1, <1>2, <2>1, SameEntry DEF Does, Store!ReadEnd, Store!Step, Store!workload
<1>. QED BY <1>4, <1>5 DEF ReadReturn

LEMMA Faults ==
  ASSUME RInv, Next, NEW p \in Process,
         \/ NoMemoryForRoot(p) \/ NoMemoryForRegion(p) \/ BadPointer(p)
         \/ OutputFault(p) \/ PrintPastBuffer(p)
  PROVE  Store!Fault(p)
<1>1. /\ pc[p] \in {"user", "alloc", "build", "print"} /\ Die(p) /\ policy' = policy
      /\ UNCHANGED guardVars
  BY DEF NoMemoryForRoot, NoMemoryForRegion, BadPointer, OutputFault, PrintPastBuffer,
         MayCall
<1>2. Does(p, "dead", {}, <<>>) /\ reply' = [reply EXCEPT ![p] = "none"]
  BY <1>1, DieDoes
<1>3. Doing[p] \in {"none", "write", "doomed", "read"}
  BY <1>1 DEF Doing, Building
<1>. QED BY <1>1, <1>2, <1>3 DEF Does, Store!Fault, Store!workload

(* What guards and rmmod do not touch of the processes. *)
LEMMA ProcessKept ==
  ASSUME content' = content, pc' = pc, list' = list, root' = root, out' = out, reply' = reply
  PROVE  UNCHANGED Store!process
BY DEF Store!process, Doing, Subject, Result, Building

LEMMA TakesGuard ==
  ASSUME RInv, Next, NEW m \in Workload, NEW a \in Access, TexasGuard(m, a)
  PROVE  Store!GuardTake(m, a)
<1>1. /\ guard[m] = "idle" /\ policy' = policy /\ content' = content
      /\ guard' = [guard EXCEPT ![m] = IF policy = Null THEN "dead" ELSE "search"]
      /\ access' = [access EXCEPT ![m] = a] /\ verdict' = [verdict EXCEPT ![m] = "none"]
      /\ map' = [map EXCEPT ![m] = policy] /\ UNCHANGED processVars
  BY DEF TexasGuard, heapVars
<1>2. UNCHANGED Store!process
  BY <1>1, ProcessKept DEF processVars
<1>3. Register' = Register
  BY <1>1 DEF Register
<1>4. Searched' = [Searched EXCEPT ![m] = Register]
  <2>1. \A n \in Workload \ {m} : guard'[n] = guard[n] /\ map'[n] = map[n]
    BY <1>1 DEF RInv, IInv, TypeOK
  <2>2. /\ guard'[m] = IF policy = Null THEN "dead" ELSE "search"
        /\ map'[m] = policy
    BY <1>1 DEF RInv, IInv, TypeOK
  <2>3. \A n \in Workload \ {m} : Searched'[n] = Searched[n]
    BY <1>1, <2>1 DEF Searched
  <2>4. Searched'[m] = Register
    BY <1>1, <2>2 DEF Searched, Register
  <2>5. /\ Searched' = [n \in Workload |-> Searched'[n]]
        /\ Searched = [n \in Workload |-> Searched[n]]
    BY DEF Searched
  <2>. QED BY <2>3, <2>4, <2>5
<1>. QED BY <1>1, <1>2, <1>3, <1>4 DEF Store!GuardTake

LEMMA EndsGuard ==
  ASSUME RInv, Next, NEW m \in Workload, GuardReturn(m)
  PROVE  Store!GuardEnd(m)
<1>1. /\ guard[m] = "search" /\ policy' = policy /\ content' = content
      /\ guard' = [guard EXCEPT ![m] = "idle"] /\ access' = access
      /\ UNCHANGED processVars
  BY DEF GuardReturn, heapVars
<1>2. UNCHANGED Store!process
  BY <1>1, ProcessKept DEF processVars
<1>3. Register' = Register
  BY <1>1 DEF Register
<1>4. Searched' = [Searched EXCEPT ![m] = {}]
  <2>1. \A n \in Workload \ {m} : guard'[n] = guard[n] /\ map'[n] = map[n]
    BY DEF GuardReturn, RInv, IInv, TypeOK
  <2>2. guard'[m] = "idle"
    BY <1>1 DEF RInv, IInv, TypeOK
  <2>3. \A n \in Workload \ {m} : Searched'[n] = Searched[n]
    BY <1>1, <2>1 DEF Searched
  <2>4. Searched'[m] = {}
    BY <2>2 DEF Searched
  <2>5. /\ Searched' = [n \in Workload |-> Searched'[n]]
        /\ Searched = [n \in Workload |-> Searched[n]]
    BY DEF Searched
  <2>. QED BY <2>3, <2>4, <2>5
<1>5. Searched[m] = content[map[m]]
  BY <1>1 DEF Searched
<1>6. PICK r \in Searched[m] \cup {NoRegion} :
        /\ MayFind(Searched[m], access[m].addr, r)
        /\ verdict' = [verdict EXCEPT ![m] = Logged(r, access[m].flags)]
  BY <1>5 DEF GuardReturn
<1>7. /\ Store!MayFind(Searched[m], access[m].addr, r)
      /\ Store!Verdict(r, access[m].flags) = Logged(r, access[m].flags)
  BY <1>6 DEF Logged, Store!Verdict, CheckProtections, Store!CheckProtections, MayFind,
     Store!MayFind, Unambiguous, Store!Unambiguous, Covers, Store!Covers, Precedes,
     Store!Precedes, Follows, Store!Follows, EndOf, Store!EndOf
<1>. QED BY <1>1, <1>2, <1>3, <1>4, <1>6, <1>7 DEF Store!GuardEnd

LEMMA Unloads ==
  ASSUME RInv, Next, Removed
  PROVE  Store!Unload
<1>1. /\ module = "leaving" /\ \A p \in Process : pc[p] = "user"
      /\ policy' = Null /\ content' = content /\ UNCHANGED guardVars
      /\ pc' = pc /\ list' = list /\ root' = root /\ out' = out /\ reply' = reply
  BY DEF Removed, heapVars
<1>2. \A m \in Workload : guard[m] = "idle"
  BY <1>1 DEF RInv, IInv, NobodyInside
<1>3. \A p \in Process : Doing[p] = "none"
  BY <1>1 DEF Doing
<1>4. UNCHANGED Store!process
  BY <1>1, ProcessKept
<1>5. UNCHANGED Store!workload
  BY <1>1, SearchedKept DEF RInv, Store!workload, guardVars
<1>6. Register' = {}
  BY <1>1 DEF Register
<1>. QED BY <1>1, <1>2, <1>3, <1>4, <1>5, <1>6 DEF Store!Unload
-----------------------------------------------------------------------------
LEMMA StoreNext ==
  ASSUME RInv, Next
  PROVE  [Store!Next]_(Store!vars)
<1>1. Mapped' = Mapped => UNCHANGED Store!vars
  BY DEF Mapped, Store!vars
<1>2. CASE TestInit \/ TestExit
  BY <1>1, <1>2, StepsUnseen
<1>3. CASE Removed
  BY <1>3, Unloads DEF Store!Next
<1>4. ASSUME NEW p \in Process, ProcessStep(p)
      PROVE  [Store!Next]_(Store!vars)
  <2>1. CASE Open(p) \/ Close(p) \/ ListToTree(p) \/ PrintRegion(p)
    BY <1>1, <2>1, StepsUnseen
  <2>2. CASE \E t \in Root : AllocRoot(p, t)
    BY <1>1, <2>2, StepsUnseen
  <2>3. CASE WriteRefused(p) \/ ReadRefused(p)
    BY <2>3, Refuses DEF Store!Next
  <2>4. CASE \E l \in PolicyList : InputPolicy(p, l)
    BY <2>4, BeginsWrite DEF Store!Next
  <2>5. CASE \/ NoMemoryForRoot(p) \/ NoMemoryForRegion(p) \/ BadPointer(p)
             \/ OutputFault(p) \/ PrintPastBuffer(p)
    BY <2>5, Faults DEF Store!Next
  <2>6. CASE Publish(p)
    BY <2>6, TakesWrite DEF Store!Next
  <2>7. CASE WriteReturn(p)
    BY <2>7, EndsWrite DEF Store!Next
  <2>8. CASE OutputPolicy(p)
    BY <2>8, TakesRead DEF Store!Next
  <2>9. CASE ReadReturn(p)
    BY <2>9, EndsRead DEF Store!Next
  <2>. QED BY <1>4, <2>1, <2>2, <2>3, <2>4, <2>5, <2>6, <2>7, <2>8, <2>9
           DEF ProcessStep, HandlerStep
<1>5. ASSUME NEW m \in Workload, ClientStep(m)
      PROVE  [Store!Next]_(Store!vars)
  <2>1. CASE LoadClient(m) \/ UnloadClient(m)
    BY <1>1, <2>1, StepsUnseen
  <2>2. CASE \E a \in Access : TexasGuard(m, a)
    BY <2>2, TakesGuard DEF Store!Next
  <2>3. CASE GuardReturn(m)
    BY <2>3, EndsGuard DEF Store!Next
  <2>. QED BY <1>5, <2>1, <2>2, <2>3 DEF ClientStep
<1>. QED BY <1>2, <1>3, <1>4, <1>5 DEF Next

LEMMA StoreStutter ==
  ASSUME UNCHANGED vars
  PROVE  UNCHANGED Store!vars
BY DEF vars, heapVars, processVars, guardVars, Store!vars, Register, Doing, Subject, Result,
   Searched, Building

LEMMA RInvariance == Spec => []RInv
BY InitRInv, NextRInv, PTL DEF Spec

(***************************************************************************)
(* A reader prints its tree in ascending order and leaves no region out,   *)
(* whoever writes meanwhile.                                               *)
(***************************************************************************)
THEOREM OrderedOutput == Spec => []OutputInOrder
<1>. RInv => OutputInOrder
  BY DEF RInv
<1>. QED BY RInvariance, PTL

(***************************************************************************)
(* Writes, reads and guards of the policy module take effect at one moment *)
(* of their call, on whole policies: input_policy at its store to          *)
(* test_policy.region_map, output_policy and texas_guard at their load.    *)
(***************************************************************************)
THEOREM Refinement == Spec => StoreSpec
<1>1. Init => Store!Init
  BY StoreInit
<1>2. RInv /\ [Next]_vars => [Store!Next]_(Store!vars)
  BY StoreNext, StoreStutter
<1>. QED BY <1>1, <1>2, RInvariance, PTL DEF Spec, StoreSpec, Store!Spec
-----------------------------------------------------------------------------
(***************************************************************************)
(* What guards answer, beside processes that replace the policy.           *)
(***************************************************************************)

(* The regions of the policy that a list describes. *)
Whole(l) == FirstOfEach(l.nodes, Len(l.nodes))

(* The last verdict of m is one that the policy of l calls for. *)
CalledFor(m, l) ==
  /\ l.tail = "null"
  /\ \E r \in Whole(l) \cup {NoRegion} :
       /\ MayFind(Whole(l), access[m].addr, r)
       /\ verdict[m] = Logged(r, access[m].flags)

VerdictInv ==
  \A m \in Workload :
    /\ guard[m] = "search" =>
         \E l \in PolicyList : l.tail = "null" /\ content[map[m]] = Whole(l)
    /\ verdict[m] # "none" => \E l \in PolicyList : CalledFor(m, l)

LEMMA VerdictStep == ASSUME IInv, VerdictInv, Next PROVE VerdictInv'
<1>1. CASE UNCHANGED guardVars
  <2>1. \A m \in Workload : guard[m] = "search" => content'[map[m]] = content[map[m]]
    BY SnapshotStep
  <2>. QED BY <1>1, <2>1 DEF VerdictInv, CalledFor, guardVars
<1>2. ASSUME NEW m \in Workload, NEW a \in Access, TexasGuard(m, a) PROVE VerdictInv'
  <2>1. /\ content' = content /\ verdict' = [verdict EXCEPT ![m] = "none"]
        /\ \A o \in Workload \ {m} : guard'[o] = guard[o] /\ map'[o] = map[o] /\ access'[o] = access[o]
    BY <1>2 DEF TexasGuard, heapVars, IInv, TypeOK
  <2>2. guard'[m] = "search" => map'[m] = policy /\ policy # Null
    BY <1>2 DEF TexasGuard, IInv, TypeOK
  <2>3. policy # Null => \E l \in PolicyList : l.tail = "null" /\ content[policy] = Whole(l)
    BY DEF IInv, PolicyIsWhole, Whole
  <2>4. verdict \in [Workload -> {"none", "nopolicy", "allowed", "disallowed"}]
    BY DEF IInv, TypeOK
  <2>. QED BY <2>1, <2>2, <2>3, <2>4 DEF VerdictInv, CalledFor
<1>3. ASSUME NEW m \in Workload, GuardReturn(m) PROVE VerdictInv'
  <2>1. /\ content' = content /\ access' = access /\ guard[m] = "search" /\ guard'[m] = "idle"
        /\ \A o \in Workload \ {m} : /\ guard'[o] = guard[o] /\ map'[o] = map[o]
                                     /\ verdict'[o] = verdict[o]
    BY <1>3 DEF GuardReturn, heapVars, IInv, TypeOK
  <2>2. PICK l \in PolicyList : l.tail = "null" /\ content[map[m]] = Whole(l)
    BY <2>1 DEF VerdictInv
  <2>3. PICK r \in Whole(l) \cup {NoRegion} :
          MayFind(Whole(l), access[m].addr, r) /\ verdict'[m] = Logged(r, access[m].flags)
    BY <1>3, <2>2 DEF GuardReturn, IInv, TypeOK
  <2>4. CalledFor(m, l)'
    BY <2>1, <2>2, <2>3 DEF CalledFor
  <2>5. \A o \in Workload \ {m} : \A k \in PolicyList : CalledFor(o, k) => CalledFor(o, k)'
    BY <2>1 DEF CalledFor
  <2>. QED BY <2>1, <2>4, <2>5 DEF VerdictInv
<1>. QED BY <1>1, <1>2, <1>3
         DEF Next, ProcessStep, HandlerStep, ClientStep, TestInit, TestExit, Removed, Open,
             Close, WriteRefused, WriteReturn, ReadRefused, ReadReturn, NoMemoryForRoot,
             NoMemoryForRegion, BadPointer, OutputFault, InputPolicy, AllocRoot, ListToTree,
             Publish, OutputPolicy, PrintRegion, PrintPastBuffer, LoadClient, UnloadClient

LEMMA VerdictInvariance == Spec => [](IInv /\ VerdictInv)
<1>1. Init => VerdictInv
  BY DEF Init, VerdictInv
<1>2. IInv /\ VerdictInv /\ [Next]_vars => VerdictInv'
  <2>1. ASSUME VerdictInv, UNCHANGED vars PROVE VerdictInv'
    BY <2>1 DEF VerdictInv, CalledFor, vars, heapVars, guardVars
  <2>. QED BY <2>1, VerdictStep
<1>. QED BY <1>1, <1>2, Invariance, PTL DEF Spec

(***************************************************************************)
(* Every verdict of texas_guard is the one that a whole list that was      *)
(* written calls for, however many processes write, and replace the policy *)
(* while it searches.                                                      *)
(***************************************************************************)
THEOREM Verdicts ==
  Spec => [](\A m \in Workload :
               verdict[m] # "none" => \E l \in PolicyList : CalledFor(m, l))
<1>1. VerdictInv => \A m \in Workload :
                      verdict[m] # "none" => \E l \in PolicyList : CalledFor(m, l)
  BY DEF VerdictInv
<1>. QED BY <1>1, VerdictInvariance, PTL

LEMMA WholeRegions == ASSUME NEW l \in PolicyList PROVE Whole(l) \subseteq Region
<1>1. l.nodes \in Seq(Region) /\ Len(l.nodes) \in Nat
  BY ListFacts
<1>2. \A i \in 1 .. Len(l.nodes) : l.nodes[i] \in Region
  BY <1>1
<1>. QED BY <1>2 DEF Whole, FirstOfEach

(* A region that reaches the last address ends at 0. *)
LEMMA LastIsUncovered == ASSUME NEW r \in Region PROVE ~ Covers(r, Modulus - 1)
BY ModulusAssumption DEF Region, Address, Covers, Precedes, Follows, EndOf

(***************************************************************************)
(* No policy gives permissions for the last address: addr + len wraps in   *)
(* uint64_t, and the region covers nothing.                                *)
(***************************************************************************)
THEOREM LastAddress ==
  Spec => [](\A m \in Workload :
               access[m].addr = Modulus - 1 => verdict[m] \in {"none", "nopolicy"})
<1>1. ASSUME VerdictInv, NEW m \in Workload, access[m].addr = Modulus - 1, verdict[m] # "none"
      PROVE  verdict[m] = "nopolicy"
  <2>1. PICK l \in PolicyList : CalledFor(m, l)
    BY <1>1 DEF VerdictInv
  <2>2. PICK r \in Whole(l) \cup {NoRegion} :
          MayFind(Whole(l), Modulus - 1, r) /\ verdict[m] = Logged(r, access[m].flags)
    BY <1>1, <2>1 DEF CalledFor
  <2>3. r = NoRegion
    BY <2>2, WholeRegions, LastIsUncovered DEF MayFind
  <2>. QED BY <2>2, <2>3 DEF Logged
<1>2. VerdictInv => \A m \in Workload :
                      access[m].addr = Modulus - 1 => verdict[m] \in {"none", "nopolicy"}
  BY <1>1
<1>. QED BY <1>2, VerdictInvariance, PTL
-----------------------------------------------------------------------------
(* The policy in five parts of user-space-app.c, in an address space of any size. *)
LEMMA TopIsSmall ==
  /\ Sixteenth \in Nat /\ TopSize \in Nat /\ 1 < TopSize /\ TopSize + 1 < Sixteenth
  /\ Modulus = 16 * Sixteenth
BY ModulusAssumption, UserPoliciesAssumption DEF Sixteenth

(* The parts, by their bounds. *)
LEMMA PartsAre ==
  LET s == Sixteenth
      t == TopSize
  IN Whole(FiveParts) =
       {Part(0, s - 1, {}), Part(s, 7 * s - 1, {"r", "w", "x"}),
        Part(8 * s, 7 * s - 1, {"r"}), Part(15 * s, s - t - 1, {"w"}),
        Part(16 * s - t, t - 1, {"x"})}
<1>. DEFINE s == Sixteenth
            t == TopSize
            n == FiveParts.nodes
<1>1. s \in Nat /\ t \in Nat /\ 1 < t /\ t + 1 < s
  BY TopIsSmall
<1>2. /\ Len(n) = 5
      /\ n[1] = Part(0, s - 1, {}) /\ n[2] = Part(s, 7 * s - 1, {"r", "w", "x"})
      /\ n[3] = Part(8 * s, 7 * s - 1, {"r"}) /\ n[4] = Part(15 * s, s - t - 1, {"w"})
      /\ n[5] = Part(16 * s - t, t - 1, {"x"})
  BY TopIsSmall DEF FiveParts
<1>3. /\ n[1].addr = 0 /\ n[2].addr = s /\ n[3].addr = 8 * s /\ n[4].addr = 15 * s
      /\ n[5].addr = 16 * s - t
  BY <1>2 DEF Part
<1>. HIDE DEF s, t, n
<1>4. \A i, j \in 1 .. 5 : i < j => n[i].addr < n[j].addr
  BY <1>1, <1>3
<1>5. {j \in 1 .. 5 : \A h \in 1 .. j - 1 : n[h].addr # n[j].addr} = 1 .. 5
  <2>1. ASSUME NEW j \in 1 .. 5, NEW h \in 1 .. j - 1 PROVE n[h].addr # n[j].addr
    <3>1. h \in 1 .. 5 /\ h < j
      OBVIOUS
    <3>2. n[h].addr < n[j].addr /\ n[h].addr \in Int /\ n[j].addr \in Int
      BY <1>1, <1>3, <1>4, <3>1
    <3>. QED BY <3>2
  <2>. QED BY <2>1
<1>6. FirstOfEach(n, 5) = {n[i] : i \in 1 .. 5}
  BY <1>5 DEF FirstOfEach
<1>7. {n[i] : i \in 1 .. 5} = {n[1], n[2], n[3], n[4], n[5]}
  OBVIOUS
<1>. QED BY <1>2, <1>6, <1>7 DEF Whole, s, t, n

(* A part covers its addresses, but for the one its length leaves out. *)
LEMMA PartCovers ==
  ASSUME NEW lo \in Nat, NEW len \in Nat, lo + len < Modulus, NEW f, NEW a \in Address
  PROVE  Covers(Part(lo, len, f), a) <=> lo <= a /\ a < lo + len
BY ModulusAssumption DEF Covers, Precedes, Follows, EndOf, Part, Address

LEMMA FivePartsCover ==
  ASSUME NEW a \in Address
  PROVE  /\ \A r \in Whole(FiveParts) :
              Covers(r, a) => a \notin Gaps /\ r.protect = Intended(a)
         /\ (\A r \in Whole(FiveParts) : ~ Covers(r, a)) => a \in Gaps
<1>. DEFINE s == Sixteenth
            t == TopSize
            p1 == Part(0, s - 1, {})
            p2 == Part(s, 7 * s - 1, {"r", "w", "x"})
            p3 == Part(8 * s, 7 * s - 1, {"r"})
            p4 == Part(15 * s, s - t - 1, {"w"})
            p5 == Part(16 * s - t, t - 1, {"x"})
<1>1. s \in Nat /\ t \in Nat /\ 1 < t /\ t + 1 < s /\ Modulus = 16 * s
  BY TopIsSmall
<1>2. Whole(FiveParts) = {p1, p2, p3, p4, p5}
  BY PartsAre
<1>3. /\ p1.protect = {} /\ p2.protect = {"r", "w", "x"} /\ p3.protect = {"r"}
      /\ p4.protect = {"w"} /\ p5.protect = {"x"}
  BY DEF Part
<1>. Gaps = {s - 1, 8 * s - 1, 15 * s - 1, 16 * s - t - 1, 16 * s - 1}
  BY <1>1 DEF Gaps
<1>. Intended(a) =
       IF a < s THEN {} ELSE IF a < 8 * s THEN {"r", "w", "x"}
       ELSE IF a < 15 * s THEN {"r"} ELSE IF a < 16 * s - t THEN {"w"} ELSE {"x"}
  BY <1>1 DEF Intended
<1>. a \in Int /\ 0 <= a /\ a < 16 * s
  BY <1>1 DEF Address
<1>. HIDE DEF s, t
<1>4. /\ Covers(p1, a) <=> a < s - 1
      /\ Covers(p2, a) <=> s <= a /\ a < 8 * s - 1
      /\ Covers(p3, a) <=> 8 * s <= a /\ a < 15 * s - 1
      /\ Covers(p4, a) <=> 15 * s <= a /\ a < 16 * s - t - 1
      /\ Covers(p5, a) <=> 16 * s - t <= a /\ a < 16 * s - 1
  <2>1. Covers(p1, a) <=> 0 <= a /\ a < 0 + (s - 1)
    BY <1>1, PartCovers
  <2>2. Covers(p2, a) <=> s <= a /\ a < s + (7 * s - 1)
    BY <1>1, PartCovers
  <2>3. Covers(p3, a) <=> 8 * s <= a /\ a < 8 * s + (7 * s - 1)
    BY <1>1, PartCovers
  <2>4. Covers(p4, a) <=> 15 * s <= a /\ a < 15 * s + (s - t - 1)
    BY <1>1, PartCovers
  <2>5. Covers(p5, a) <=> 16 * s - t <= a /\ a < 16 * s - t + (t - 1)
    BY <1>1, PartCovers
  <2>. QED BY <1>1, <2>1, <2>2, <2>3, <2>4, <2>5
<1>. HIDE DEF p1, p2, p3, p4, p5
<1>5. ASSUME \A r \in {p1, p2, p3, p4, p5} : ~ Covers(r, a) PROVE a \in Gaps
  <2>1. ~ Covers(p1, a) /\ ~ Covers(p2, a) /\ ~ Covers(p3, a) /\ ~ Covers(p4, a) /\ ~ Covers(p5, a)
    BY <1>5
  <2>. QED BY <1>1, <1>4, <2>1
<1>6. ASSUME NEW r \in {p1, p2, p3, p4, p5}, Covers(r, a)
      PROVE  a \notin Gaps /\ r.protect = Intended(a)
  <2>1. CASE r = p1
    <3>1. a < s - 1
      BY <1>4, <1>6, <2>1
    <3>2. a \notin Gaps
      BY <1>1, <3>1
    <3>3. Intended(a) = p1.protect
      BY <1>1, <1>3, <3>1
    <3>. QED BY <2>1, <3>2, <3>3
  <2>2. CASE r = p2
    <3>1. s <= a /\ a < 8 * s - 1
      BY <1>4, <1>6, <2>2
    <3>2. a \notin Gaps
      BY <1>1, <3>1
    <3>3. Intended(a) = p2.protect
      BY <1>1, <1>3, <3>1
    <3>. QED BY <2>2, <3>2, <3>3
  <2>3. CASE r = p3
    <3>1. 8 * s <= a /\ a < 15 * s - 1
      BY <1>4, <1>6, <2>3
    <3>2. a \notin Gaps
      BY <1>1, <3>1
    <3>3. Intended(a) = p3.protect
      BY <1>1, <1>3, <3>1
    <3>. QED BY <2>3, <3>2, <3>3
  <2>4. CASE r = p4
    <3>1. 15 * s <= a /\ a < 16 * s - t - 1
      BY <1>4, <1>6, <2>4
    <3>2. a \notin Gaps
      BY <1>1, <3>1
    <3>3. Intended(a) = p4.protect
      BY <1>1, <1>3, <3>1
    <3>. QED BY <2>4, <3>2, <3>3
  <2>5. CASE r = p5
    <3>1. 16 * s - t <= a /\ a < 16 * s - 1
      BY <1>4, <1>6, <2>5
    <3>2. a \notin Gaps
      BY <1>1, <3>1
    <3>3. Intended(a) = p5.protect
      BY <1>1, <1>3, <3>1
    <3>. QED BY <2>5, <3>2, <3>3
  <2>. QED BY <2>1, <2>2, <2>3, <2>4, <2>5
<1>. QED BY <1>2, <1>5, <1>6

(* No part begins in another one, so a search is not led astray. *)
LEMMA FivePartsApart == Unambiguous(Whole(FiveParts))
<1>. DEFINE s == Sixteenth
            t == TopSize
            lo == <<0, s, 8 * s, 15 * s, 16 * s - t>>
            len == <<s - 1, 7 * s - 1, 7 * s - 1, s - t - 1, t - 1>>
            f == <<{}, {"r", "w", "x"}, {"r"}, {"w"}, {"x"}>>
            part(i) == Part(lo[i], len[i], f[i])
<1>1. s \in Nat /\ t \in Nat /\ 1 < t /\ t + 1 < s /\ Modulus = 16 * s
  BY TopIsSmall
<1>2. Whole(FiveParts) = {part(i) : i \in 1 .. 5}
  <2>1. Whole(FiveParts) = {part(1), part(2), part(3), part(4), part(5)}
    BY PartsAre
  <2>. HIDE DEF part
  <2>. QED BY <2>1
<1>. HIDE DEF s, t
<1>3. \A i \in 1 .. 5 : lo[i] \in Nat /\ len[i] \in Nat /\ lo[i] + len[i] < Modulus
  BY <1>1
<1>4. \A i, j \in 1 .. 5 : i # j => lo[j] < lo[i] \/ lo[i] + len[i] <= lo[j]
  BY <1>1
<1>. HIDE DEF lo, len, f
<1>5. ASSUME NEW i \in 1 .. 5, NEW j \in 1 .. 5, i # j PROVE ~ Covers(part(i), part(j).addr)
  <2>1. part(j).addr = lo[j]
    BY DEF Part
  <2>2. lo[j] \in Address
    <3>1. lo[j] \in Nat /\ len[j] \in Nat /\ lo[j] + len[j] < Modulus /\ Modulus \in Nat
      BY <1>1, <1>3
    <3>. QED BY <3>1 DEF Address
  <2>3. Covers(part(i), lo[j]) <=> lo[i] <= lo[j] /\ lo[j] < lo[i] + len[i]
    BY <1>3, <2>2, PartCovers
  <2>. QED BY <1>3, <1>4, <1>5, <2>1, <2>3
<1>. HIDE DEF part
<1>. QED BY <1>2, <1>5 DEF Unambiguous

(***************************************************************************)
(* Under the policy in five parts of user-space-app.c, in an address space *)
(* of any size, a guard answers as the program's comments intend, but for  *)
(* the last address of each part: for those it finds no policy.            *)
(***************************************************************************)
THEOREM FivePartsAnswers == ASSUME PolicyList = {FiveParts} PROVE Spec => []FivePartsVerdicts
<1>1. ASSUME TypeOK, VerdictInv PROVE FivePartsVerdicts
  <2>. SUFFICES ASSUME NEW m \in Workload, verdict[m] # "none"
                PROVE  LET a == access[m].addr IN
                       /\ verdict[m] = "nopolicy" => a \in Gaps
                       /\ verdict[m] = "allowed" =>
                            a \notin Gaps /\ access[m].flags \subseteq Intended(a)
                       /\ verdict[m] = "disallowed" =>
                            a \notin Gaps /\ ~ access[m].flags \subseteq Intended(a)
    BY DEF FivePartsVerdicts
  <2>. DEFINE a == access[m].addr
              W == Whole(FiveParts)
  <2>1. a \in Address
    BY <1>1, PolicyModuleAssumption DEF TypeOK
  <2>2. PICK r \in W \cup {NoRegion} :
          MayFind(W, a, r) /\ verdict[m] = Logged(r, access[m].flags)
    BY <1>1 DEF VerdictInv, CalledFor
  <2>3. W \subseteq Region
    BY WholeRegions
  <2>4. CASE r = NoRegion
    <3>1. a \in Gaps
      BY <2>1, <2>2, <2>4, FivePartsCover, FivePartsApart DEF MayFind
    <3>. QED BY <2>2, <2>4, <3>1 DEF Logged
  <2>5. CASE r # NoRegion
    <3>1. a \notin Gaps /\ r.protect = Intended(a)
      BY <2>1, <2>2, <2>5, FivePartsCover DEF MayFind
    <3>. QED BY <2>2, <2>5, <3>1 DEF Logged, CheckProtections
  <2>. QED BY <2>4, <2>5
<1>2. IInv /\ VerdictInv => FivePartsVerdicts
  BY <1>1 DEF IInv
<1>. QED BY <1>2, VerdictInvariance, PTL
-----------------------------------------------------------------------------
(* The composition.                                                        *)

(* Induction on lengths, by a set of numbers without a least member, and   *)
(* the recursion that defines compiled code.                               *)
LEMMA LeastNumber ==
  ASSUME NEW T, T \subseteq Nat, T # {}
  PROVE  \E x \in T : \A y \in T : x <= y
<1> DEFINE R == OpToRel(<, Nat)
<1>1. IsWellFoundedOn(R, Nat)
  BY NatLessThanWellFounded
<1>2. \A x, y \in Nat : y < x => <<y, x>> \in R
  BY DEF OpToRel
<1>. HIDE DEF R
<1>3. PICK x \in T : \A y \in T : ~ (<<y, x>> \in R)
  BY <1>1, WFMin
<1>4. \A y \in T : ~ (y < x)
  BY <1>2, <1>3
<1>. QED BY <1>4

LEMMA Reaches ==
  ASSUME NEW S, NEW n \in Nat, 0 \in S, \A k \in 0 .. n - 1 : k \in S => k + 1 \in S
  PROVE  0 .. n \subseteq S
<1> DEFINE T == (0 .. n) \ S
<1>1. SUFFICES ASSUME T # {} PROVE FALSE
  OBVIOUS
<1>2. PICK x \in T : \A y \in T : x <= y
  <2>1. T \subseteq Nat
    OBVIOUS
  <2>. HIDE DEF T
  <2>. QED BY <1>1, <2>1, LeastNumber
<1>3. x - 1 \in S /\ x - 1 \in 0 .. n - 1
  BY <1>2
<1>. QED BY <1>3

(***************************************************************************)
(* The recursion of Prefixes has a solution, and so is what it says.       *)
(***************************************************************************)
LEMMA PrefixesEquation ==
  ASSUME NEW f \in Function
  PROVE  LET n == Len(Body[f])
             p == Prefixes(f)
         IN  p = [k \in 0 .. n |-> IF k = 0 THEN <<>> ELSE p[k - 1] \o Guarded(Body[f][k])]
<1> DEFINE n == Len(Body[f])
           Is(c, m) == c = [k \in 0 .. m |->
                              IF k = 0 THEN <<>> ELSE c[k - 1] \o Guarded(Body[f][k])]
           Solved == {m \in Nat : \E c : Is(c, m)}
<1>1. n \in Nat
  BY GuardedCodeAssumption
<1>2. 0 \in Solved
  <2>1. Is([k \in 0 .. 0 |-> <<>>], 0)
    OBVIOUS
  <2>. QED BY <2>1
<1>3. ASSUME NEW m \in 0 .. n - 1, m \in Solved PROVE m + 1 \in Solved
  <2>1. m \in Nat /\ m + 1 \in Nat
    BY <1>1
  <2>2. PICK c : Is(c, m)
    BY <1>3
  <2> DEFINE d == [k \in 0 .. m + 1 |->
                     IF k = 0 THEN <<>> ELSE c[k - 1] \o Guarded(Body[f][k])]
  <2>3. ASSUME NEW k \in 0 .. m PROVE d[k] = c[k]
    BY <2>1, <2>2
  <2>4. ASSUME NEW k \in 0 .. m + 1, k # 0 PROVE d[k - 1] = c[k - 1]
    <3>1. k - 1 \in 0 .. m
      BY <2>1, <2>4
    <3>. QED BY <2>3, <3>1
  <2>5. Is(d, m + 1)
    BY <2>4
  <2>. QED BY <2>1, <2>5
<1>4. 0 .. n \subseteq Solved
  <2>. HIDE DEF Solved
  <2>. QED BY <1>1, <1>2, <1>3, Reaches
<1>5. \E c : Is(c, n)
  <2>1. n \in Solved
    <3>. HIDE DEF Solved
    <3>. QED BY <1>1, <1>4
  <2>. HIDE DEF Is
  <2>. QED BY <2>1
<1>. QED BY <1>5 DEF Prefixes

(* What compiled code consists of, and what is true of it. *)
Coded == Instruction \cup [op : {"guard"}, pointer : Value, flags : SUBSET Flag]

WellGuarded(c) ==
  /\ c \in Seq(Coded)
  /\ \A k \in 1 .. Len(c) : Needs(c[k]) => k > 1 /\ c[k - 1] = GuardOf(c[k])

LEMMA GuardedInstruction ==
  ASSUME NEW i \in Instruction
  PROVE  /\ Guarded(i) \in Seq(Coded)
         /\ Needs(i) => Guarded(i) = <<GuardOf(i), i>> /\ ~ Needs(GuardOf(i))
         /\ ~ Needs(i) => Guarded(i) = <<i>>
<1>1. i \in Coded
  BY DEF Coded
<1>2. ASSUME Needs(i) PROVE GuardOf(i) \in Coded /\ ~ Needs(GuardOf(i))
  <2>1. i.pointer \in Value
    BY <1>2 DEF Needs, IsAccess, Instruction
  <2>2. GuardFlags(i.op) \in SUBSET Flag
    BY CaratSystemAssumption DEF GuardFlags
  <2>3. GuardOf(i) \in [op : {"guard"}, pointer : Value, flags : SUBSET Flag]
    BY <2>1, <2>2 DEF GuardOf
  <2>4. ~ IsAccess(GuardOf(i))
    BY DEF IsAccess, GuardOf
  <2>. QED BY <2>3, <2>4 DEF Coded, Needs
<1>. QED BY <1>1, <1>2 DEF Guarded

LEMMA AppendGuarded ==
  ASSUME NEW c, WellGuarded(c), NEW i \in Instruction
  PROVE  WellGuarded(c \o Guarded(i))
<1> DEFINE d == c \o Guarded(i)
<1>. SUFFICES WellGuarded(d)
  OBVIOUS
<1>1. c \in Seq(Coded) /\ Len(c) \in Nat
  BY DEF WellGuarded
<1>2. d \in Seq(Coded)
  BY <1>1, GuardedInstruction
<1>3. \A k \in 1 .. Len(c) : d[k] = c[k]
  BY <1>1, GuardedInstruction
<1>4. ASSUME NEW k \in 1 .. Len(c), Needs(d[k]) PROVE k > 1 /\ d[k - 1] = GuardOf(d[k])
  <2>1. k > 1 /\ c[k - 1] = GuardOf(c[k])
    BY <1>3, <1>4 DEF WellGuarded
  <2>2. k - 1 \in 1 .. Len(c)
    BY <1>1, <2>1
  <2>. QED BY <1>3, <2>1, <2>2
<1>5. CASE Needs(i)
  <2>1. Guarded(i) = <<GuardOf(i), i>> /\ ~ Needs(GuardOf(i))
    BY <1>5, GuardedInstruction
  <2>2. /\ Len(d) = Len(c) + 2
        /\ d[Len(c) + 1] = GuardOf(i)
        /\ d[Len(c) + 2] = i
    BY <1>1, <2>1, GuardedInstruction
  <2>3. \A k \in 1 .. Len(d) : k \in 1 .. Len(c) \/ k = Len(c) + 1 \/ k = Len(c) + 2
    BY <1>1, <2>2
  <2>4. Len(c) + 2 > 1 /\ (Len(c) + 2) - 1 = Len(c) + 1
    BY <1>1
  <2>. HIDE DEF d
  <2>. QED BY <1>2, <1>4, <2>1, <2>2, <2>3, <2>4 DEF WellGuarded
<1>6. CASE ~ Needs(i)
  <2>1. Guarded(i) = <<i>>
    BY <1>6, GuardedInstruction
  <2>2. Len(d) = Len(c) + 1 /\ d[Len(c) + 1] = i
    BY <1>1, <2>1, GuardedInstruction
  <2>3. \A k \in 1 .. Len(d) : k \in 1 .. Len(c) \/ k = Len(c) + 1
    BY <1>1, <2>2
  <2>. HIDE DEF d
  <2>4. ASSUME NEW k \in 1 .. Len(d), Needs(d[k])
        PROVE  k > 1 /\ d[k - 1] = GuardOf(d[k])
    <3>1. k # Len(c) + 1
      BY <1>6, <2>2, <2>4
    <3>. QED BY <1>4, <2>3, <2>4, <3>1
  <2>. QED BY <1>2, <2>4 DEF WellGuarded
<1>. QED BY <1>5, <1>6

(***************************************************************************)
(* runOnModule: every access that needs a guard has its own right before   *)
(* it, in functions of any length.                                         *)
(***************************************************************************)
THEOREM CompiledIsGuarded ==
  ASSUME NEW f \in Function
  PROVE  WellGuarded(Compiled(f))
<1> DEFINE n == Len(Body[f])
           p == Prefixes(f)
           Good == {k \in Nat : WellGuarded(p[k])}
<1>1. n \in Nat /\ Body[f] \in Seq(Instruction)
  BY GuardedCodeAssumption
<1>2. p = [k \in 0 .. n |-> IF k = 0 THEN <<>> ELSE p[k - 1] \o Guarded(Body[f][k])]
  BY PrefixesEquation
<1>. HIDE DEF p
<1>3. 0 \in Good
  <2>1. p[0] = <<>>
    BY <1>1, <1>2
  <2>2. WellGuarded(<<>>)
    BY DEF WellGuarded
  <2>. QED BY <2>1, <2>2
<1>4. ASSUME NEW k \in 0 .. n - 1, k \in Good PROVE k + 1 \in Good
  <2>1. k + 1 \in 0 .. n /\ k + 1 # 0 /\ (k + 1) - 1 = k /\ k + 1 \in Nat /\ k + 1 \in 1 .. n
    BY <1>1
  <2>2. p[k + 1] = p[k] \o Guarded(Body[f][k + 1])
    BY <1>2, <2>1
  <2>3. Body[f][k + 1] \in Instruction
    BY <1>1, <2>1
  <2>. QED BY <1>4, <2>1, <2>2, <2>3, AppendGuarded
<1>5. 0 .. n \subseteq Good
  <2>. HIDE DEF Good
  <2>. QED BY <1>1, <1>3, <1>4, Reaches
<1>6. WellGuarded(p[n])
  BY <1>1, <1>5
<1>. QED BY <1>6 DEF Compiled, p
-----------------------------------------------------------------------------
(***************************************************************************)
(* A guard that searches is the call the client is at; where its client is *)
(* otherwise, the access it is about to make has been asked about.         *)
(***************************************************************************)
SysInv ==
  /\ ip \in [Workload -> Nat]
  /\ guard \in [Workload -> {"idle", "search", "dead"}]
  /\ access \in [Workload -> Access]
  /\ verdict \in [Workload -> {"none", "nopolicy", "allowed", "disallowed"}]
  /\ \A m \in Workload : guard[m] = "search" =>
       /\ ip[m] \in 1 .. Len(Code(m))
       /\ Code(m)[ip[m]].op = "guard"
       /\ access[m] = AccessOf(Code(m)[ip[m]], Code(m)[ip[m]].flags)
  /\ AccessesAreAsked

LEMMA CodeFacts ==
  ASSUME NEW m \in Workload
  PROVE  /\ Code(m) \in Seq(Coded) /\ Len(Code(m)) \in Nat
         /\ DOMAIN Code(m) = 1 .. Len(Code(m))
         /\ \A k \in 1 .. Len(Code(m)) : Needs(Code(m)[k]) =>
              k > 1 /\ Code(m)[k - 1] = GuardOf(Code(m)[k])
<1>1. Code(m) = Compiled(Runs[m]) /\ Runs[m] \in Function
  BY CaratSystemAssumption DEF Code, CompiledCode
<1>2. WellGuarded(Code(m))
  BY <1>1, CompiledIsGuarded
<1>. QED BY <1>2 DEF WellGuarded

(* What a compiled guard passes to texas_guard. *)
LEMMA GuardPasses ==
  ASSUME NEW m \in Workload, NEW k \in 1 .. Len(Code(m)), Code(m)[k].op = "guard"
  PROVE  AccessOf(Code(m)[k], Code(m)[k].flags) \in Access
<1>1. Code(m)[k] \in Coded
  BY CodeFacts
<1>2. Code(m)[k] \in [op : {"guard"}, pointer : Value, flags : SUBSET Flag]
  BY <1>1 DEF Coded, Instruction
<1>3. Code(m)[k].pointer \in Value /\ Code(m)[k].flags \in SUBSET Flag
  BY <1>2
<1>. QED BY <1>3, CaratSystemAssumption DEF AccessOf

LEMMA InitSysInv == SysInit => SysInv
<1>1. Access # {} /\ (CHOOSE a \in Access : TRUE) \in Access
  BY PolicyModuleAssumption
<1>2. SysInit => AccessesAreAsked
  <2>1. \A m \in Workload : 0 \notin DOMAIN Code(m)
    BY CodeFacts
  <2>. QED BY <2>1 DEF SysInit, AccessesAreAsked, Executing
<1>. QED BY <1>1, <1>2 DEF SysInit, Init, SysInv

(* Steps that leave the clients and their guards alone. *)
LEMMA NoClientMoves ==
  ASSUME SysInv, UNCHANGED <<ip, guard, access, verdict>>
  PROVE  SysInv'
BY DEF SysInv, AccessesAreAsked, Executing, AccessOf, Code

(***************************************************************************)
(* A step of one client: what has to hold of where it is now.              *)
(***************************************************************************)
LEMMA OneClient ==
  ASSUME SysInv, NEW m \in Workload,
         ip' \in [Workload -> Nat],
         guard' \in [Workload -> {"idle", "search", "dead"}],
         access' \in [Workload -> Access],
         verdict' \in [Workload -> {"none", "nopolicy", "allowed", "disallowed"}],
         \A w \in Workload \ {m} : /\ ip'[w] = ip[w] /\ guard'[w] = guard[w]
                                   /\ access'[w] = access[w] /\ verdict'[w] = verdict[w],
         guard'[m] = "search" =>
           /\ ip'[m] \in 1 .. Len(Code(m))
           /\ Code(m)[ip'[m]].op = "guard"
           /\ access'[m] = AccessOf(Code(m)[ip'[m]], Code(m)[ip'[m]].flags),
         ip'[m] \in 1 .. Len(Code(m)) /\ guard'[m] = "idle" /\ Needs(Code(m)[ip'[m]]) =>
           /\ access'[m] = AccessOf(Code(m)[ip'[m]], GuardFlags(Code(m)[ip'[m]].op))
           /\ verdict'[m] # "none"
  PROVE  SysInv'
<1>1. ASSUME NEW w \in Workload, guard'[w] = "search"
      PROVE  /\ ip'[w] \in 1 .. Len(Code(w))
             /\ Code(w)[ip'[w]].op = "guard"
             /\ access'[w] = AccessOf(Code(w)[ip'[w]], Code(w)[ip'[w]].flags)
  <2>1. CASE w = m
    BY <1>1, <2>1
  <2>2. CASE w # m
    BY <1>1, <2>2 DEF SysInv
  <2>. QED BY <2>1, <2>2
<1>2. ASSUME NEW w \in Workload, Executing(w)', Needs(Code(w)[ip'[w]])
      PROVE  /\ access'[w] = AccessOf(Code(w)[ip'[w]], GuardFlags(Code(w)[ip'[w]].op))
             /\ verdict'[w] # "none"
  <2>1. ip'[w] \in 1 .. Len(Code(w)) /\ guard'[w] = "idle"
    BY <1>2, CodeFacts DEF Executing, Code
  <2>2. CASE w = m
    BY <1>2, <2>1, <2>2
  <2>3. CASE w # m
    <3>1. Executing(w) /\ Needs(Code(w)[ip[w]])
      BY <1>2, <2>1, <2>3, CodeFacts DEF Executing
    <3>2. IsAccess(Code(w)[ip[w]])
      BY <3>1 DEF Needs
    <3>3. /\ access[w] = AccessOf(Code(w)[ip[w]], GuardFlags(Code(w)[ip[w]].op))
          /\ verdict[w] # "none"
      BY <3>1, <3>2 DEF SysInv, AccessesAreAsked
    <3>. QED BY <2>3, <3>3
  <2>. QED BY <2>2, <2>3
<1>3. AccessesAreAsked'
  BY <1>2 DEF AccessesAreAsked, Code, CompiledCode, AccessOf
<1>4. \A w \in Workload : guard'[w] = "search" =>
        /\ ip'[w] \in 1 .. Len(Code(w)')
        /\ Code(w)'[ip'[w]].op = "guard"
        /\ access'[w] = AccessOf(Code(w)'[ip'[w]], Code(w)'[ip'[w]].flags)
  BY <1>1 DEF Code
<1>. QED BY <1>3, <1>4 DEF SysInv, AccessOf

LEMMA PolicyKeepsClients ==
  ASSUME SysInv, PolicyStep
  PROVE  SysInv'
<1>1. UNCHANGED guardVars
  BY DEF PolicyStep, TestInit, TestExit, Removed, ProcessStep, HandlerStep, Open, Close,
         WriteRefused, WriteReturn, ReadRefused, ReadReturn, NoMemoryForRoot,
         NoMemoryForRegion, BadPointer, OutputFault, InputPolicy, AllocRoot, Publish,
         ListToTree, OutputPolicy, PrintRegion, PrintPastBuffer
<1>. QED BY <1>1, NoClientMoves DEF PolicyStep, guardVars, clientVars

LEMMA LoadingKeepsClients ==
  ASSUME SysInv, NEW m \in Workload, Load(m) \/ Unload(m)
  PROVE  SysInv'
BY NoClientMoves DEF Load, Unload, LoadClient, UnloadClient, guardVars, clientVars

LEMMA EnterSysInv ==
  ASSUME SysInv, NEW m \in Workload, Enter(m)
  PROVE  SysInv'
<1>1. /\ ip' = [ip EXCEPT ![m] = 1] /\ ip[m] = 0
      /\ UNCHANGED <<guard, access, verdict>>
  BY DEF Enter, vars, guardVars
<1>2. guard[m] # "search"
  BY <1>1 DEF SysInv
<1>3. 1 \in 1 .. Len(Code(m)) => ~ Needs(Code(m)[1])
  BY CodeFacts
<1>4. ip' \in [Workload -> Nat] /\ ip'[m] = 1 /\ \A w \in Workload \ {m} : ip'[w] = ip[w]
  BY <1>1 DEF SysInv
<1>. QED BY <1>1, <1>2, <1>3, <1>4, OneClient DEF SysInv

LEMMA ReturnSysInv ==
  ASSUME SysInv, NEW m \in Workload, Return(m)
  PROVE  SysInv'
<1>1. /\ ip' = [ip EXCEPT ![m] = 0] /\ ip[m] > Len(Code(m))
      /\ UNCHANGED <<guard, access, verdict>>
  BY DEF Return, vars, guardVars
<1>2. guard[m] # "search"
  BY <1>1, CodeFacts DEF SysInv
<1>3. ip' \in [Workload -> Nat] /\ ip'[m] = 0 /\ \A w \in Workload \ {m} : ip'[w] = ip[w]
  BY <1>1 DEF SysInv
<1>4. 0 \notin 1 .. Len(Code(m))
  BY CodeFacts
<1>. QED BY <1>1, <1>2, <1>3, <1>4, OneClient DEF SysInv

(* The call: texas_guard is asked what the guard's operands say. *)
LEMMA CallGuardSysInv ==
  ASSUME SysInv, NEW m \in Workload, CallGuard(m)
  PROVE  SysInv' /\ \E a \in Access : TexasGuard(m, a)
<1> DEFINE i == Code(m)[ip[m]]
           a == AccessOf(i, i.flags)
<1>1. /\ ip[m] \in 1 .. Len(Code(m)) /\ i.op = "guard" /\ TexasGuard(m, a)
      /\ ip' = ip
  BY CodeFacts DEF CallGuard, Executing, clientVars
<1>2. a \in Access
  BY <1>1, GuardPasses
<1>. HIDE DEF a
<1>3. /\ guard' = [guard EXCEPT ![m] = IF policy = Null THEN "dead" ELSE "search"]
      /\ access' = [access EXCEPT ![m] = a]
      /\ verdict' = [verdict EXCEPT ![m] = "none"]
  BY <1>1 DEF TexasGuard
<1>4. /\ guard' \in [Workload -> {"idle", "search", "dead"}]
      /\ guard'[m] \in {"dead", "search"}
      /\ access' \in [Workload -> Access] /\ access'[m] = a
      /\ verdict' \in [Workload -> {"none", "nopolicy", "allowed", "disallowed"}]
      /\ \A w \in Workload \ {m} : /\ guard'[w] = guard[w] /\ access'[w] = access[w]
                                   /\ verdict'[w] = verdict[w]
  BY <1>2, <1>3 DEF SysInv
<1>5. guard'[m] # "idle"
  BY <1>4
<1>6. a = AccessOf(Code(m)[ip'[m]], Code(m)[ip'[m]].flags) /\ ip'[m] = ip[m]
  BY <1>1 DEF a
<1>7. ip' \in [Workload -> Nat]
  BY <1>1 DEF SysInv
<1>8. SysInv'
  BY <1>1, <1>4, <1>5, <1>6, <1>7, OneClient
<1>. QED BY <1>1, <1>2, <1>8 DEF a

(* The return: the next instruction's access is the one that was asked about. *)
LEMMA ReturnGuardSysInv ==
  ASSUME SysInv, NEW m \in Workload, ReturnGuard(m)
  PROVE  SysInv'
<1> DEFINE k == ip[m]
           i == Code(m)[k]
<1>1. /\ guard[m] = "search" /\ access' = access /\ ip' = [ip EXCEPT ![m] = k + 1]
      /\ guard' = [guard EXCEPT ![m] = "idle"]
      /\ \E v \in {"nopolicy", "allowed", "disallowed"} :
           verdict' = [verdict EXCEPT ![m] = v]
  BY DEF ReturnGuard, GuardReturn, Advance, Logged
<1>2. k \in 1 .. Len(Code(m)) /\ i.op = "guard" /\ access[m] = AccessOf(i, i.flags)
  BY <1>1 DEF SysInv
<1>3. k \in Nat /\ (k + 1) - 1 = k
  BY DEF SysInv
<1>4. /\ ip' \in [Workload -> Nat] /\ ip'[m] = k + 1
      /\ guard' \in [Workload -> {"idle", "search", "dead"}] /\ guard'[m] = "idle"
      /\ verdict' \in [Workload -> {"none", "nopolicy", "allowed", "disallowed"}]
      /\ verdict'[m] # "none"
      /\ \A w \in Workload \ {m} : /\ ip'[w] = ip[w] /\ guard'[w] = guard[w]
                                   /\ verdict'[w] = verdict[w]
  BY <1>1, <1>3 DEF SysInv
<1>5. ASSUME k + 1 \in 1 .. Len(Code(m)), Needs(Code(m)[k + 1])
      PROVE  access[m] = AccessOf(Code(m)[k + 1], GuardFlags(Code(m)[k + 1].op))
  <2>1. i = GuardOf(Code(m)[k + 1])
    BY <1>3, <1>5, CodeFacts
  <2>2. /\ i.pointer = Code(m)[k + 1].pointer
        /\ i.flags = GuardFlags(Code(m)[k + 1].op)
    BY <2>1 DEF GuardOf
  <2>. QED BY <1>2, <2>2 DEF AccessOf
<1>6. access' \in [Workload -> Access]
  BY <1>1 DEF SysInv
<1>. QED BY <1>1, <1>4, <1>5, <1>6, OneClient

(* Any other instruction is no guard, so the next one needs none. *)
LEMMA PlainStepSysInv ==
  ASSUME SysInv, NEW m \in Workload, Perform(m) \/ ExecuteOther(m)
  PROVE  SysInv'
<1> DEFINE k == ip[m]
<1>1. /\ k \in 1 .. Len(Code(m)) /\ guard[m] = "idle" /\ Code(m)[k].op # "guard"
      /\ ip' = [ip EXCEPT ![m] = k + 1]
      /\ UNCHANGED <<guard, access, verdict>>
  BY CodeFacts DEF Perform, ExecuteOther, Executing, Advance, IsAccess, vars, guardVars
<1>2. k \in Nat /\ (k + 1) - 1 = k
  BY DEF SysInv
<1>3. k + 1 \in 1 .. Len(Code(m)) => ~ Needs(Code(m)[k + 1])
  <2>1. GuardOf(Code(m)[k + 1]).op = "guard"
    BY DEF GuardOf
  <2>. QED BY <1>1, <1>2, <2>1, CodeFacts
<1>4. /\ ip' \in [Workload -> Nat] /\ ip'[m] = k + 1
      /\ \A w \in Workload \ {m} : ip'[w] = ip[w]
  BY <1>1, <1>2 DEF SysInv
<1>. QED BY <1>1, <1>3, <1>4, OneClient DEF SysInv

LEMMA NextSysInv == SysInv /\ SysNext => SysInv'
BY PolicyKeepsClients, LoadingKeepsClients, EnterSysInv, ReturnSysInv, CallGuardSysInv,
   ReturnGuardSysInv, PlainStepSysInv DEF SysNext, ClientRuns

LEMMA SysInvariance == SysSpec => []SysInv
<1>1. SysInv /\ UNCHANGED sysVars => SysInv'
  BY NoClientMoves DEF sysVars, clientVars, vars, guardVars
<1>. QED BY <1>1, InitSysInv, NextSysInv, PTL DEF SysSpec

(***************************************************************************)
(* Every access that the pass means to guard has been asked about by this  *)
(* client, with the same address and kind of access, and been answered.    *)
(***************************************************************************)
THEOREM Asked == SysSpec => []AccessesAreAsked
<1>. SysInv => AccessesAreAsked
  BY DEF SysInv
<1>. QED BY SysInvariance, PTL
-----------------------------------------------------------------------------
LEMMA StepMaps ==
  ASSUME SysInv, SysNext
  PROVE  Next \/ UNCHANGED vars
<1>1. CASE PolicyStep
  BY <1>1 DEF PolicyStep, Next
<1>2. ASSUME NEW m \in Workload, Load(m) \/ Unload(m) PROVE Next
  BY <1>2 DEF Load, Unload, Next, ClientStep
<1>3. ASSUME NEW m \in Workload, Enter(m) \/ Return(m) \/ Perform(m) \/ ExecuteOther(m)
      PROVE  UNCHANGED vars
  BY <1>3 DEF Enter, Return, Perform, ExecuteOther, vars
<1>4. ASSUME NEW m \in Workload, CallGuard(m) PROVE Next
  BY <1>4, CallGuardSysInv DEF Next, ClientStep
<1>5. ASSUME NEW m \in Workload, ReturnGuard(m) PROVE Next
  BY <1>5 DEF ReturnGuard, Next, ClientStep
<1>. QED BY <1>1, <1>2, <1>3, <1>4, <1>5 DEF SysNext, ClientRuns

(***************************************************************************)
(* carat-cop.ko with compiled clients behaves as it does with clients that *)
(* may ask anything at any time.                                           *)
(***************************************************************************)
THEOREM Composition == SysSpec => Spec
<1>1. SysInit => Init
  BY DEF SysInit
<1>2. SysInv /\ [SysNext]_sysVars => [Next]_vars
  BY StepMaps DEF sysVars
<1>. QED BY <1>1, <1>2, SysInvariance, PTL DEF SysSpec, Spec

(***************************************************************************)
(* With PolicyFirst a policy is there for as long as a client is.          *)
(***************************************************************************)
PolicyForClients ==
  /\ clients # {} => policy # Null
  /\ \A m \in Workload : guard[m] # "dead"

LEMMA PublishHasTree ==
  ASSUME IInv, NEW p \in Process, Publish(p)
  PROVE  policy' # Null
<1>1. pc[p] = "build" /\ policy' = root[p]
  BY DEF Publish
<1>2. root[p] \in used \ {policy} /\ used \subseteq Root
  BY <1>1 DEF IInv, TreesApart, TypeOK
<1>. QED BY <1>1, <1>2, PolicyModuleAssumption

LEMMA PolicyStepAnswers ==
  ASSUME IInv, PolicyForClients, PolicyStep
  PROVE  PolicyForClients'
<1>1. CASE Removed
  <2>1. clients = {} /\ UNCHANGED <<clients, guard>>
    BY <1>1 DEF Removed, IInv, NobodyInside, guardVars
  <2>. QED BY <2>1 DEF PolicyForClients
<1>2. ASSUME NEW p \in Process, Publish(p) PROVE PolicyForClients'
  BY <1>2, PublishHasTree DEF Publish, PolicyForClients, guardVars
<1>3. CASE ~ Removed /\ ~ \E p \in Process : Publish(p)
  <2>1. UNCHANGED <<policy, clients, guard>>
    BY <1>3 DEF PolicyStep, TestInit, TestExit, ProcessStep, HandlerStep, Open, Close,
         WriteRefused, WriteReturn, ReadRefused, ReadReturn, NoMemoryForRoot,
         NoMemoryForRegion, BadPointer, OutputFault, InputPolicy, AllocRoot,
         ListToTree, OutputPolicy, PrintRegion, PrintPastBuffer, guardVars
  <2>. QED BY <2>1 DEF PolicyForClients
<1>. QED BY <1>1, <1>2, <1>3

LEMMA ClientStepAnswers ==
  ASSUME PolicyFirst, IInv, PolicyForClients, NEW m \in Workload,
         Load(m) \/ Unload(m) \/ Enter(m) \/ ClientRuns(m)
  PROVE  PolicyForClients'
<1>1. CASE Load(m) \/ Unload(m)
  BY <1>1 DEF Load, Unload, LoadClient, UnloadClient, PolicyForClients, guardVars
<1>2. CASE Enter(m) \/ Return(m) \/ Perform(m) \/ ExecuteOther(m)
  BY <1>2 DEF Enter, Return, Perform, ExecuteOther, PolicyForClients, vars, guardVars
<1>3. CASE CallGuard(m)
  <2>1. PICK a : TexasGuard(m, a)
    BY <1>3 DEF CallGuard
  <2>2. policy # Null
    BY <2>1 DEF TexasGuard, PolicyForClients
  <2>. QED BY <2>1, <2>2 DEF TexasGuard, PolicyForClients, IInv, TypeOK
<1>4. CASE ReturnGuard(m)
  BY <1>4 DEF ReturnGuard, GuardReturn, PolicyForClients, IInv, TypeOK
<1>. QED BY <1>1, <1>2, <1>3, <1>4 DEF ClientRuns

(***************************************************************************)
(* No guard of a compiled module faults, if clients are loaded only after  *)
(* a policy has been written.                                              *)
(***************************************************************************)
THEOREM Answered == ASSUME PolicyFirst PROVE SysSpec => []GuardsAreAnswered
<1>1. SysInit => PolicyForClients
  BY DEF SysInit, Init, PolicyForClients
<1>2. IInv /\ PolicyForClients /\ [SysNext]_sysVars => PolicyForClients'
  <2>1. IInv /\ PolicyForClients /\ SysNext => PolicyForClients'
    BY PolicyStepAnswers, ClientStepAnswers DEF SysNext
  <2>2. PolicyForClients /\ UNCHANGED sysVars => PolicyForClients'
    BY DEF PolicyForClients, sysVars, vars, guardVars
  <2>. QED BY <2>1, <2>2
<1>3. PolicyForClients => GuardsAreAnswered
  BY DEF PolicyForClients, GuardsAreAnswered
<1>. QED BY <1>1, <1>2, <1>3, Composition, Invariance, PTL DEF SysSpec
=============================================================================

---------------------------- MODULE PolicyModule ----------------------------
(***************************************************************************)
(* carat-cop.c as a kernel module: /proc/policydev, the policies written   *)
(* through it, the guards that consult them, and loading and removing.     *)
(*                                                                         *)
(* Processes and guarded modules run concurrently; nothing in the code     *)
(* takes a lock.  A step is what one thread does between two reads or      *)
(* writes of what others can see: the pointer test_policy.region_map, the  *)
(* memory of a tree, the list in user memory.  A tree is the set of its    *)
(* regions, with the lookup and insertion of RegionMap.                    *)
(*                                                                         *)
(* A fault (a kernel oops) kills the thread where it is: its process never *)
(* comes back from the handler.                                            *)
(***************************************************************************)
EXTENDS Regions, Sequences, FiniteSets

CONSTANTS
  Process,      \* user processes, each with one file descriptor
  Workload,     \* modules compiled with the pass, each running one thread
  Access,       \* the addresses and flags they pass to texas_guard
  PolicyList,   \* the lists in user memory, by what follows the last node
  Root,         \* the memory of the rb_roots that kmalloc hands out
  Null,
  BufRegions    \* how many printed regions output_policy's buf can hold

List == [nodes : Seq(Region), tail : {"null", "bad", "first"}]

ASSUME PolicyModuleAssumption ==
  /\ PolicyList \subseteq List
  /\ Access \subseteq [addr : Address, flags : SUBSET Flag] /\ Access # {}
  /\ Null \notin Root
  /\ BufRegions \in Nat

(* What a number that is no list's address points to. *)
Dangling == [nodes |-> <<>>, tail |-> "bad"]

VARIABLES
  module,     \* the state of carat-cop.ko
  entry,      \* ent: /proc/policydev exists
  policy,     \* test_policy.region_map
  content,    \* the regions of each tree
  used,       \* the roots allocated so far; nothing frees them
  clients,    \* the guarded modules that are loaded
  pc,         \* where each process is
  file,       \* its descriptor: closed, or whether *ppos has moved from 0
  list,       \* input_policy's list
  at,         \* how many nodes of it are in the tree
  root,       \* the tree input_policy builds or output_policy prints
  out,        \* the regions output_policy has printed
  reply,      \* how the process's last call ended
  guard,      \* where the guard of each guarded module is
  access,     \* its arguments
  map,        \* the region_map it has read
  verdict     \* what it logged last

processVars == <<pc, file, list, at, root, out, reply>>
guardVars == <<guard, access, map, verdict>>
heapVars == <<content, used>>
vars == <<module, entry, policy, heapVars, clients, processVars, guardVars>>

Init ==
  /\ module = "absent" /\ entry = FALSE /\ policy = Null
  /\ content = [t \in Root |-> {}] /\ used = {}
  /\ clients = {}
  /\ pc = [p \in Process |-> "user"]
  /\ file = [p \in Process |-> "closed"]
  /\ list = [p \in Process |-> Dangling]
  /\ at = [p \in Process |-> 0]
  /\ root = [p \in Process |-> Null]
  /\ out = [p \in Process |-> <<>>]
  /\ reply = [p \in Process |-> "none"]
  /\ guard = [m \in Workload |-> "idle"]
  /\ access = [m \in Workload |-> CHOOSE a \in Access : TRUE]
  /\ map = [m \in Workload |-> Null]
  /\ verdict = [m \in Workload |-> "none"]
-----------------------------------------------------------------------------
(***************************************************************************)
(* Loading and removing.  test_init ignores the result of proc_create; the *)
(* symbol texas_guard makes each guarded module hold a reference, so rmmod *)
(* is refused while one is loaded.                                         *)
(***************************************************************************)
TestInit ==
  /\ module = "absent"
  /\ module' = "live"
  /\ entry' \in BOOLEAN
  /\ UNCHANGED <<policy, heapVars, clients, processVars, guardVars>>

LoadClient(m) ==
  /\ module = "live" /\ m \notin clients
  /\ clients' = clients \cup {m}
  /\ UNCHANGED <<module, entry, policy, heapVars, processVars, guardVars>>

UnloadClient(m) ==
  /\ m \in clients /\ guard[m] = "idle"
  /\ clients' = clients \ {m}
  /\ UNCHANGED <<module, entry, policy, heapVars, processVars, guardVars>>

(* test_exit: proc_remove takes the entry away from new calls ... *)
TestExit ==
  /\ module = "live" /\ clients = {}
  /\ module' = "leaving"
  /\ entry' = FALSE
  /\ UNCHANGED <<policy, heapVars, clients, processVars, guardVars>>

(* Mistakes: not to wait; to wait for every open file to be closed. *)
RemovedAtOnce ==
  /\ module = "leaving"
  /\ module' = "absent"
  /\ policy' = Null
  /\ file' = [p \in Process |-> "closed"]
  /\ UNCHANGED <<entry, heapVars, clients, pc, list, at, root, out, reply, guardVars>>

RemovedWhenClosed ==
  /\ module = "leaving"
  /\ \A p \in Process : pc[p] = "user" /\ file[p] = "closed"
  /\ module' = "absent"
  /\ policy' = Null
  /\ UNCHANGED <<entry, heapVars, clients, processVars, guardVars>>

(* ... and waits for those in progress; then the module's memory goes. *)
Removed ==
  /\ module = "leaving" /\ \A p \in Process : pc[p] = "user"
  /\ module' = "absent"
  /\ policy' = Null
  /\ file' = [p \in Process |-> "closed"]
  /\ UNCHANGED <<entry, heapVars, clients, pc, list, at, root, out, reply, guardVars>>
-----------------------------------------------------------------------------
Open(p) ==
  /\ entry /\ pc[p] = "user" /\ file[p] = "closed"
  /\ file' = [file EXCEPT ![p] = "start"]
  /\ UNCHANGED <<module, entry, policy, heapVars, clients, pc, list, at, root, out, reply,
                 guardVars>>

Close(p) ==
  /\ pc[p] = "user" /\ file[p] # "closed"
  /\ file' = [file EXCEPT ![p] = "closed"]
  /\ UNCHANGED <<module, entry, policy, heapVars, clients, pc, list, at, root, out, reply,
                 guardVars>>

(* procfs lets a call through to the module while the entry exists. *)
MayCall(p) == entry /\ pc[p] = "user" /\ file[p] # "closed"

(* A return to user space; the locals of the handler are gone. *)
Leave(p, r, printed) ==
  /\ pc' = [pc EXCEPT ![p] = "user"]
  /\ reply' = [reply EXCEPT ![p] = r]
  /\ out' = [out EXCEPT ![p] = printed]
  /\ list' = [list EXCEPT ![p] = Dangling]
  /\ at' = [at EXCEPT ![p] = 0]
  /\ root' = [root EXCEPT ![p] = Null]

Die(p) ==
  /\ pc' = [pc EXCEPT ![p] = "dead"]
  /\ reply' = [reply EXCEPT ![p] = "none"]
  /\ out' = [out EXCEPT ![p] = <<>>]
  /\ list' = [list EXCEPT ![p] = Dangling]
  /\ at' = [at EXCEPT ![p] = 0]
  /\ root' = [root EXCEPT ![p] = Null]
-----------------------------------------------------------------------------
(***************************************************************************)
(* input_policy returns -EFAULT if the position has moved, the input is    *)
(* too long or unreadable, or it does not begin with a number.             *)
(***************************************************************************)
WriteRefused(p) ==
  /\ MayCall(p)
  /\ Leave(p, "refused", <<>>)
  /\ UNCHANGED <<module, entry, policy, heapVars, clients, file, guardVars>>

(***************************************************************************)
(* buf is not terminated after the input, so digits that happen to follow  *)
(* it become part of the number.                                           *)
(***************************************************************************)
InputPolicy(p, l) ==
  /\ MayCall(p) /\ file[p] = "start"
  /\ pc' = [pc EXCEPT ![p] = "alloc"]
  /\ \E parsed \in {l, Dangling} : list' = [list EXCEPT ![p] = parsed]
  /\ reply' = [reply EXCEPT ![p] = "none"]
  /\ out' = [out EXCEPT ![p] = <<>>]
  /\ UNCHANGED <<module, entry, policy, heapVars, clients, file, at, root, guardVars>>

(* Mistakes: to build in the tree in force; to give it up before building. *)
AllocRootInPlace(p, t) ==
  /\ pc[p] = "alloc" /\ (t \notin used \/ t = policy)
  /\ used' = used \cup {t}
  /\ root' = [root EXCEPT ![p] = t]
  /\ pc' = [pc EXCEPT ![p] = "build"]
  /\ UNCHANGED <<module, entry, policy, content, clients, file, list, at, out, reply,
                 guardVars>>

AllocRootDropsPolicy(p, t) ==
  /\ pc[p] = "alloc" /\ t \notin used
  /\ policy' = Null
  /\ used' = used \cup {t}
  /\ root' = [root EXCEPT ![p] = t]
  /\ pc' = [pc EXCEPT ![p] = "build"]
  /\ UNCHANGED <<module, entry, content, clients, file, list, at, out, reply, guardVars>>

AllocRoot(p, t) ==
  /\ pc[p] = "alloc" /\ t \notin used
  /\ used' = used \cup {t}
  /\ root' = [root EXCEPT ![p] = t]
  /\ pc' = [pc EXCEPT ![p] = "build"]
  /\ UNCHANGED <<module, entry, policy, content, clients, file, list, at, out, reply,
                 guardVars>>

(***************************************************************************)
(* One iteration of list_to_tree.  The result of insert_region is ignored. *)
(* A list that leads back to its first node is walked for ever; from the   *)
(* second round on nothing is inserted, and the rounds are left out.       *)
(***************************************************************************)
AtEnd(p) == at[p] = Len(list[p].nodes)

(* Mistakes: list = list->next is done twice, or not at all. *)
ListToTreeSkips(p) ==
  /\ pc[p] = "build" /\ ~ AtEnd(p)
  /\ content' = [content EXCEPT ![root[p]] = WithRegion(@, list[p].nodes[at[p] + 1])]
  /\ at' = [at EXCEPT ![p] = @ + 2]
  /\ UNCHANGED <<module, entry, policy, used, clients, pc, file, list, root, out, reply,
                 guardVars>>

ListToTreeStays(p) ==
  /\ pc[p] = "build" /\ ~ AtEnd(p)
  /\ content' = [content EXCEPT ![root[p]] = WithRegion(@, list[p].nodes[at[p] + 1])]
  /\ UNCHANGED <<module, entry, policy, used, clients, pc, file, list, at, root, out,
                 reply, guardVars>>

ListToTree(p) ==
  /\ pc[p] = "build" /\ ~ AtEnd(p)
  /\ content' = [content EXCEPT ![root[p]] = WithRegion(@, list[p].nodes[at[p] + 1])]
  /\ at' = [at EXCEPT ![p] = @ + 1]
  /\ UNCHANGED <<module, entry, policy, used, clients, pc, file, list, root, out, reply,
                 guardVars>>

(* kmalloc returns NULL, which input_policy and list_to_tree do not expect. *)
NoMemoryForRoot(p) ==
  /\ pc[p] = "alloc"
  /\ Die(p)
  /\ UNCHANGED <<module, entry, policy, heapVars, clients, file, guardVars>>

NoMemoryForRegion(p) ==
  /\ pc[p] = "build" /\ (AtEnd(p) => list[p].tail = "first")
  /\ Die(p)
  /\ UNCHANGED <<module, entry, policy, heapVars, clients, file, guardVars>>

(* list->addr is read through a bad pointer. *)
BadPointer(p) ==
  /\ pc[p] = "build" /\ AtEnd(p) /\ list[p].tail = "bad"
  /\ Die(p)
  /\ UNCHANGED <<module, entry, policy, heapVars, clients, file, guardVars>>

(* Mistakes: to publish before building; to free the old tree at once. *)
PublishEarly(p) ==
  /\ pc[p] = "build" /\ list[p].tail = "null"
  /\ policy' = root[p]
  /\ pc' = [pc EXCEPT ![p] = "stored"]
  /\ UNCHANGED <<module, entry, heapVars, clients, file, list, at, root, out, reply,
                 guardVars>>

PublishAndFree(p) ==
  /\ pc[p] = "build" /\ AtEnd(p) /\ list[p].tail = "null"
  /\ policy' = root[p]
  /\ content' = [t \in Root |-> IF t = policy THEN {} ELSE content[t]]
  /\ pc' = [pc EXCEPT ![p] = "stored"]
  /\ UNCHANGED <<module, entry, used, clients, file, list, at, root, out, reply, guardVars>>

(* The new policy replaces the old one, whose tree nobody frees. *)
Publish(p) ==
  /\ pc[p] = "build" /\ AtEnd(p) /\ list[p].tail = "null"
  /\ policy' = root[p]
  /\ pc' = [pc EXCEPT ![p] = "stored"]
  /\ UNCHANGED <<module, entry, heapVars, clients, file, list, at, root, out, reply,
                 guardVars>>

WriteReturn(p) ==
  /\ pc[p] = "stored"
  /\ file' = [file EXCEPT ![p] = "moved"]
  /\ Leave(p, "done", <<>>)
  /\ UNCHANGED <<module, entry, policy, heapVars, clients, guardVars>>
-----------------------------------------------------------------------------
(***************************************************************************)
(* output_policy returns 0 if the position has moved or the user's buffer  *)
(* is short.                                                               *)
(***************************************************************************)
ReadRefused(p) ==
  /\ MayCall(p)
  /\ Leave(p, "eof", <<>>)
  /\ UNCHANGED <<module, entry, policy, heapVars, clients, file, guardVars>>

(* rb_first reads through region_map. *)
OutputPolicy(p) ==
  /\ MayCall(p) /\ file[p] = "start" /\ policy # Null
  /\ pc' = [pc EXCEPT ![p] = "print"]
  /\ root' = [root EXCEPT ![p] = policy]
  /\ reply' = [reply EXCEPT ![p] = "none"]
  /\ out' = [out EXCEPT ![p] = <<>>]
  /\ UNCHANGED <<module, entry, policy, heapVars, clients, file, list, at, guardVars>>

OutputFault(p) ==
  /\ MayCall(p) /\ file[p] = "start" /\ policy = Null
  /\ Die(p)
  /\ UNCHANGED <<module, entry, policy, heapVars, clients, file, guardVars>>

(* The regions rb_next has yet to visit. *)
Unprinted(p) ==
  {r \in content[root[p]] : \A i \in DOMAIN out[p] : out[p][i].addr < r.addr}

(* Mistake: to print the regions in any order. *)
PrintAnyRegion(p) ==
  /\ pc[p] = "print" /\ Len(out[p]) < BufRegions
  /\ \E r \in Unprinted(p) : out' = [out EXCEPT ![p] = Append(@, r)]
  /\ UNCHANGED <<module, entry, policy, heapVars, clients, pc, file, list, at, root, reply,
                 guardVars>>

PrintRegion(p) ==
  /\ pc[p] = "print" /\ Len(out[p]) < BufRegions
  /\ \E r \in Unprinted(p) :
       /\ \A s \in Unprinted(p) : r.addr <= s.addr
       /\ out' = [out EXCEPT ![p] = Append(@, r)]
  /\ UNCHANGED <<module, entry, policy, heapVars, clients, pc, file, list, at, root, reply,
                 guardVars>>

(***************************************************************************)
(* sprintf writes past buf, over the handler's own frame.  What happens is *)
(* undefined; here the thread stops, as the kernel's checks of the stack   *)
(* and of copy_to_user's size make it.                                     *)
(***************************************************************************)
PrintPastBuffer(p) ==
  /\ pc[p] = "print" /\ Len(out[p]) >= BufRegions /\ Unprinted(p) # {}
  /\ Die(p)
  /\ UNCHANGED <<module, entry, policy, heapVars, clients, file, guardVars>>

(* Mistake: to return before the last region. *)
ReadReturnShort(p) ==
  /\ pc[p] = "print"
  /\ file' = [file EXCEPT ![p] = "moved"]
  /\ Leave(p, "done", out[p])
  /\ UNCHANGED <<module, entry, policy, heapVars, clients, guardVars>>

(* copy_to_user; a policy without regions leaves the position at 0. *)
ReadReturn(p) ==
  /\ pc[p] = "print" /\ Unprinted(p) = {}
  /\ \/ /\ file' = [file EXCEPT ![p] = IF out[p] = <<>> THEN "start" ELSE "moved"]
        /\ Leave(p, "done", out[p])
     \/ /\ UNCHANGED file
        /\ Leave(p, "refused", <<>>)
  /\ UNCHANGED <<module, entry, policy, heapVars, clients, guardVars>>
-----------------------------------------------------------------------------
(***************************************************************************)
(* texas_guard reads region_map once; lookup_region reads root->rb_node,   *)
(* which faults if there is no policy yet.                                 *)
(***************************************************************************)
TexasGuard(m, a) ==
  /\ m \in clients /\ guard[m] = "idle"
  /\ guard' = [guard EXCEPT ![m] = IF policy = Null THEN "dead" ELSE "search"]
  /\ access' = [access EXCEPT ![m] = a]
  /\ map' = [map EXCEPT ![m] = policy]
  /\ verdict' = [verdict EXCEPT ![m] = "none"]
  /\ UNCHANGED <<module, entry, policy, heapVars, clients, processVars>>

(* What is logged about the region that was found. *)
Logged(r, flags) ==
  IF r = NoRegion THEN "nopolicy"
  ELSE IF CheckProtections(flags, r.protect) THEN "allowed" ELSE "disallowed"

(* Mistake: nothing is logged. *)
GuardReturnSilently(m) ==
  /\ guard[m] = "search"
  /\ guard' = [guard EXCEPT ![m] = "idle"]
  /\ map' = [map EXCEPT ![m] = Null]
  /\ UNCHANGED <<module, entry, policy, heapVars, clients, processVars, access, verdict>>

GuardReturn(m) ==
  /\ guard[m] = "search"
  /\ \E r \in content[map[m]] \cup {NoRegion} :
       /\ MayFind(content[map[m]], access[m].addr, r)
       /\ verdict' = [verdict EXCEPT ![m] = Logged(r, access[m].flags)]
  /\ guard' = [guard EXCEPT ![m] = "idle"]
  /\ map' = [map EXCEPT ![m] = Null]
  /\ UNCHANGED <<module, entry, policy, heapVars, clients, processVars, access>>
-----------------------------------------------------------------------------
HandlerStep(p) ==
  \/ (\E t \in Root : AllocRoot(p, t)) \/ NoMemoryForRoot(p)
  \/ ListToTree(p) \/ BadPointer(p) \/ Publish(p) \/ WriteReturn(p)
  \/ PrintRegion(p) \/ PrintPastBuffer(p) \/ ReadReturn(p)

ProcessStep(p) ==
  \/ Open(p) \/ Close(p)
  \/ WriteRefused(p) \/ (\E l \in PolicyList : InputPolicy(p, l)) \/ NoMemoryForRegion(p)
  \/ ReadRefused(p) \/ OutputPolicy(p) \/ OutputFault(p)
  \/ HandlerStep(p)

ClientStep(m) ==
  \/ LoadClient(m) \/ UnloadClient(m)
  \/ (\E a \in Access : TexasGuard(m, a)) \/ GuardReturn(m)

Next ==
  \/ TestInit \/ TestExit \/ Removed
  \/ \E p \in Process : ProcessStep(p)
  \/ \E m \in Workload : ClientStep(m)

Spec == Init /\ [][Next]_vars

(***************************************************************************)
(* The scheduler runs every thread that is in a handler or a guard, and    *)
(* wakes the process that waits in proc_remove.                            *)
(***************************************************************************)
Fairness ==
  /\ \A p \in Process : WF_vars(HandlerStep(p))
  /\ \A m \in Workload : WF_vars(GuardReturn(m))
  /\ WF_vars(Removed)

FairSpec == Spec /\ Fairness
-----------------------------------------------------------------------------
TypeOK ==
  /\ module \in {"absent", "live", "leaving"} /\ entry \in BOOLEAN
  /\ policy \in Root \cup {Null}
  /\ content \in [Root -> SUBSET Region] /\ used \in SUBSET Root
  /\ clients \in SUBSET Workload
  /\ pc \in [Process -> {"user", "alloc", "build", "stored", "print", "dead"}]
  /\ file \in [Process -> {"closed", "start", "moved"}]
  /\ list \in [Process -> List]
  /\ at \in [Process -> Nat] /\ \A p \in Process : at[p] <= Len(list[p].nodes)
  /\ root \in [Process -> Root \cup {Null}]
  /\ out \in [Process -> Seq(Region)]
  /\ reply \in [Process -> {"none", "done", "refused", "eof"}]
  /\ guard \in [Workload -> {"idle", "search", "dead"}]
  /\ access \in [Workload -> Access]
  /\ map \in [Workload -> Root \cup {Null}]
  /\ verdict \in [Workload -> {"none", "nopolicy", "allowed", "disallowed"}]

(***************************************************************************)
(* The policy that guards and readers find is never one under              *)
(* construction: it holds the regions of a whole NULL-terminated list,     *)
(* the first of each start address, however many processes write at once.  *)
(***************************************************************************)
PolicyIsWhole ==
  policy # Null =>
    \E l \in PolicyList :
      l.tail = "null" /\ content[policy] = FirstOfEach(l.nodes, Len(l.nodes))

(***************************************************************************)
(* A tree that input_policy is building is its own: no guard, no reader    *)
(* and no other writer has a pointer to it, and it holds what has been     *)
(* read of the list.                                                       *)
(***************************************************************************)
TreesApart ==
  \A p \in Process : pc[p] = "build" =>
    /\ root[p] \in used \ {policy}
    /\ \A q \in Process \ {p} : root[q] # root[p]
    /\ \A m \in Workload : map[m] # root[p]
    /\ content[root[p]] = FirstOfEach(list[p].nodes, at[p])

(***************************************************************************)
(* A guard that searches and a reader that prints keep the tree they       *)
(* started with intact, also when a newer policy replaces it meanwhile.    *)
(***************************************************************************)
SnapshotsHold ==
  [][/\ \A m \in Workload :
          guard[m] = "search" => content'[map[m]] = content[map[m]]
     /\ \A p \in Process :
          pc[p] = "print" => content'[root[p]] = content[root[p]]]_vars

(***************************************************************************)
(* What output_policy has printed is the beginning of its tree: the        *)
(* regions in ascending order, and none left out.                          *)
(***************************************************************************)
OutputInOrder ==
  \A p \in Process : pc[p] = "print" =>
    /\ \A i, j \in DOMAIN out[p] : i < j => out[p][i].addr < out[p][j].addr
    /\ content[root[p]] \ Unprinted(p) = {out[p][i] : i \in DOMAIN out[p]}

(***************************************************************************)
(* Once carat-cop.ko has been removed no thread is in its code, and no     *)
(* policy survives it; a process that died in a handler keeps it loaded.   *)
(***************************************************************************)
NobodyInside ==
  /\ module # "live" => clients = {} /\ ~ entry
  /\ \A m \in Workload \ clients : guard[m] = "idle"
  /\ module = "absent" => policy = Null /\ \A p \in Process : pc[p] = "user"

(***************************************************************************)
(* The function a guard calls is there to answer: no guard faults.  The    *)
(* code does not see to it; who loads the modules has to.                  *)
(***************************************************************************)
GuardsAreAnswered == \A m \in Workload : guard[m] # "dead"

(* A call of a handler ends, by a return or by a fault. *)
InHandler(p) == pc[p] \notin {"user", "dead"}
CallsEnd == \A p \in Process : InHandler(p) ~> ~InHandler(p)

(* rmmod ends, unless a process has died in a handler. *)
Leaving == module = "leaving"
LeftOrStuck == module = "absent" \/ \E p \in Process : pc[p] = "dead"
RemovalEnds == Leaving ~> LeftOrStuck

(***************************************************************************)
(* Writes, reads and guards take effect at one moment of their call, on    *)
(* whole policies.                                                         *)
(***************************************************************************)
Building(p) == pc[p] \in {"alloc", "build"}

Register == IF policy = Null THEN {} ELSE content[policy]

Doing ==
  [p \in Process |->
     IF pc[p] = "user" THEN "none"
     ELSE IF Building(p) THEN IF list[p].tail = "null" THEN "write" ELSE "doomed"
     ELSE IF pc[p] = "stored" THEN "written"
     ELSE IF pc[p] = "print" THEN "read" ELSE "dead"]

(* What the writer will write, or the reader reads. *)
Subject ==
  [p \in Process |->
     IF Building(p) THEN FirstOfEach(list[p].nodes, Len(list[p].nodes))
     ELSE IF pc[p] = "print" THEN content[root[p]] ELSE {}]

Result == [p \in Process |-> IF pc[p] = "print" THEN <<>> ELSE out[p]]

Searched == [m \in Workload |-> IF guard[m] = "search" THEN content[map[m]] ELSE {}]

Store == INSTANCE PolicyStore WITH
  PolicyList <- PolicyList \cup {Dangling},
  installed <- policy # Null, register <- Register,
  op <- Doing, arg <- Subject, out <- Result, asked <- access, seen <- Searched

StoreSpec == Store!Spec
=============================================================================

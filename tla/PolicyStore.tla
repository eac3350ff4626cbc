---------------------------- MODULE PolicyStore ----------------------------
(***************************************************************************)
(* What /proc/policydev and texas_guard promise to processes and guarded   *)
(* modules: one register that holds a whole policy.                        *)
(*                                                                         *)
(*  - a write replaces the policy at one moment between its call and its   *)
(*    return, by exactly the regions of the list it was given; a write     *)
(*    that is refused, or that faults, replaces nothing;                   *)
(*  - a read returns the regions of the policy at one moment of the call,  *)
(*    in ascending order;                                                  *)
(*  - the verdict of a guard is the one the policy calls for at one moment *)
(*    of the call;                                                         *)
(*  - removing the module drops the policy, when no call is in progress.   *)
(***************************************************************************)
EXTENDS Regions, Sequences

CONSTANTS
  Process,      \* user processes
  Workload,     \* guarded modules
  Access,       \* the addresses and flags they pass to texas_guard
  PolicyList    \* the lists a process passes to the module

VARIABLES
  installed,    \* a policy has been written
  register,     \* its regions
  op,           \* what each process is doing
  arg,          \* the regions it writes, or has read
  out,          \* the regions a read has returned
  reply,        \* how the last call of each process ended
  guard,        \* what each guarded module is doing
  asked,        \* the access it asks about
  seen,         \* the regions its guard looks at
  verdict       \* the answer to its last guard

vars == <<installed, register, op, arg, out, reply, guard, asked, seen, verdict>>

process == <<op, arg, out, reply>>
workload == <<guard, asked, seen, verdict>>

(* s lists the regions of R by ascending start address. *)
InOrder(s, R) ==
  /\ {s[i] : i \in DOMAIN s} = R
  /\ \A i, j \in DOMAIN s : i < j => s[i].addr < s[j].addr

(* What texas_guard logs of the region it found. *)
Verdict(r, flags) ==
  IF r = NoRegion THEN "nopolicy"
  ELSE IF CheckProtections(flags, r.protect) THEN "allowed" ELSE "disallowed"

Init ==
  /\ installed = FALSE /\ register = {}
  /\ op = [p \in Process |-> "none"]
  /\ arg = [p \in Process |-> {}]
  /\ out = [p \in Process |-> <<>>]
  /\ reply = [p \in Process |-> "none"]
  /\ guard = [m \in Workload |-> "idle"]
  /\ asked \in [Workload -> Access]
  /\ seen = [m \in Workload |-> {}]
  /\ verdict = [m \in Workload |-> "none"]

Step(p, from, to) == op[p] = from /\ op' = [op EXCEPT ![p] = to]

Refuse(p) ==
  /\ op[p] = "none"
  /\ \E r \in {"refused", "eof"} : reply' = [reply EXCEPT ![p] = r]
  /\ out' = [out EXCEPT ![p] = <<>>]
  /\ UNCHANGED <<installed, register, op, arg, workload>>

(* The write of a list that does not end in NULL never takes effect. *)
WriteBegin(p, l) ==
  /\ Step(p, "none", IF l.tail = "null" THEN "write" ELSE "doomed")
  /\ arg' = [arg EXCEPT ![p] = FirstOfEach(l.nodes, Len(l.nodes))]
  /\ reply' = [reply EXCEPT ![p] = "none"]
  /\ out' = [out EXCEPT ![p] = <<>>]
  /\ UNCHANGED <<installed, register, workload>>

WriteTake(p) ==
  /\ Step(p, "write", "written")
  /\ installed' = TRUE
  /\ register' = arg[p]
  /\ arg' = [arg EXCEPT ![p] = {}]
  /\ UNCHANGED <<out, reply, workload>>

WriteEnd(p) ==
  /\ Step(p, "written", "none")
  /\ reply' = [reply EXCEPT ![p] = "done"]
  /\ UNCHANGED <<installed, register, arg, out, workload>>

ReadTake(p) ==
  /\ installed
  /\ Step(p, "none", "read")
  /\ arg' = [arg EXCEPT ![p] = register]
  /\ reply' = [reply EXCEPT ![p] = "none"]
  /\ out' = [out EXCEPT ![p] = <<>>]
  /\ UNCHANGED <<installed, register, workload>>

ReadEnd(p) ==
  /\ Step(p, "read", "none")
  /\ \/ /\ InOrder(out'[p], arg[p])
        /\ out' = [out EXCEPT ![p] = out'[p]]
        /\ reply' = [reply EXCEPT ![p] = "done"]
     \/ /\ reply' = [reply EXCEPT ![p] = "refused"]
        /\ UNCHANGED out
  /\ arg' = [arg EXCEPT ![p] = {}]
  /\ UNCHANGED <<installed, register, workload>>

(* The kernel kills a process whose call faults. *)
Fault(p) ==
  /\ op[p] \in {"none", "write", "doomed", "read"}
  /\ op' = [op EXCEPT ![p] = "dead"]
  /\ arg' = [arg EXCEPT ![p] = {}]
  /\ reply' = [reply EXCEPT ![p] = "none"]
  /\ out' = [out EXCEPT ![p] = <<>>]
  /\ UNCHANGED <<installed, register, workload>>

GuardTake(m, a) ==
  /\ guard[m] = "idle"
  /\ guard' = [guard EXCEPT ![m] = IF installed THEN "search" ELSE "dead"]
  /\ asked' = [asked EXCEPT ![m] = a]
  /\ seen' = [seen EXCEPT ![m] = register]
  /\ verdict' = [verdict EXCEPT ![m] = "none"]
  /\ UNCHANGED <<installed, register, process>>

GuardEnd(m) ==
  /\ guard[m] = "search"
  /\ guard' = [guard EXCEPT ![m] = "idle"]
  /\ \E r \in seen[m] \cup {NoRegion} :
       /\ MayFind(seen[m], asked[m].addr, r)
       /\ verdict' = [verdict EXCEPT ![m] = Verdict(r, asked[m].flags)]
  /\ seen' = [seen EXCEPT ![m] = {}]
  /\ UNCHANGED <<installed, register, asked, process>>

Unload ==
  /\ \A p \in Process : op[p] = "none"
  /\ \A m \in Workload : guard[m] = "idle"
  /\ installed' = FALSE /\ register' = {}
  /\ UNCHANGED <<process, workload>>

Next ==
  \/ \E p \in Process :
       \/ Refuse(p)
       \/ \E l \in PolicyList : WriteBegin(p, l)
       \/ WriteTake(p) \/ WriteEnd(p)
       \/ ReadTake(p) \/ ReadEnd(p)
       \/ Fault(p)
  \/ \E m \in Workload : (\E a \in Access : GuardTake(m, a)) \/ GuardEnd(m)
  \/ Unload

Spec == Init /\ [][Next]_vars
=============================================================================

---------------------------- MODULE CaratSystem ----------------------------
(***************************************************************************)
(* Modules compiled with the pass, running against the policy module: each *)
(* loaded client executes a compiled function over and over, instruction   *)
(* by instruction, while processes write and read policies.                *)
(*                                                                         *)
(* texas_guard returns nothing, so the instruction after a guard runs      *)
(* whatever the guard has logged.                                          *)
(***************************************************************************)
EXTENDS PolicyModule, GuardedCode

CONSTANTS
  Runs,          \* the function each client executes
  AddressOf,     \* the address each pointer holds at run time
  PolicyFirst    \* clients are loaded only once a policy has been written

ASSUME CaratSystemAssumption ==
  /\ Runs \in [Workload -> Function]
  /\ AddressOf \in [Value -> Address]
  /\ {"r", "w"} \subseteq Flag
  /\ \A v \in Value, f \in SUBSET Flag : [addr |-> AddressOf[v], flags |-> f] \in Access
  /\ PolicyFirst \in BOOLEAN

VARIABLES
  ip,          \* the instruction each client is at; 0 outside its function
  performed    \* its last access to memory, and the verdict it went with

clientVars == <<ip, performed>>
sysVars == <<vars, clientVars>>

None == [verdict |-> "none"]

SysInit ==
  /\ Init
  /\ ip = [m \in Workload |-> 0]
  /\ performed = [m \in Workload |-> None]

(* The functions as the pass has compiled them. *)
CompiledCode == [m \in Workload |-> Compiled(Runs[m])]

Code(m) == CompiledCode[m]

Executing(m) == ip[m] \in DOMAIN Code(m) /\ guard[m] = "idle"

Advance(m) == ip' = [ip EXCEPT ![m] = @ + 1]

AccessOf(i, flags) == [addr |-> AddressOf[i.pointer], flags |-> flags]

Load(m) ==
  /\ PolicyFirst => policy # Null
  /\ LoadClient(m)
  /\ UNCHANGED clientVars

Unload(m) == ip[m] = 0 /\ UnloadClient(m) /\ UNCHANGED clientVars

Enter(m) ==
  /\ m \in clients /\ ip[m] = 0
  /\ ip' = [ip EXCEPT ![m] = 1]
  /\ UNCHANGED <<vars, performed>>

Return(m) ==
  /\ ip[m] > Len(Code(m))
  /\ ip' = [ip EXCEPT ![m] = 0]
  /\ performed' = [performed EXCEPT ![m] = None]
  /\ UNCHANGED vars

(* A call of texas_guard, and its return. *)
CallGuard(m) ==
  /\ Executing(m)
  /\ LET i == Code(m)[ip[m]] IN
     i.op = "guard" /\ TexasGuard(m, AccessOf(i, i.flags))
  /\ UNCHANGED clientVars

(* Mistake: the guard is called again. *)
ReturnGuardAgain(m) == GuardReturn(m) /\ UNCHANGED clientVars

ReturnGuard(m) == GuardReturn(m) /\ Advance(m) /\ UNCHANGED performed

Perform(m) ==
  /\ Executing(m)
  /\ LET i == Code(m)[ip[m]] IN
     /\ IsAccess(i)
     /\ performed' = [performed EXCEPT ![m] =
          [access |-> AccessOf(i, GuardFlags(i.op)),
           verdict |-> IF Needs(i) THEN verdict[m] ELSE "exempt"]]
  /\ Advance(m)
  /\ UNCHANGED vars

ExecuteOther(m) ==
  /\ Executing(m) /\ Code(m)[ip[m]].op = "other"
  /\ Advance(m)
  /\ UNCHANGED <<vars, performed>>

ClientRuns(m) ==
  \/ Return(m) \/ CallGuard(m) \/ ReturnGuard(m) \/ Perform(m) \/ ExecuteOther(m)

PolicyStep ==
  /\ \/ TestInit \/ TestExit \/ Removed
     \/ \E p \in Process : ProcessStep(p)
  /\ UNCHANGED clientVars

SysNext ==
  \/ PolicyStep
  \/ \E m \in Workload : Load(m) \/ Unload(m) \/ Enter(m) \/ ClientRuns(m)

SysSpec == SysInit /\ [][SysNext]_sysVars

(* Only the clients' own threads are sure to be scheduled. *)
SysFairSpec == SysSpec /\ \A m \in Workload : WF_sysVars(ClientRuns(m))
-----------------------------------------------------------------------------
SysTypeOK ==
  /\ \A m \in Workload : ip[m] \in 0 .. Len(Code(m)) + 1
  /\ \A m \in Workload :
       performed[m] = None \/
       /\ performed[m].access \in Access
       /\ performed[m].verdict \in {"nopolicy", "allowed", "disallowed", "exempt"}

(***************************************************************************)
(* No access that the pass means to guard happens unasked: the guard that  *)
(* this client called last was for the same address and the same kind of   *)
(* access, and it has answered.                                            *)
(***************************************************************************)
AccessesAreAsked ==
  \A m \in Workload :
    Executing(m) /\ IsAccess(Code(m)[ip[m]]) /\ Needs(Code(m)[ip[m]]) =>
      LET i == Code(m)[ip[m]] IN
      /\ access[m] = AccessOf(i, GuardFlags(i.op))
      /\ verdict[m] # "none"

(* "Bounds protection": what a guard has disallowed does not happen. *)
DisallowedAccessesAreStopped ==
  \A m \in Workload : performed[m].verdict # "disallowed"

(***************************************************************************)
(* A client's function ends, or dies in a guard, whatever processes do to  *)
(* the policy meanwhile, and also if they are stuck in a handler.          *)
(***************************************************************************)
FunctionsEnd ==
  \A m \in Workload : ip[m] # 0 ~> ip[m] = 0 \/ guard[m] = "dead"
=============================================================================

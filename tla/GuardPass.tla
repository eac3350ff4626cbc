----------------------------- MODULE GuardPass -----------------------------
(***************************************************************************)
(* TexasProtectionPass::runOnModule: every function is scanned for loads   *)
(* and stores, each pointer is followed to what it is derived from, and    *)
(* the guards found are inserted once all functions have been scanned, in  *)
(* the order of an unordered_map.                                          *)
(***************************************************************************)
EXTENDS GuardedCode

VARIABLES
  phase,       \* where runOnModule is
  function,    \* F: the function it scans
  index,       \* I: the instruction it looks at
  baseptr,     \* how far it has followed the pointer
  scanned,     \* the functions done
  toGuard,     \* the guards of F
  allGuards,   \* the guards of all functions
  code         \* the module; an instruction of the source keeps its place as `id'

vars == <<phase, function, index, baseptr, scanned, toGuard, allGuards, code>>

Source(f) ==
  [k \in 1 .. Len(Body[f]) |-> [id |-> k, inst |-> Body[f][k]]]

Init ==
  /\ phase = "scan"
  /\ function \in Function
  /\ index = 1
  /\ baseptr \in Value
  /\ scanned = {} /\ toGuard = {} /\ allGuards = {}
  /\ code = [f \in Function |-> Source(f)]

Current == Body[function][index]

InFunction == phase = "scan" /\ index <= Len(Body[function])

(* Other instructions than loads and stores are passed over. *)
ScanOther ==
  /\ InFunction /\ ~ IsAccess(Current)
  /\ index' = index + 1
  /\ UNCHANGED <<phase, function, baseptr, scanned, toGuard, allGuards, code>>

(* insertGuard begins with the pointer operand ... *)
ScanAccess ==
  /\ InFunction /\ IsAccess(Current)
  /\ phase' = "chase"
  /\ baseptr' = Current.pointer
  /\ UNCHANGED <<function, index, scanned, toGuard, allGuards, code>>

(* Mistake: baseptr is not advanced. *)
GetInternalPointerStays ==
  /\ phase = "chase" /\ Derived(baseptr)
  /\ UNCHANGED vars

(* ... and follows it while getInternalPointer finds what it points into. *)
GetInternalPointer ==
  /\ phase = "chase" /\ Derived(baseptr)
  /\ baseptr' = Def[baseptr].operand
  /\ UNCHANGED <<phase, function, index, scanned, toGuard, allGuards, code>>

(* Mistake: the base decides about allocations too. *)
InsertGuardByBase ==
  /\ phase = "chase" /\ ~ Derived(baseptr)
  /\ toGuard' = IF Def[baseptr].kind = "alloca" \/ FreshlyAllocated(baseptr)
                THEN toGuard
                ELSE toGuard \cup {[function |-> function, id |-> index,
                                    guard |-> GuardOf(Current)]}
  /\ phase' = "scan"
  /\ index' = index + 1
  /\ UNCHANGED <<function, baseptr, scanned, allGuards, code>>

(***************************************************************************)
(* The end of insertGuard.  The base decides about the stack, the pointer  *)
(* itself about allocations.                                               *)
(***************************************************************************)
InsertGuard ==
  /\ phase = "chase" /\ ~ Derived(baseptr)
  /\ toGuard' = IF Def[baseptr].kind = "alloca" \/ FreshlyAllocated(Current.pointer)
                THEN toGuard
                ELSE toGuard \cup {[function |-> function, id |-> index,
                                    guard |-> GuardOf(Current)]}
  /\ phase' = "scan"
  /\ index' = index + 1
  /\ UNCHANGED <<function, baseptr, scanned, allGuards, code>>

(* Mistake: the next function is not scanned from its beginning. *)
EndFunctionKeepsIndex ==
  /\ phase = "scan" /\ index > Len(Body[function])
  /\ allGuards' = allGuards \cup toGuard
  /\ toGuard' = {}
  /\ scanned' = scanned \cup {function}
  /\ IF scanned' = Function THEN UNCHANGED function /\ phase' = "insert"
     ELSE function' \in Function \ scanned' /\ UNCHANGED phase
  /\ UNCHANGED <<index, baseptr, code>>

(* The guards of a function are recorded globally; the next one is begun. *)
EndFunction ==
  /\ phase = "scan" /\ index > Len(Body[function])
  /\ allGuards' = allGuards \cup toGuard
  /\ toGuard' = {}
  /\ scanned' = scanned \cup {function}
  /\ IF scanned' = Function THEN UNCHANGED <<function, index>> /\ phase' = "insert"
     ELSE function' \in Function \ scanned' /\ index' = 1 /\ UNCHANGED phase
  /\ UNCHANGED <<baseptr, code>>

(* The place where the instruction with this id stands now. *)
PlaceOf(c, id) == CHOOSE k \in DOMAIN c : c[k].id = id /\ c[k].inst.op # "guard"

(* Mistake: the guard is inserted after the instruction. *)
CreateCallAfter(g) ==
  /\ phase = "insert" /\ g \in allGuards
  /\ LET c == code[g.function]
         k == PlaceOf(c, g.id)
     IN  code' = [code EXCEPT ![g.function] =
                    SubSeq(c, 1, k) \o <<[id |-> g.id, inst |-> g.guard]>>
                                    \o SubSeq(c, k + 1, Len(c))]
  /\ allGuards' = allGuards \ {g}
  /\ UNCHANGED <<phase, function, index, baseptr, scanned, toGuard>>

CreateCall(g) ==
  /\ phase = "insert" /\ g \in allGuards
  /\ LET c == code[g.function]
         k == PlaceOf(c, g.id)
     IN  code' = [code EXCEPT ![g.function] =
                    SubSeq(c, 1, k - 1) \o <<[id |-> g.id, inst |-> g.guard]>>
                                        \o SubSeq(c, k, Len(c))]
  /\ allGuards' = allGuards \ {g}
  /\ UNCHANGED <<phase, function, index, baseptr, scanned, toGuard>>

EndModule ==
  /\ phase = "insert" /\ allGuards = {}
  /\ phase' = "done"
  /\ UNCHANGED <<function, index, baseptr, scanned, toGuard, allGuards, code>>

Next ==
  \/ ScanOther \/ ScanAccess \/ GetInternalPointer \/ InsertGuard
  \/ EndFunction
  \/ (\E g \in allGuards : CreateCall(g))
  \/ EndModule

Spec == Init /\ [][Next]_vars
FairSpec == Spec /\ WF_vars(Next)
-----------------------------------------------------------------------------
Guard == [op : {"guard"}, pointer : Value, flags : SUBSET {"r", "w"}]

Record == [function : Function, id : Nat \ {0}, guard : Guard]

TypeOK ==
  /\ phase \in {"scan", "chase", "insert", "done"}
  /\ function \in Function /\ index \in 1 .. Len(Body[function]) + 1
  /\ baseptr \in Value
  /\ scanned \in SUBSET Function
  /\ toGuard \in SUBSET Record /\ allGuards \in SUBSET Record
  /\ code \in [Function -> Seq([id : Nat \ {0}, inst : Instruction \cup Guard])]

Instructions(c) == [k \in DOMAIN c |-> c[k].inst]

(* The compiled module is the intended one, whatever the order of the map. *)
GuardsInPlace ==
  phase = "done" => \A f \in Function : Instructions(code[f]) = Compiled(f)

(***************************************************************************)
(* At every moment the instructions of the source stand in their order,    *)
(* and each guard right before the instruction it was made for.            *)
(***************************************************************************)
GuardPrecedesAccess ==
  \A f \in Function :
    LET c == code[f] IN
    /\ \A j, k \in DOMAIN c : j < k => c[j].id <= c[k].id
    /\ \A k \in DOMAIN c :
         c[k].inst.op = "guard" =>
           /\ k + 1 \in DOMAIN c /\ c[k + 1].inst = Body[f][c[k].id]
           /\ c[k].inst = GuardOf(c[k + 1].inst)

(* The pass ends on every module in which no pointer is derived from itself. *)
PassEnds == <>(phase = "done")
=============================================================================

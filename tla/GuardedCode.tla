---------------------------- MODULE GuardedCode ----------------------------
(***************************************************************************)
(* What the pass sees of a module: functions, their instructions, and the  *)
(* definitions of the values used as pointers; and what the compiled       *)
(* functions are meant to look like.                                       *)
(*                                                                         *)
(* A value is an instruction, an argument, a global or a constant.  Only   *)
(* four kinds matter: an alloca, a call (of a function known by name or    *)
(* not), and the two instructions that derive a pointer from another one.  *)
(***************************************************************************)
EXTENDS Integers, Sequences

CONSTANTS
  Value,      \* the values used as pointers
  Def,        \* the definition of each
  Function,   \* the functions of the module
  Body        \* the instructions of each, in the order of its blocks

Definition ==
  [kind : {"alloca", "other"}]
  \cup [kind : {"call"}, callee : {"malloc", "calloc", "kmalloc", "unknown"}]
  \cup [kind : {"getelementptr", "bitcast"}, operand : Value]

Instruction ==
  [op : {"load", "store"}, pointer : Value] \cup [op : {"other"}]

ASSUME GuardedCodeAssumption ==
  /\ Def \in [Value -> Definition]
  /\ Body \in [Function -> Seq(Instruction)]

(* TEXAS_GUARD_LOAD, TEXAS_GUARD_STORE *)
GuardFlags(op) == IF op = "load" THEN {"r"} ELSE {"w"}

IsAccess(i) == i.op \in {"load", "store"}

Derived(v) == Def[v].kind \in {"getelementptr", "bitcast"}

(***************************************************************************)
(* A value and what it is derived from, in however many steps.             *)
(***************************************************************************)
Closed(S) == \A v \in S : Derived(v) => Def[v].operand \in S

Origins(v) == {u \in Value : \A S \in SUBSET Value : v \in S /\ Closed(S) => u \in S}

OnStack(v) == \E u \in Origins(v) : Def[u].kind = "alloca"

FreshlyAllocated(v) == Def[v].kind = "call" /\ Def[v].callee \in {"malloc", "calloc"}

(***************************************************************************)
(* The accesses that get a guard: not those of the stack, nor those        *)
(* through the very pointer an allocation has returned.                    *)
(***************************************************************************)
Needs(i) == IsAccess(i) /\ ~ OnStack(i.pointer) /\ ~ FreshlyAllocated(i.pointer)

GuardOf(i) == [op |-> "guard", pointer |-> i.pointer, flags |-> GuardFlags(i.op)]

(* Mistake: the guard stands after the access. *)
GuardAfter(i) == IF Needs(i) THEN <<i, GuardOf(i)>> ELSE <<i>>

(* A guard stands right before the access it is for. *)
Guarded(i) == IF Needs(i) THEN <<GuardOf(i), i>> ELSE <<i>>

(***************************************************************************)
(* A function with its guards, and nothing else changed: what its first k  *)
(* instructions become, and all of them.                                   *)
(***************************************************************************)
Prefixes(f) ==
  LET code[k \in 0 .. Len(Body[f])] ==
        IF k = 0 THEN <<>> ELSE code[k - 1] \o Guarded(Body[f][k])
  IN  code

Compiled(f) == Prefixes(f)[Len(Body[f])]
=============================================================================

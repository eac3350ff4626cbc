---------------------------- MODULE MCGuardPass ----------------------------
(***************************************************************************)
(* A module of three functions.  Pointers are arguments or globals, locals *)
(* and what is derived from them in one and two steps, results of          *)
(* allocations by name and otherwise, and what is derived from those.      *)
(***************************************************************************)
EXTENDS GuardPass

MCValue == {"global", "local", "field", "cast", "mallocked", "kmallocked", "element"}

MCDef ==
  [v \in MCValue |->
     IF v = "local" THEN [kind |-> "alloca"]
     ELSE IF v = "field" THEN [kind |-> "getelementptr", operand |-> "local"]
     ELSE IF v = "cast" THEN [kind |-> "bitcast", operand |-> "field"]
     ELSE IF v = "mallocked" THEN [kind |-> "call", callee |-> "malloc"]
     ELSE IF v = "kmallocked" THEN [kind |-> "call", callee |-> "kmalloc"]
     ELSE IF v = "element" THEN [kind |-> "getelementptr", operand |-> "mallocked"]
     ELSE [kind |-> "other"]]

MCFunction == {"init", "work", "exit"}

Load(v) == [op |-> "load", pointer |-> v]
Store(v) == [op |-> "store", pointer |-> v]
Other == [op |-> "other"]

MCBody ==
  [f \in MCFunction |->
     IF f = "init" THEN << Other, Store("global"), Load("cast"), Store("kmallocked") >>
     ELSE IF f = "work" THEN << Store("mallocked"), Load("element"), Store("element"),
                                Load("field"), Other, Load("global") >>
     ELSE <<>>]
=============================================================================

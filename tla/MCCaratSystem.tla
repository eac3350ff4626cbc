--------------------------- MODULE MCCaratSystem ---------------------------
(***************************************************************************)
(* One process that writes policies and two clients.  "init" is test_init  *)
(* of caratCOP/test/test.c: a store to a global and one through a pointer  *)
(* that kmalloc returned; "work" has a local besides.                      *)
(***************************************************************************)
EXTENDS CaratSystem

CONSTANTS c1, c2

MCModulus == 8
MCFlag == {"r", "w"}

MCValue == {"global", "local", "kmallocked"}
MCDef == [v \in MCValue |->
            IF v = "local" THEN [kind |-> "alloca"]
            ELSE IF v = "kmallocked" THEN [kind |-> "call", callee |-> "kmalloc"]
            ELSE [kind |-> "other"]]
MCFunction == {"init", "work"}
MCBody ==
  [f \in MCFunction |->
     IF f = "init"
     THEN << [op |-> "store", pointer |-> "global"],
             [op |-> "store", pointer |-> "kmallocked"] >>
     ELSE << [op |-> "store", pointer |-> "local"], [op |-> "other"],
             [op |-> "load", pointer |-> "global"] >>]

MCAddressOf == [v \in MCValue |->
                  IF v = "global" THEN 1 ELSE IF v = "kmallocked" THEN 5 ELSE 7]
MCAccess == [addr : {1, 5, 7}, flags : SUBSET MCFlag]
MCRuns == [m \in Workload |-> IF m = c1 THEN "init" ELSE "work"]

Part(a, l, f) == [addr |-> a, len |-> l, protect |-> f]

MCPolicyList ==
  {[nodes |-> << Part(0, 4, {"r"}), Part(4, 3, {"r", "w"}) >>, tail |-> "null"],
   [nodes |-> << Part(4, 3, {}) >>, tail |-> "bad"]}
=============================================================================

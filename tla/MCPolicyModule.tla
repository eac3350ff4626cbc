--------------------------- MODULE MCPolicyModule ---------------------------
(***************************************************************************)
(* Two processes and a guarded module on eight addresses, and as many      *)
(* trees as three successful writes need.                                  *)
(***************************************************************************)
EXTENDS PolicyModule, TLC

MCModulus == 8
MCFlag == {"r", "w"}

Range(a, l, f) == [addr |-> a, len |-> l, protect |-> f]

Low == Range(0, 2, {"r"})
Middle == Range(2, 2, {"r"})
High == Range(4, 3, {"w"})
HighAgain == Range(4, 1, {"r"})

(* A list with a duplicate and more regions than can be printed, one in   *)
(* descending order, the empty list, one that runs into a bad pointer and *)
(* one that loops.                                                        *)
WellFormed == {[nodes |-> <<High, Low, HighAgain, Middle>>, tail |-> "null"],
               [nodes |-> <<HighAgain, Low>>, tail |-> "null"],
               [nodes |-> <<>>, tail |-> "null"]}

Broken == [nodes |-> <<High>>, tail |-> "bad"]
Circular == [nodes |-> <<Low>>, tail |-> "first"]

AllLists == WellFormed \cup {Broken, Circular}
TerminatedLists == WellFormed \cup {Broken}

MCAccess == {[addr |-> 5, flags |-> {"w"}]}

Symmetry == Permutations(Process) \cup Permutations(Root)
=============================================================================

---------------------------- MODULE UserPolicies ----------------------------
(***************************************************************************)
(* The two policies that user-space-app.c writes, and what guards answer   *)
(* under them.  Modulus and TopSize stand for 2^64 and 2^32: the constants *)
(* of the program are multiples of a sixteenth of the address space, less  *)
(* one, except at the top.                                                 *)
(***************************************************************************)
EXTENDS PolicyModule

CONSTANT TopSize   \* the size of the range of the top addresses

Sixteenth == Modulus \div 16

ASSUME UserPoliciesAssumption ==
  /\ Modulus = 16 * Sixteenth
  /\ TopSize \in Nat /\ 1 < TopSize /\ TopSize + 1 < Sixteenth
  /\ Flag = {"r", "w", "x"}

Part(a, l, f) == [addr |-> a, len |-> l, protect |-> f]

(* `2': test passing RB tree policy struct pointer. *)
EntireSpace ==
  [nodes |-> << Part(0, Modulus - 1, {"r", "x"}) >>, tail |-> "null"]

(* Mistake: the third part runs into the fourth. *)
FivePartsOverlap ==
  [nodes |-> << Part(0, Sixteenth - 1, {}),
                Part(Sixteenth, 7 * Sixteenth - 1, {"r", "w", "x"}),
                Part(8 * Sixteenth, 8 * Sixteenth - 1, {"r"}),
                Part(15 * Sixteenth, Sixteenth - TopSize - 1, {"w"}),
                Part(Modulus - TopSize, TopSize - 1, {"x"}) >>,
   tail  |-> "null"]

(* `3': test passing policy with multiple nodes. *)
FiveParts ==
  [nodes |-> << Part(0, Sixteenth - 1, {}),
                Part(Sixteenth, 7 * Sixteenth - 1, {"r", "w", "x"}),
                Part(8 * Sixteenth, 7 * Sixteenth - 1, {"r"}),
                Part(15 * Sixteenth, Sixteenth - TopSize - 1, {"w"}),
                Part(Modulus - TopSize, TopSize - 1, {"x"}) >>,
   tail  |-> "null"]

(* The permissions the comments of the program give each address. *)
Intended(a) ==
  IF a < Sixteenth THEN {}
  ELSE IF a < 8 * Sixteenth THEN {"r", "w", "x"}
  ELSE IF a < 15 * Sixteenth THEN {"r"}
  ELSE IF a < Modulus - TopSize THEN {"w"} ELSE {"x"}

(* The last address of each part: every length is one short. *)
Gaps == {Sixteenth - 1, 8 * Sixteenth - 1, 15 * Sixteenth - 1,
         Modulus - TopSize - 1, Modulus - 1}

(***************************************************************************)
(* Under the policy in five parts a guard finds a policy for every address *)
(* but the last one of each part, and answers as intended.                 *)
(***************************************************************************)
FivePartsVerdicts ==
  \A m \in Workload :
    LET a == access[m].addr IN
    /\ verdict[m] = "nopolicy" => a \in Gaps
    /\ verdict[m] = "allowed" => a \notin Gaps /\ access[m].flags \subseteq Intended(a)
    /\ verdict[m] = "disallowed" => a \notin Gaps /\ ~ access[m].flags \subseteq Intended(a)

(* "entire address space": no address is left without a policy. *)
EntireSpaceIsEntire ==
  \A m \in Workload : verdict[m] # "nopolicy"

(***************************************************************************)
(* "Addresses 0xF00... to 0xFFFFFFFF00000000 - 1 have write permissions":  *)
(* a store to one of them is allowed.                                      *)
(***************************************************************************)
FourthPartIsWritable ==
  \A m \in Workload :
    /\ 15 * Sixteenth <= access[m].addr /\ access[m].addr <= Modulus - TopSize - 1
    /\ access[m].flags = {"w"}
    => verdict[m] \in {"none", "allowed"}
=============================================================================

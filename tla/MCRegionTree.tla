---------------------------- MODULE MCRegionTree ----------------------------
(***************************************************************************)
(* RegionTree on six addresses.  The candidates  hold two regions that    *)
(* touch, one that overlaps both, one that starts where another does, an   *)
(* empty one inside another and one whose end wraps past the last address. *)
(***************************************************************************)
EXTENDS RegionTree, TLC

CONSTANTS n1, n2, n3, n4

MCModulus == 6
MCFlag == {"r"}

Range(a, l) == [addr |-> a, len |-> l, protect |-> {"r"}]

MCCandidate ==
  {Range(0, 2), Range(2, 2), Range(1, 2), Range(0, 1), Range(3, 0), Range(4, 3)}

(* Fewer of them where no symmetry is used. *)
MCFewCandidates == {Range(0, 2), Range(2, 2), Range(1, 2), Range(0, 1)}

NodeSymmetry == Permutations(Node)
=============================================================================

------------------------------ MODULE Regions ------------------------------
(***************************************************************************)
(* Memory regions as carat-cop.c sees them: a 64-bit start address, a      *)
(* length in bytes and a byte of protection bits (memory_region_t).        *)
(*                                                                         *)
(* Addresses are the integers below Modulus (2^64 in the code, any number  *)
(* here).  Sums are taken modulo Modulus, because data->addr + data->len   *)
(* is computed in uint64_t.  A protection byte is the set of its bits.     *)
(***************************************************************************)
EXTENDS Integers

CONSTANTS
  Modulus,   \* the number of addresses, 2^64 in the code
  Flag,      \* the protection bits: READABLE, WRITABLE, EXECUTABLE
  NoRegion   \* the NULL that lookup_region returns

ASSUME ModulusAssumption == Modulus \in Nat /\ Modulus > 1

Address == 0 .. Modulus - 1

Region == [addr : Address, len : Address, protect : SUBSET Flag]

ASSUME NoRegionAssumption == NoRegion \notin Region

(***************************************************************************)
(* `end = data->addr + data->len' in uint64_t arithmetic.                  *)
(***************************************************************************)
EndOf(r) ==
  IF r.addr + r.len < Modulus THEN r.addr + r.len
                              ELSE r.addr + r.len - Modulus

(***************************************************************************)
(* The three-way test of lookup_region's loop.                             *)
(***************************************************************************)
Precedes(a, r) == a < r.addr
Follows(a, r) == ~ Precedes(a, r) /\ a >= EndOf(r)
Covers(r, a) == ~ Precedes(a, r) /\ ~ Follows(a, r)

(***************************************************************************)
(* check_protections: (access & flags) == access.                          *)
(***************************************************************************)
CheckProtections(access, flags) == access \cap flags = access

(***************************************************************************)
(* What a set of regions must satisfy for an address search that compares  *)
(* with one region at a time to be unambiguous: no region starts inside    *)
(* the range another one covers.  Disjoint, non-empty regions satisfy it;  *)
(* an empty region inside another one does not.                            *)
(***************************************************************************)
Unambiguous(R) ==
  \A r, s \in R : r # s => ~ Covers(r, s.addr)

(***************************************************************************)
(* The set of regions after insert_region, which keeps start addresses     *)
(* distinct, and after inserting the first k elements of a sequence.       *)
(***************************************************************************)
WithRegion(R, r) == IF \E s \in R : s.addr = r.addr THEN R ELSE R \cup {r}

FirstOfEach(s, k) ==
  {s[i] : i \in {j \in 1 .. k : \A h \in 1 .. j - 1 : s[h].addr # s[j].addr}}

(***************************************************************************)
(* A lookup of address a in a tree that holds R may end in r.  In a tree   *)
(* that is ambiguous the answer depends on the shape.                      *)
(***************************************************************************)
MayFind(R, a, r) ==
  IF r = NoRegion
  THEN (\A s \in R : ~ Covers(s, a)) \/ ~ Unambiguous(R)
  ELSE r \in R /\ Covers(r, a)
=============================================================================

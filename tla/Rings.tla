------------------------------- MODULE Rings -------------------------------
(***************************************************************************)
(* The arithmetic of a descriptor ring (struct e1000_ring): software fills *)
(* the slots from next_to_use on and takes back those from next_to_clean.  *)
(***************************************************************************)
EXTENDS Integers

CONSTANT Count      \* ring->count, the descriptors of the ring, at least 2

Slot == 0 .. Count - 1

(* i++; if (i == ring->count) i = 0; *)
AfterNoWrap(i) == i + 1
After(i) == IF i + 1 = Count THEN 0 ELSE i + 1

(* if (i-- == 0) i = ring->count - 1; *)
Before(i) == IF i = 0 THEN Count - 1 ELSE i - 1

(* e1000_desc_unused *)
DescUnused(clean, use) ==
  IF clean > use THEN clean - use - 1 ELSE Count + clean - use - 1

(* The slots from a up to, not including, b. *)
Span(a, b) == IF a <= b THEN a .. b - 1 ELSE (a .. Count - 1) \cup (0 .. b - 1)

(* The slot k places after a. *)
Plus(a, k) == (a + k) % Count
=============================================================================

---------------------------- MODULE Relocatable ----------------------------
(***************************************************************************)
(* The values the Cairo VM stores and the addresses it stores them at:     *)
(* src/relocatable.h, src/relocatable.c and felt_equal of src/utils.c.     *)
(*                                                                         *)
(* The two unsigned ints of a relocatable keep their width: SegMod and     *)
(* OffMod stand for 2^32, and arithmetic on them wraps.  A felt is its     *)
(* four limbs, most significant first, as the felt library writes them.    *)
(***************************************************************************)
EXTENDS Integers

CONSTANTS
  SegMod,   \* number of values of an unsigned segment_index (2^32)
  OffMod,   \* number of values of an unsigned offset (2^32)
  Limb      \* contents of one 64-bit limb

ASSUME WidthAssumption == SegMod \in Nat \ {0} /\ OffMod \in Nat \ {0}

relocatable == [segment_index : 0 .. SegMod - 1, offset : 0 .. OffMod - 1]

felt_t == [1 .. 4 -> Limb]

\* The tagged union: is_felt says which member was written.
maybe_relocatable ==
  [is_felt : {TRUE}, felt : felt_t]
    \cup [is_felt : {FALSE}, relocatable : relocatable]

Felt(f)    == [is_felt |-> TRUE, felt |-> f]
Pointer(r) == [is_felt |-> FALSE, relocatable |-> r]

\* An advance that does not wrap at the width of the offset.
Advance_NoWrap(ptr, n) == [ptr EXCEPT !.offset = @ + n]

\* ptr.offset += n on an unsigned int.
Advance(ptr, n) == [ptr EXCEPT !.offset = (@ + n) % OffMod]

-----------------------------------------------------------------------------
\* A comparison that stops before the least significant limb.
felt_equal_ThreeLimbs(a, b) == \A i \in 1 .. 3 : a[i] = b[i]

felt_equal(a, b) == \A i \in 1 .. 4 : a[i] = b[i]

\* A comparison that never finds two pointers equal.
maybe_relocatable_equal_FeltsOnly(a, b) ==
  a.is_felt /\ b.is_felt /\ felt_equal(a.felt, b.felt)

maybe_relocatable_equal(a, b) ==
  \/ a.is_felt /\ b.is_felt /\ felt_equal(a.felt, b.felt)
  \/ /\ ~a.is_felt /\ ~b.is_felt
     /\ a.relocatable.segment_index = b.relocatable.segment_index
     /\ a.relocatable.offset = b.relocatable.offset

=============================================================================

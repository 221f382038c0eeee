------------------------------- MODULE Utils -------------------------------
(***************************************************************************)
(* The byte conversions of src/utils.c at their real widths.               *)
(*                                                                         *)
(* An unsigned integer is the set of the positions of its one bits: a mask *)
(* is an intersection, | a union, a shift a translation, and what leaves   *)
(* the width of the type is lost.  A byte buffer is a function from its    *)
(* indices to bytes.                                                       *)
(***************************************************************************)
EXTENDS Integers, SequencesExt

\* The positions of an n-bit integer; as an integer, its mask of ones.
Mask(n) == 0 .. n - 1

\* value >> k.
ShiftRight(value, k) == {b - k : b \in {x \in value : x >= k}}

\* value << k in a type of width bits.
ShiftLeft(value, k, width) == {b \in Mask(width) : b - k \in value}

\* The number the bits stand for.
Number(value) == MapThenSumSet(LAMBDA b : 2 ^ b, value)

-----------------------------------------------------------------------------
\* The loop of every *_to_*_bytes function: byte i of the buffer is byte i of
\* the value, in whatever order the loop runs.
ToBytes(value, n) == [i \in 0 .. n - 1 |-> ShiftRight(value, 8 * i) \cap Mask(8)]

u64_to_le_bytes(value) == ToBytes(value, 8)
u64_to_be_bytes(value) == ToBytes(value, 8)
u32_to_le_bytes(value) == ToBytes(value, 4)
u16_to_le_bytes(value) == ToBytes(value, 2)

\* The loop of every *_from_*_bytes function, over the indices in order, with
\* an accumulator of width bits: take the byte in, then shift by the index.
FromBytes(bytes, order, width) ==
  LET Taken[n \in 0 .. Len(order)] ==
        IF n = 0 THEN {}
        ELSE ShiftLeft(Taken[n - 1] \cup bytes[order[n]], 8 * order[n], width)
  IN Taken[Len(order)]

u64_from_le_bytes(bytes) == FromBytes(bytes, <<7, 6, 5, 4, 3, 2, 1, 0>>, 64)
u64_from_be_bytes(bytes) == FromBytes(bytes, <<0, 1, 2, 3, 4, 5, 6, 7>>, 64)

\* An accumulator as wide as the result.
u32_from_le_bytes_Wide(bytes) == FromBytes(bytes, <<3, 2, 1, 0>>, 32)

\* The accumulator of u32_from_le_bytes is a uint16_t.
u32_from_le_bytes(bytes) == FromBytes(bytes, <<3, 2, 1, 0>>, 16)
u16_from_le_bytes(bytes) == FromBytes(bytes, <<1, 0>>, 16)

=============================================================================

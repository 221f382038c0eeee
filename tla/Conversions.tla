---------------------------- MODULE Conversions ----------------------------
(***************************************************************************)
(* A caller of src/utils.c that writes a value into a buffer with each     *)
(* *_to_*_bytes function and reads it back with its counterpart.           *)
(***************************************************************************)
EXTENDS Utils

CONSTANT Samples   \* the values to convert

ASSUME SamplesAssumption == \A v \in Samples : v \subseteq Mask(64)

VARIABLES
  value,   \* what the caller converts
  back     \* what it read back from each kind of buffer; Unread before

conversion_vars == <<value, back>>

Unread == << >>

\* Each buffer filled and read; the narrow ones take the low bits of value.
ReadBack(v) ==
  [u16_le |-> u16_from_le_bytes(u16_to_le_bytes(v \cap Mask(16))),
   u32_le |-> u32_from_le_bytes(u32_to_le_bytes(v \cap Mask(32))),
   u64_le |-> u64_from_le_bytes(u64_to_le_bytes(v)),
   u64_be |-> u64_from_be_bytes(u64_to_be_bytes(v))]

ConversionInit == value \in Samples /\ back = Unread

Convert ==
  /\ back = Unread
  /\ back' = ReadBack(value)
  /\ UNCHANGED value

ConversionSpec == ConversionInit /\ [][Convert]_conversion_vars

-----------------------------------------------------------------------------
\* What survives a conversion and its counterpart.  The 16-bit reader, the only
\* one the decoder calls, is exact; the 32-bit one returns the low 16 bits of
\* what was written (utils.c:74, the accumulator); the 64-bit one is right for
\* values of 16 bits and for no other (utils.c:27, the shifts add up); and
\* u64_from_be_bytes returns the top byte of the value, in its place, and
\* nothing else (utils.c:32, "needs fix").
WhatReadersKeep ==
  back # Unread =>
    /\ back.u16_le = value \cap Mask(16)
    /\ back.u32_le = value \cap Mask(16)
    /\ back.u64_le = value <=> value \subseteq Mask(16)
    /\ back.u64_be = value \cap (56 .. 63)

=============================================================================

------------------------------ MODULE MCWords ------------------------------
(***************************************************************************)
(* The two clients of src/utils.c in one run: a word is decoded, or a      *)
(* value is converted and read back.                                       *)
(*                                                                         *)
(* The words are every one of the 2^16 settings of the flags over three    *)
(* different offsets, and offsets around every power of two under two      *)
(* settings.  The values are those of at most two one bits, and the masks: *)
(* the conversions move bits one by one, so a value that went wrong would  *)
(* do so by a bit that is lost or by one that lands on another.            *)
(***************************************************************************)
EXTENDS Decoder, Conversions

Up(bits, k) == {b + k : b \in bits}

\* 0x8000, 0x7fff and 0x0101, from the low half-word up.
SomeOffsets == {15} \cup Up(0 .. 14, 16) \cup Up({0, 8}, 32)

\* A `ret` and an assertion with an immediate: 0x208b and 0x4806.
SomeFlags == {{0, 1, 3, 7, 13}, {1, 2, 11, 14}}

Edges == {{}, Mask(16)} \cup {{b} : b \in Mask(16)} \cup {Mask(b) : b \in Mask(16)}

MCWordsToDecode ==
  {SomeOffsets \cup Up(flags, 48) : flags \in SUBSET Mask(16)}
    \cup {a \cup Up(b, 16) \cup Up(c, 32) \cup Up(flags, 48) :
            a \in Edges, b \in Edges, c \in {{}, {15}}, flags \in SomeFlags}

MCSamples ==
  {{a, b} : a \in Mask(64), b \in Mask(64)} \cup {Mask(n) : n \in 0 .. 64}

NothingToDecode  == encoded_instr = {} /\ result = Undecoded
NothingToConvert == value = {} /\ back = Unread

WordsInit ==
  \/ DecoderInit /\ NothingToConvert
  \/ ConversionInit /\ NothingToDecode

WordsNext ==
  \/ ~NothingToDecode /\ Decode /\ UNCHANGED conversion_vars
  \/ NothingToDecode /\ Convert /\ UNCHANGED decoder_vars

WordsSpec == WordsInit /\ [][WordsNext]_<<decoder_vars, conversion_vars>>

=============================================================================

------------------------------ MODULE Decoder ------------------------------
(***************************************************************************)
(* The instruction decoder of src/decoder.c and instruction_size of        *)
(* src/instruction.c, on 64-bit words as sets of one bits (Utils.tla).     *)
(*                                                                         *)
(* A field of the flags is the set of its one bits, moved down to bit 0;   *)
(* a switch is a table from the fields it has a case for to their          *)
(* meanings, and every field missing from it takes the default branch.     *)
(***************************************************************************)
EXTENDS Utils

CONSTANT Words   \* the words to decode

ASSUME WordsAssumption == \A w \in Words : w \subseteq Mask(64)

VARIABLES
  encoded_instr,   \* the argument of decode_instruction
  result           \* what it returned; Undecoded before

decoder_vars == <<encoded_instr, result>>

-----------------------------------------------------------------------------
\* An offset read as the 16-bit number it is stored as.
decode_offset_Unbiased(offset) ==
  LET bytes == u64_to_le_bytes(offset) IN
  Number(u16_from_le_bytes([i \in 0 .. 1 |-> bytes[i]]))

\* The low half-word of offset, less 0x8000.
decode_offset(offset) ==
  LET bytes == u64_to_le_bytes(offset) IN
  Number(u16_from_le_bytes([i \in 0 .. 1 |-> bytes[i]])) - 2 ^ 15

\* The bits first .. last of the flags, moved down to bit 0.
Field(flags, first, last) == ShiftRight(flags \cap (first .. last), first)

\* The cases of op1 in the order of its enum, which starts with Imm.
Op1Addr_EnumOrder ==
  [field \in {{}, {0}, {1}, {2}} |->
     CASE field = {} -> "Imm"
       [] field = {0} -> "OP_AP"
       [] field = {1} -> "OP_FP"
       [] field = {2} -> "Op0"]

\* The cases of each switch.
Registers ==
  [field \in {{}, {0}} |->
     CASE field = {} -> "REG_AP"
       [] field = {0} -> "REG_FP"]

Op1Addr ==
  [field \in {{}, {0}, {1}, {2}} |->
     CASE field = {} -> "Op0"
       [] field = {0} -> "Imm"
       [] field = {1} -> "OP_FP"
       [] field = {2} -> "OP_AP"]

PcUpdate ==
  [field \in {{}, {0}, {1}, {2}} |->
     CASE field = {} -> "PC_Regular"
       [] field = {0} -> "Jump"
       [] field = {1} -> "JumpRel"
       [] field = {2} -> "Jnz"]

Res ==
  [field \in {{}, {0}, {1}} |->
     CASE field = {} -> "Op1"
       [] field = {0} -> "Res_Add"
       [] field = {1} -> "Mul"]

Opcode ==
  [field \in {{}, {0}, {1}, {2}} |->
     CASE field = {} -> "NOp"
       [] field = {0} -> "Call"
       [] field = {1} -> "Ret"
       [] field = {2} -> "AssertEq"]

ApUpdate ==
  [field \in {{}, {0}, {1}} |->
     CASE field = {} -> "AP_Regular"
       [] field = {0} -> "Add"
       [] field = {1} -> "Add1"]

\* Error codes in the order in which decode_instruction looks for them.
Errors == <<"InstructionNonZeroHighBit", "InvalidOp1Reg", "InvalidPcUpdate",
            "InvalidRes", "InvalidOpcode", "InvalidApUpdate">>

\* Which of the errors the flags have.
Faults(flags) ==
  {i \in 1 .. 6 :
     \/ i = 1 /\ 15 \in flags
     \/ i = 2 /\ Field(flags, 2, 4) \notin DOMAIN Op1Addr
     \/ i = 3 /\ Field(flags, 7, 9) \notin DOMAIN PcUpdate
     \/ i = 4 /\ Field(flags, 5, 6) \notin DOMAIN Res
     \/ i = 5 /\ Field(flags, 12, 14) \notin DOMAIN Opcode
     \/ i = 6 /\ Field(flags, 10, 11) \notin DOMAIN ApUpdate}

\* What an accepted word says: its fields, and what follows from two of them.
Decoded(word, flags) ==
  LET pc_update == PcUpdate[Field(flags, 7, 9)]
      res       == Res[Field(flags, 5, 6)]
      opcode    == Opcode[Field(flags, 12, 14)]
      ap_update == ApUpdate[Field(flags, 10, 11)] IN
  [off0 |-> decode_offset(word \cap Mask(16)),
   off1 |-> decode_offset(ShiftRight(word, 16) \cap Mask(16)),
   off2 |-> decode_offset(ShiftRight(word, 32) \cap Mask(16)),
   dst_register |-> Registers[Field(flags, 0, 0)],
   op0_register |-> Registers[Field(flags, 1, 1)],
   op1_addr  |-> Op1Addr[Field(flags, 2, 4)],
   res       |-> IF res = "Op1" /\ pc_update = "Jnz" THEN "Unconstrained" ELSE res,
   pc_update |-> pc_update,
   ap_update |-> IF ap_update = "AP_Regular" /\ opcode = "Call" THEN "Add2"
                                                                ELSE ap_update,
   fp_update |-> CASE opcode = "Call" -> "APPlus2"
                   [] opcode = "Ret"  -> "Dst"
                   [] OTHER           -> "FP_Regular",
   opcode    |-> opcode]

\* decode_instruction that reports the last error it could find.
decode_instruction_LastError(word) ==
  LET flags == ShiftRight(word, 48) IN
  IF Faults(flags) = {}
  THEN [is_error |-> FALSE, instruction |-> Decoded(word, flags)]
  ELSE [is_error |-> TRUE, error |-> Errors[Max(Faults(flags))]]

decode_instruction(word) ==
  LET flags == ShiftRight(word, 48) IN
  IF Faults(flags) = {}
  THEN [is_error |-> FALSE, instruction |-> Decoded(word, flags)]
  ELSE [is_error |-> TRUE, error |-> Errors[Min(Faults(flags))]]

instruction_size(instruction) == IF instruction.op1_addr = "Imm" THEN 2 ELSE 1

-----------------------------------------------------------------------------
Undecoded == [is_error |-> FALSE]

DecoderInit == encoded_instr \in Words /\ result = Undecoded

Decode ==
  /\ result = Undecoded
  /\ result' = decode_instruction(encoded_instr)
  /\ UNCHANGED encoded_instr

DecoderSpec == DecoderInit /\ [][Decode]_decoder_vars

-----------------------------------------------------------------------------
(* The layout of instruction.h:8-19, read from the bits and not from the   *)
(* decoder: one bit for each meaning of a group, none for the first one.   *)

Layout ==
  [dst_register |-> [REG_AP |-> {}, REG_FP |-> {0}],
   op0_register |-> [REG_AP |-> {}, REG_FP |-> {1}],
   op1_addr     |-> [Op0 |-> {}, Imm |-> {2}, OP_FP |-> {3}, OP_AP |-> {4}],
   res          |-> [Op1 |-> {}, Unconstrained |-> {}, Res_Add |-> {5}, Mul |-> {6}],
   pc_update    |-> [PC_Regular |-> {}, Jump |-> {7}, JumpRel |-> {8}, Jnz |-> {9}],
   ap_update    |-> [AP_Regular |-> {}, Add2 |-> {}, Add |-> {10}, Add1 |-> {11}],
   opcode       |-> [NOp |-> {}, Call |-> {12}, Ret |-> {13}, AssertEq |-> {14}]]

\* The groups of bits, in the order of the errors.
Groups == <<{15}, 2 .. 4, 7 .. 9, 5 .. 6, 12 .. 14, 10 .. 11>>

FlagsOf(instruction) ==
  UNION {Layout[field][instruction[field]] : field \in DOMAIN Layout}

Flags == {b \in Mask(16) : b + 48 \in encoded_instr}

Accepted == result # Undecoded /\ ~result.is_error
Rejected == result # Undecoded /\ result.is_error

\* The flags of an accepted word are those the layout gives for the
\* instruction, and the two meanings that have no bit of their own
\* (Unconstrained, Add2) stand for the zero of their group under Jnz and Call,
\* and only there.
KeepsFlags ==
  Accepted =>
    LET i == result.instruction IN
    /\ FlagsOf(i) = Flags
    /\ i.pc_update = "Jnz" => i.res # "Op1"
    /\ i.pc_update # "Jnz" => i.res # "Unconstrained"
    /\ i.opcode = "Call" => i.ap_update # "AP_Regular"
    /\ i.opcode # "Call" => i.ap_update # "Add2"

\* So are its three biased offsets.
KeepsOffsets ==
  Accepted =>
    LET i == result.instruction
        Half(k) == Number({b \in Mask(16) : b + 16 * k \in encoded_instr}) IN
    i.off0 = Half(0) - 32768 /\ i.off1 = Half(1) - 32768 /\ i.off2 = Half(2) - 32768

\* Decoding loses nothing: an accepted word is the one the layout gives for
\* the instruction it was decoded to.
LosesNothing == KeepsFlags /\ KeepsOffsets

\* A word is accepted exactly when its high bit is 0 and no group has two
\* bits set, and the error names the first group that is at fault in the order
\* op1, pc, res, opcode, ap, which is not the order of the bits.
RejectsByGroup ==
  LET tooMany(k) == Cardinality(Groups[k] \cap Flags) > (IF k = 1 THEN 0 ELSE 1)
      bad == {k \in DOMAIN Groups : tooMany(k)} IN
  /\ Accepted => bad = {}
  /\ Rejected => \E k \in bad : /\ result.error = Errors[k]
                                /\ \A j \in bad : k <= j

\* instruction.h:21-23: an accepted instruction is followed by a second word
\* exactly when it uses an immediate, which is bit 2 of its flags and no other
\* source of op1.
ImmediateTakesTwoWords ==
  Accepted => ((instruction_size(result.instruction) = 2) <=> (2 \in Flags))

=============================================================================

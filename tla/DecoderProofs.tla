--------------------------- MODULE DecoderProofs ---------------------------
(***************************************************************************)
(* What Decoder.tla guarantees of every 64-bit word, and Conversions.tla of *)
(* every value.                                                            *)
(***************************************************************************)
EXTENDS Decoder, Conversions, FiniteSetTheorems, WellFoundedInduction, TLAPS

-----------------------------------------------------------------------------
(* Groups of bits.                                                         *)

\* A finite set has more than one element when it has two different ones.
LEMMA MoreThanOne ==
  ASSUME NEW S, IsFiniteSet(S)
  PROVE  Cardinality(S) > 1 <=> \E a, b \in S : a # b
<1>1. CASE S = {}
  BY <1>1, FS_EmptySet
<1>2. CASE \E a \in S : S = {a}
  BY <1>2, FS_Singleton
<1>3. CASE \E a, b \in S : a # b
  <2>1. PICK a, b \in S : a # b
    BY <1>3
  <2>2. IsFiniteSet({a}) /\ Cardinality({a}) = 1
    BY FS_Singleton
  <2>3. IsFiniteSet({a} \cup {b}) /\ Cardinality({a} \cup {b}) = 1 + 1
    BY <2>1, <2>2, FS_AddElement
  <2>4. Cardinality({a} \cup {b}) <= Cardinality(S) /\ Cardinality(S) \in Nat
    BY <2>1, FS_Subset, FS_CardinalityType
  <2> QED BY <1>3, <2>3, <2>4
<1> QED BY <1>1, <1>2, <1>3

\* The flags of a word, where the decoder finds them.
LEMMA FlagsOfWord ==
  ASSUME encoded_instr \subseteq Mask(64)
  PROVE  ShiftRight(encoded_instr, 48) = Flags /\ Flags \subseteq 0 .. 15
<1>1. ASSUME NEW b \in Flags PROVE b \in ShiftRight(encoded_instr, 48)
  <2>1. b \in 0 .. 15 /\ b + 48 \in encoded_instr
    BY <1>1 DEF Flags, Mask
  <2>2. b + 48 >= 48 /\ (b + 48) - 48 = b
    BY <2>1
  <2> QED BY <2>1, <2>2 DEF ShiftRight
<1>2. ASSUME NEW b \in ShiftRight(encoded_instr, 48) PROVE b \in Flags
  <2>1. PICK x \in encoded_instr : x >= 48 /\ b = x - 48
    BY <1>2 DEF ShiftRight
  <2>2. x \in 0 .. 63
    BY <2>1 DEF Mask
  <2>3. b \in 0 .. 15 /\ b + 48 = x
    BY <2>1, <2>2
  <2> QED BY <2>1, <2>3 DEF Flags, Mask
<1> QED BY <1>1, <1>2 DEF Flags, Mask

\* Bit k of a field is bit first + k of the flags.
LEMMA BitOfField ==
  ASSUME NEW flags \in SUBSET (0 .. 15), NEW first \in Nat, NEW last \in Nat, NEW k \in Int
  PROVE  k \in Field(flags, first, last)
           <=> k \in 0 .. last - first /\ first + k \in flags
<1>1. ASSUME k \in Field(flags, first, last)
      PROVE  k \in 0 .. last - first /\ first + k \in flags
  <2>1. PICK b \in flags : b \in first .. last /\ b >= first /\ k = b - first
    BY <1>1 DEF Field, ShiftRight
  <2> QED BY <2>1
<1>2. ASSUME k \in 0 .. last - first, first + k \in flags
      PROVE  k \in Field(flags, first, last)
  <2>1. first + k \in first .. last /\ first + k >= first /\ (first + k) - first = k
    BY <1>2
  <2> QED BY <1>2, <2>1 DEF Field, ShiftRight
<1> QED BY <1>1, <1>2

\* The fields are sets of bits.
LEMMA FieldType ==
  ASSUME NEW flags \in SUBSET (0 .. 15), NEW first \in Nat, NEW last \in Nat
  PROVE  Field(flags, first, last) \subseteq 0 .. last - first
BY DEF Field, ShiftRight

\* The fields each switch has a case for.
LEMMA Cases ==
  /\ DOMAIN Registers = {{}, {0}}
  /\ DOMAIN Op1Addr = {{}, {0}, {1}, {2}}
  /\ DOMAIN PcUpdate = {{}, {0}, {1}, {2}}
  /\ DOMAIN Opcode = {{}, {0}, {1}, {2}}
  /\ DOMAIN Res = {{}, {0}, {1}}
  /\ DOMAIN ApUpdate = {{}, {0}, {1}}
BY DEF Registers, Op1Addr, PcUpdate, Opcode, Res, ApUpdate

\* A field has two bits exactly when its group of the flags does.
LEMMA TwoBitsOfField ==
  ASSUME NEW flags \in SUBSET (0 .. 15), NEW first \in Nat, NEW last \in Nat
  PROVE  (\E a, b \in Field(flags, first, last) : a # b)
           <=> \E a, b \in (first .. last) \cap flags : a # b
<1>1. ASSUME NEW a \in Field(flags, first, last), NEW b \in Field(flags, first, last),
             a # b
      PROVE  \E x, y \in (first .. last) \cap flags : x # y
  <2>1. a \in 0 .. last - first /\ b \in 0 .. last - first
    BY FieldType
  <2>2. first + a \in flags /\ first + b \in flags
    BY <2>1, BitOfField
  <2>3. first + a \in first .. last /\ first + b \in first .. last /\ first + a # first + b
    BY <1>1, <2>1
  <2> QED BY <2>2, <2>3
<1>2. ASSUME NEW x \in (first .. last) \cap flags, NEW y \in (first .. last) \cap flags,
             x # y
      PROVE  \E a, b \in Field(flags, first, last) : a # b
  <2>1. /\ x - first \in 0 .. last - first /\ y - first \in 0 .. last - first
        /\ x - first \in Int /\ y - first \in Int
        /\ first + (x - first) = x /\ first + (y - first) = y
        /\ x - first # y - first
    BY <1>2
  <2>2. x - first \in Field(flags, first, last) /\ y - first \in Field(flags, first, last)
    BY <2>1, BitOfField
  <2> QED BY <2>1, <2>2
<1> QED BY <1>1, <1>2

\* A switch has a case for every field without two bits.
LEMMA CaseOfThree ==
  ASSUME NEW S \in SUBSET (0 .. 2)
  PROVE  S \in {{}, {0}, {1}, {2}} <=> ~ \E a, b \in S : a # b
<1>1. S \in {{}, {0}, {1}, {2}} => ~ \E a, b \in S : a # b
  OBVIOUS
<1>2. ASSUME ~ \E a, b \in S : a # b, S # {} PROVE S \in {{0}, {1}, {2}}
  <2>1. PICK a \in S : TRUE
    BY <1>2
  <2>2. S = {a}
    BY <1>2, <2>1
  <2>3. a \in {0, 1, 2}
    BY <2>1
  <2> QED BY <2>2, <2>3
<1> QED BY <1>1, <1>2

LEMMA CaseOfTwo ==
  ASSUME NEW S \in SUBSET (0 .. 1)
  PROVE  S \in {{}, {0}, {1}} <=> ~ \E a, b \in S : a # b
<1>1. S \in {{}, {0}, {1}} => ~ \E a, b \in S : a # b
  OBVIOUS
<1>2. ASSUME ~ \E a, b \in S : a # b, S # {} PROVE S \in {{0}, {1}}
  <2>1. PICK a \in S : TRUE
    BY <1>2
  <2>2. S = {a}
    BY <1>2, <2>1
  <2>3. a \in {0, 1}
    BY <2>1
  <2> QED BY <2>2, <2>3
<1> QED BY <1>1, <1>2

\* What is wrong with the k-th group of a word.
TooMany(k) == Cardinality(Groups[k] \cap Flags) > (IF k = 1 THEN 0 ELSE 1)

\* The decoder finds fault with a group exactly when it has too many bits.
LEMMA FaultyGroups ==
  ASSUME Flags \subseteq 0 .. 15
  PROVE  Faults(Flags) = {k \in DOMAIN Groups : TooMany(k)}
<1>1. DOMAIN Groups = 1 .. 6
  BY DEF Groups
<1>2. ASSUME NEW S \in SUBSET (0 .. 15)
      PROVE  IsFiniteSet(S \cap Flags)
  <2>1. IsFiniteSet(0 .. 15)
    <3>1. 0 \in Int /\ 15 \in Int
      OBVIOUS
    <3> QED BY <3>1, FS_Interval
  <2> QED BY <2>1, FS_Subset
<1>3. TooMany(1) <=> 15 \in Flags
  <2>1. Groups[1] = {15}
    BY DEF Groups
  <2>2. CASE 15 \in Flags
    <3>1. Groups[1] \cap Flags = {15}
      BY <2>1, <2>2
    <3>2. Cardinality({15}) = 1
      BY FS_Singleton
    <3> QED BY <2>2, <3>1, <3>2 DEF TooMany
  <2>3. CASE 15 \notin Flags
    <3>1. Groups[1] \cap Flags = {}
      BY <2>1, <2>3
    <3> QED BY <2>3, <3>1, FS_EmptySet DEF TooMany
  <2> QED BY <2>2, <2>3
<1>4. ASSUME NEW k \in 2 .. 6
      PROVE  TooMany(k) <=> \E a, b \in Groups[k] \cap Flags : a # b
  <2>1. Groups[k] \in SUBSET (0 .. 15)
    BY <1>4 DEF Groups
  <2>2. IsFiniteSet(Groups[k] \cap Flags)
    BY <1>2, <2>1
  <2> QED BY <1>4, <2>2, MoreThanOne DEF TooMany
<1>5. /\ Groups[2] = 2 .. 4 /\ Groups[3] = 7 .. 9 /\ Groups[4] = 5 .. 6
      /\ Groups[5] = 12 .. 14 /\ Groups[6] = 10 .. 11
  BY DEF Groups
<1>6. TooMany(2) <=> Field(Flags, 2, 4) \notin DOMAIN Op1Addr
  <2>1. Field(Flags, 2, 4) \in SUBSET (0 .. 2)
    <3>1. 4 - 2 = 2
      OBVIOUS
    <3> QED BY <3>1, FieldType
  <2>2. (\E a, b \in Field(Flags, 2, 4) : a # b)
          <=> \E a, b \in (2 .. 4) \cap Flags : a # b
    BY TwoBitsOfField
  <2>3. Field(Flags, 2, 4) \in {{}, {0}, {1}, {2}}
          <=> ~ \E a, b \in Field(Flags, 2, 4) : a # b
    BY <2>1, CaseOfThree
  <2> QED BY <1>4, <1>5, <2>2, <2>3, Cases
<1>7. TooMany(3) <=> Field(Flags, 7, 9) \notin DOMAIN PcUpdate
  <2>1. Field(Flags, 7, 9) \in SUBSET (0 .. 2)
    <3>1. 9 - 7 = 2
      OBVIOUS
    <3> QED BY <3>1, FieldType
  <2>2. (\E a, b \in Field(Flags, 7, 9) : a # b)
          <=> \E a, b \in (7 .. 9) \cap Flags : a # b
    BY TwoBitsOfField
  <2>3. Field(Flags, 7, 9) \in {{}, {0}, {1}, {2}}
          <=> ~ \E a, b \in Field(Flags, 7, 9) : a # b
    BY <2>1, CaseOfThree
  <2> QED BY <1>4, <1>5, <2>2, <2>3, Cases
<1>8. TooMany(4) <=> Field(Flags, 5, 6) \notin DOMAIN Res
  <2>1. Field(Flags, 5, 6) \in SUBSET (0 .. 1)
    <3>1. 6 - 5 = 1
      OBVIOUS
    <3> QED BY <3>1, FieldType
  <2>2. (\E a, b \in Field(Flags, 5, 6) : a # b)
          <=> \E a, b \in (5 .. 6) \cap Flags : a # b
    BY TwoBitsOfField
  <2>3. Field(Flags, 5, 6) \in {{}, {0}, {1}}
          <=> ~ \E a, b \in Field(Flags, 5, 6) : a # b
    BY <2>1, CaseOfTwo
  <2> QED BY <1>4, <1>5, <2>2, <2>3, Cases
<1>9. TooMany(5) <=> Field(Flags, 12, 14) \notin DOMAIN Opcode
  <2>1. Field(Flags, 12, 14) \in SUBSET (0 .. 2)
    <3>1. 14 - 12 = 2
      OBVIOUS
    <3> QED BY <3>1, FieldType
  <2>2. (\E a, b \in Field(Flags, 12, 14) : a # b)
          <=> \E a, b \in (12 .. 14) \cap Flags : a # b
    BY TwoBitsOfField
  <2>3. Field(Flags, 12, 14) \in {{}, {0}, {1}, {2}}
          <=> ~ \E a, b \in Field(Flags, 12, 14) : a # b
    BY <2>1, CaseOfThree
  <2> QED BY <1>4, <1>5, <2>2, <2>3, Cases
<1>10. TooMany(6) <=> Field(Flags, 10, 11) \notin DOMAIN ApUpdate
  <2>1. Field(Flags, 10, 11) \in SUBSET (0 .. 1)
    <3>1. 11 - 10 = 1
      OBVIOUS
    <3> QED BY <3>1, FieldType
  <2>2. (\E a, b \in Field(Flags, 10, 11) : a # b)
          <=> \E a, b \in (10 .. 11) \cap Flags : a # b
    BY TwoBitsOfField
  <2>3. Field(Flags, 10, 11) \in {{}, {0}, {1}}
          <=> ~ \E a, b \in Field(Flags, 10, 11) : a # b
    BY <2>1, CaseOfTwo
  <2> QED BY <1>4, <1>5, <2>2, <2>3, Cases
<1>11. \A k \in 1 .. 6 : k \in Faults(Flags) <=> TooMany(k)
  BY <1>3, <1>6, <1>7, <1>8, <1>9, <1>10 DEF Faults
<1>12. Faults(Flags) \subseteq 1 .. 6
  BY DEF Faults
<1> QED BY <1>1, <1>11, <1>12

-----------------------------------------------------------------------------
(* The one call.                                                           *)

\* The result is there and is that of the word, or it is not there yet.
DecoderInv ==
  /\ encoded_instr \in Words
  /\ result # Undecoded => result = decode_instruction(encoded_instr)

\* It holds of every behaviour of the decoder.
LEMMA DecoderInvariance == DecoderSpec => []DecoderInv
<1>1. DecoderInit => DecoderInv
  BY DEF DecoderInit, DecoderInv
<1>2. DecoderInv /\ [Decode]_decoder_vars => DecoderInv'
  BY DEF DecoderInv, Decode, decoder_vars
<1> QED BY <1>1, <1>2, PTL DEF DecoderSpec

\* What a result says of the flags.
LEMMA ResultOfFlags ==
  ASSUME DecoderInv
  PROVE  /\ Flags \subseteq 0 .. 15
         /\ Accepted => /\ Faults(Flags) = {}
                        /\ result.instruction = Decoded(encoded_instr, Flags)
         /\ Rejected => /\ Faults(Flags) # {}
                        /\ result.error = Errors[Min(Faults(Flags))]
<1>1. ShiftRight(encoded_instr, 48) = Flags /\ Flags \subseteq 0 .. 15
  BY FlagsOfWord, WordsAssumption DEF DecoderInv
<1>2. result # Undecoded =>
        result = IF Faults(Flags) = {}
                 THEN [is_error |-> FALSE, instruction |-> Decoded(encoded_instr, Flags)]
                 ELSE [is_error |-> TRUE, error |-> Errors[Min(Faults(Flags))]]
  BY <1>1, Zenon DEF DecoderInv, decode_instruction
<1>3. CASE result = Undecoded
  BY <1>1, <1>3 DEF Accepted, Rejected
<1>4. CASE result # Undecoded /\ Faults(Flags) = {}
  <2>1. result = [is_error |-> FALSE, instruction |-> Decoded(encoded_instr, Flags)]
    BY <1>2, <1>4
  <2> QED BY <1>1, <1>4, <2>1 DEF Accepted, Rejected
<1>5. CASE result # Undecoded /\ Faults(Flags) # {}
  <2>1. result = [is_error |-> TRUE, error |-> Errors[Min(Faults(Flags))]]
    BY <1>2, <1>5
  <2> QED BY <1>1, <1>5, <2>1 DEF Accepted, Rejected
<1> QED BY <1>3, <1>4, <1>5

\* The groups are looked at in the order of the errors.
LEMMA FirstOf ==
  ASSUME NEW S \in SUBSET (1 .. 6), S # {}
  PROVE  Min(S) \in S /\ \A k \in S : Min(S) <= k
<1>1. \E m \in S : \A k \in S : m <= k
  <2>1. 1 \in S \/ 2 \in S \/ 3 \in S \/ 4 \in S \/ 5 \in S \/ 6 \in S
    <3>1. PICK s \in S : TRUE
      OBVIOUS
    <3>2. s = 1 \/ s = 2 \/ s = 3 \/ s = 4 \/ s = 5 \/ s = 6
      BY <3>1
    <3> QED BY <3>2
  <2> QED BY <2>1
<1> QED BY <1>1 DEF Min

\* A 64-bit word is accepted exactly when its high bit is 0 and no group has
\* two bits set, and is rejected for the first group that is at fault
\* (decoder.c:44-206).
THEOREM RejectsTheFirstBadGroup == DecoderSpec => []RejectsByGroup
<1>1. DecoderInv => RejectsByGroup
  <2> SUFFICES ASSUME DecoderInv PROVE RejectsByGroup
    OBVIOUS
  <2>1. Flags \subseteq 0 .. 15
    BY ResultOfFlags
  <2> DEFINE bad == {k \in DOMAIN Groups :
                       Cardinality(Groups[k] \cap Flags) > (IF k = 1 THEN 0 ELSE 1)}
  <2>2. bad = Faults(Flags)
    <3>1. bad = {k \in DOMAIN Groups : TooMany(k)}
      BY Zenon DEF TooMany
    <3> QED BY <2>1, <3>1, FaultyGroups
  <2> HIDE DEF bad
  <2>3. Accepted => bad = {}
    BY <2>2, ResultOfFlags
  <2>4. Rejected => \E k \in bad : /\ result.error = Errors[k]
                                   /\ \A j \in bad : k <= j
    <3> SUFFICES ASSUME Rejected PROVE \E k \in bad : /\ result.error = Errors[k]
                                                      /\ \A j \in bad : k <= j
      OBVIOUS
    <3>1. Faults(Flags) # {} /\ result.error = Errors[Min(Faults(Flags))]
      BY ResultOfFlags
    <3>2. Faults(Flags) \subseteq 1 .. 6
      BY DEF Faults
    <3>3. /\ Min(Faults(Flags)) \in Faults(Flags)
          /\ \A j \in Faults(Flags) : Min(Faults(Flags)) <= j
      BY <3>1, <3>2, FirstOf
    <3> QED BY <2>2, <3>1, <3>3
  <2> QED BY <2>3, <2>4 DEF RejectsByGroup, bad
<1> QED BY <1>1, DecoderInvariance, PTL

\* instruction.h:21-23: an accepted word is followed by a second one exactly
\* when bit 2 of its flags is set.
THEOREM ImmediatesTakeTwoWords == DecoderSpec => []ImmediateTakesTwoWords
<1>1. DecoderInv => ImmediateTakesTwoWords
  <2> SUFFICES ASSUME DecoderInv, Accepted
               PROVE  (instruction_size(result.instruction) = 2) <=> (2 \in Flags)
    BY DEF ImmediateTakesTwoWords
  <2> DEFINE F == Field(Flags, 2, 4)
  <2>1. Flags \subseteq 0 .. 15 /\ Faults(Flags) = {}
        /\ result.instruction = Decoded(encoded_instr, Flags)
    BY ResultOfFlags
  <2>2. F \in {{}, {0}, {1}, {2}}
    <3>1. 2 \in 1 .. 6 /\ 2 \notin Faults(Flags)
      BY <2>1
    <3> QED BY <3>1, Cases DEF Faults
  <2>3. 0 \in F <=> 2 \in Flags
    <3>1. (0 \in F <=> 0 \in 0 .. 4 - 2 /\ 2 + 0 \in Flags) /\ 0 \in 0 .. 4 - 2 /\ 2 + 0 = 2
      BY <2>1, BitOfField
    <3> QED BY <3>1
  <2>4. result.instruction.op1_addr = Op1Addr[F]
    BY <2>1 DEF Decoded
  <2> HIDE DEF F
  <2>5. Op1Addr[F] = "Imm" <=> 0 \in F
    BY <2>2 DEF Op1Addr
  <2> QED BY <2>3, <2>4, <2>5 DEF instruction_size
<1> QED BY <1>1, DecoderInvariance, PTL

-----------------------------------------------------------------------------
(* Nothing of the flags is lost.                                           *)

\* The bits of a group are those of its field, moved up.
LEMMA GroupOfField ==
  ASSUME NEW flags \in SUBSET (0 .. 15), NEW first \in Nat, NEW last \in Nat
  PROVE  (first .. last) \cap flags = {first + k : k \in Field(flags, first, last)}
<1>1. ASSUME NEW b \in (first .. last) \cap flags
      PROVE  b \in {first + k : k \in Field(flags, first, last)}
  <2>1. b - first \in Int /\ b - first \in 0 .. last - first /\ first + (b - first) = b
    OBVIOUS
  <2>2. b - first \in Field(flags, first, last)
    BY <2>1, BitOfField
  <2> QED BY <2>1, <2>2
<1>2. ASSUME NEW k \in Field(flags, first, last)
      PROVE  first + k \in (first .. last) \cap flags
  <2>1. k \in 0 .. last - first
    BY FieldType
  <2>2. first + k \in flags /\ first + k \in first .. last
    BY <2>1, BitOfField
  <2> QED BY <2>2
<1> QED BY <1>1, <1>2

\* In a word without faults the groups have no bit or one.
LEMMA AcceptedGroups ==
  ASSUME Flags \subseteq 0 .. 15, Faults(Flags) = {}
  PROVE  /\ 15 \notin Flags
         /\ Field(Flags, 0, 0) \in {{}, {0}} /\ Field(Flags, 1, 1) \in {{}, {0}}
         /\ Field(Flags, 2, 4) \in {{}, {0}, {1}, {2}}
         /\ Field(Flags, 7, 9) \in {{}, {0}, {1}, {2}}
         /\ Field(Flags, 5, 6) \in {{}, {0}, {1}}
         /\ Field(Flags, 12, 14) \in {{}, {0}, {1}, {2}}
         /\ Field(Flags, 10, 11) \in {{}, {0}, {1}}
<1>1. /\ 15 \notin Flags
      /\ Field(Flags, 2, 4) \in DOMAIN Op1Addr
      /\ Field(Flags, 7, 9) \in DOMAIN PcUpdate
      /\ Field(Flags, 5, 6) \in DOMAIN Res
      /\ Field(Flags, 12, 14) \in DOMAIN Opcode
      /\ Field(Flags, 10, 11) \in DOMAIN ApUpdate
  <2>1. \A k \in 1 .. 6 : k \notin Faults(Flags)
    OBVIOUS
  <2>2. 1 \in 1 .. 6 /\ 2 \in 1 .. 6 /\ 3 \in 1 .. 6
        /\ 4 \in 1 .. 6 /\ 5 \in 1 .. 6 /\ 6 \in 1 .. 6
    OBVIOUS
  <2> QED BY <2>1, <2>2 DEF Faults
<1>2. ASSUME NEW S \in SUBSET (0 .. 0) PROVE S \in {{}, {0}}
  <2>1. \A b \in S : b = 0
    OBVIOUS
  <2>2. S = {} \/ S = {0}
    BY <2>1
  <2> QED BY <2>2
<1>3. Field(Flags, 0, 0) \in SUBSET (0 .. 0) /\ Field(Flags, 1, 1) \in SUBSET (0 .. 0)
  <2>1. 0 - 0 = 0 /\ 1 - 1 = 0
    OBVIOUS
  <2> QED BY <2>1, FieldType
<1> QED BY <1>1, <1>2, <1>3, Cases

\* The bits the layout gives for an instruction, field by field.
LEMMA BitsOfInstruction ==
  ASSUME NEW i
  PROVE  FlagsOf(i) = Layout.dst_register[i.dst_register]
                        \cup Layout.op0_register[i.op0_register]
                        \cup Layout.op1_addr[i.op1_addr] \cup Layout.res[i.res]
                        \cup Layout.pc_update[i.pc_update]
                        \cup Layout.ap_update[i.ap_update]
                        \cup Layout.opcode[i.opcode]
<1>1. DOMAIN Layout = {"dst_register", "op0_register", "op1_addr", "res",
                       "pc_update", "ap_update", "opcode"}
  BY DEF Layout
<1> QED BY <1>1 DEF FlagsOf

\* What each field means.
LEMMA Meanings ==
  /\ Registers[{}] = "REG_AP" /\ Registers[{0}] = "REG_FP"
  /\ Op1Addr[{}] = "Op0" /\ Op1Addr[{0}] = "Imm"
  /\ Op1Addr[{1}] = "OP_FP" /\ Op1Addr[{2}] = "OP_AP"
  /\ PcUpdate[{}] = "PC_Regular" /\ PcUpdate[{0}] = "Jump"
  /\ PcUpdate[{1}] = "JumpRel" /\ PcUpdate[{2}] = "Jnz"
  /\ Res[{}] = "Op1" /\ Res[{0}] = "Res_Add"
  /\ Res[{1}] = "Mul"
  /\ Opcode[{}] = "NOp" /\ Opcode[{0}] = "Call"
  /\ Opcode[{1}] = "Ret" /\ Opcode[{2}] = "AssertEq"
  /\ ApUpdate[{}] = "AP_Regular" /\ ApUpdate[{0}] = "Add"
  /\ ApUpdate[{1}] = "Add1"
<1>1. {} # {0} /\ {} # {1} /\ {} # {2} /\ {0} # {1} /\ {0} # {2} /\ {1} # {2}
  OBVIOUS
<1>2. /\ Registers[{}] = "REG_AP" /\ Registers[{0}] = "REG_FP"
  BY <1>1 DEF Registers
<1>3. /\ Op1Addr[{}] = "Op0" /\ Op1Addr[{0}] = "Imm"
      /\ Op1Addr[{1}] = "OP_FP" /\ Op1Addr[{2}] = "OP_AP"
  BY <1>1 DEF Op1Addr
<1>4. /\ PcUpdate[{}] = "PC_Regular" /\ PcUpdate[{0}] = "Jump"
      /\ PcUpdate[{1}] = "JumpRel" /\ PcUpdate[{2}] = "Jnz"
  BY <1>1 DEF PcUpdate
<1>5. /\ Res[{}] = "Op1" /\ Res[{0}] = "Res_Add"
      /\ Res[{1}] = "Mul"
  BY <1>1 DEF Res
<1>6. /\ Opcode[{}] = "NOp" /\ Opcode[{0}] = "Call"
      /\ Opcode[{1}] = "Ret" /\ Opcode[{2}] = "AssertEq"
  BY <1>1 DEF Opcode
<1>7. /\ ApUpdate[{}] = "AP_Regular" /\ ApUpdate[{0}] = "Add"
      /\ ApUpdate[{1}] = "Add1"
  BY <1>1 DEF ApUpdate
<1> QED BY <1>2, <1>3, <1>4, <1>5, <1>6, <1>7

\* What the layout gives for each meaning.
LEMMA LayoutOfMeanings ==
  /\ Layout.dst_register["REG_AP"] = {} /\ Layout.dst_register["REG_FP"] = {0}
  /\ Layout.op0_register["REG_AP"] = {} /\ Layout.op0_register["REG_FP"] = {1}
  /\ Layout.op1_addr["Op0"] = {} /\ Layout.op1_addr["Imm"] = {2}
  /\ Layout.op1_addr["OP_FP"] = {3} /\ Layout.op1_addr["OP_AP"] = {4}
  /\ Layout.res["Op1"] = {} /\ Layout.res["Unconstrained"] = {}
  /\ Layout.res["Res_Add"] = {5} /\ Layout.res["Mul"] = {6}
  /\ Layout.pc_update["PC_Regular"] = {} /\ Layout.pc_update["Jump"] = {7}
  /\ Layout.pc_update["JumpRel"] = {8} /\ Layout.pc_update["Jnz"] = {9}
  /\ Layout.ap_update["AP_Regular"] = {} /\ Layout.ap_update["Add2"] = {}
  /\ Layout.ap_update["Add"] = {10} /\ Layout.ap_update["Add1"] = {11}
  /\ Layout.opcode["NOp"] = {} /\ Layout.opcode["Call"] = {12}
  /\ Layout.opcode["Ret"] = {13} /\ Layout.opcode["AssertEq"] = {14}
BY DEF Layout

\* The fields of an instruction give back the groups they were read from.
LEMMA GroupsAreKept ==
  ASSUME Flags \subseteq 0 .. 15, Faults(Flags) = {},
         NEW i, i = Decoded(encoded_instr, Flags)
  PROVE  /\ Layout.dst_register[i.dst_register] = (0 .. 0) \cap Flags
         /\ Layout.op0_register[i.op0_register] = (1 .. 1) \cap Flags
         /\ Layout.op1_addr[i.op1_addr] = (2 .. 4) \cap Flags
         /\ Layout.res[i.res] = (5 .. 6) \cap Flags
         /\ Layout.pc_update[i.pc_update] = (7 .. 9) \cap Flags
         /\ Layout.ap_update[i.ap_update] = (10 .. 11) \cap Flags
         /\ Layout.opcode[i.opcode] = (12 .. 14) \cap Flags
         /\ i.pc_update = "Jnz" => i.res # "Op1"
         /\ i.pc_update # "Jnz" => i.res # "Unconstrained"
         /\ i.opcode = "Call" => i.ap_update # "AP_Regular"
         /\ i.opcode # "Call" => i.ap_update # "Add2"
<1> DEFINE Bits(first, F) == {first + k : k \in F}
<1>1. ASSUME NEW first \in Nat
      PROVE  /\ Bits(first, {}) = {} /\ Bits(first, {0}) = {first}
             /\ Bits(first, {1}) = {first + 1} /\ Bits(first, {2}) = {first + 2}
  OBVIOUS
<1>2. \A first, last \in Nat :
        (first .. last) \cap Flags = Bits(first, Field(Flags, first, last))
  BY GroupOfField
<1> HIDE DEF Bits
<1>3. Layout.dst_register[i.dst_register] = (0 .. 0) \cap Flags
  <2> DEFINE F == Field(Flags, 0, 0)
  <2>1. (0 .. 0) \cap Flags = Bits(0, F)
    BY <1>2
  <2>2. F = {} \/ F = {0}
    BY AcceptedGroups
  <2>3. i.dst_register = Registers[F]
    BY DEF Decoded
  <2>4. /\ Bits(0, {}) = {} /\ Bits(0, {0}) = {0}
    BY <1>1
  <2>5. /\ Registers[{}] = "REG_AP" /\ Registers[{0}] = "REG_FP"
    BY Meanings
  <2>6. /\ Layout.dst_register["REG_AP"] = {} /\ Layout.dst_register["REG_FP"] = {0}
    BY LayoutOfMeanings
  <2> HIDE DEF F
  <2> QED BY <2>1, <2>2, <2>3, <2>4, <2>5, <2>6
<1>4. Layout.op0_register[i.op0_register] = (1 .. 1) \cap Flags
  <2> DEFINE F == Field(Flags, 1, 1)
  <2>1. (1 .. 1) \cap Flags = Bits(1, F)
    BY <1>2
  <2>2. F = {} \/ F = {0}
    BY AcceptedGroups
  <2>3. i.op0_register = Registers[F]
    BY DEF Decoded
  <2>4. /\ Bits(1, {}) = {} /\ Bits(1, {0}) = {1}
    BY <1>1
  <2>5. /\ Registers[{}] = "REG_AP" /\ Registers[{0}] = "REG_FP"
    BY Meanings
  <2>6. /\ Layout.op0_register["REG_AP"] = {} /\ Layout.op0_register["REG_FP"] = {1}
    BY LayoutOfMeanings
  <2> HIDE DEF F
  <2> QED BY <2>1, <2>2, <2>3, <2>4, <2>5, <2>6
<1>5. Layout.op1_addr[i.op1_addr] = (2 .. 4) \cap Flags
  <2> DEFINE F == Field(Flags, 2, 4)
  <2>1. (2 .. 4) \cap Flags = Bits(2, F)
    BY <1>2
  <2>2. F = {} \/ F = {0} \/ F = {1} \/ F = {2}
    BY AcceptedGroups
  <2>3. i.op1_addr = Op1Addr[F]
    BY DEF Decoded
  <2>4. /\ Bits(2, {}) = {} /\ Bits(2, {0}) = {2}
        /\ Bits(2, {1}) = {3} /\ Bits(2, {2}) = {4}
    BY <1>1
  <2>5. /\ Op1Addr[{}] = "Op0" /\ Op1Addr[{0}] = "Imm"
        /\ Op1Addr[{1}] = "OP_FP" /\ Op1Addr[{2}] = "OP_AP"
    BY Meanings
  <2>6. /\ Layout.op1_addr["Op0"] = {} /\ Layout.op1_addr["Imm"] = {2}
        /\ Layout.op1_addr["OP_FP"] = {3} /\ Layout.op1_addr["OP_AP"] = {4}
    BY LayoutOfMeanings
  <2> HIDE DEF F
  <2> QED BY <2>1, <2>2, <2>3, <2>4, <2>5, <2>6
<1>6. Layout.pc_update[i.pc_update] = (7 .. 9) \cap Flags
  <2> DEFINE F == Field(Flags, 7, 9)
  <2>1. (7 .. 9) \cap Flags = Bits(7, F)
    BY <1>2
  <2>2. F = {} \/ F = {0} \/ F = {1} \/ F = {2}
    BY AcceptedGroups
  <2>3. i.pc_update = PcUpdate[F]
    BY DEF Decoded
  <2>4. /\ Bits(7, {}) = {} /\ Bits(7, {0}) = {7}
        /\ Bits(7, {1}) = {8} /\ Bits(7, {2}) = {9}
    BY <1>1
  <2>5. /\ PcUpdate[{}] = "PC_Regular" /\ PcUpdate[{0}] = "Jump"
        /\ PcUpdate[{1}] = "JumpRel" /\ PcUpdate[{2}] = "Jnz"
    BY Meanings
  <2>6. /\ Layout.pc_update["PC_Regular"] = {} /\ Layout.pc_update["Jump"] = {7}
        /\ Layout.pc_update["JumpRel"] = {8} /\ Layout.pc_update["Jnz"] = {9}
    BY LayoutOfMeanings
  <2> HIDE DEF F
  <2> QED BY <2>1, <2>2, <2>3, <2>4, <2>5, <2>6
<1>7. Layout.opcode[i.opcode] = (12 .. 14) \cap Flags
  <2> DEFINE F == Field(Flags, 12, 14)
  <2>1. (12 .. 14) \cap Flags = Bits(12, F)
    BY <1>2
  <2>2. F = {} \/ F = {0} \/ F = {1} \/ F = {2}
    BY AcceptedGroups
  <2>3. i.opcode = Opcode[F]
    BY DEF Decoded
  <2>4. /\ Bits(12, {}) = {} /\ Bits(12, {0}) = {12}
        /\ Bits(12, {1}) = {13} /\ Bits(12, {2}) = {14}
    BY <1>1
  <2>5. /\ Opcode[{}] = "NOp" /\ Opcode[{0}] = "Call"
        /\ Opcode[{1}] = "Ret" /\ Opcode[{2}] = "AssertEq"
    BY Meanings
  <2>6. /\ Layout.opcode["NOp"] = {} /\ Layout.opcode["Call"] = {12}
        /\ Layout.opcode["Ret"] = {13} /\ Layout.opcode["AssertEq"] = {14}
    BY LayoutOfMeanings
  <2> HIDE DEF F
  <2> QED BY <2>1, <2>2, <2>3, <2>4, <2>5, <2>6
<1>8. /\ Layout.res[i.res] = (5 .. 6) \cap Flags
      /\ i.pc_update = "Jnz" => i.res # "Op1"
      /\ i.pc_update # "Jnz" => i.res # "Unconstrained"
  <2> DEFINE F == Field(Flags, 5, 6)
             res == Res[F]
  <2>1. (5 .. 6) \cap Flags = Bits(5, F)
    BY <1>2
  <2>2. i.res = IF res = "Op1" /\ i.pc_update = "Jnz" THEN "Unconstrained" ELSE res
    BY DEF Decoded
  <2>3. \/ F = {} /\ res = "Op1"
        \/ F = {0} /\ res = "Res_Add"
        \/ F = {1} /\ res = "Mul"
    <3>1. F = {} \/ F = {0} \/ F = {1}
      BY AcceptedGroups
    <3>2. /\ Res[{}] = "Op1" /\ Res[{0}] = "Res_Add"
          /\ Res[{1}] = "Mul"
      BY Meanings
    <3> HIDE DEF F
    <3> QED BY <3>1, <3>2
  <2>4. /\ Bits(5, {}) = {} /\ Bits(5, {0}) = {5}
        /\ Bits(5, {1}) = {6}
    BY <1>1
  <2>5. /\ Layout.res["Op1"] = {} /\ Layout.res["Unconstrained"] = {}
        /\ Layout.res["Res_Add"] = {5} /\ Layout.res["Mul"] = {6}
    BY LayoutOfMeanings
  <2> HIDE DEF F, res
  <2> QED BY <2>1, <2>2, <2>3, <2>4, <2>5
<1>9. /\ Layout.ap_update[i.ap_update] = (10 .. 11) \cap Flags
      /\ i.opcode = "Call" => i.ap_update # "AP_Regular"
      /\ i.opcode # "Call" => i.ap_update # "Add2"
  <2> DEFINE F == Field(Flags, 10, 11)
             update == ApUpdate[F]
  <2>1. (10 .. 11) \cap Flags = Bits(10, F)
    BY <1>2
  <2>2. i.ap_update = IF update = "AP_Regular" /\ i.opcode = "Call" THEN "Add2" ELSE update
    BY DEF Decoded
  <2>3. \/ F = {} /\ update = "AP_Regular"
        \/ F = {0} /\ update = "Add"
        \/ F = {1} /\ update = "Add1"
    <3>1. F = {} \/ F = {0} \/ F = {1}
      BY AcceptedGroups
    <3>2. /\ ApUpdate[{}] = "AP_Regular" /\ ApUpdate[{0}] = "Add"
          /\ ApUpdate[{1}] = "Add1"
      BY Meanings
    <3> HIDE DEF F
    <3> QED BY <3>1, <3>2
  <2>4. /\ Bits(10, {}) = {} /\ Bits(10, {0}) = {10}
        /\ Bits(10, {1}) = {11}
    BY <1>1
  <2>5. /\ Layout.ap_update["AP_Regular"] = {} /\ Layout.ap_update["Add2"] = {}
        /\ Layout.ap_update["Add"] = {10} /\ Layout.ap_update["Add1"] = {11}
    BY LayoutOfMeanings
  <2> HIDE DEF F, update
  <2> QED BY <2>1, <2>2, <2>3, <2>4, <2>5
<1> QED BY <1>3, <1>4, <1>5, <1>6, <1>7, <1>8, <1>9

\* The seven groups are all of the flags but the high bit.
LEMMA GroupsCoverFlags ==
  ASSUME Flags \subseteq 0 .. 15, 15 \notin Flags
  PROVE  Flags = ((0 .. 0) \cap Flags) \cup ((1 .. 1) \cap Flags)
                   \cup ((2 .. 4) \cap Flags) \cup ((5 .. 6) \cap Flags)
                   \cup ((7 .. 9) \cap Flags) \cup ((10 .. 11) \cap Flags)
                   \cup ((12 .. 14) \cap Flags)
<1>1. ASSUME NEW b \in Flags
      PROVE  b \in 0 .. 0 \/ b \in 1 .. 1 \/ b \in 2 .. 4 \/ b \in 5 .. 6
             \/ b \in 7 .. 9 \/ b \in 10 .. 11 \/ b \in 12 .. 14
  <2>1. b \in 0 .. 15 /\ b # 15
    OBVIOUS
  <2> QED BY <2>1
<1> QED BY <1>1

\* Decoding and encoding again gives the same flags, for every 64-bit word
\* that is accepted, the two meanings without a bit of their own included.
LEMMA FlagsAreKept ==
  ASSUME DecoderInv
  PROVE  KeepsFlags
<1> SUFFICES ASSUME Accepted PROVE KeepsFlags
  BY DEF KeepsFlags
<1>1. PICK i : i = result.instruction
  OBVIOUS
<1>2. Flags \subseteq 0 .. 15 /\ Faults(Flags) = {}
      /\ i = Decoded(encoded_instr, Flags) /\ 15 \notin Flags
  BY <1>1, ResultOfFlags, AcceptedGroups
<1>3. FlagsOf(i) = Flags
  BY <1>2, GroupsAreKept, BitsOfInstruction, GroupsCoverFlags
<1>4. /\ i.pc_update = "Jnz" => i.res # "Op1"
      /\ i.pc_update # "Jnz" => i.res # "Unconstrained"
      /\ i.opcode = "Call" => i.ap_update # "AP_Regular"
      /\ i.opcode # "Call" => i.ap_update # "Add2"
  BY <1>2, GroupsAreKept
<1> QED BY <1>1, <1>3, <1>4 DEF KeepsFlags

-----------------------------------------------------------------------------
(* The loops of src/utils.c.                                               *)

\* A nonempty set of naturals has a least element.
LEMMA Least ==
  ASSUME NEW T, T \subseteq Nat, T # {}
  PROVE  \E m \in T : \A k \in T : m <= k
<1> DEFINE R == OpToRel(<, Nat)
<1>1. IsWellFoundedOn(R, Nat)
  BY NatLessThanWellFounded, Zenon
<1>2. \A m, k \in Nat : <<k, m>> \in R <=> k < m
  BY DEF OpToRel
<1> HIDE DEF R
<1>3. PICK m \in T : \A k \in T : ~(<<k, m>> \in R)
  BY <1>1, WFMin, Zenon
<1>4. ASSUME NEW k \in T PROVE m <= k
  <2>1. m \in Nat /\ k \in Nat /\ ~(<<k, m>> \in R)
    BY <1>3
  <2>2. ~(k < m)
    BY <1>2, <2>1
  <2> QED BY <2>1, <2>2
<1> QED BY <1>4

LEMMA Induction ==
  ASSUME NEW S, 0 \in S, \A n \in Nat : n \in S => n + 1 \in S
  PROVE  Nat \subseteq S
<1> SUFFICES ASSUME Nat \ S # {} PROVE FALSE
  OBVIOUS
<1>1. PICK m \in Nat \ S : \A k \in Nat \ S : m <= k
  BY Least
<1>2. m - 1 \in Nat /\ m - 1 \in S /\ (m - 1) + 1 = m
  BY <1>1
<1> QED BY <1>1, <1>2

\* The accumulator after n turns of a loop over the indices of order.
Turns(acc, bytes, order, width, n) ==
  acc = [k \in 0 .. n |->
           IF k = 0 THEN {}
           ELSE ShiftLeft(acc[k - 1] \cup bytes[order[k]], 8 * order[k], width)]

\* There is such an accumulator, and its last content is what FromBytes says.
LEMMA LoopRuns ==
  ASSUME NEW bytes, NEW order, NEW width, Len(order) \in Nat
  PROVE  \E acc : /\ Turns(acc, bytes, order, width, Len(order))
                  /\ FromBytes(bytes, order, width) = acc[Len(order)]
<1> DEFINE S == {n \in Nat : \E acc : Turns(acc, bytes, order, width, n)}
<1>1. 0 \in S
  <2> DEFINE acc == [k \in 0 .. 0 |-> {}]
  <2>1. Turns(acc, bytes, order, width, 0)
    BY DEF Turns
  <2> QED BY <2>1
<1>2. ASSUME NEW n \in Nat, n \in S PROVE n + 1 \in S
  <2>1. PICK acc : Turns(acc, bytes, order, width, n)
    BY <1>2
  <2> DEFINE T(f, k) == IF k = 0 THEN {}
                        ELSE ShiftLeft(f[k - 1] \cup bytes[order[k]], 8 * order[k], width)
             next == [k \in 0 .. n + 1 |-> IF k = n + 1 THEN T(acc, k) ELSE acc[k]]
  <2>2. \A k \in 0 .. n : acc[k] = T(acc, k)
    BY <2>1 DEF Turns
  <2>3. \A k \in 0 .. n + 1 : k # 0 => k - 1 \in 0 .. n /\ k - 1 # n + 1
    OBVIOUS
  <2>4. \A k \in 0 .. n + 1 : k # 0 => next[k - 1] = acc[k - 1]
    BY <2>3
  <2>5. ASSUME NEW k \in 0 .. n + 1 PROVE next[k] = T(next, k)
    <3>1. T(next, k) = T(acc, k)
      <4> HIDE DEF next
      <4> QED BY <2>4
    <3>2. k \in 0 .. n \/ k = n + 1
      OBVIOUS
    <3> QED BY <2>2, <3>1, <3>2
  <2>6. Turns(next, bytes, order, width, n + 1)
    <3>1. DOMAIN next = 0 .. n + 1 /\ next = [k \in 0 .. n + 1 |-> next[k]]
      OBVIOUS
    <3>2. next = [k \in 0 .. n + 1 |-> T(next, k)]
      <4> HIDE DEF next, T
      <4> QED BY <2>5, <3>1
    <3> HIDE DEF next
    <3> QED BY <3>2, Zenon DEF Turns
  <2> QED BY <2>6
<1> HIDE DEF S
<1>3. Len(order) \in S
  BY <1>1, <1>2, Induction
<1>4. \E acc : Turns(acc, bytes, order, width, Len(order))
  BY <1>3 DEF S
<1> DEFINE chosen == CHOOSE acc : Turns(acc, bytes, order, width, Len(order))
<1>5. Turns(chosen, bytes, order, width, Len(order))
  BY <1>4
<1>6. FromBytes(bytes, order, width) = chosen[Len(order)]
  BY DEF FromBytes, Turns
<1> QED BY <1>5, <1>6

LEMMA BitOfShift ==
  ASSUME NEW v, NEW k \in Int, NEW width \in Nat, NEW b \in Int
  PROVE  b \in ShiftLeft(v, k, width) <=> b \in 0 .. width - 1 /\ b - k \in v
BY DEF ShiftLeft, Mask

\* A loop over the indices of order, bit by bit of its accumulator.
BitsOfTurns(acc, bytes, order, width, n) ==
  \A k \in 1 .. n :
    /\ acc[k] \subseteq 0 .. width - 1
    /\ \A b \in Int :
         b \in acc[k] <=> /\ b \in 0 .. width - 1
                         /\ \/ b - 8 * order[k] \in acc[k - 1]
                            \/ b - 8 * order[k] \in bytes[order[k]]

LEMMA LoopBits ==
  ASSUME NEW bytes, NEW order, NEW width \in Nat, NEW n \in Nat, Len(order) = n,
         \A k \in 1 .. n : order[k] \in Int
  PROVE  \E acc : /\ acc[0] = {} /\ FromBytes(bytes, order, width) = acc[n]
                 /\ BitsOfTurns(acc, bytes, order, width, n)
<1>1. PICK acc : Turns(acc, bytes, order, width, n) /\ FromBytes(bytes, order, width) = acc[n]
  BY LoopRuns
<1>2. acc[0] = {}
  BY <1>1 DEF Turns
<1>3. ASSUME NEW k \in 1 .. n
      PROVE  /\ acc[k] \subseteq 0 .. width - 1
             /\ \A b \in Int :
                  b \in acc[k] <=> /\ b \in 0 .. width - 1
                                  /\ \/ b - 8 * order[k] \in acc[k - 1]
                                     \/ b - 8 * order[k] \in bytes[order[k]]
  <2>1. acc[k] = ShiftLeft(acc[k - 1] \cup bytes[order[k]], 8 * order[k], width)
    <3>1. k \in 0 .. n /\ k # 0
      OBVIOUS
    <3> QED BY <1>1, <3>1, Zenon DEF Turns
  <2>2. 8 * order[k] \in Int
    OBVIOUS
  <2>3. acc[k] \subseteq 0 .. width - 1
    BY <2>1 DEF ShiftLeft, Mask
  <2>4. ASSUME NEW b \in Int
        PROVE  b \in ShiftLeft(acc[k - 1] \cup bytes[order[k]], 8 * order[k], width)
                 <=> /\ b \in 0 .. width - 1
                     /\ b - 8 * order[k] \in acc[k - 1] \cup bytes[order[k]]
    BY <2>2, BitOfShift
  <2> QED BY <2>1, <2>3, <2>4
<1>4. BitsOfTurns(acc, bytes, order, width, n)
  BY <1>3 DEF BitsOfTurns
<1> QED BY <1>1, <1>2, <1>4

\* The bits of a byte that a *_to_*_bytes function writes.
LEMMA BitOfByte ==
  ASSUME NEW v \in SUBSET Nat, NEW n \in Nat, NEW i \in 0 .. n - 1, NEW b \in Int
  PROVE  b \in ToBytes(v, n)[i] <=> b \in 0 .. 7 /\ b + 8 * i \in v
<1>1. ToBytes(v, n)[i] = ShiftRight(v, 8 * i) \cap (0 .. 7)
  BY DEF ToBytes, Mask
<1>2. ASSUME b \in 0 .. 7, b + 8 * i \in v PROVE b \in ShiftRight(v, 8 * i)
  <2>1. b + 8 * i >= 8 * i /\ (b + 8 * i) - 8 * i = b
    BY <1>2
  <2> QED BY <1>2, <2>1 DEF ShiftRight
<1>3. ASSUME b \in ShiftRight(v, 8 * i) PROVE b + 8 * i \in v
  <2>1. PICK x \in v : b = x - 8 * i
    BY <1>3 DEF ShiftRight
  <2>2. x \in Nat /\ 8 * i \in Int
    OBVIOUS
  <2> QED BY <2>1, <2>2
<1> QED BY <1>1, <1>2, <1>3

\* A buffer of bytes.
AreBytes(bytes, n) == \A i \in 0 .. n - 1 : bytes[i] \subseteq 0 .. 7

LEMMA BytesAreBytes ==
  ASSUME NEW v, NEW n \in Nat PROVE AreBytes(ToBytes(v, n), n)
BY DEF AreBytes, ToBytes, Mask

\* The shifts of the 16-bit reader add up to 8 for the byte 1.
LEMMA Read16 ==
  ASSUME NEW bytes, AreBytes(bytes, 2)
  PROVE  u16_from_le_bytes(bytes) =
           {b \in 0 .. 15 : b \in bytes[0] \/ b - 8 \in bytes[1]}
<1> DEFINE o == <<1, 0>>
<1>1. /\ Len(o) = 2
      /\ o[1] = 1 /\ o[2] = 0
  OBVIOUS
<1> HIDE DEF o
<1>2. PICK acc : /\ acc[0] = {} /\ FromBytes(bytes, o, 16) = acc[2]
                 /\ BitsOfTurns(acc, bytes, o, 16, 2)
  <2>1. /\ 16 \in Nat /\ 2 \in Nat /\ Len(o) = 2
        /\ \A k \in 1 .. 2 : o[k] \in Int
    BY <1>1
  <2> QED BY <2>1, LoopBits, Zenon
<1>3. ASSUME NEW b \in Int
      PROVE  b \in acc[1] <=> b \in 0 .. 15 /\ b - 8 \in bytes[1]
  <2>1. b \in acc[1] <=> /\ b \in 0 .. 16 - 1
                         /\ \/ b - 8 * o[1] \in acc[1 - 1]
                            \/ b - 8 * o[1] \in bytes[o[1]]
    BY <1>2 DEF BitsOfTurns
  <2>2. 1 - 1 = 0 /\ o[1] = 1 /\ b - 8 * o[1] = b - 8 /\ acc[0] = {}
    BY <1>1, <1>2
  <2> QED BY <2>1, <2>2
<1>4. ASSUME NEW b \in Int
      PROVE  b \in acc[2] <=> b \in 0 .. 15 /\ (b \in acc[1] \/ b \in bytes[0])
  <2>1. b \in acc[2] <=> /\ b \in 0 .. 16 - 1
                         /\ \/ b - 8 * o[2] \in acc[2 - 1]
                            \/ b - 8 * o[2] \in bytes[o[2]]
    BY <1>2 DEF BitsOfTurns
  <2>2. 2 - 1 = 1 /\ o[2] = 0 /\ b - 8 * o[2] = b
    BY <1>1
  <2> QED BY <2>1, <2>2
<1>5. \A i \in 0 .. 1 : \A x \in Int : x \in bytes[i] => x \in 0 .. 7
  BY DEF AreBytes
<1>6. FromBytes(bytes, o, 16) = u16_from_le_bytes(bytes)
  BY DEF u16_from_le_bytes, o
<1>7. ASSUME NEW b \in 0 .. 15
      PROVE  b \in acc[2] <=> (b \in bytes[0] \/ b - 8 \in bytes[1])
  BY <1>2, <1>3, <1>4, <1>5
<1>8. acc[2] \subseteq 0 .. 15
  BY <1>2 DEF BitsOfTurns
<1> QED BY <1>2, <1>6, <1>7, <1>8

\* Those of the 32-bit one to 8, 24 and 48, in an accumulator of 16 bits.
LEMMA Read32 ==
  ASSUME NEW bytes, AreBytes(bytes, 4)
  PROVE  u32_from_le_bytes(bytes) =
           {b \in 0 .. 15 : b \in bytes[0] \/ b - 8 \in bytes[1]}
<1> DEFINE o == <<3, 2, 1, 0>>
<1>1. /\ Len(o) = 4
      /\ o[1] = 3 /\ o[2] = 2 /\ o[3] = 1 /\ o[4] = 0
  OBVIOUS
<1> HIDE DEF o
<1>2. PICK acc : /\ acc[0] = {} /\ FromBytes(bytes, o, 16) = acc[4]
                 /\ BitsOfTurns(acc, bytes, o, 16, 4)
  <2>1. /\ 16 \in Nat /\ 4 \in Nat /\ Len(o) = 4
        /\ \A k \in 1 .. 4 : o[k] \in Int
    BY <1>1
  <2> QED BY <2>1, LoopBits, Zenon
<1>3. ASSUME NEW b \in Int
      PROVE  b \in acc[1] <=> b \in 0 .. 15 /\ b - 24 \in bytes[3]
  <2>1. b \in acc[1] <=> /\ b \in 0 .. 16 - 1
                         /\ \/ b - 8 * o[1] \in acc[1 - 1]
                            \/ b - 8 * o[1] \in bytes[o[1]]
    BY <1>2 DEF BitsOfTurns
  <2>2. 1 - 1 = 0 /\ o[1] = 3 /\ b - 8 * o[1] = b - 24 /\ acc[0] = {}
    BY <1>1, <1>2
  <2> QED BY <2>1, <2>2
<1>4. ASSUME NEW b \in Int
      PROVE  b \in acc[2] <=> b \in 0 .. 15 /\ (b - 16 \in acc[1] \/ b - 16 \in bytes[2])
  <2>1. b \in acc[2] <=> /\ b \in 0 .. 16 - 1
                         /\ \/ b - 8 * o[2] \in acc[2 - 1]
                            \/ b - 8 * o[2] \in bytes[o[2]]
    BY <1>2 DEF BitsOfTurns
  <2>2. 2 - 1 = 1 /\ o[2] = 2 /\ b - 8 * o[2] = b - 16
    BY <1>1
  <2> QED BY <2>1, <2>2
<1>5. ASSUME NEW b \in Int
      PROVE  b \in acc[3] <=> b \in 0 .. 15 /\ (b - 8 \in acc[2] \/ b - 8 \in bytes[1])
  <2>1. b \in acc[3] <=> /\ b \in 0 .. 16 - 1
                         /\ \/ b - 8 * o[3] \in acc[3 - 1]
                            \/ b - 8 * o[3] \in bytes[o[3]]
    BY <1>2 DEF BitsOfTurns
  <2>2. 3 - 1 = 2 /\ o[3] = 1 /\ b - 8 * o[3] = b - 8
    BY <1>1
  <2> QED BY <2>1, <2>2
<1>6. ASSUME NEW b \in Int
      PROVE  b \in acc[4] <=> b \in 0 .. 15 /\ (b \in acc[3] \/ b \in bytes[0])
  <2>1. b \in acc[4] <=> /\ b \in 0 .. 16 - 1
                         /\ \/ b - 8 * o[4] \in acc[4 - 1]
                            \/ b - 8 * o[4] \in bytes[o[4]]
    BY <1>2 DEF BitsOfTurns
  <2>2. 4 - 1 = 3 /\ o[4] = 0 /\ b - 8 * o[4] = b
    BY <1>1
  <2> QED BY <2>1, <2>2
<1>7. \A i \in 0 .. 3 : \A x \in Int : x \in bytes[i] => x \in 0 .. 7
  BY DEF AreBytes
<1>8. FromBytes(bytes, o, 16) = u32_from_le_bytes(bytes)
  BY DEF u32_from_le_bytes, o
<1>9. ASSUME NEW b \in 0 .. 15
      PROVE  b \in acc[4] <=> (b \in bytes[0] \/ b - 8 \in bytes[1])
  BY <1>2, <1>3, <1>4, <1>5, <1>6, <1>7
<1>10. acc[4] \subseteq 0 .. 15
  BY <1>2 DEF BitsOfTurns
<1> QED BY <1>2, <1>8, <1>9, <1>10

\* Those of the 64-bit one to 8, 24, 48 and then to 80 and more.
LEMMA Read64 ==
  ASSUME NEW bytes, AreBytes(bytes, 8)
  PROVE  u64_from_le_bytes(bytes) =
           {b \in 0 .. 63 : b \in bytes[0] \/ b - 8 \in bytes[1]
                        \/ b - 24 \in bytes[2] \/ b - 48 \in bytes[3]}
<1> DEFINE o == <<7, 6, 5, 4, 3, 2, 1, 0>>
<1>1. /\ Len(o) = 8
      /\ o[1] = 7 /\ o[2] = 6 /\ o[3] = 5 /\ o[4] = 4 /\ o[5] = 3 /\ o[6] = 2 /\ o[7] = 1 /\ o[8] = 0
  OBVIOUS
<1> HIDE DEF o
<1>2. PICK acc : /\ acc[0] = {} /\ FromBytes(bytes, o, 64) = acc[8]
                 /\ BitsOfTurns(acc, bytes, o, 64, 8)
  <2>1. /\ 64 \in Nat /\ 8 \in Nat /\ Len(o) = 8
        /\ \A k \in 1 .. 8 : o[k] \in Int
    BY <1>1
  <2> QED BY <2>1, LoopBits, Zenon
<1>3. ASSUME NEW b \in Int
      PROVE  b \in acc[1] <=> b \in 0 .. 63 /\ b - 56 \in bytes[7]
  <2>1. b \in acc[1] <=> /\ b \in 0 .. 64 - 1
                         /\ \/ b - 8 * o[1] \in acc[1 - 1]
                            \/ b - 8 * o[1] \in bytes[o[1]]
    BY <1>2 DEF BitsOfTurns
  <2>2. 1 - 1 = 0 /\ o[1] = 7 /\ b - 8 * o[1] = b - 56 /\ acc[0] = {}
    BY <1>1, <1>2
  <2> QED BY <2>1, <2>2
<1>4. ASSUME NEW b \in Int
      PROVE  b \in acc[2] <=> b \in 0 .. 63 /\ (b - 48 \in acc[1] \/ b - 48 \in bytes[6])
  <2>1. b \in acc[2] <=> /\ b \in 0 .. 64 - 1
                         /\ \/ b - 8 * o[2] \in acc[2 - 1]
                            \/ b - 8 * o[2] \in bytes[o[2]]
    BY <1>2 DEF BitsOfTurns
  <2>2. 2 - 1 = 1 /\ o[2] = 6 /\ b - 8 * o[2] = b - 48
    BY <1>1
  <2> QED BY <2>1, <2>2
<1>5. ASSUME NEW b \in Int
      PROVE  b \in acc[3] <=> b \in 0 .. 63 /\ (b - 40 \in acc[2] \/ b - 40 \in bytes[5])
  <2>1. b \in acc[3] <=> /\ b \in 0 .. 64 - 1
                         /\ \/ b - 8 * o[3] \in acc[3 - 1]
                            \/ b - 8 * o[3] \in bytes[o[3]]
    BY <1>2 DEF BitsOfTurns
  <2>2. 3 - 1 = 2 /\ o[3] = 5 /\ b - 8 * o[3] = b - 40
    BY <1>1
  <2> QED BY <2>1, <2>2
<1>6. ASSUME NEW b \in Int
      PROVE  b \in acc[4] <=> b \in 0 .. 63 /\ (b - 32 \in acc[3] \/ b - 32 \in bytes[4])
  <2>1. b \in acc[4] <=> /\ b \in 0 .. 64 - 1
                         /\ \/ b - 8 * o[4] \in acc[4 - 1]
                            \/ b - 8 * o[4] \in bytes[o[4]]
    BY <1>2 DEF BitsOfTurns
  <2>2. 4 - 1 = 3 /\ o[4] = 4 /\ b - 8 * o[4] = b - 32
    BY <1>1
  <2> QED BY <2>1, <2>2
<1>7. ASSUME NEW b \in Int
      PROVE  b \in acc[5] <=> b \in 0 .. 63 /\ (b - 24 \in acc[4] \/ b - 24 \in bytes[3])
  <2>1. b \in acc[5] <=> /\ b \in 0 .. 64 - 1
                         /\ \/ b - 8 * o[5] \in acc[5 - 1]
                            \/ b - 8 * o[5] \in bytes[o[5]]
    BY <1>2 DEF BitsOfTurns
  <2>2. 5 - 1 = 4 /\ o[5] = 3 /\ b - 8 * o[5] = b - 24
    BY <1>1
  <2> QED BY <2>1, <2>2
<1>8. ASSUME NEW b \in Int
      PROVE  b \in acc[6] <=> b \in 0 .. 63 /\ (b - 16 \in acc[5] \/ b - 16 \in bytes[2])
  <2>1. b \in acc[6] <=> /\ b \in 0 .. 64 - 1
                         /\ \/ b - 8 * o[6] \in acc[6 - 1]
                            \/ b - 8 * o[6] \in bytes[o[6]]
    BY <1>2 DEF BitsOfTurns
  <2>2. 6 - 1 = 5 /\ o[6] = 2 /\ b - 8 * o[6] = b - 16
    BY <1>1
  <2> QED BY <2>1, <2>2
<1>9. ASSUME NEW b \in Int
      PROVE  b \in acc[7] <=> b \in 0 .. 63 /\ (b - 8 \in acc[6] \/ b - 8 \in bytes[1])
  <2>1. b \in acc[7] <=> /\ b \in 0 .. 64 - 1
                         /\ \/ b - 8 * o[7] \in acc[7 - 1]
                            \/ b - 8 * o[7] \in bytes[o[7]]
    BY <1>2 DEF BitsOfTurns
  <2>2. 7 - 1 = 6 /\ o[7] = 1 /\ b - 8 * o[7] = b - 8
    BY <1>1
  <2> QED BY <2>1, <2>2
<1>10. ASSUME NEW b \in Int
      PROVE  b \in acc[8] <=> b \in 0 .. 63 /\ (b \in acc[7] \/ b \in bytes[0])
  <2>1. b \in acc[8] <=> /\ b \in 0 .. 64 - 1
                         /\ \/ b - 8 * o[8] \in acc[8 - 1]
                            \/ b - 8 * o[8] \in bytes[o[8]]
    BY <1>2 DEF BitsOfTurns
  <2>2. 8 - 1 = 7 /\ o[8] = 0 /\ b - 8 * o[8] = b
    BY <1>1
  <2> QED BY <2>1, <2>2
<1>11. \A i \in 0 .. 7 : \A x \in Int : x \in bytes[i] => x \in 0 .. 7
  BY DEF AreBytes
<1>12. FromBytes(bytes, o, 64) = u64_from_le_bytes(bytes)
  BY DEF u64_from_le_bytes, o
<1>13. ASSUME NEW b \in 0 .. 63
      PROVE  b \in acc[8] <=> (b \in bytes[0] \/ b - 8 \in bytes[1]
                        \/ b - 24 \in bytes[2] \/ b - 48 \in bytes[3])
  BY <1>2, <1>3, <1>4, <1>5, <1>6, <1>7, <1>8, <1>9, <1>10, <1>11
<1>14. acc[8] \subseteq 0 .. 63
  BY <1>2 DEF BitsOfTurns
<1> QED BY <1>2, <1>12, <1>13, <1>14

\* The last byte is all that the other one does not shift out.
LEMMA Read64BE ==
  ASSUME NEW bytes, AreBytes(bytes, 8)
  PROVE  u64_from_be_bytes(bytes) =
           {b \in 0 .. 63 : b - 56 \in bytes[7]}
<1> DEFINE o == <<0, 1, 2, 3, 4, 5, 6, 7>>
<1>1. /\ Len(o) = 8
      /\ o[1] = 0 /\ o[2] = 1 /\ o[3] = 2 /\ o[4] = 3 /\ o[5] = 4 /\ o[6] = 5 /\ o[7] = 6 /\ o[8] = 7
  OBVIOUS
<1> HIDE DEF o
<1>2. PICK acc : /\ acc[0] = {} /\ FromBytes(bytes, o, 64) = acc[8]
                 /\ BitsOfTurns(acc, bytes, o, 64, 8)
  <2>1. /\ 64 \in Nat /\ 8 \in Nat /\ Len(o) = 8
        /\ \A k \in 1 .. 8 : o[k] \in Int
    BY <1>1
  <2> QED BY <2>1, LoopBits, Zenon
<1>3. ASSUME NEW b \in Int
      PROVE  b \in acc[6] <=> b \in 0 .. 63 /\ (b - 40 \in acc[5] \/ b - 40 \in bytes[5])
  <2>1. b \in acc[6] <=> /\ b \in 0 .. 64 - 1
                         /\ \/ b - 8 * o[6] \in acc[6 - 1]
                            \/ b - 8 * o[6] \in bytes[o[6]]
    BY <1>2 DEF BitsOfTurns
  <2>2. 6 - 1 = 5 /\ o[6] = 5 /\ b - 8 * o[6] = b - 40
    BY <1>1
  <2> QED BY <2>1, <2>2
<1>4. ASSUME NEW b \in Int
      PROVE  b \in acc[7] <=> b \in 0 .. 63 /\ (b - 48 \in acc[6] \/ b - 48 \in bytes[6])
  <2>1. b \in acc[7] <=> /\ b \in 0 .. 64 - 1
                         /\ \/ b - 8 * o[7] \in acc[7 - 1]
                            \/ b - 8 * o[7] \in bytes[o[7]]
    BY <1>2 DEF BitsOfTurns
  <2>2. 7 - 1 = 6 /\ o[7] = 6 /\ b - 8 * o[7] = b - 48
    BY <1>1
  <2> QED BY <2>1, <2>2
<1>5. ASSUME NEW b \in Int
      PROVE  b \in acc[8] <=> b \in 0 .. 63 /\ (b - 56 \in acc[7] \/ b - 56 \in bytes[7])
  <2>1. b \in acc[8] <=> /\ b \in 0 .. 64 - 1
                         /\ \/ b - 8 * o[8] \in acc[8 - 1]
                            \/ b - 8 * o[8] \in bytes[o[8]]
    BY <1>2 DEF BitsOfTurns
  <2>2. 8 - 1 = 7 /\ o[8] = 7 /\ b - 8 * o[8] = b - 56
    BY <1>1
  <2> QED BY <2>1, <2>2
<1>6. \A i \in 0 .. 7 : \A x \in Int : x \in bytes[i] => x \in 0 .. 7
  BY DEF AreBytes
<1>7. FromBytes(bytes, o, 64) = u64_from_be_bytes(bytes)
  BY DEF u64_from_be_bytes, o
<1>8. ASSUME NEW b \in 0 .. 63
      PROVE  b \in acc[8] <=> (b - 56 \in bytes[7])
  BY <1>2, <1>3, <1>4, <1>5, <1>6
<1>9. acc[8] \subseteq 0 .. 63
  BY <1>2 DEF BitsOfTurns
<1> QED BY <1>2, <1>7, <1>8, <1>9

-----------------------------------------------------------------------------
(* What a value loses between a buffer and its reader.                     *)

\* The decoder's reader over the two low bytes of a wider buffer.
LEMMA LowHalf ==
  ASSUME NEW v \in SUBSET (0 .. 15), NEW n \in Nat, n >= 2
  PROVE  u16_from_le_bytes([i \in 0 .. 1 |-> ToBytes(v, n)[i]]) = v
<1> DEFINE bytes == [i \in 0 .. 1 |-> ToBytes(v, n)[i]]
<1>1. bytes[0] = ToBytes(v, n)[0] /\ bytes[1] = ToBytes(v, n)[1]
  OBVIOUS
<1>2. 0 \in 0 .. n - 1 /\ 1 \in 0 .. n - 1 /\ v \in SUBSET Nat
  OBVIOUS
<1>3. ASSUME NEW b \in Int PROVE b \in bytes[0] <=> b \in 0 .. 7 /\ b \in v
  <2>1. b \in ToBytes(v, n)[0] <=> b \in 0 .. 7 /\ b + 8 * 0 \in v
    BY <1>2, BitOfByte
  <2> QED BY <1>1, <2>1
<1>4. ASSUME NEW b \in Int PROVE b - 8 \in bytes[1] <=> b - 8 \in 0 .. 7 /\ b \in v
  <2>1. PICK c \in Int : c = b - 8
    OBVIOUS
  <2>2. c \in ToBytes(v, n)[1] <=> c \in 0 .. 7 /\ c + 8 * 1 \in v
    BY <1>2, BitOfByte
  <2>3. c + 8 * 1 = b
    BY <2>1
  <2> QED BY <1>1, <2>1, <2>2, <2>3
<1>5. AreBytes(bytes, 2)
  <2>1. AreBytes(ToBytes(v, n), n)
    BY BytesAreBytes
  <2> QED BY <1>1, <1>2, <2>1 DEF AreBytes
<1> HIDE DEF bytes
<1>6. u16_from_le_bytes(bytes) = {b \in 0 .. 15 : b \in bytes[0] \/ b - 8 \in bytes[1]}
  BY <1>5, Read16
<1>7. ASSUME NEW b \in 0 .. 15 PROVE b \in bytes[0] \/ b - 8 \in bytes[1] <=> b \in v
  <2>1. b \in 0 .. 7 \/ b - 8 \in 0 .. 7
    OBVIOUS
  <2> QED BY <1>3, <1>4, <2>1
<1>8. u16_from_le_bytes(bytes) = v
  BY <1>6, <1>7
<1> QED BY <1>8 DEF bytes

\* One byte of a value in its buffer, at the place a reader shifts it to.
LEMMA ByteAt ==
  ASSUME NEW v \in SUBSET Nat, NEW n \in Nat, NEW i \in 0 .. n - 1,
         NEW b \in Int, NEW k \in Int
  PROVE  b - k \in ToBytes(v, n)[i] <=> b - k \in 0 .. 7 /\ b - k + 8 * i \in v
<1>1. PICK c \in Int : c = b - k
  OBVIOUS
<1>2. c \in ToBytes(v, n)[i] <=> c \in 0 .. 7 /\ c + 8 * i \in v
  BY BitOfByte
<1> QED BY <1>1, <1>2

\* The 16-bit reader takes the two bytes its buffer has.
LEMMA KeepsHalf ==
  ASSUME NEW v \in SUBSET (0 .. 15)
  PROVE  u16_from_le_bytes(u16_to_le_bytes(v)) = v
<1>1. u16_to_le_bytes(v) = [i \in 0 .. 1 |-> ToBytes(v, 2)[i]]
  BY DEF u16_to_le_bytes, ToBytes
<1>2. u16_from_le_bytes([i \in 0 .. 1 |-> ToBytes(v, 2)[i]]) = v
  BY LowHalf
<1> QED BY <1>1, <1>2

\* Of the four bytes of its buffer the 32-bit one keeps the two low ones.
LEMMA KeepsLowHalf ==
  ASSUME NEW v \in SUBSET (0 .. 31)
  PROVE  u32_from_le_bytes(u32_to_le_bytes(v)) = v \cap (0 .. 15)
<1> DEFINE bytes == ToBytes(v, 4)
<1>1. /\ v \in SUBSET Nat /\ 4 \in Nat /\ 0 \in 0 .. 4 - 1 /\ 1 \in 0 .. 4 - 1
      /\ 0 \in Int /\ 8 \in Int
  OBVIOUS
<1>2. u32_from_le_bytes(bytes) = {b \in 0 .. 15 : b \in bytes[0] \/ b - 8 \in bytes[1]}
  BY BytesAreBytes, Read32
<1>3. ASSUME NEW b \in 0 .. 15 PROVE b \in bytes[0] \/ b - 8 \in bytes[1] <=> b \in v
  <2>0. b \in Int
    OBVIOUS
  <2>1. b - 0 \in bytes[0] <=> b - 0 \in 0 .. 7 /\ b - 0 + 8 * 0 \in v
    BY <1>1, <2>0, ByteAt, Zenon
  <2>2. b - 8 \in bytes[1] <=> b - 8 \in 0 .. 7 /\ b - 8 + 8 * 1 \in v
    BY <1>1, <2>0, ByteAt, Zenon
  <2>3. /\ b \in 0 .. 7 \/ b - 8 \in 0 .. 7
        /\ b - 0 = b /\ b - 0 + 8 * 0 = b /\ b - 8 + 8 * 1 = b
    OBVIOUS
  <2> HIDE DEF bytes
  <2> QED BY <2>1, <2>2, <2>3
<1> HIDE DEF bytes
<1>4. u32_from_le_bytes(bytes) = v \cap (0 .. 15)
  BY <1>2, <1>3
<1> QED BY <1>4 DEF bytes, u32_to_le_bytes

\* The 64-bit one moves the third byte from bit 16 to bit 24 and the fourth one
\* from 24 to 48, and the rest out of the word: it is right for values that end
\* before the third byte, and for no other.
LEMMA KeepsSmallWords ==
  ASSUME NEW v \in SUBSET (0 .. 63)
  PROVE  (u64_from_le_bytes(u64_to_le_bytes(v)) = v) <=> v \subseteq 0 .. 15
<1> DEFINE bytes == ToBytes(v, 8)
           read == u64_from_le_bytes(bytes)
<1>1. /\ v \in SUBSET Nat /\ 8 \in Nat /\ 0 \in 0 .. 8 - 1 /\ 1 \in 0 .. 8 - 1
      /\ 2 \in 0 .. 8 - 1 /\ 3 \in 0 .. 8 - 1
      /\ 0 \in Int /\ 8 \in Int /\ 24 \in Int /\ 48 \in Int
  OBVIOUS
<1>2. read = {b \in 0 .. 63 : b \in bytes[0] \/ b - 8 \in bytes[1]
                                \/ b - 24 \in bytes[2] \/ b - 48 \in bytes[3]}
  BY BytesAreBytes, Read64
<1>3. ASSUME NEW b \in 0 .. 63
      PROVE  b \in read <=> \/ b \in 0 .. 15 /\ b \in v
                            \/ b - 24 \in 0 .. 7 /\ b - 8 \in v
                            \/ b - 48 \in 0 .. 7 /\ b - 24 \in v
  <2>0. b \in Int
    OBVIOUS
  <2>1. b - 0 \in bytes[0] <=> b - 0 \in 0 .. 7 /\ b - 0 + 8 * 0 \in v
    BY <1>1, <2>0, ByteAt, Zenon
  <2>2. b - 8 \in bytes[1] <=> b - 8 \in 0 .. 7 /\ b - 8 + 8 * 1 \in v
    BY <1>1, <2>0, ByteAt, Zenon
  <2>3. b - 24 \in bytes[2] <=> b - 24 \in 0 .. 7 /\ b - 24 + 8 * 2 \in v
    BY <1>1, <2>0, ByteAt, Zenon
  <2>4. b - 48 \in bytes[3] <=> b - 48 \in 0 .. 7 /\ b - 48 + 8 * 3 \in v
    BY <1>1, <2>0, ByteAt, Zenon
  <2>5. /\ b \in 0 .. 15 <=> b \in 0 .. 7 \/ b - 8 \in 0 .. 7
        /\ b - 0 = b /\ b - 0 + 8 * 0 = b /\ b - 8 + 8 * 1 = b
        /\ b - 24 + 8 * 2 = b - 8 /\ b - 48 + 8 * 3 = b - 24
    OBVIOUS
  <2> HIDE DEF bytes, read
  <2> QED BY <1>2, <2>1, <2>2, <2>3, <2>4, <2>5
<1> HIDE DEF bytes, read
<1>4. read \subseteq 0 .. 63
  BY <1>2
<1>5. ASSUME v \subseteq 0 .. 15 PROVE read = v
  <2>1. ASSUME NEW b \in 0 .. 63 PROVE b \in read <=> b \in v
    <3>1. /\ b - 24 \in 0 .. 7 => ~(b - 8 \in 0 .. 15)
          /\ b - 48 \in 0 .. 7 => ~(b - 24 \in 0 .. 15)
      OBVIOUS
    <3> QED BY <1>3, <1>5, <3>1
  <2> QED BY <1>4, <2>1
<1>6. ASSUME read = v PROVE v \subseteq 0 .. 15
  <2> SUFFICES ASSUME NEW b \in v, b > 15 PROVE FALSE
    OBVIOUS
  <2>1. b \in 0 .. 63 /\ b \in read
    BY <1>6
  <2>2. \/ b - 24 \in 0 .. 7 /\ b - 8 \in v
        \/ b - 48 \in 0 .. 7 /\ b - 24 \in v
    BY <1>3, <2>1
  <2>3. PICK c \in v : c \in 16 .. 31
    BY <2>2
  <2>4. c \in 0 .. 63 /\ c \in read
    BY <1>6
  <2>5. \/ c - 24 \in 0 .. 7 /\ c - 8 \in v
        \/ c - 48 \in 0 .. 7 /\ c - 24 \in v
    BY <1>3, <2>3, <2>4
  <2>6. c - 8 \in 16 .. 23 /\ c - 8 \in v
    BY <2>3, <2>5
  <2>7. PICK d \in v : d \in 16 .. 23
    BY <2>6
  <2>8. d \in 0 .. 63 /\ d \in read
    BY <1>6
  <2>9. \/ d - 24 \in 0 .. 7 /\ d - 8 \in v
        \/ d - 48 \in 0 .. 7 /\ d - 24 \in v
    BY <1>3, <2>7, <2>8
  <2> QED BY <2>7, <2>9
<1> QED BY <1>5, <1>6 DEF read, bytes, u64_to_le_bytes

\* The big-endian one shifts everything out but the byte it takes in last.
LEMMA KeepsTopByte ==
  ASSUME NEW v \in SUBSET (0 .. 63)
  PROVE  u64_from_be_bytes(u64_to_be_bytes(v)) = v \cap (56 .. 63)
<1> DEFINE bytes == ToBytes(v, 8)
<1>1. v \in SUBSET Nat /\ 8 \in Nat /\ 7 \in 0 .. 8 - 1 /\ 56 \in Int
  OBVIOUS
<1>2. u64_from_be_bytes(bytes) = {b \in 0 .. 63 : b - 56 \in bytes[7]}
  BY BytesAreBytes, Read64BE
<1>3. ASSUME NEW b \in 0 .. 63 PROVE b - 56 \in bytes[7] <=> b \in v \cap (56 .. 63)
  <2>0. b \in Int
    OBVIOUS
  <2>1. b - 56 \in bytes[7] <=> b - 56 \in 0 .. 7 /\ b - 56 + 8 * 7 \in v
    BY <1>1, <2>0, ByteAt, Zenon
  <2>2. (b - 56 \in 0 .. 7 <=> b \in 56 .. 63) /\ b - 56 + 8 * 7 = b
    OBVIOUS
  <2> HIDE DEF bytes
  <2> QED BY <2>1, <2>2
<1> HIDE DEF bytes
<1>4. u64_from_be_bytes(bytes) = v \cap (56 .. 63)
  BY <1>2, <1>3
<1> QED BY <1>4 DEF bytes, u64_to_be_bytes

-----------------------------------------------------------------------------
(* The guarantees.                                                         *)

\* decode_offset writes its eight bytes and reads the low two.
LEMMA OffsetOfHalf ==
  ASSUME NEW v \in SUBSET (0 .. 15)
  PROVE  decode_offset(v) = Number(v) - 32768
<1>1. u16_from_le_bytes([i \in 0 .. 1 |-> ToBytes(v, 8)[i]]) = v
  BY LowHalf
<1>2. 2 ^ 15 = 32768
  OBVIOUS
<1>3. decode_offset(v) = Number(v) - 2 ^ 15
  BY <1>1, Zenon DEF decode_offset, u64_to_le_bytes
<1> QED BY <1>2, <1>3

\* The half-words of a word, as the decoder cuts them out.
LEMMA HalfOfWord ==
  ASSUME NEW word \in SUBSET (0 .. 63), NEW first \in Nat
  PROVE  ShiftRight(word, first) \cap Mask(16) = {b \in Mask(16) : b + first \in word}
<1>1. ASSUME NEW b \in 0 .. 15
      PROVE  b \in ShiftRight(word, first) <=> b + first \in word
  <2>1. b + first \in word => b + first >= first /\ (b + first) - first = b
    OBVIOUS
  <2>2. ASSUME NEW x \in word, b = x - first PROVE b + first = x
    BY <2>2
  <2> QED BY <2>1, <2>2 DEF ShiftRight
<1>2. Mask(16) = 0 .. 15
  BY DEF Mask
<1>3. ShiftRight(word, first) \cap (0 .. 15) = {b \in 0 .. 15 : b + first \in word}
  BY <1>1
<1> QED BY <1>2, <1>3

LEMMA OffsetsAreKept ==
  ASSUME DecoderInv
  PROVE  KeepsOffsets
<1> SUFFICES ASSUME Accepted PROVE KeepsOffsets
  BY DEF KeepsOffsets
<1> DEFINE half(k) == {b \in Mask(16) : b + 16 * k \in encoded_instr}
<1>1. encoded_instr \in SUBSET (0 .. 63)
  BY WordsAssumption DEF DecoderInv, Mask
<1>2. result.instruction = Decoded(encoded_instr, Flags)
  BY ResultOfFlags
<1>3. /\ result.instruction.off0 = decode_offset(encoded_instr \cap Mask(16))
      /\ result.instruction.off1 = decode_offset(ShiftRight(encoded_instr, 16) \cap Mask(16))
      /\ result.instruction.off2 = decode_offset(ShiftRight(encoded_instr, 32) \cap Mask(16))
  BY <1>2 DEF Decoded
<1>4. encoded_instr \cap Mask(16) = half(0) /\ half(0) \in SUBSET (0 .. 15)
  BY <1>1 DEF Mask
<1>5. ShiftRight(encoded_instr, 16) \cap Mask(16) = half(1) /\ half(1) \in SUBSET (0 .. 15)
  <2>1. ShiftRight(encoded_instr, 16) \cap Mask(16)
          = {b \in Mask(16) : b + 16 \in encoded_instr}
    BY <1>1, HalfOfWord
  <2>2. 16 * 1 = 16 /\ half(1) \in SUBSET (0 .. 15)
    BY DEF Mask
  <2> QED BY <2>1, <2>2
<1>6. ShiftRight(encoded_instr, 32) \cap Mask(16) = half(2) /\ half(2) \in SUBSET (0 .. 15)
  <2>1. ShiftRight(encoded_instr, 32) \cap Mask(16)
          = {b \in Mask(16) : b + 32 \in encoded_instr}
    BY <1>1, HalfOfWord
  <2>2. 16 * 2 = 32 /\ half(2) \in SUBSET (0 .. 15)
    BY DEF Mask
  <2> QED BY <2>1, <2>2
<1> HIDE DEF half
<1>7. /\ result.instruction.off0 = Number(half(0)) - 32768
      /\ result.instruction.off1 = Number(half(1)) - 32768
      /\ result.instruction.off2 = Number(half(2)) - 32768
  BY <1>3, <1>4, <1>5, <1>6, OffsetOfHalf
<1>8. /\ half(0) = {b \in Mask(16) : b + 16 * 0 \in encoded_instr}
      /\ half(1) = {b \in Mask(16) : b + 16 * 1 \in encoded_instr}
      /\ half(2) = {b \in Mask(16) : b + 16 * 2 \in encoded_instr}
  BY Zenon DEF half
<1> QED BY <1>7, <1>8 DEF KeepsOffsets

\* decode_instruction keeps every bit of a 64-bit word it accepts: its flags in
\* the fields of the instruction, its half-words in the biased offsets, read by
\* way of u64_to_le_bytes and u16_from_le_bytes.
THEOREM DecodingLosesNothing == DecoderSpec => []LosesNothing
<1>1. DecoderInv => LosesNothing
  BY FlagsAreKept, OffsetsAreKept DEF LosesNothing
<1> QED BY <1>1, DecoderInvariance, PTL

\* The value is a sample, and what was read back is what the readers made of it.
ConversionInv ==
  /\ value \in Samples
  /\ back # Unread => back = ReadBack(value)

\* What the four pairs of src/utils.c keep of every 64-bit value: the 16-bit
\* pair everything, the 32-bit one the low half, the 64-bit one a value of at
\* most 16 bits, and the big-endian one the top byte.
THEOREM ReadersKeep == ConversionSpec => []WhatReadersKeep
<1>1. ConversionInit => ConversionInv
  BY DEF ConversionInit, ConversionInv
<1>2. ConversionInv /\ [Convert]_conversion_vars => ConversionInv'
  BY DEF ConversionInv, Convert, conversion_vars
<1>3. ASSUME ConversionInv PROVE WhatReadersKeep
  <2> SUFFICES ASSUME back # Unread PROVE WhatReadersKeep
    BY DEF WhatReadersKeep
  <2>1. PICK v : v = value
    OBVIOUS
  <2>2. v \in SUBSET (0 .. 63)
    BY <1>3, <2>1, SamplesAssumption DEF ConversionInv, Mask
  <2>3. back = ReadBack(v)
    BY <1>3, <2>1 DEF ConversionInv
  <2>4. Mask(16) = 0 .. 15 /\ Mask(32) = 0 .. 31
    BY DEF Mask
  <2>5. v \cap Mask(16) \in SUBSET (0 .. 15) /\ v \cap Mask(32) \in SUBSET (0 .. 31)
    BY <2>4
  <2>6. back.u16_le = v \cap Mask(16)
    <3>1. back.u16_le = u16_from_le_bytes(u16_to_le_bytes(v \cap Mask(16)))
      BY <2>3 DEF ReadBack
    <3> QED BY <2>5, <3>1, KeepsHalf
  <2>7. back.u32_le = v \cap Mask(16)
    <3>1. back.u32_le = u32_from_le_bytes(u32_to_le_bytes(v \cap Mask(32)))
      BY <2>3 DEF ReadBack
    <3>2. back.u32_le = (v \cap Mask(32)) \cap (0 .. 15)
      BY <2>5, <3>1, KeepsLowHalf
    <3>3. (v \cap Mask(32)) \cap (0 .. 15) = v \cap Mask(16)
      BY <2>4
    <3> QED BY <3>2, <3>3
  <2>8. back.u64_le = v <=> v \subseteq Mask(16)
    <3>1. back.u64_le = u64_from_le_bytes(u64_to_le_bytes(v))
      BY <2>3 DEF ReadBack
    <3> QED BY <2>2, <2>4, <3>1, KeepsSmallWords
  <2>9. back.u64_be = v \cap (56 .. 63)
    <3>1. back.u64_be = u64_from_be_bytes(u64_to_be_bytes(v))
      BY <2>3 DEF ReadBack
    <3> QED BY <2>2, <3>1, KeepsTopByte
  <2> QED BY <2>1, <2>6, <2>7, <2>8, <2>9 DEF WhatReadersKeep
<1> QED BY <1>1, <1>2, <1>3, PTL DEF ConversionSpec

=============================================================================

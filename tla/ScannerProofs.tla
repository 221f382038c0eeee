--------------------------- MODULE ScannerProofs ---------------------------
(***************************************************************************)
(* What Scanner.tla guarantees of every file, every even block length and  *)
(* every batch of two entries and more.                                    *)
(***************************************************************************)
EXTENDS Scanner, FiniteSetTheorems, WellFoundedInduction, TLAPS

-----------------------------------------------------------------------------
(* The invariant.                                                          *)

\* No character is a stray one up to the n-th.
SoundTo(n) == \A j \in 1 .. n : ~Stray(j)

\* The three carries in front of a character, and the state of the lexer there.
Agree(escaped, inString, behindScalar, state) ==
  /\ escaped <=> state = "escape"
  /\ inString <=> state \in {"string", "escape"}
  /\ state = "scalar" => behindScalar
  /\ state = "out" => ~behindScalar

\* The characters of the file that the blocks so far have.
Scanned == IF block * W <= len THEN block * W ELSE len

\* What is carried into the next block is what the lexer knows there, unless a
\* stray character came before.
CarriesInv ==
  SoundTo(Scanned) =>
    /\ prev_in_string <=> Lexed[Scanned] \in {"string", "escape"}
    /\ unescaped_chars_error <=> \E i \in 1 .. Scanned : Raw(i)
    /\ block * W <= len => Agree(prev_escaped, prev_in_string, prev_scalar, Lexed[Scanned])

\* The first place of the file whose block has not been written.
Unwritten == IF scan_error = "scanning" THEN (block - 1) * W ELSE block * W

\* The entries in use are the places of the tokens in the blocks written, in
\* their order, those of the last block scanned being in its mask.
EntriesTo(indexes, n, place) ==
  /\ \A i \in 0 .. n - 1 : /\ i \in DOMAIN indexes
                           /\ indexes[i] \in 0 .. place - 1 /\ indexes[i] < len
  /\ \A i, j \in 0 .. n - 1 : i < j => indexes[i] < indexes[j]
  /\ \A p \in 0 .. place - 1 :
       p + 1 \in Sound => ((\E i \in 0 .. n - 1 : indexes[i] = p) <=> TokenStart(p + 1))

EntriesInv == EntriesTo(structural_indexes, tail, Unwritten)

MaskInv ==
  /\ block = 0 => prev_structurals = {}
  /\ prev_structurals \subseteq Mask
  /\ \A b \in Mask : b \in prev_structurals => (block - 1) * W + b < len
  /\ block > 0 =>
       \A b \in Mask : (block - 1) * W + b + 1 \in Sound =>
         (b \in prev_structurals <=> TokenStart((block - 1) * W + b + 1))

ResultInv ==
  scan_error # "scanning" =>
    /\ block = Blocks
    /\ scan_error = CASE prev_in_string -> "UNCLOSED_STRING"
                      [] ~prev_in_string /\ unescaped_chars_error -> "UNESCAPED_CHARS"
                      [] ~prev_in_string /\ ~unescaped_chars_error /\ tail = 0 -> "EMPTY"
                      [] OTHER -> "none"
    /\ scan_error = "none" =>
         /\ {tail, tail + 1, tail + 2} \subseteq DOMAIN structural_indexes
         /\ structural_indexes[tail] = len /\ structural_indexes[tail + 1] = len
         /\ structural_indexes[tail + 2] = 0

ScanTypeOK ==
  /\ text \in Files /\ block \in 0 .. Blocks /\ tail \in Nat
  /\ prev_escaped \in BOOLEAN /\ prev_in_string \in BOOLEAN /\ prev_scalar \in BOOLEAN
  /\ unescaped_chars_error \in BOOLEAN
  /\ scan_error \in {"scanning", "UNCLOSED_STRING", "UNESCAPED_CHARS", "EMPTY", "none"}
  /\ structural_indexes = [i \in DOMAIN structural_indexes |-> structural_indexes[i]]
  /\ \A i \in DOMAIN structural_indexes : i \in Nat /\ i < len + Batch + 1

ScanInv == ScanTypeOK /\ CarriesInv /\ EntriesInv /\ MaskInv /\ ResultInv

-----------------------------------------------------------------------------
(* The masks of one block, bit by bit.                                     *)

LEMMA BitOfShl ==
  ASSUME NEW bits \in SUBSET Int, NEW b \in Mask
  PROVE  b \in Shl(bits) <=> b - 1 \in bits
<1>1. b \in Int
  BY BlockAssumption DEF Mask
<1>2. b \in {x + 1 : x \in bits} <=> b - 1 \in bits
  <2>1. ASSUME NEW x \in bits, b = x + 1 PROVE b - 1 = x
    BY <1>1, <2>1
  <2>2. b = (b - 1) + 1
    BY <1>1
  <2> QED BY <2>1, <2>2
<1> QED BY <1>2 DEF Shl

\* Where a carry comes from, when one of the masks is part of the other.
LEMMA CarryRule ==
  ASSUME NEW all \in SUBSET Mask, NEW starts \in SUBSET all
  PROVE  /\ 0 \notin Carries(starts, all)
         /\ \A n \in 0 .. W - 1 :
              n + 1 \in Carries(starts, all)
                <=> n \in all /\ (n \in starts \/ n \in Carries(starts, all))
<1> DEFINE from(m, n) == m \in starts /\ \A k \in m + 1 .. n - 1 : k \in all
<1>1. ASSUME NEW n \in 0 .. W
      PROVE  n \in Carries(starts, all) <=> \E m \in 0 .. n - 1 : from(m, n)
  BY <1>1 DEF Carries
<1>2. 0 \notin Carries(starts, all)
  BY <1>1, BlockAssumption
<1>3. ASSUME NEW n \in 0 .. W - 1
      PROVE  n + 1 \in Carries(starts, all)
               <=> n \in all /\ (n \in starts \/ n \in Carries(starts, all))
  <2>1. n \in Nat /\ n + 1 \in 0 .. W /\ n \in 0 .. W /\ (n + 1) - 1 = n
    BY BlockAssumption
  <2>2. ASSUME NEW m \in 0 .. n, from(m, n + 1)
        PROVE  n \in all /\ (n \in starts \/ n \in Carries(starts, all))
    <3>1. CASE m = n
      BY <2>2, <3>1
    <3>2. CASE m # n
      <4>1. m \in 0 .. n - 1 /\ n \in m + 1 .. (n + 1) - 1
        BY <2>1, <3>2
      <4>2. \A k \in m + 1 .. n - 1 : k \in m + 1 .. (n + 1) - 1
        BY <2>1
      <4> QED BY <1>1, <2>1, <2>2, <4>1, <4>2
    <3> QED BY <3>1, <3>2
  <2>3. ASSUME n \in starts PROVE from(n, n + 1) /\ n \in 0 .. n
    BY <2>1, <2>3
  <2>4. ASSUME n \in all, NEW m \in 0 .. n - 1, from(m, n) PROVE from(m, n + 1) /\ m \in 0 .. n
    <3>1. \A k \in m + 1 .. (n + 1) - 1 : k \in m + 1 .. n - 1 \/ k = n
      BY <2>1
    <3> QED BY <2>1, <2>4, <3>1
  <2>5. n + 1 \in Carries(starts, all) <=> \E m \in 0 .. n : from(m, n + 1)
    BY <1>1, <2>1
  <2>6. n \in Carries(starts, all) <=> \E m \in 0 .. n - 1 : from(m, n)
    BY <1>1, <2>1
  <2> HIDE DEF from
  <2> QED BY <2>2, <2>3, <2>4, <2>5, <2>6
<1> QED BY <1>2, <1>3

\* Whether the b-th character of the block is escaped; for b = W the first one
\* of the next block.
EscapedAt(all, b) ==
  IF b < W THEN b \in find_escaped(all).escaped ELSE find_escaped(all).overflow

\* The additions come to this: a character is escaped when the one before it is
\* a backslash that is not escaped itself.
LEMMA EscapeRule ==
  ASSUME prev_escaped \in BOOLEAN, NEW all \in SUBSET Mask
  PROVE  /\ EscapedAt(all, 0) <=> prev_escaped
         /\ \A b \in Mask : EscapedAt(all, b + 1) <=> b \in all /\ ~EscapedAt(all, b)
         /\ find_escaped(all).overflow \in BOOLEAN
<1> DEFINE backslash == all \ Carry(prev_escaped)
           follows == Shl(backslash) \cup Carry(prev_escaped)
           even == {b \in Mask : b % 2 = 0}
           starts == (backslash \ even) \ follows
           carries == Carries(starts, backslash)
           odd(b) == ~((b % 2) = 0)
           carry(b) == b \in carries
           sum == Plus(starts, backslash)
<1>0. W \in Nat /\ W > 0 /\ ~odd(W) /\ Mask = 0 .. W - 1
  BY BlockAssumption DEF Mask
<1>1. backslash \in SUBSET Mask /\ starts \in SUBSET backslash
  OBVIOUS
<1>2. \A b \in Mask : b \in backslash <=> b \in all /\ ~(b = 0 /\ prev_escaped)
  BY DEF Carry
<1>3. \A b \in Mask : b \in follows <=> b - 1 \in backslash \/ (b = 0 /\ prev_escaped)
  <2>1. backslash \in SUBSET Int
    BY <1>0, <1>1
  <2>2. \A b \in Mask : b \in Shl(backslash) <=> b - 1 \in backslash
    BY <2>1, BitOfShl
  <2> QED BY <2>2 DEF Carry
<1>4. /\ ~carry(0)
      /\ \A b \in 0 .. W - 1 : carry(b + 1) <=> b \in backslash /\ (b \in starts \/ carry(b))
  <2> HIDE DEF backslash, starts
  <2> QED BY <1>1, CarryRule
<1>5. \A b \in Mask : b \in starts <=> b \in backslash /\ odd(b) /\ b \notin follows
  BY <1>0
<1>6. \A b \in Mask : b \in sum <=> ((b \in starts <=> b \in backslash) <=> carry(b))
  BY <1>0 DEF Plus, Xor
<1>7. /\ find_escaped(all).escaped = Xor(even, Shl(sum)) \cap follows
      /\ find_escaped(all).overflow <=> carry(W)
      /\ find_escaped(all).overflow \in BOOLEAN
  <2>1. find_escaped(all) = [escaped  |-> Xor(even, Shl(sum)) \cap follows,
                             overflow |-> W \in carries]
    BY DEF find_escaped, find_escaped_branchless
  <2> DEFINE escaped == Xor(even, Shl(sum)) \cap follows
             overflow == W \in carries
  <2>2. find_escaped(all) = [escaped |-> escaped, overflow |-> overflow]
    BY <2>1
  <2> HIDE DEF escaped, overflow
  <2>3. find_escaped(all).escaped = escaped
    BY <2>2
  <2>4. find_escaped(all).overflow = overflow
    BY <2>2
  <2>5. overflow \in BOOLEAN
    BY DEF overflow
  <2>6. find_escaped(all).overflow \in BOOLEAN
    BY <2>4, <2>5
  <2> QED BY <2>3, <2>4, <2>6 DEF escaped, overflow
<1>8. \A b \in Mask : b \in Shl(sum) <=> b - 1 \in sum
  <2>1. sum \in SUBSET Int
    BY <1>0 DEF Plus
  <2> HIDE DEF sum
  <2> QED BY <2>1, BitOfShl
<1>9. \A b \in Mask : b \in find_escaped(all).escaped
                        <=> (odd(b) <=> b - 1 \in sum) /\ b \in follows
  <2>1. \A b \in Mask : b \in even <=> ~odd(b)
    OBVIOUS
  <2> HIDE DEF sum, follows, even, odd
  <2> QED BY <1>7, <1>8, <2>1 DEF Xor
<1> HIDE DEF backslash, follows, even, starts, carries, sum
\* The masks in terms of the carries.
<1>10. ASSUME NEW b \in 0 .. W
       PROVE  EscapedAt(all, b) <=> \/ b = 0 /\ prev_escaped
                                    \/ b - 1 \in backslash /\ (odd(b) <=> ~carry(b))
  <2>1. CASE b = 0
    <3>1. b - 1 \notin backslash /\ ~odd(b) /\ b \in Mask /\ b < W /\ b - 1 \notin Mask
      BY <1>0, <1>1, <2>1
    <3>2. b - 1 \notin sum
      BY <3>1 DEF sum, Plus
    <3> QED BY <1>3, <1>9, <2>1, <3>1, <3>2 DEF EscapedAt
  <2>2. CASE b > 0 /\ b < W
    <3>1. b \in Mask /\ b - 1 \in Mask /\ b - 1 \in 0 .. W - 1 /\ (b - 1) + 1 = b
      BY <1>0, <2>2
    <3>2. carry(b) <=> b - 1 \in backslash /\ (b - 1 \in starts \/ carry(b - 1))
      BY <1>4, <3>1
    <3>3. ASSUME carry(b - 1) PROVE b - 1 \notin starts
      <4>1. CASE b - 1 = 0
        BY <1>4, <3>3, <4>1
      <4>2. CASE b - 1 # 0
        <5>1. b - 2 \in 0 .. W - 1 /\ (b - 2) + 1 = b - 1 /\ (b - 1) - 1 = b - 2
          BY <1>0, <3>1, <4>2
        <5>2. b - 2 \in backslash
          BY <1>4, <3>3, <5>1
        <5>3. b - 1 \in follows
          BY <1>3, <3>1, <5>1, <5>2
        <5> QED BY <1>5, <3>1, <5>3
      <4> QED BY <4>1, <4>2
    <3>4. b - 1 \in backslash => (b - 1 \in sum <=> ~carry(b))
      BY <1>5, <1>6, <3>1, <3>2, <3>3
    <3> QED BY <1>3, <1>9, <2>2, <3>1, <3>4 DEF EscapedAt
  <2>3. CASE b = W
    <3>1. b - 1 \in 0 .. W - 1 /\ (b - 1) + 1 = b /\ ~(b < W) /\ b # 0
      BY <1>0, <2>3
    <3>2. carry(b) => b - 1 \in backslash
      BY <1>4, <3>1
    <3> QED BY <1>0, <1>7, <2>3, <3>1, <3>2 DEF EscapedAt
  <2> QED BY <1>0, <2>1, <2>2, <2>3
<1>11. ASSUME NEW b \in Mask
       PROVE  EscapedAt(all, b + 1) <=> b \in all /\ ~EscapedAt(all, b)
  <2>1. /\ b \in 0 .. W /\ b + 1 \in 0 .. W /\ b \in 0 .. W - 1 /\ b + 1 # 0
        /\ (b + 1) - 1 = b /\ (odd(b + 1) <=> ~odd(b))
    BY <1>0
  <2>2. EscapedAt(all, b + 1) <=> b \in backslash /\ (odd(b + 1) <=> ~carry(b + 1))
    BY <1>10, <2>1
  <2>3. EscapedAt(all, b) <=> \/ b = 0 /\ prev_escaped
                              \/ b - 1 \in backslash /\ (odd(b) <=> ~carry(b))
    BY <1>10, <2>1
  <2>4. carry(b + 1) <=> b \in backslash /\ (b \in starts \/ carry(b))
    BY <1>4, <2>1
  <2>5. b \in starts <=> b \in backslash /\ odd(b) /\ ~(b - 1 \in backslash \/ (b = 0 /\ prev_escaped))
    BY <1>3, <1>5
  <2>6. carry(b) => b - 1 \in backslash
    <3>1. CASE b = 0
      BY <1>4, <3>1
    <3>2. CASE b # 0
      <4>1. b - 1 \in 0 .. W - 1 /\ (b - 1) + 1 = b
        BY <1>0, <2>1, <3>2
      <4> QED BY <1>4, <4>1
    <3> QED BY <3>1, <3>2
  <2>7. b = 0 => b - 1 \notin backslash
    BY <1>0, <1>1
  <2>8. b \in backslash <=> b \in all /\ ~(b = 0 /\ prev_escaped)
    BY <1>2
  <2> HIDE DEF odd, carry
  <2> QED BY <2>1, <2>2, <2>3, <2>4, <2>5, <2>6, <2>7, <2>8
<1>12. EscapedAt(all, 0) <=> prev_escaped
  <2>1. 0 - 1 \notin backslash /\ 0 \in 0 .. W
    BY <1>0, <1>1
  <2> QED BY <1>10, <2>1
<1> QED BY <1>7, <1>11, <1>12

LEMMA FiniteMask == IsFiniteSet(Mask) /\ \A bits \in SUBSET Mask : IsFiniteSet(bits)
<1>1. IsFiniteSet(0 .. W - 1)
  BY BlockAssumption, FS_Interval
<1> QED BY <1>1, FS_Subset DEF Mask

\* Each bit of prefix_xor turns the one below it over when it is set itself.
LEMMA PrefixRule ==
  ASSUME NEW bits \in SUBSET Mask
  PROVE  /\ 0 \in prefix_xor(bits) <=> 0 \in bits
         /\ \A b \in Mask : b + 1 \in Mask =>
              (b + 1 \in prefix_xor(bits) <=> (b \in prefix_xor(bits) <=> b + 1 \notin bits))
<1> DEFINE upTo(b) == {c \in bits : c <= b}
<1>1. W \in Nat /\ W > 0 /\ Mask = 0 .. W - 1
  BY BlockAssumption DEF Mask
<1>0. /\ \A c \in bits : c \in Int /\ c >= 0
      /\ \A b \in Mask : b \in Int /\ b >= 0
  BY <1>1
<1>2. \A b \in Mask : IsFiniteSet(upTo(b)) /\ Cardinality(upTo(b)) \in Nat
  BY FiniteMask, FS_CardinalityType
<1>3. \A b \in Mask : b \in prefix_xor(bits) <=> Cardinality(upTo(b)) % 2 = 1
  BY DEF prefix_xor
<1>4. 0 \in Mask /\ (0 \in prefix_xor(bits) <=> 0 \in bits)
  <2>1. 0 \in Mask
    BY <1>1
  <2>2. CASE 0 \in bits
    <3>1. upTo(0) = {0}
      BY <1>0, <2>2
    <3>2. Cardinality({0}) = 1
      BY FS_Singleton
    <3>3. 1 % 2 = 1
      OBVIOUS
    <3> HIDE DEF upTo
    <3> QED BY <1>3, <2>1, <2>2, <3>1, <3>2, <3>3
  <2>3. CASE 0 \notin bits
    <3>1. upTo(0) = {}
      BY <1>0, <2>3
    <3>2. Cardinality({}) = 0
      BY FS_EmptySet
    <3>3. 0 % 2 = 0
      OBVIOUS
    <3> HIDE DEF upTo
    <3> QED BY <1>3, <2>1, <2>3, <3>1, <3>2, <3>3
  <2> QED BY <2>1, <2>2, <2>3
<1>5. ASSUME NEW b \in Mask, b + 1 \in Mask
      PROVE  b + 1 \in prefix_xor(bits) <=> (b \in prefix_xor(bits) <=> b + 1 \notin bits)
  <2>1. CASE b + 1 \in bits
    <3>1. upTo(b + 1) = upTo(b) \cup {b + 1} /\ b + 1 \notin upTo(b)
      BY <1>0, <2>1
    <3>2. Cardinality(upTo(b) \cup {b + 1}) = Cardinality(upTo(b)) + 1
      BY <1>2, <3>1, FS_AddElement
    <3> HIDE DEF upTo
    <3>3. PICK n \in Nat : n = Cardinality(upTo(b))
      BY <1>2
    <3>4. (n + 1) % 2 = 1 <=> ~(n % 2 = 1)
      OBVIOUS
    <3>5. Cardinality(upTo(b + 1)) = n + 1
      BY <3>1, <3>2, <3>3
    <3>6. /\ b \in prefix_xor(bits) <=> n % 2 = 1
          /\ b + 1 \in prefix_xor(bits) <=> (n + 1) % 2 = 1
      BY <1>3, <1>5, <3>3, <3>5
    <3> QED BY <2>1, <3>4, <3>6
  <2>2. CASE b + 1 \notin bits
    <3>1. upTo(b + 1) = upTo(b)
      BY <1>0, <2>2
    <3> HIDE DEF upTo
    <3>2. /\ b \in prefix_xor(bits) <=> Cardinality(upTo(b)) % 2 = 1
          /\ b + 1 \in prefix_xor(bits) <=> Cardinality(upTo(b + 1)) % 2 = 1
      BY <1>3, <1>5
    <3> QED BY <2>2, <3>1, <3>2
  <2> QED BY <2>1, <2>2
<1> QED BY <1>4, <1>5

\* The character at a place of the file, and the spaces behind it.
CharAt(p) == IF p < len THEN text[p + 1] ELSE "space"

\* The three carries inside of the block.
EscapedIn(b)      == EscapedAt(In({"backslash"}), b)
InStringIn(b)     == IF b < W THEN b \in Xor(in_string, quote) ELSE W - 1 \in in_string
BehindScalarIn(b) == IF b < W THEN b \in follows_nonquote_scalar ELSE W - 1 \in nonquote_scalar

Quoted(b) == CharAt(block * W + b) = "quote" /\ ~EscapedIn(b)
InScalar(b) == CharAt(block * W + b) \notin {"op", "ff", "space", "newline"}

\* They are what the block began with, and each character turns them as it
\* would one after the other.
BlockRule ==
  /\ EscapedIn(0) <=> prev_escaped
  /\ InStringIn(0) <=> prev_in_string
  /\ BehindScalarIn(0) <=> prev_scalar
  /\ \A b \in Mask :
       /\ EscapedIn(b + 1) <=> CharAt(block * W + b) = "backslash" /\ ~EscapedIn(b)
       /\ InStringIn(b + 1) <=> (InStringIn(b) <=> ~Quoted(b))
       /\ BehindScalarIn(b + 1) <=> InScalar(b) /\ ~Quoted(b)
       /\ b \in structural_start <=> /\ \/ CharAt(block * W + b) \in {"op", "ff"}
                                        \/ InScalar(b) /\ ~BehindScalarIn(b)
                                     /\ ~InStringIn(b)
       /\ b \in in_string <=> InStringIn(b + 1)

LEMMA BlockFollowsRule ==
  ASSUME block \in Nat, len \in Nat,
         prev_escaped \in BOOLEAN, prev_in_string \in BOOLEAN, prev_scalar \in BOOLEAN
  PROVE  BlockRule
<1>0. W \in Nat /\ W > 0 /\ Mask = 0 .. W - 1
  BY BlockAssumption DEF Mask
<1>1. ASSUME NEW b \in Mask, NEW classes
      PROVE  b \in In(classes) <=> CharAt(block * W + b) \in classes
  <2>1. PICK p \in Nat : p = block * W + b
    BY <1>0
  <2>2. p + 1 <= len <=> p < len
    OBVIOUS
  <2>3. b \in In(classes) <=> (IF p + 1 <= len THEN text[p + 1] ELSE "space") \in classes
    BY <2>1 DEF In
  <2> QED BY <2>1, <2>2, <2>3 DEF CharAt
<1>2. In({"backslash"}) \in SUBSET Mask
  BY DEF In
<1>3. /\ EscapedIn(0) <=> prev_escaped
      /\ \A b \in Mask : EscapedIn(b + 1) <=> b \in In({"backslash"}) /\ ~EscapedIn(b)
  BY <1>2, EscapeRule DEF EscapedIn
<1>4. \A b \in Mask : b \in quote <=> Quoted(b)
  <2>1. \A b \in Mask : EscapedIn(b) <=> b \in find_escaped(In({"backslash"})).escaped
    BY <1>0 DEF EscapedIn, EscapedAt
  <2>2. \A b \in Mask : b \in In({"quote"}) <=> CharAt(block * W + b) = "quote"
    BY <1>1
  <2> QED BY <2>1, <2>2 DEF quote, Quoted
<1>5. quote \in SUBSET Mask
  BY DEF quote, In
<1>6. \A b \in Mask : b \in in_string <=> (prev_in_string <=> b \notin prefix_xor(quote))
  <2>1. prefix_xor(quote) \subseteq Mask
    BY DEF prefix_xor
  <2> QED BY <2>1 DEF in_string, Xor
<1>7. \A b \in Mask : b \in Xor(in_string, quote) <=> (b \in in_string <=> b \notin quote)
  BY DEF Xor
<1>8. /\ 0 \in Mask /\ (0 \in prefix_xor(quote) <=> 0 \in quote)
      /\ \A b \in Mask : b + 1 \in Mask =>
           (b + 1 \in prefix_xor(quote) <=> (b \in prefix_xor(quote) <=> b + 1 \notin quote))
  <2>1. 0 \in Mask
    BY <1>0
  <2> QED BY <1>5, <2>1, PrefixRule
<1>9. \A b \in Mask : (b + 1 \in Mask /\ b + 1 < W) \/ (b + 1 = W /\ b = W - 1)
  BY <1>0
<1>10. \A b \in Mask : b < W /\ b # W /\ b + 1 # 0 /\ (b + 1) - 1 = b
  BY <1>0
<1>11. InStringIn(0) <=> prev_in_string
  BY <1>6, <1>7, <1>8, <1>10 DEF InStringIn
<1>12. ASSUME NEW b \in Mask
       PROVE  /\ b \in in_string <=> InStringIn(b + 1)
              /\ InStringIn(b + 1) <=> (InStringIn(b) <=> ~Quoted(b))
  <2>1. InStringIn(b) <=> (b \in in_string <=> b \notin quote)
    BY <1>7, <1>10 DEF InStringIn
  <2>2. b \in in_string <=> InStringIn(b + 1)
    <3>1. CASE b + 1 \in Mask /\ b + 1 < W
      BY <1>6, <1>7, <1>8, <3>1 DEF InStringIn
    <3>2. CASE b + 1 = W /\ b = W - 1
      BY <1>0, <3>2 DEF InStringIn
    <3> QED BY <1>9, <3>1, <3>2
  <2> QED BY <1>4, <2>1, <2>2
<1>13. \A b \in Mask : /\ b \in op <=> CharAt(block * W + b) \in {"op", "ff"}
                       /\ b \in scalar <=> InScalar(b)
  <2>1. \A b \in Mask : b \in op <=> CharAt(block * W + b) \in {"op", "ff"}
    BY <1>1 DEF op
  <2>2. \A b \in Mask : b \in whitespace <=> CharAt(block * W + b) \in {"space", "newline"}
    BY <1>1 DEF whitespace
  <2> QED BY <2>1, <2>2 DEF scalar, InScalar
<1>14. \A b \in Mask : b \in nonquote_scalar <=> InScalar(b) /\ ~Quoted(b)
  BY <1>4, <1>13 DEF nonquote_scalar
<1>15. \A b \in Mask : b \in follows_nonquote_scalar
                         <=> b - 1 \in nonquote_scalar \/ (b = 0 /\ prev_scalar)
  <2>1. nonquote_scalar \in SUBSET Int
    BY <1>0 DEF nonquote_scalar, scalar
  <2>2. \A b \in Mask : b \in Shl(nonquote_scalar) <=> b - 1 \in nonquote_scalar
    BY <2>1, BitOfShl
  <2> QED BY <2>2 DEF follows_nonquote_scalar, Carry
<1>16. BehindScalarIn(0) <=> prev_scalar
  <2>1. 0 - 1 \notin Mask
    BY <1>0
  <2>2. 0 - 1 \notin nonquote_scalar
    BY <2>1 DEF nonquote_scalar, scalar
  <2> QED BY <1>8, <1>10, <1>15, <2>2 DEF BehindScalarIn
<1>17. ASSUME NEW b \in Mask PROVE BehindScalarIn(b + 1) <=> InScalar(b) /\ ~Quoted(b)
  <2>1. CASE b + 1 \in Mask /\ b + 1 < W
    BY <1>10, <1>14, <1>15, <2>1 DEF BehindScalarIn
  <2>2. CASE b + 1 = W /\ b = W - 1
    BY <1>0, <1>14, <2>2 DEF BehindScalarIn
  <2> QED BY <1>9, <2>1, <2>2
<1>18. ASSUME NEW b \in Mask
       PROVE  b \in structural_start <=> /\ \/ CharAt(block * W + b) \in {"op", "ff"}
                                            \/ InScalar(b) /\ ~BehindScalarIn(b)
                                         /\ ~InStringIn(b)
  <2>1. /\ BehindScalarIn(b) <=> b \in follows_nonquote_scalar
        /\ InStringIn(b) <=> b \in Xor(in_string, quote)
    BY <1>10 DEF BehindScalarIn, InStringIn
  <2>2. b \in structural_start <=> /\ b \in op \/ (b \in scalar /\ b \notin follows_nonquote_scalar)
                                   /\ b \notin Xor(in_string, quote)
    BY DEF structural_start
  <2> QED BY <1>13, <2>1, <2>2
<1>19. \A b \in Mask : b \in In({"backslash"}) <=> CharAt(block * W + b) = "backslash"
  BY <1>1
<1> QED BY <1>3, <1>11, <1>12, <1>16, <1>17, <1>18, <1>19 DEF BlockRule

-----------------------------------------------------------------------------
(* The lexer.                                                              *)

\* A nonempty set of naturals has a least element.
LEMMA Least ==
  ASSUME NEW T, T \subseteq Nat, T # {}
  PROVE  \E m \in T : \A k \in T : m <= k
<1> DEFINE R == OpToRel(<, Nat)
<1>1. IsWellFoundedOn(R, Nat)
  BY NatLessThanWellFounded, Zenon
<1>2. \A m, k \in Nat : <<k, m>> \in R <=> k < m
  BY DEF OpToRel
<1> HIDE DEF R
<1>3. PICK m \in T : \A k \in T : ~(<<k, m>> \in R)
  BY <1>1, WFMin, Zenon
<1>4. ASSUME NEW k \in T PROVE m <= k
  <2>1. m \in Nat /\ k \in Nat /\ ~(<<k, m>> \in R)
    BY <1>3
  <2>2. ~(k < m)
    BY <1>2, <2>1
  <2> QED BY <2>1, <2>2
<1> QED BY <1>4

LEMMA Induction ==
  ASSUME NEW S, 0 \in S, \A n \in Nat : n \in S => n + 1 \in S
  PROVE  Nat \subseteq S
<1> SUFFICES ASSUME Nat \ S # {} PROVE FALSE
  OBVIOUS
<1>1. PICK m \in Nat \ S : \A k \in Nat \ S : m <= k
  BY Least
<1>2. m - 1 \in Nat /\ m - 1 \in S /\ (m - 1) + 1 = m
  BY <1>1
<1> QED BY <1>1, <1>2

\* A run of the lexer over the first n characters.
LexedTo(states, n) ==
  states = [i \in 0 .. n |-> IF i = 0 THEN "out" ELSE After(states[i - 1], text[i])]

\* The lexer runs over the whole text, and Lexed are its states.
LEMMA LexedRule ==
  ASSUME text \in Files
  PROVE  /\ len \in Nat
         /\ Lexed[0] = "out"
         /\ \A i \in 1 .. len : text[i] \in Characters /\ Lexed[i] = After(Lexed[i - 1], text[i])
<1>1. text \in Seq(Characters)
  BY FilesAssumption
<1>2. len \in Nat /\ \A i \in 1 .. len : text[i] \in Characters
  BY <1>1 DEF len
<1> DEFINE S == {n \in Nat : \E states : LexedTo(states, n)}
<1>3. 0 \in S
  <2> DEFINE states == [i \in 0 .. 0 |-> "out"]
  <2>1. LexedTo(states, 0)
    BY DEF LexedTo
  <2> QED BY <2>1
<1>4. ASSUME NEW n \in Nat, n \in S PROVE n + 1 \in S
  <2>1. PICK states : LexedTo(states, n)
    BY <1>4
  <2> DEFINE T(f, i) == IF i = 0 THEN "out" ELSE After(f[i - 1], text[i])
             next == [i \in 0 .. n + 1 |-> IF i = n + 1 THEN T(states, i) ELSE states[i]]
  <2>2. \A i \in 0 .. n : states[i] = T(states, i)
    BY <2>1 DEF LexedTo
  <2>3. \A i \in 0 .. n + 1 : i # 0 => i - 1 \in 0 .. n /\ i - 1 # n + 1
    OBVIOUS
  <2>4. \A i \in 0 .. n + 1 : i # 0 => next[i - 1] = states[i - 1]
    BY <2>3
  <2>5. ASSUME NEW i \in 0 .. n + 1 PROVE next[i] = T(next, i)
    <3>1. T(next, i) = T(states, i)
      <4> HIDE DEF next
      <4> QED BY <2>4
    <3>2. i \in 0 .. n \/ i = n + 1
      OBVIOUS
    <3> HIDE DEF T
    <3> QED BY <2>2, <3>1, <3>2
  <2>6. LexedTo(next, n + 1)
    <3>1. next = [i \in 0 .. n + 1 |-> next[i]]
      OBVIOUS
    <3>2. next = [i \in 0 .. n + 1 |-> T(next, i)]
      <4> HIDE DEF next, T
      <4> QED BY <2>5, <3>1
    <3> HIDE DEF next
    <3> QED BY <3>2, Zenon DEF LexedTo
  <2> QED BY <2>6
<1> HIDE DEF S
<1>5. \E states : LexedTo(states, len)
  <2>1. len \in S
    BY <1>2, <1>3, <1>4, Induction
  <2> QED BY <2>1 DEF S
<1>6. Lexed = CHOOSE states : LexedTo(states, len)
  BY DEF Lexed, LexedTo
<1>7. LexedTo(Lexed, len)
  BY <1>5, <1>6
<1>8. Lexed[0] = "out"
  BY <1>2, <1>7 DEF LexedTo
<1>9. ASSUME NEW i \in 1 .. len PROVE Lexed[i] = After(Lexed[i - 1], text[i])
  <2>1. i \in 0 .. len /\ i # 0
    BY <1>2
  <2> QED BY <1>7, <2>1, Zenon DEF LexedTo
<1> QED BY <1>2, <1>8, <1>9

LEMMA LexerTurn ==
  ASSUME NEW state, NEW c \in Characters
  PROVE  After(state, c) =
           IF state = "escape" THEN "string"
           ELSE IF state = "string"
             THEN IF c = "backslash" THEN "escape" ELSE IF c = "quote" THEN "out" ELSE "string"
             ELSE IF state \in {"out", "scalar"} /\ c = "quote" THEN "string"
             ELSE IF state \in {"out", "scalar"} /\ c \in {"op", "ff", "space", "newline"} THEN "out"
             ELSE "scalar"
BY DEF After, Characters

-----------------------------------------------------------------------------
(* The entries.                                                            *)

\* s lists the bits in their order.
Lists(s, bits, n) ==
  /\ s \in [1 .. n -> bits]
  /\ \A i, j \in 1 .. n : i < j => s[i] < s[j]
  /\ \A b \in bits : \E i \in 1 .. n : s[i] = b

LEMMA AscendingRule ==
  ASSUME NEW bits \in SUBSET Mask
  PROVE  Cardinality(bits) \in Nat /\ Lists(Ascending(bits), bits, Cardinality(bits))
<1> DEFINE S == {n \in Nat : \A T \in SUBSET Mask : Cardinality(T) = n => \E s : Lists(s, T, n)}
<1>1. Mask \subseteq Nat
  BY BlockAssumption DEF Mask
<1>2. 0 \in S
  <2> SUFFICES ASSUME NEW T \in SUBSET Mask, Cardinality(T) = 0 PROVE \E s : Lists(s, T, 0)
    OBVIOUS
  <2>1. T = {}
    BY FiniteMask, FS_EmptySet
  <2>2. Lists([i \in 1 .. 0 |-> 0], T, 0)
    BY <2>1 DEF Lists
  <2> QED BY <2>2
<1>3. ASSUME NEW n \in Nat, n \in S PROVE n + 1 \in S
  <2> SUFFICES ASSUME NEW T \in SUBSET Mask, Cardinality(T) = n + 1
               PROVE  \E s : Lists(s, T, n + 1)
    OBVIOUS
  <2>1. IsFiniteSet(T) /\ T # {}
    BY FiniteMask, FS_EmptySet
  <2>2. PICK m \in T : \A k \in T : m <= k
    BY <1>1, <2>1, Least
  <2>3. T \ {m} \in SUBSET Mask /\ Cardinality(T \ {m}) = n
    BY <2>1, FS_RemoveElement
  <2>4. PICK s : Lists(s, T \ {m}, n)
    BY <1>3, <2>3
  <2> DEFINE t == [i \in 1 .. n + 1 |-> IF i = 1 THEN m ELSE s[i - 1]]
  <2>5. \A i \in 1 .. n + 1 : i # 1 => i - 1 \in 1 .. n
    OBVIOUS
  <2>6. \A i \in 1 .. n : i + 1 \in 1 .. n + 1 /\ i + 1 # 1 /\ (i + 1) - 1 = i
    OBVIOUS
  <2>7. /\ s \in [1 .. n -> T \ {m}]
        /\ \A i, j \in 1 .. n : i < j => s[i] < s[j]
        /\ \A b \in T \ {m} : \E i \in 1 .. n : s[i] = b
    BY <2>4 DEF Lists
  <2>8. t \in [1 .. n + 1 -> T]
    BY <2>5, <2>7
  <2>9. ASSUME NEW i \in 1 .. n + 1, NEW j \in 1 .. n + 1, i < j PROVE t[i] < t[j]
    <3>1. j # 1 /\ j - 1 \in 1 .. n /\ t[j] = s[j - 1] /\ s[j - 1] \in T \ {m}
      BY <2>5, <2>7, <2>9
    <3>2. CASE i = 1
      <4>1. t[i] = m /\ m <= s[j - 1] /\ m # s[j - 1]
        BY <2>2, <3>1, <3>2
      <4>2. m \in Nat /\ s[j - 1] \in Nat
        BY <1>1, <3>1
      <4> HIDE DEF t
      <4> QED BY <3>1, <4>1, <4>2
    <3>3. CASE i # 1
      <4>1. i - 1 \in 1 .. n /\ t[i] = s[i - 1] /\ i - 1 < j - 1
        BY <2>5, <2>9, <3>3
      <4> HIDE DEF t
      <4> QED BY <2>7, <3>1, <4>1
    <3> QED BY <3>2, <3>3
  <2>10. ASSUME NEW b \in T PROVE \E i \in 1 .. n + 1 : t[i] = b
    <3>1. CASE b = m
      <4>1. 1 \in 1 .. n + 1 /\ t[1] = m
        OBVIOUS
      <4> QED BY <3>1, <4>1
    <3>2. CASE b # m
      <4>1. PICK i \in 1 .. n : s[i] = b
        BY <2>7, <3>2
      <4>2. i + 1 \in 1 .. n + 1 /\ t[i + 1] = s[i]
        BY <2>6
      <4> HIDE DEF t
      <4> QED BY <4>1, <4>2
    <3> QED BY <3>1, <3>2
  <2> HIDE DEF t
  <2>11. Lists(t, T, n + 1)
    BY <2>8, <2>9, <2>10 DEF Lists
  <2> QED BY <2>11
<1>4. Cardinality(bits) \in Nat
  BY FiniteMask, FS_CardinalityType
<1> HIDE DEF S
<1>5. Cardinality(bits) \in S
  BY <1>2, <1>3, <1>4, Induction
<1>6. \E s : Lists(s, bits, Cardinality(bits))
  BY <1>5 DEF S
<1>7. Lists(Ascending(bits), bits, Cardinality(bits))
  <2> DEFINE cnt == Cardinality(bits)
  <2>1. Ascending(bits) = CHOOSE s \in [1 .. cnt -> bits] :
                            /\ \A i, j \in 1 .. cnt : i < j => s[i] < s[j]
                            /\ \A b \in bits : \E i \in 1 .. cnt : s[i] = b
    BY DEF Ascending
  <2> HIDE DEF cnt
  <2>2. \E s \in [1 .. cnt -> bits] : /\ \A i, j \in 1 .. cnt : i < j => s[i] < s[j]
                                      /\ \A b \in bits : \E i \in 1 .. cnt : s[i] = b
    BY <1>6 DEF Lists, cnt
  <2>3. Lists(Ascending(bits), bits, cnt)
    BY <2>1, <2>2 DEF Lists
  <2> QED BY <2>3 DEF cnt
<1> QED BY <1>4, <1>7

LEMMA StoredRule ==
  ASSUME NEW cnt \in Nat
  PROVE  /\ Stored(cnt) \in Nat /\ Stored(cnt) >= cnt
         /\ cnt > 0 => Stored(cnt) <= cnt + Batch - 1
         /\ cnt = 0 => Stored(cnt) = 0
<1>1. Batch \in Nat /\ Batch >= 2
  BY BlockAssumption
<1> QED BY <1>1 DEF Stored

\* What write leaves in the entries: those in use as they were, and behind them
\* the places of the bits, in their order; nothing much behind those.
Appended(written, idx, bits) ==
  LET f == written.indexes
      n == written.tail
  IN /\ n \in Nat /\ n >= tail
     /\ f = [i \in DOMAIN f |-> f[i]]
     /\ \A i \in 0 .. n - 1 : i \in DOMAIN structural_indexes \/ i >= tail => i \in DOMAIN f
     /\ \A i \in DOMAIN structural_indexes : i \in 0 .. tail - 1 => f[i] = structural_indexes[i]
     /\ \A i \in tail .. n - 1 : \E b \in bits : f[i] = idx + b
     /\ \A i, j \in tail .. n - 1 : i < j => f[i] < f[j]
     /\ \A b \in bits : \E i \in tail .. n - 1 : f[i] = idx + b
     /\ \A i \in DOMAIN f : i \in DOMAIN structural_indexes \/ (i \in Nat /\ i <= n + Batch - 2)

LEMMA WriteRule ==
  ASSUME tail \in Nat, NEW idx \in Int, NEW bits \in SUBSET Mask
  PROVE  Appended(write(idx, bits), idx, bits)
<1> DEFINE cnt == Cardinality(bits)
           s == Ascending(bits)
           last == tail + Stored(cnt) - 1
           stored == [i \in tail .. last |->
                        idx + (IF i < tail + cnt THEN s[i - tail + 1] ELSE W)]
           f == [i \in DOMAIN structural_indexes \cup (tail .. last) |->
                   IF i \in tail .. last THEN stored[i] ELSE structural_indexes[i]]
<1>1. write(idx, bits) = [indexes |-> f, tail |-> tail + cnt]
  BY DEF write, Overwrite
<1>2. cnt \in Nat /\ Lists(s, bits, cnt)
  BY AscendingRule
<1>3. /\ Stored(cnt) \in Nat /\ Stored(cnt) >= cnt
      /\ cnt > 0 => Stored(cnt) <= cnt + Batch - 1
      /\ cnt = 0 => Stored(cnt) = 0
  BY <1>2, StoredRule
<1>4. /\ s \in [1 .. cnt -> bits]
      /\ \A i, j \in 1 .. cnt : i < j => s[i] < s[j]
      /\ \A b \in bits : \E i \in 1 .. cnt : s[i] = b
  BY <1>2 DEF Lists
<1>5. bits \subseteq Int /\ Batch \in Nat
  BY BlockAssumption DEF Mask
<1> HIDE DEF cnt, s
<1>0. PICK n \in Nat : n = tail + cnt
  BY <1>2
<1>6. ASSUME NEW i \in tail .. n - 1
      PROVE  i \in DOMAIN f /\ i - tail + 1 \in 1 .. cnt /\ f[i] = idx + s[i - tail + 1]
  <2>1. i \in tail .. last /\ i < tail + cnt
    BY <1>0, <1>2, <1>3
  <2>2. stored[i] = idx + s[i - tail + 1]
    BY <2>1
  <2>3. f[i] = stored[i] /\ i \in DOMAIN f
    BY <2>1
  <2>4. i - tail + 1 \in 1 .. cnt
    BY <1>0, <1>2
  <2> HIDE DEF f, stored
  <2> QED BY <2>2, <2>3, <2>4
<1>7. \A i \in DOMAIN structural_indexes : i \in 0 .. tail - 1 => f[i] = structural_indexes[i]
  BY <1>3
<1>8. DOMAIN f = DOMAIN structural_indexes \cup (tail .. last) /\ f = [i \in DOMAIN f |-> f[i]]
  OBVIOUS
<1>9. write(idx, bits).indexes = f /\ write(idx, bits).tail = n
  <2> HIDE DEF f
  <2> QED BY <1>0, <1>1
<1> HIDE DEF f, stored
<1>10. \A i \in tail .. n - 1 : \E b \in bits : f[i] = idx + b
  BY <1>4, <1>6
<1>11. ASSUME NEW i \in tail .. n - 1, NEW j \in tail .. n - 1, i < j
       PROVE  f[i] < f[j]
  <2>1. /\ i - tail + 1 \in 1 .. cnt /\ f[i] = idx + s[i - tail + 1]
        /\ j - tail + 1 \in 1 .. cnt /\ f[j] = idx + s[j - tail + 1]
    BY <1>6
  <2>2. i - tail + 1 < j - tail + 1
    BY <1>11
  <2>3. s[i - tail + 1] < s[j - tail + 1]
    BY <1>4, <2>1, <2>2
  <2>4. s[i - tail + 1] \in Int /\ s[j - tail + 1] \in Int
    BY <1>4, <1>5, <2>1
  <2> QED BY <2>1, <2>3, <2>4
<1>12. ASSUME NEW b \in bits PROVE \E i \in tail .. n - 1 : f[i] = idx + b
  <2>1. PICK k \in 1 .. cnt : s[k] = b
    BY <1>4
  <2>2. tail + k - 1 \in tail .. n - 1 /\ (tail + k - 1) - tail + 1 = k
    BY <1>0, <1>2
  <2> QED BY <1>6, <2>1, <2>2
<1>13. ASSUME NEW i \in 0 .. n - 1, i \in DOMAIN structural_indexes \/ i >= tail
       PROVE  i \in DOMAIN f
  BY <1>0, <1>2, <1>3, <1>8, <1>13
<1>14. ASSUME NEW i \in DOMAIN f
       PROVE  i \in DOMAIN structural_indexes \/ (i \in Nat /\ i <= n + Batch - 2)
  BY <1>0, <1>2, <1>3, <1>5, <1>8
<1>15. n \in Nat /\ n >= tail
  BY <1>0, <1>2
<1>17. PICK w : w = write(idx, bits)
  OBVIOUS
<1>18. w.indexes = f /\ w.tail = n
  BY <1>9, <1>17
<1>20. Appended(w, idx, bits)
  BY <1>7, <1>8, <1>10, <1>11, <1>12, <1>13, <1>14, <1>15, <1>18, Zenon DEF Appended
<1> QED BY <1>17, <1>20

-----------------------------------------------------------------------------
(* Block and lexer side by side.                                           *)

States == {"out", "scalar", "string", "escape"}

\* The characters of the file up to the b-th of the block.
Met(b) == IF block * W + b <= len THEN block * W + b ELSE len

\* What the carries inside of the block have to do with the lexer.
AgreeIn(b) ==
  SoundTo(Met(b)) =>
    /\ Lexed[Met(b)] \in States
    /\ InStringIn(b) <=> Lexed[Met(b)] \in {"string", "escape"}
    /\ block * W + b <= len =>
         Agree(EscapedIn(b), InStringIn(b), BehindScalarIn(b), Lexed[Met(b)])

LEMMA BlockBase == ASSUME block \in Int PROVE block * W \in Int /\ (block + 1) * W = block * W + W
BY BlockAssumption

LEMMA StatesOfLexer ==
  ASSUME text \in Files
  PROVE  \A i \in 0 .. len : Lexed[i] \in States
<1> DEFINE S == {n \in Nat : n <= len => Lexed[n] \in States}
<1>1. len \in Nat /\ Lexed[0] = "out"
  BY LexedRule
<1>2. \A i \in 1 .. len : text[i] \in Characters /\ Lexed[i] = After(Lexed[i - 1], text[i])
  BY LexedRule
<1>3. 0 \in S
  BY <1>1 DEF States
<1>4. ASSUME NEW n \in Nat, n \in S PROVE n + 1 \in S
  <2> SUFFICES ASSUME n + 1 <= len PROVE Lexed[n + 1] \in States
    OBVIOUS
  <2>1. n + 1 \in 1 .. len /\ (n + 1) - 1 = n
    BY <1>1
  <2>2. Lexed[n + 1] = After(Lexed[n], text[n + 1]) /\ text[n + 1] \in Characters
    BY <1>2, <2>1
  <2> QED BY <2>2, LexerTurn DEF States
<1> HIDE DEF S
<1>5. Nat \subseteq S
  BY <1>3, <1>4, Induction
<1> QED BY <1>1, <1>5 DEF S

LEMMA AgreeInBlock ==
  ASSUME ScanTypeOK, CarriesInv, BlockRule
  PROVE  \A b \in 0 .. W : AgreeIn(b)
<1> DEFINE S == {b \in Nat : b <= W => AgreeIn(b)}
<1>0. W \in Nat /\ W > 0 /\ Mask = 0 .. W - 1
  BY BlockAssumption DEF Mask
<1>1. text \in Files /\ block \in Nat /\ len \in Nat
  BY LexedRule DEF ScanTypeOK
<1>2. PICK base \in Nat : base = block * W
  BY <1>0, <1>1
<1>3. 0 \in S
  <2>1. Met(0) = Scanned /\ Scanned \in 0 .. len
    BY <1>1, <1>2 DEF Met, Scanned
  <2>2. Lexed[Met(0)] \in States
    BY <1>1, <2>1, StatesOfLexer
  <2>3. /\ EscapedIn(0) <=> prev_escaped
        /\ InStringIn(0) <=> prev_in_string
        /\ BehindScalarIn(0) <=> prev_scalar
    BY DEF BlockRule
  <2>4. block * W + 0 = block * W
    BY <1>2
  <2>5. AgreeIn(0)
    BY <2>1, <2>2, <2>3, <2>4 DEF AgreeIn, CarriesInv, Agree
  <2> QED BY <2>5
<1>4. ASSUME NEW b \in Nat, b \in S PROVE b + 1 \in S
  <2> SUFFICES ASSUME b + 1 <= W PROVE AgreeIn(b + 1)
    OBVIOUS
  <2>1. b \in Mask /\ AgreeIn(b)
    BY <1>0, <1>4
  <2> DEFINE p == base + b
             c == CharAt(p)
  <2>2. block * W + b = p /\ block * W + (b + 1) = p + 1 /\ p \in Nat
    BY <1>2
  <2>3. /\ EscapedIn(b + 1) <=> c = "backslash" /\ ~EscapedIn(b)
        /\ InStringIn(b + 1) <=> (InStringIn(b) <=> ~Quoted(b))
        /\ BehindScalarIn(b + 1) <=> InScalar(b) /\ ~Quoted(b)
    BY <2>1, <2>2 DEF BlockRule
  <2>4. /\ Quoted(b) <=> c = "quote" /\ ~EscapedIn(b)
        /\ InScalar(b) <=> c \notin {"op", "ff", "space", "newline"}
    BY <2>2 DEF Quoted, InScalar
  <2>5. CASE p < len
    <3>1. /\ Met(b) = p /\ Met(b + 1) = p + 1
          /\ p + 1 \in 1 .. len /\ (p + 1) - 1 = p /\ p + 1 <= len /\ p <= len
      BY <1>1, <2>2, <2>5 DEF Met
    <3>2. c = text[p + 1] /\ c \in Characters /\ Lexed[p + 1] = After(Lexed[p], c)
      BY <1>1, <2>5, <3>1, LexedRule DEF CharAt
    <3>3. SUFFICES ASSUME SoundTo(p + 1)
                   PROVE  /\ Lexed[p + 1] \in States
                          /\ Agree(EscapedIn(b + 1), InStringIn(b + 1), BehindScalarIn(b + 1),
                                   Lexed[p + 1])
      BY <2>2, <3>1 DEF AgreeIn, Agree
    <3>4. SoundTo(p) /\ ~Stray(p + 1)
      <4>1. p + 1 \in 1 .. p + 1 /\ \A j \in 1 .. p : j \in 1 .. p + 1
        BY <2>2
      <4> QED BY <3>3, <4>1 DEF SoundTo
    <3>5. /\ Lexed[p] \in States
          /\ Agree(EscapedIn(b), InStringIn(b), BehindScalarIn(b), Lexed[p])
      BY <2>1, <2>2, <3>1, <3>4 DEF AgreeIn
    <3>6. /\ ~(c = "backslash" /\ Lexed[p] \in {"out", "scalar"})
          /\ ~(c = "quote" /\ Lexed[p] = "scalar")
      BY <3>1, <3>2, <3>4 DEF Stray, Before
    <3> HIDE DEF p, c
    <3>7. PICK state \in States : state = Lexed[p]
      BY <3>5
    <3>8. After(state, c) =
            IF state = "escape" THEN "string"
            ELSE IF state = "string"
              THEN IF c = "backslash" THEN "escape" ELSE IF c = "quote" THEN "out" ELSE "string"
              ELSE IF state \in {"out", "scalar"} /\ c = "quote" THEN "string"
              ELSE IF state \in {"out", "scalar"} /\ c \in {"op", "ff", "space", "newline"} THEN "out"
              ELSE "scalar"
      BY <3>2, LexerTurn
    <3>9. PICK next : next = After(state, c)
      OBVIOUS
    <3>10. /\ next \in States
           /\ Agree(EscapedIn(b + 1), InStringIn(b + 1), BehindScalarIn(b + 1), next)
      BY <2>3, <2>4, <3>5, <3>6, <3>7, <3>8, <3>9 DEF Agree, States
    <3> QED BY <3>2, <3>7, <3>9, <3>10
  <2>6. CASE p >= len
    <3>1. Met(b) = len /\ Met(b + 1) = len /\ ~(p + 1 <= len) /\ ~(p < len)
      BY <1>1, <2>2, <2>6 DEF Met
    <3>2. c = "space"
      BY <3>1 DEF CharAt
    <3>3. InStringIn(b + 1) <=> InStringIn(b)
      BY <2>3, <2>4, <3>2
    <3> QED BY <2>1, <2>2, <3>1, <3>3 DEF AgreeIn
  <2> QED BY <1>1, <2>2, <2>5, <2>6
<1> HIDE DEF S
<1>5. Nat \subseteq S
  BY <1>3, <1>4, Induction
<1> QED BY <1>0, <1>5 DEF S

\* The starts of a block are those of tokens, as far as the file is sound.
LEMMA StartsInBlock ==
  ASSUME ScanTypeOK, CarriesInv, BlockRule, NEW b \in Mask
  PROVE  /\ b \in structural_start => block * W + b < len
         /\ block * W + b + 1 \in Sound =>
              (b \in structural_start <=> TokenStart(block * W + b + 1))
<1>0. W \in Nat /\ b \in 0 .. W /\ b \in Nat
  BY BlockAssumption DEF Mask
<1>1. text \in Files /\ block \in Nat /\ len \in Nat
  BY LexedRule DEF ScanTypeOK
<1>2. PICK p \in Nat : p = block * W + b
  BY <1>0, <1>1
<1> DEFINE c == CharAt(p)
<1>3. b \in structural_start <=> /\ \/ c \in {"op", "ff"}
                                    \/ c \notin {"op", "ff", "space", "newline"} /\ ~BehindScalarIn(b)
                                 /\ ~InStringIn(b)
  BY <1>2 DEF BlockRule, InScalar
<1>4. CASE p < len
  <2>1. /\ Met(b) = p /\ p + 1 \in 1 .. len /\ p <= len /\ (p + 1) - 1 = p
    BY <1>1, <1>2, <1>4 DEF Met
  <2>2. c = text[p + 1] /\ c \in Characters
    BY <1>1, <1>4, <2>1, LexedRule DEF CharAt
  <2> SUFFICES ASSUME p + 1 \in Sound
               PROVE  b \in structural_start <=> TokenStart(p + 1)
    BY <1>2, <1>4
  <2>3. SoundTo(p)
    BY <2>1 DEF Sound, SoundTo
  <2>4. /\ Lexed[p] \in States
        /\ Agree(EscapedIn(b), InStringIn(b), BehindScalarIn(b), Lexed[p])
    BY <1>0, <1>2, <2>1, <2>3, AgreeInBlock DEF AgreeIn
  <2>5. TokenStart(p + 1) <=> \/ c \in {"op", "ff"} /\ Lexed[p] \in {"out", "scalar"}
                              \/ /\ c \in {"quote", "backslash", "letter", "control"}
                                 /\ Lexed[p] = "out"
    BY <2>1, <2>2 DEF TokenStart, Before
  <2> HIDE DEF c
  <2> QED BY <1>3, <2>2, <2>4, <2>5 DEF Agree, States, Characters
<1>5. CASE ~(p < len)
  <2>1. c = "space" /\ p + 1 \notin Sound
    BY <1>1, <1>5 DEF CharAt, Sound
  <2> QED BY <1>2, <1>3, <2>1
<1> QED BY <1>4, <1>5

\* The control characters of a block that its strings have are those of the
\* file's strings there.
LEMMA RawInBlock ==
  ASSUME ScanTypeOK, CarriesInv, BlockRule, SoundTo(Met(W))
  PROVE  (unescaped_chars_error
            \/ non_quote_inside_string(In({"newline", "control", "ff"})) # {})
           <=> \E i \in 1 .. Met(W) : Raw(i)
<1> DEFINE X == {"newline", "control", "ff"}
<1>0. W \in Nat /\ W > 0 /\ Mask = 0 .. W - 1
  BY BlockAssumption DEF Mask
<1>1. text \in Files /\ block \in Nat /\ len \in Nat
  BY LexedRule DEF ScanTypeOK
<1>2. PICK base \in Nat : base = block * W
  BY <1>0, <1>1
<1>3. ASSUME NEW b \in Mask
      PROVE  b \in In(X) /\ b \in in_string <=> base + b < len /\ Raw(base + b + 1)
  <2>1. PICK p \in Nat : p = base + b
    BY <1>0, <1>2
  <2>2. b \in In(X) <=> CharAt(p) \in X
    <3>1. p + 1 <= len <=> p < len
      BY <1>1
    <3>2. b \in In(X) <=> (IF p + 1 <= len THEN text[p + 1] ELSE "space") \in X
      BY <1>2, <2>1 DEF In
    <3> QED BY <3>1, <3>2 DEF CharAt
  <2>3. CASE p < len
    <3>1. /\ Met(b) = p /\ p + 1 \in 1 .. len /\ p <= len /\ (p + 1) - 1 = p /\ b \in 0 .. W
          /\ Met(W) \in Nat /\ p <= Met(W)
      BY <1>0, <1>1, <1>2, <2>1, <2>3 DEF Met
    <3>2. CharAt(p) = text[p + 1]
      BY <2>3 DEF CharAt
    <3>3. SoundTo(p)
      <4>1. \A j \in 1 .. p : j \in 1 .. Met(W)
        BY <2>1, <3>1
      <4> QED BY <4>1 DEF SoundTo
    <3>4. InStringIn(b) <=> Lexed[p] \in {"string", "escape"}
      BY <1>2, <2>1, <3>1, <3>3, AgreeInBlock DEF AgreeIn
    <3>5. /\ b \in in_string <=> InStringIn(b + 1)
          /\ InStringIn(b + 1) <=> (InStringIn(b) <=> ~Quoted(b))
      BY DEF BlockRule
    <3>6. CharAt(p) \in X => ~Quoted(b)
      BY <1>2, <2>1 DEF Quoted
    <3>7. Raw(p + 1) <=> text[p + 1] \in X /\ Lexed[p] \in {"string", "escape"}
      BY <3>1 DEF Raw, Before
    <3> HIDE DEF X
    <3> QED BY <2>1, <2>2, <2>3, <3>2, <3>4, <3>5, <3>6, <3>7
  <2>4. CASE ~(p < len)
    <3>1. CharAt(p) = "space"
      BY <2>4 DEF CharAt
    <3> QED BY <2>1, <2>2, <2>4, <3>1
  <2> QED BY <2>3, <2>4
<1>4. non_quote_inside_string(In(X)) # {}
        <=> \E b \in Mask : base + b < len /\ Raw(base + b + 1)
  <2>1. In(X) \subseteq Mask
    BY DEF In
  <2> HIDE DEF X
  <2> QED BY <1>3, <2>1 DEF non_quote_inside_string
<1>5. /\ Scanned \in Nat /\ Met(W) \in Nat /\ Scanned <= Met(W) /\ SoundTo(Scanned)
      /\ Scanned = IF base <= len THEN base ELSE len
      /\ Met(W) = IF base + W <= len THEN base + W ELSE len
  <2>1. /\ Scanned = IF base <= len THEN base ELSE len
        /\ Met(W) = IF base + W <= len THEN base + W ELSE len
    BY <1>2 DEF Scanned, Met
  <2>2. Scanned \in Nat /\ Met(W) \in Nat /\ Scanned <= Met(W)
    BY <1>0, <1>1, <2>1
  <2>3. \A j \in 1 .. Scanned : j \in 1 .. Met(W)
    BY <2>2
  <2>4. SoundTo(Scanned)
    BY <2>3 DEF SoundTo
  <2> QED BY <2>1, <2>2, <2>4
<1>6. unescaped_chars_error <=> \E i \in 1 .. Scanned : Raw(i)
  BY <1>5 DEF CarriesInv
<1>7. ASSUME NEW i \in 1 .. Met(W), Raw(i), ~(i \in 1 .. Scanned)
      PROVE  \E b \in Mask : base + b < len /\ Raw(base + b + 1)
  <2>1. i - 1 - base \in Mask /\ base + (i - 1 - base) + 1 = i /\ base + (i - 1 - base) < len
    BY <1>0, <1>1, <1>5, <1>7
  <2> QED BY <1>7, <2>1
<1>8. ASSUME NEW b \in Mask, base + b < len PROVE base + b + 1 \in 1 .. Met(W)
  BY <1>0, <1>1, <1>5, <1>8
<1>9. \A i \in 1 .. Scanned : i \in 1 .. Met(W)
  BY <1>1, <1>5
<1> HIDE DEF X
<1>10. (unescaped_chars_error \/ non_quote_inside_string(In(X)) # {})
         <=> \E i \in 1 .. Met(W) : Raw(i)
  BY <1>4, <1>6, <1>7, <1>8, <1>9
<1> QED BY <1>10 DEF X

-----------------------------------------------------------------------------
(* The steps.                                                              *)

\* The text stays, and what the lexer makes of it.
LEMMA SameText ==
  ASSUME text' = text
  PROVE  /\ len' = len /\ Lexed' = Lexed /\ Sound' = Sound /\ Blocks' = Blocks
         /\ \A i : /\ Stray(i)' <=> Stray(i)
                   /\ Raw(i)' <=> Raw(i)
                   /\ TokenStart(i)' <=> TokenStart(i)
         /\ \A n : SoundTo(n)' <=> SoundTo(n)
<1>1. len' = len
  BY DEF len
<1>2. Lexed' = Lexed
  BY <1>1, Zenon DEF Lexed
<1>3. \A i : /\ Stray(i)' <=> Stray(i)
             /\ Raw(i)' <=> Raw(i)
             /\ TokenStart(i)' <=> TokenStart(i)
  BY <1>2 DEF Stray, Raw, TokenStart, Before
<1>4. Sound' = Sound /\ \A n : SoundTo(n)' <=> SoundTo(n)
  BY <1>1, <1>3 DEF Sound, SoundTo
<1> QED BY <1>1, <1>2, <1>3, <1>4 DEF Blocks

\* Ascending naturals are not below their number, and as many as there are
\* naturals below their bound at most.
LEMMA AscendingBelow ==
  ASSUME NEW f, NEW n \in Nat, NEW m \in Nat,
         \A i \in 0 .. n - 1 : f[i] \in Nat /\ f[i] < m,
         \A i, j \in 0 .. n - 1 : i < j => f[i] < f[j]
  PROVE  n <= m /\ \A i \in 0 .. n - 1 : i <= f[i]
<1> DEFINE S == {k \in Nat : k < n => k <= f[k]}
<1>1. 0 \in S
  <2>1. 0 < n => 0 \in 0 .. n - 1
    OBVIOUS
  <2>2. 0 < n => 0 <= f[0]
    BY <2>1
  <2> QED BY <2>2
<1>2. ASSUME NEW k \in Nat, k \in S PROVE k + 1 \in S
  <2> SUFFICES ASSUME k + 1 < n PROVE k + 1 <= f[k + 1]
    OBVIOUS
  <2>1. k \in 0 .. n - 1 /\ k + 1 \in 0 .. n - 1 /\ k < k + 1
    OBVIOUS
  <2>2. k <= f[k] /\ f[k] < f[k + 1] /\ f[k] \in Nat /\ f[k + 1] \in Nat
    BY <1>2, <2>1
  <2> QED BY <2>2
<1> HIDE DEF S
<1>3. Nat \subseteq S
  BY <1>1, <1>2, Induction
<1>4. ASSUME NEW i \in 0 .. n - 1 PROVE i <= f[i]
  BY <1>3 DEF S
<1>5. n <= m
  <2>1. CASE n = 0
    BY <2>1
  <2>2. CASE n # 0
    <3>1. n - 1 \in 0 .. n - 1
      BY <2>2
    <3>2. n - 1 <= f[n - 1] /\ f[n - 1] \in Nat /\ f[n - 1] < m
      BY <1>4, <3>1
    <3> QED BY <3>2
  <2> QED BY <2>1, <2>2
<1> QED BY <1>4, <1>5

\* With the mask of the last block written, the entries are those of all blocks.
LEMMA EntriesGrow ==
  ASSUME ScanTypeOK, EntriesInv, MaskInv, scan_error = "scanning", NEW w,
         w = write((block - 1) * W, prev_structurals)
  PROVE  /\ w.tail \in Nat /\ w.tail <= len
         /\ EntriesTo(w.indexes, w.tail, block * W)
         /\ w.indexes = [i \in DOMAIN w.indexes |-> w.indexes[i]]
         /\ \A i \in DOMAIN w.indexes : i \in Nat /\ i < len + Batch + 1
<1>0. W \in Nat /\ W > 0 /\ Mask = 0 .. W - 1 /\ Batch \in Nat /\ Batch >= 2
  BY BlockAssumption DEF Mask
<1>1. text \in Files /\ block \in Nat /\ len \in Nat /\ tail \in Nat
  BY LexedRule DEF ScanTypeOK
<1>2. PICK low \in Int : low = (block - 1) * W
  BY <1>0, <1>1
<1>3. block * W = low + W
  BY <1>0, <1>1, <1>2
<1>4. prev_structurals \in SUBSET Mask
  BY DEF MaskInv
<1>5. Appended(w, low, prev_structurals)
  BY <1>1, <1>2, <1>4, WriteRule
<1>6. block > 0 => low >= 0
  BY <1>0, <1>1, <1>2
<1>7. prev_structurals # {} => low >= 0
  BY <1>1, <1>6 DEF MaskInv
<1>8. PICK f : f = w.indexes
  OBVIOUS
<1>9. PICK n : n = w.tail
  OBVIOUS
<1>10. /\ n \in Nat /\ n >= tail
       /\ f = [i \in DOMAIN f |-> f[i]]
       /\ \A i \in 0 .. n - 1 : i \in DOMAIN structural_indexes \/ i >= tail => i \in DOMAIN f
       /\ \A i \in DOMAIN structural_indexes : i \in 0 .. tail - 1 => f[i] = structural_indexes[i]
       /\ \A i \in tail .. n - 1 : \E b \in prev_structurals : f[i] = low + b
       /\ \A i, j \in tail .. n - 1 : i < j => f[i] < f[j]
       /\ \A b \in prev_structurals : \E i \in tail .. n - 1 : f[i] = low + b
       /\ \A i \in DOMAIN f : i \in DOMAIN structural_indexes \/ (i \in Nat /\ i <= n + Batch - 2)
  BY <1>5, <1>8, <1>9, Zenon DEF Appended
<1>11. /\ \A i \in 0 .. tail - 1 : /\ i \in DOMAIN structural_indexes
                                   /\ structural_indexes[i] \in 0 .. low - 1
                                   /\ structural_indexes[i] < len
       /\ \A i, j \in 0 .. tail - 1 : i < j => structural_indexes[i] < structural_indexes[j]
       /\ \A p \in 0 .. low - 1 : p + 1 \in Sound =>
            ((\E i \in 0 .. tail - 1 : structural_indexes[i] = p) <=> TokenStart(p + 1))
  BY <1>2 DEF EntriesInv, EntriesTo, Unwritten
<1>12. ASSUME NEW i \in 0 .. tail - 1
       PROVE  i \in DOMAIN f /\ f[i] = structural_indexes[i] /\ f[i] \in 0 .. low - 1 /\ f[i] < len
  <2>1. i \in DOMAIN structural_indexes /\ i \in 0 .. n - 1
    BY <1>1, <1>10, <1>11
  <2> QED BY <1>10, <1>11, <2>1
<1>13. ASSUME NEW i \in tail .. n - 1
       PROVE  i \in DOMAIN f /\ f[i] \in low .. low + W - 1 /\ f[i] >= 0 /\ f[i] < len
  <2>1. PICK b \in prev_structurals : f[i] = low + b
    BY <1>10
  <2>2. b \in 0 .. W - 1 /\ low >= 0
    BY <1>0, <1>4, <1>7
  <2>3. low + b < len
    BY <1>2, <1>4 DEF MaskInv
  <2>4. i \in DOMAIN f
    BY <1>1, <1>10
  <2>5. low + b \in low .. low + W - 1 /\ low + b >= 0
    BY <1>0, <2>2
  <2> QED BY <2>1, <2>3, <2>4, <2>5
<1>14. \A i \in 0 .. n - 1 : i \in 0 .. tail - 1 \/ i \in tail .. n - 1
  BY <1>1, <1>10
<1>15. ASSUME NEW i \in 0 .. n - 1
       PROVE  i \in DOMAIN f /\ f[i] \in 0 .. low + W - 1 /\ f[i] < len
  BY <1>0, <1>12, <1>13, <1>14
<1>16. ASSUME NEW i \in 0 .. n - 1, NEW j \in 0 .. n - 1, i < j PROVE f[i] < f[j]
  <2>1. CASE j \in 0 .. tail - 1
    <3>1. i \in 0 .. tail - 1
      BY <1>1, <1>16, <2>1
    <3> QED BY <1>11, <1>12, <1>16, <2>1, <3>1
  <2>2. CASE i \in 0 .. tail - 1 /\ j \in tail .. n - 1
    BY <1>12, <1>13, <2>2
  <2>3. CASE i \in tail .. n - 1 /\ j \in tail .. n - 1
    BY <1>10, <1>16, <2>3
  <2>4. i \in tail .. n - 1 => j \in tail .. n - 1
    BY <1>1, <1>16
  <2> QED BY <1>14, <2>1, <2>2, <2>3, <2>4
<1>17. ASSUME NEW p \in 0 .. low + W - 1, p + 1 \in Sound
       PROVE  (\E i \in 0 .. n - 1 : f[i] = p) <=> TokenStart(p + 1)
  <2>1. CASE p < low
    <3>1. p \in 0 .. low - 1
      BY <2>1
    <3>2. ASSUME NEW i \in 0 .. n - 1, f[i] = p PROVE i \in 0 .. tail - 1
      BY <1>13, <1>14, <2>1, <3>2
    <3>3. \A i \in 0 .. tail - 1 : i \in 0 .. n - 1
      BY <1>1, <1>10
    <3>4. (\E i \in 0 .. n - 1 : f[i] = p) <=> \E i \in 0 .. tail - 1 : structural_indexes[i] = p
      BY <1>12, <3>2, <3>3
    <3> QED BY <1>11, <1>17, <3>1, <3>4
  <2>2. CASE p >= low
    <3>1. PICK b \in Mask : p = low + b
      <4>1. p - low \in Mask /\ p = low + (p - low)
        BY <1>0, <2>2
      <4> QED BY <4>1
    <3>2. block > 0
      BY <1>0, <1>1, <1>3
    <3>3. b \in prev_structurals <=> TokenStart(p + 1)
      BY <1>2, <1>17, <3>1, <3>2 DEF MaskInv
    <3>4. ASSUME NEW i \in 0 .. n - 1, f[i] = p PROVE b \in prev_structurals
      <4>1. i \in tail .. n - 1
        BY <1>12, <1>14, <2>2, <3>4
      <4>2. PICK c \in prev_structurals : f[i] = low + c
        BY <1>10, <4>1
      <4>3. b = c
        BY <1>0, <1>4, <3>1, <3>4, <4>2
      <4> QED BY <4>2, <4>3
    <3>5. ASSUME b \in prev_structurals PROVE \E i \in 0 .. n - 1 : f[i] = p
      <4>1. PICK i \in tail .. n - 1 : f[i] = low + b
        BY <1>10, <3>5
      <4>2. i \in 0 .. n - 1
        BY <1>1, <1>10
      <4> QED BY <3>1, <4>1, <4>2
    <3> QED BY <3>3, <3>4, <3>5
  <2> QED BY <2>1, <2>2
<1>18. EntriesTo(f, n, block * W)
  <2>1. EntriesTo(f, n, low + W)
    <3>1. \A i \in 0 .. n - 1 : i \in DOMAIN f /\ f[i] \in 0 .. (low + W) - 1 /\ f[i] < len
      BY <1>0, <1>15
    <3>2. \A i, j \in 0 .. n - 1 : i < j => f[i] < f[j]
      BY <1>16
    <3>3. \A p \in 0 .. (low + W) - 1 :
            p + 1 \in Sound => ((\E i \in 0 .. n - 1 : f[i] = p) <=> TokenStart(p + 1))
      BY <1>0, <1>17
    <3> QED BY <3>1, <3>2, <3>3, Zenon DEF EntriesTo
  <2> QED BY <1>3, <2>1
<1>19. n <= len
  <2>1. \A i \in 0 .. n - 1 : f[i] \in Nat /\ f[i] < len
    BY <1>15
  <2> QED BY <1>1, <1>10, <1>16, <2>1, AscendingBelow
<1>20. ASSUME NEW i \in DOMAIN f PROVE i \in Nat /\ i < len + Batch + 1
  <2>1. CASE i \in DOMAIN structural_indexes
    BY <2>1 DEF ScanTypeOK
  <2>2. CASE i \in Nat /\ i <= n + Batch - 2
    BY <1>0, <1>1, <1>10, <1>19, <2>2
  <2> QED BY <1>10, <2>1, <2>2
<1> QED BY <1>8, <1>9, <1>10, <1>18, <1>19, <1>20

\* The steps of a file are enough blocks for it.
LEMMA BlocksRule ==
  ASSUME len \in Nat
  PROVE  Blocks \in Nat /\ Blocks * W >= len /\ (len > 0 => Blocks > 0)
<1>1. W \in Nat /\ W > 0
  BY BlockAssumption
<1>2. PICK d \in Nat : d = 2 * W
  BY <1>1
<1>3. d > 0
  BY <1>1, <1>2
<1>4. PICK q : q = (len + d - 1) \div d
  OBVIOUS
<1>5. PICK r : r = (len + d - 1) % d
  OBVIOUS
<1>6. q \in Nat /\ r \in 0 .. d - 1 /\ len + d - 1 = d * q + r
  BY <1>3, <1>4, <1>5
<1>7. d * q >= len
  BY <1>6
<1>8. Blocks = 2 * q
  BY <1>2, <1>4 DEF Blocks
<1>9. (2 * q) * W = d * q
  BY <1>1, <1>2, <1>6
<1>10. len > 0 => q > 0
  <2>1. CASE q = 0
    BY <1>6, <1>7, <2>1
  <2> QED BY <1>6, <2>1
<1> QED BY <1>6, <1>7, <1>8, <1>9, <1>10

LEMMA Init == ScanInit => ScanInv
<1> SUFFICES ASSUME ScanInit PROVE ScanInv
  OBVIOUS
<1>1. /\ text \in Files /\ block = 0 /\ tail = 0 /\ prev_structurals = {}
      /\ prev_escaped = FALSE /\ prev_in_string = FALSE /\ prev_scalar = FALSE
      /\ unescaped_chars_error = FALSE /\ structural_indexes = <<>> /\ scan_error = "scanning"
  BY DEF ScanInit
<1>2. len \in Nat /\ Lexed[0] = "out"
  BY <1>1, LexedRule
<1>3. W \in Nat /\ W > 0
  BY BlockAssumption
<1>4. Scanned = 0
  BY <1>1, <1>2, <1>3 DEF Scanned
<1>5. ScanTypeOK
  <2>1. Blocks \in Nat
    BY <1>2, BlocksRule
  <2>2. DOMAIN structural_indexes = {} /\ structural_indexes = [i \in {} |-> structural_indexes[i]]
    BY <1>1
  <2>3. block \in 0 .. Blocks /\ tail \in Nat
    BY <1>1, <2>1
  <2>4. \A i \in DOMAIN structural_indexes : i \in Nat /\ i < len + Batch + 1
    BY <2>2
  <2>5. structural_indexes = [i \in DOMAIN structural_indexes |-> structural_indexes[i]]
    BY <2>2
  <2> HIDE DEF Blocks
  <2> QED BY <1>1, <2>3, <2>4, <2>5, Zenon DEF ScanTypeOK
<1>6. CarriesInv
  BY <1>1, <1>2, <1>4 DEF CarriesInv, Agree
<1>7. EntriesInv
  <2>1. (0 - 1) * W = -W
    BY <1>3
  <2>2. Unwritten \in Int /\ Unwritten < 0
    BY <1>1, <1>3, <2>1 DEF Unwritten
  <2> QED BY <1>1, <2>2 DEF EntriesInv, EntriesTo
<1>8. MaskInv
  BY <1>1 DEF MaskInv
<1>9. ResultInv
  BY <1>1 DEF ResultInv
<1> QED BY <1>5, <1>6, <1>7, <1>8, <1>9 DEF ScanInv

LEMMA AsBoolean == ASSUME NEW v, NEW x, NEW S, v = (x \in S) PROVE v \in BOOLEAN /\ (v <=> x \in S)
<1>1. (x \in S) \in BOOLEAN
  OBVIOUS
<1>2. PICK P \in BOOLEAN : P = (x \in S)
  BY <1>1
<1>3. v = P
  BY <1>2
<1>4. P <=> x \in S
  BY <1>2
<1> QED BY <1>3, <1>4

\* A step carries on what the block ends with.
LEMMA CarriedOn ==
  ASSUME ScanInv, Step
  PROVE  /\ BlockRule
         /\ text' = text /\ len' = len
         /\ block' * W = block * W + W /\ (block' - 1) * W = block * W
         /\ block' > 0 /\ block' \in Nat
         /\ Scanned' = Met(W)
         /\ EscapedIn(W) <=> prev_escaped'
         /\ prev_in_string' \in BOOLEAN /\ (InStringIn(W) <=> prev_in_string')
         /\ prev_scalar' \in BOOLEAN /\ (BehindScalarIn(W) <=> prev_scalar')
<1>0. W \in Nat /\ W > 0
  BY BlockAssumption
<1>1. text \in Files /\ block \in Nat /\ len \in Nat
  BY BlocksRule, LexedRule DEF ScanInv, ScanTypeOK
<1>2. BlockRule
  BY <1>1, BlockFollowsRule DEF ScanInv, ScanTypeOK
<1>3. /\ block' = block + 1 /\ text' = text
      /\ prev_escaped' = find_escaped(In({"backslash"})).overflow
      /\ prev_in_string' = (W - 1 \in in_string)
      /\ prev_scalar' = (W - 1 \in nonquote_scalar)
  BY DEF Step
<1>4. len' = len
  BY <1>3 DEF len
<1>5. block' * W = block * W + W /\ (block' - 1) * W = block * W /\ block' > 0 /\ block' \in Nat
  BY <1>1, <1>3, BlockBase
<1>6. Scanned' = Met(W)
  BY <1>4, <1>5 DEF Scanned, Met
<1>7. EscapedIn(W) <=> prev_escaped'
  BY <1>0, <1>3 DEF EscapedIn, EscapedAt
<1>8. prev_in_string' \in BOOLEAN /\ (InStringIn(W) <=> prev_in_string')
  <2>1. InStringIn(W) <=> W - 1 \in in_string
    BY <1>0 DEF InStringIn
  <2>2. prev_in_string' \in BOOLEAN /\ (prev_in_string' <=> W - 1 \in in_string)
    BY <1>3, AsBoolean, Zenon
  <2> QED BY <2>1, <2>2
<1>9. prev_scalar' \in BOOLEAN /\ (BehindScalarIn(W) <=> prev_scalar')
  <2>1. BehindScalarIn(W) <=> W - 1 \in nonquote_scalar
    BY <1>0 DEF BehindScalarIn
  <2>2. prev_scalar' \in BOOLEAN /\ (prev_scalar' <=> W - 1 \in nonquote_scalar)
    BY <1>3, AsBoolean, Zenon
  <2> QED BY <2>1, <2>2
<1> QED BY <1>2, <1>3, <1>4, <1>5, <1>6, <1>7, <1>8, <1>9

LEMMA StepKeeps == ScanInv /\ Step => ScanInv'
<1> SUFFICES ASSUME ScanInv, Step PROVE ScanInv'
  OBVIOUS
<1>0. W \in Nat /\ W > 0 /\ Mask = 0 .. W - 1
  BY BlockAssumption DEF Mask
<1>1. ScanTypeOK /\ CarriesInv /\ EntriesInv /\ MaskInv
  BY DEF ScanInv
<1>2. text \in Files /\ block \in Nat /\ len \in Nat /\ Blocks \in Nat /\ tail \in Nat
  BY <1>1, BlocksRule, LexedRule DEF ScanTypeOK
<1>3. BlockRule
  BY <1>1, <1>2, BlockFollowsRule DEF ScanTypeOK
<1>4. PICK w : w = write((block - 1) * W, prev_structurals)
  OBVIOUS
<1>5. /\ scan_error = "scanning" /\ block < Blocks
      /\ block' = block + 1
      /\ prev_escaped' = find_escaped(In({"backslash"})).overflow
      /\ prev_in_string' = (W - 1 \in in_string)
      /\ prev_scalar' = (W - 1 \in nonquote_scalar)
      /\ structural_indexes' = w.indexes /\ tail' = w.tail
      /\ prev_structurals' = structural_start
      /\ unescaped_chars_error' =
           (unescaped_chars_error
              \/ non_quote_inside_string(In({"newline", "control", "ff"})) # {})
      /\ text' = text /\ scan_error' = scan_error
  BY <1>4 DEF Step
<1>6. /\ len' = len /\ Lexed' = Lexed /\ Sound' = Sound /\ Blocks' = Blocks
      /\ \A i : /\ Stray(i)' <=> Stray(i)
                /\ Raw(i)' <=> Raw(i)
                /\ TokenStart(i)' <=> TokenStart(i)
      /\ \A n : SoundTo(n)' <=> SoundTo(n)
  BY <1>5, SameText
<1>7. block' * W = block * W + W /\ (block' - 1) * W = block * W /\ block' > 0 /\ block' \in Nat
  BY CarriedOn
<1>8. Scanned' = Met(W)
  BY CarriedOn
<1>9. EscapedIn(W) <=> prev_escaped'
  BY CarriedOn
<1>10. prev_in_string' \in BOOLEAN /\ (InStringIn(W) <=> prev_in_string')
  BY CarriedOn
<1>11. prev_scalar' \in BOOLEAN /\ (BehindScalarIn(W) <=> prev_scalar')
  BY CarriedOn
<1>12. /\ w.tail \in Nat /\ w.tail <= len
       /\ EntriesTo(w.indexes, w.tail, block * W)
       /\ w.indexes = [i \in DOMAIN w.indexes |-> w.indexes[i]]
       /\ \A i \in DOMAIN w.indexes : i \in Nat /\ i < len + Batch + 1
  BY <1>1, <1>4, <1>5, EntriesGrow
<1>13. ScanTypeOK'
  <2>1. prev_escaped' \in BOOLEAN
    <3>1. In({"backslash"}) \in SUBSET Mask
      BY DEF In
    <3>2. find_escaped(In({"backslash"})).overflow \in BOOLEAN
      BY <1>1, <3>1, EscapeRule DEF ScanTypeOK
    <3> QED BY <1>5, <3>2
  <2>2. prev_in_string' \in BOOLEAN /\ prev_scalar' \in BOOLEAN /\ unescaped_chars_error' \in BOOLEAN
    <3>1. unescaped_chars_error' \in BOOLEAN
      BY <1>5
    <3> QED BY <1>10, <1>11, <3>1
  <2>3. text' \in Files /\ block' \in 0 .. Blocks' /\ tail' \in Nat
    BY <1>2, <1>5, <1>6, <1>12
  <2>4. scan_error' \in {"scanning", "UNCLOSED_STRING", "UNESCAPED_CHARS", "EMPTY", "none"}
    BY <1>5
  <2>5. /\ structural_indexes' = [i \in DOMAIN structural_indexes' |-> structural_indexes'[i]]
        /\ \A i \in DOMAIN structural_indexes' : i \in Nat /\ i < len' + Batch + 1
    BY <1>5, <1>6, <1>12, Zenon
  <2> QED BY <2>1, <2>2, <2>3, <2>4, <2>5 DEF ScanTypeOK
<1>14. CarriesInv'
  <2> SUFFICES ASSUME SoundTo(Met(W))
               PROVE  /\ prev_in_string' <=> Lexed[Met(W)] \in {"string", "escape"}
                      /\ unescaped_chars_error' <=> \E i \in 1 .. Met(W) : Raw(i)
                      /\ block' * W <= len =>
                           Agree(prev_escaped', prev_in_string', prev_scalar', Lexed[Met(W)])
    <3>1. SoundTo(Met(W)) <=> SoundTo(Scanned)'
      BY <1>6, <1>8 DEF SoundTo
    <3>2. (\E i \in 1 .. Scanned' : Raw(i)') <=> \E i \in 1 .. Met(W) : Raw(i)
      BY <1>6, <1>8
    <3> QED BY <1>6, <1>8, <3>1, <3>2 DEF CarriesInv, Agree
  <2>1. W \in 0 .. W
    BY <1>0
  <2>2. AgreeIn(W)
    BY <1>1, <1>3, <2>1, AgreeInBlock
  <2>3. unescaped_chars_error' <=> \E i \in 1 .. Met(W) : Raw(i)
    BY <1>1, <1>3, <1>5, RawInBlock
  <2> QED BY <1>7, <1>9, <1>10, <1>11, <2>2, <2>3 DEF AgreeIn, Agree
<1>15. EntriesInv'
  <2>1. Unwritten' = block * W
    BY <1>5, <1>7 DEF Unwritten
  <2> QED BY <1>5, <1>6, <1>12, <2>1 DEF EntriesInv, EntriesTo
<1>16. MaskInv'
  <2>1. structural_start \subseteq Mask
    BY DEF structural_start, op, scalar, In
  <2>2. \A b \in Mask : /\ b \in structural_start => block * W + b < len
                        /\ block * W + b + 1 \in Sound =>
                             (b \in structural_start <=> TokenStart(block * W + b + 1))
    BY <1>1, <1>3, StartsInBlock
  <2> QED BY <1>5, <1>6, <1>7, <2>1, <2>2 DEF MaskInv, Mask
<1>17. ResultInv'
  BY <1>5 DEF ResultInv
<1> QED BY <1>13, <1>14, <1>15, <1>16, <1>17 DEF ScanInv

\* g has the entries of f and three behind the first n of them.
Closed(g, f, n) ==
  /\ g = [i \in DOMAIN g |-> g[i]]
  /\ DOMAIN g = {n, n + 1, n + 2} \cup DOMAIN f
  /\ g[n] = len /\ g[n + 1] = len /\ g[n + 2] = 0
  /\ \A i \in DOMAIN f : i \notin {n, n + 1, n + 2} => g[i] = f[i]

LEMMA SentinelRule ==
  ASSUME NEW f, NEW n \in Nat
  PROVE  Closed(Overwrite(f, Sentinels(n)), f, n)
<1>1. PICK s : s = Sentinels(n)
  OBVIOUS
<1>2. DOMAIN s = {n, n + 1, n + 2} /\ s[n] = len /\ s[n + 1] = len /\ s[n + 2] = 0
  BY <1>1 DEF Sentinels
<1>3. PICK g : g = Overwrite(f, s)
  OBVIOUS
<1>4. g = [i \in DOMAIN f \cup DOMAIN s |-> IF i \in DOMAIN s THEN s[i] ELSE f[i]]
  BY <1>3 DEF Overwrite
<1>5. Closed(g, f, n)
  BY <1>2, <1>4 DEF Closed
<1> QED BY <1>1, <1>3, <1>5

LEMMA FinishKeeps == ScanInv /\ Finish => ScanInv'
<1> SUFFICES ASSUME ScanInv, Finish PROVE ScanInv'
  OBVIOUS
<1>0. W \in Nat /\ W > 0 /\ Batch \in Nat /\ Batch >= 2
  BY BlockAssumption
<1>1. ScanTypeOK /\ CarriesInv /\ EntriesInv /\ MaskInv
  BY DEF ScanInv
<1>2. text \in Files /\ block \in 0 .. Blocks /\ len \in Nat
  BY <1>1, LexedRule DEF ScanTypeOK
<1>3. PICK w : w = write((block - 1) * W, prev_structurals)
  OBVIOUS
<1>4. PICK n : n = w.tail
  OBVIOUS
<1>5. PICK f : f = w.indexes
  OBVIOUS
<1>6. PICK g : g = structural_indexes'
  OBVIOUS
<1>7. /\ scan_error = "scanning" /\ block = Blocks
      /\ tail' = n
      /\ g = IF prev_in_string \/ unescaped_chars_error THEN f ELSE Overwrite(f, Sentinels(n))
      /\ scan_error' = CASE prev_in_string        -> "UNCLOSED_STRING"
                         [] ~prev_in_string /\ unescaped_chars_error -> "UNESCAPED_CHARS"
                         [] ~(prev_in_string \/ unescaped_chars_error) /\ tail' = 0  -> "EMPTY"
                         [] OTHER                 -> "none"
      /\ text' = text /\ block' = block /\ prev_escaped' = prev_escaped
      /\ prev_in_string' = prev_in_string /\ prev_scalar' = prev_scalar
      /\ prev_structurals' = prev_structurals
      /\ unescaped_chars_error' = unescaped_chars_error
  BY <1>3, <1>4, <1>5, <1>6 DEF Finish
<1>8. /\ len' = len /\ Lexed' = Lexed /\ Sound' = Sound /\ Blocks' = Blocks
      /\ \A i : /\ Stray(i)' <=> Stray(i)
                /\ Raw(i)' <=> Raw(i)
                /\ TokenStart(i)' <=> TokenStart(i)
      /\ \A k : SoundTo(k)' <=> SoundTo(k)
  BY <1>7, SameText
<1>9. /\ n \in Nat /\ n <= len
      /\ EntriesTo(f, n, block * W)
      /\ f = [i \in DOMAIN f |-> f[i]]
      /\ \A i \in DOMAIN f : i \in Nat /\ i < len + Batch + 1
  BY <1>1, <1>3, <1>4, <1>5, <1>7, EntriesGrow
<1>10. /\ prev_in_string \in BOOLEAN /\ unescaped_chars_error \in BOOLEAN
       /\ scan_error' \in {"UNCLOSED_STRING", "UNESCAPED_CHARS", "EMPTY", "none"}
       /\ scan_error' = "none" => ~prev_in_string /\ ~unescaped_chars_error
  BY <1>1, <1>7 DEF ScanTypeOK
<1>11. /\ g = [i \in DOMAIN g |-> g[i]]
       /\ \A i \in DOMAIN g : i \in DOMAIN f \/ i \in {n, n + 1, n + 2}
       /\ \A i \in 0 .. n - 1 : i \in DOMAIN f => i \in DOMAIN g /\ g[i] = f[i]
       /\ ~prev_in_string /\ ~unescaped_chars_error =>
            /\ {n, n + 1, n + 2} \subseteq DOMAIN g
            /\ g[n] = len /\ g[n + 1] = len /\ g[n + 2] = 0
  <2>1. CASE prev_in_string \/ unescaped_chars_error
    BY <1>7, <1>9, <2>1
  <2>2. CASE ~(prev_in_string \/ unescaped_chars_error)
    <3>1. g = Overwrite(f, Sentinels(n))
      BY <1>7, <2>2
    <3>2. Closed(Overwrite(f, Sentinels(n)), f, n)
      BY <1>9, SentinelRule
    <3>3. \A i \in 0 .. n - 1 : i \notin {n, n + 1, n + 2}
      BY <1>9
    <3>4. Closed(g, f, n)
      BY <3>1, <3>2
    <3> QED BY <3>3, <3>4 DEF Closed
  <2> QED BY <2>1, <2>2
<1>12. ScanTypeOK'
  <2>1. \A i \in DOMAIN g : i \in Nat /\ i < len + Batch + 1
    BY <1>0, <1>2, <1>9, <1>11
  <2>2. text' \in Files /\ block' \in 0 .. Blocks' /\ tail' \in Nat
    BY <1>2, <1>7, <1>8, <1>9
  <2>3. /\ prev_escaped' \in BOOLEAN /\ prev_in_string' \in BOOLEAN /\ prev_scalar' \in BOOLEAN
        /\ unescaped_chars_error' \in BOOLEAN
    BY <1>1, <1>7 DEF ScanTypeOK
  <2> QED BY <1>6, <1>8, <1>10, <1>11, <2>1, <2>2, <2>3 DEF ScanTypeOK
<1>13. CarriesInv'
  BY <1>1, <1>7, <1>8 DEF CarriesInv, Agree, Scanned
<1>14. EntriesInv'
  <2>1. Unwritten' = block * W
    BY <1>7, <1>10 DEF Unwritten
  <2>2. EntriesTo(g, n, block * W)
    BY <1>9, <1>11 DEF EntriesTo
  <2> QED BY <1>6, <1>7, <1>8, <2>1, <2>2 DEF EntriesInv, EntriesTo
<1>15. MaskInv'
  BY <1>1, <1>7, <1>8 DEF MaskInv, Mask
<1>16. ResultInv'
  BY <1>6, <1>7, <1>8, <1>10, <1>11 DEF ResultInv
<1> QED BY <1>12, <1>13, <1>14, <1>15, <1>16 DEF ScanInv

LEMMA StutterKeeps == ScanInv /\ UNCHANGED scan_vars => ScanInv'
<1> SUFFICES ASSUME ScanInv, UNCHANGED scan_vars PROVE ScanInv'
  OBVIOUS
<1>1. /\ text' = text /\ block' = block /\ prev_escaped' = prev_escaped
      /\ prev_in_string' = prev_in_string /\ prev_scalar' = prev_scalar
      /\ prev_structurals' = prev_structurals
      /\ unescaped_chars_error' = unescaped_chars_error
      /\ structural_indexes' = structural_indexes /\ tail' = tail /\ scan_error' = scan_error
  BY DEF scan_vars
<1>2. /\ len' = len /\ Lexed' = Lexed /\ Sound' = Sound /\ Blocks' = Blocks
      /\ \A i : /\ Stray(i)' <=> Stray(i)
                /\ Raw(i)' <=> Raw(i)
                /\ TokenStart(i)' <=> TokenStart(i)
      /\ \A k : SoundTo(k)' <=> SoundTo(k)
  BY <1>1, SameText
<1>3. ScanTypeOK'
  BY <1>1, <1>2 DEF ScanInv, ScanTypeOK
<1>4. CarriesInv'
  BY <1>1, <1>2 DEF ScanInv, CarriesInv, Agree, Scanned
<1>5. EntriesInv'
  BY <1>1, <1>2 DEF ScanInv, EntriesInv, EntriesTo, Unwritten
<1>6. MaskInv'
  BY <1>1, <1>2 DEF ScanInv, MaskInv, Mask
<1>7. ResultInv'
  BY <1>1, <1>2 DEF ScanInv, ResultInv
<1> QED BY <1>3, <1>4, <1>5, <1>6, <1>7 DEF ScanInv

\* The invariant holds of every file.
THEOREM ScanKeeps == ScanSpec => []ScanInv
<1>1. ScanInv /\ [ScanNext]_scan_vars => ScanInv'
  BY StepKeeps, FinishKeeps, StutterKeeps DEF ScanNext
<1> QED BY Init, <1>1, PTL DEF ScanSpec

-----------------------------------------------------------------------------
(* Strings, in any file: what stage 1 takes for one is over before the     *)
(* next structural character, behind a stray character as well.            *)

\* Whether the n-th character is in a string, or behind a scalar.
Quotes(n) == {i \in 1 .. n : EndsString(i)}
Inside(n) == Cardinality(Quotes(n)) % 2 = 1
Behind(n) == n > 0 /\ text[n] \notin {"op", "ff", "space", "newline"} /\ ~EndsString(n)

\* A structural character is not in a string, and a quote not behind a scalar.
Opens(i) == ~Inside(i - 1) /\ (text[i] = "quote" => ~Behind(i - 1))

\* The places of the file that are like that.
EscapedOnes == {n \in Int : AfterBackslash(n)}
InsideOnes  == {n \in Int : Inside(n)}
BehindOnes  == {n \in Int : Behind(n)}
OpeningOnes == {n \in Int : Opens(n)}

\* The three carries are what the characters before the block make of them, and
\* each entry written, or in the mask of the last block, opens something.
FlagsInv ==
  /\ prev_in_string <=> Scanned \in InsideOnes
  /\ block * W <= len => /\ prev_escaped <=> Scanned + 1 \in EscapedOnes
                         /\ prev_scalar <=> Scanned \in BehindOnes

OpensInv ==
  /\ \A i \in 0 .. tail - 1 : structural_indexes[i] + 1 \in OpeningOnes
  /\ \A b \in prev_structurals : (block - 1) * W + b + 1 \in OpeningOnes

StringsInv == FlagsInv /\ OpensInv

\* A character is escaped when the one before it is a backslash that is not.
LEMMA EscapedRule ==
  /\ ~AfterBackslash(1)
  /\ \A i \in Nat \ {0} : AfterBackslash(i + 1) <=> text[i] = "backslash" /\ ~AfterBackslash(i)
<1> DEFINE R(i) == {j \in 1 .. i - 1 : \A k \in j .. i - 1 : text[k] = "backslash"}
<1>1. \A i : AfterBackslash(i) <=> Cardinality(R(i)) % 2 = 1
  BY DEF AfterBackslash
<1>2. R(1) = {}
  OBVIOUS
<1>3. ASSUME NEW i \in Nat \ {0}
      PROVE  AfterBackslash(i + 1) <=> text[i] = "backslash" /\ ~AfterBackslash(i)
  <2>1. (i + 1) - 1 = i /\ i \in 1 .. i /\ i \in i .. i /\ i \notin 1 .. i - 1
    OBVIOUS
  <2>2. \A j \in 1 .. i : j = i \/ j \in 1 .. i - 1
    OBVIOUS
  <2>3. ASSUME NEW j \in 1 .. i - 1 PROVE /\ j \in 1 .. i
                                          /\ \A k \in j .. i : k = i \/ k \in j .. i - 1
                                          /\ \A k \in j .. i - 1 : k \in j .. i
                                          /\ i \in j .. i
    OBVIOUS
  <2>4. CASE text[i] # "backslash"
    <3>1. R(i + 1) = {}
      BY <2>1, <2>2, <2>3, <2>4
    <3>2. Cardinality({}) = 0 /\ 0 % 2 # 1
      BY FS_EmptySet
    <3> HIDE DEF R
    <3>3. Cardinality(R(i + 1)) % 2 # 1
      BY <3>1, <3>2, Zenon
    <3>4. ~AfterBackslash(i + 1)
      BY <1>1, <3>3, Zenon
    <3> QED BY <2>4, <3>4
  <2>5. CASE text[i] = "backslash"
    <3>1. R(i + 1) = R(i) \cup {i}
      BY <2>1, <2>2, <2>3, <2>5
    <3>2. IsFiniteSet(R(i)) /\ i \notin R(i)
      <4>1. IsFiniteSet(1 .. i - 1) /\ R(i) \subseteq 1 .. i - 1
        BY FS_Interval
      <4> QED BY <2>1, <4>1, FS_Subset
    <3> HIDE DEF R
    <3>3. Cardinality(R(i)) \in Nat /\ Cardinality(R(i + 1)) = Cardinality(R(i)) + 1
      BY <3>1, <3>2, FS_AddElement, FS_CardinalityType
    <3>4. PICK n \in Nat : n = Cardinality(R(i))
      BY <3>3
    <3>5. (n + 1) % 2 = 1 <=> ~(n % 2 = 1)
      OBVIOUS
    <3> QED BY <1>1, <2>5, <3>3, <3>4, <3>5
  <2> QED BY <2>4, <2>5
<1>4. Cardinality({}) = 0 /\ ~(0 % 2 = 1)
  BY FS_EmptySet
<1> QED BY <1>1, <1>2, <1>3, <1>4

\* An unescaped quote ends a string or begins one.
LEMMA InsideRule ==
  /\ ~Inside(0)
  /\ \A n \in Nat : Inside(n + 1) <=> (Inside(n) <=> ~EndsString(n + 1))
<1>1. Quotes(0) = {} /\ Cardinality({}) = 0
  BY FS_EmptySet DEF Quotes
<1>2. ASSUME NEW n \in Nat PROVE Inside(n + 1) <=> (Inside(n) <=> ~EndsString(n + 1))
  <2>1. /\ n + 1 \in 1 .. n + 1 /\ n + 1 \notin 1 .. n
        /\ \A i \in 1 .. n + 1 : i = n + 1 \/ i \in 1 .. n
        /\ \A i \in 1 .. n : i \in 1 .. n + 1
    OBVIOUS
  <2>2. IsFiniteSet(Quotes(n)) /\ n + 1 \notin Quotes(n)
    <3>1. IsFiniteSet(1 .. n) /\ Quotes(n) \subseteq 1 .. n
      BY FS_Interval DEF Quotes
    <3> QED BY <2>1, <3>1, FS_Subset
  <2>3. PICK m \in Nat : m = Cardinality(Quotes(n))
    BY <2>2, FS_CardinalityType
  <2>4. (m + 1) % 2 = 1 <=> ~(m % 2 = 1)
    OBVIOUS
  <2>5. CASE EndsString(n + 1)
    <3>1. Quotes(n + 1) = Quotes(n) \cup {n + 1}
      BY <2>1, <2>5 DEF Quotes
    <3>2. Cardinality(Quotes(n + 1)) = m + 1
      BY <2>2, <2>3, <3>1, FS_AddElement
    <3> QED BY <2>3, <2>4, <2>5, <3>2 DEF Inside
  <2>6. CASE ~EndsString(n + 1)
    <3>1. Quotes(n + 1) = Quotes(n)
      BY <2>1, <2>6 DEF Quotes
    <3> QED BY <2>6, <3>1 DEF Inside
  <2> QED BY <2>5, <2>6
<1>3. ~(0 % 2 = 1)
  OBVIOUS
<1> QED BY <1>1, <1>2, <1>3 DEF Inside

\* The carries inside of the block are those of the characters before.
FlagsIn(b) ==
  /\ InStringIn(b) <=> Inside(Met(b))
  /\ block * W + b <= len => /\ EscapedIn(b) <=> AfterBackslash(Met(b) + 1)
                             /\ BehindScalarIn(b) <=> Behind(Met(b))

LEMMA FlagsInBlock ==
  ASSUME ScanTypeOK, FlagsInv, BlockRule
  PROVE  \A b \in 0 .. W : FlagsIn(b)
<1> DEFINE S == {b \in Nat : b <= W => FlagsIn(b)}
<1>0. W \in Nat /\ W > 0 /\ Mask = 0 .. W - 1
  BY BlockAssumption DEF Mask
<1>1. text \in Files /\ block \in Nat /\ len \in Nat
  BY LexedRule DEF ScanTypeOK
<1>2. PICK base \in Nat : base = block * W
  BY <1>0, <1>1
<1>3. 0 \in S
  <2>1. Met(0) = Scanned /\ block * W + 0 = block * W /\ Scanned \in Int
    BY <1>1, <1>2 DEF Met, Scanned
  <2>2. /\ Scanned \in InsideOnes <=> Inside(Scanned)
        /\ Scanned + 1 \in EscapedOnes <=> AfterBackslash(Scanned + 1)
        /\ Scanned \in BehindOnes <=> Behind(Scanned)
    BY <2>1 DEF InsideOnes, EscapedOnes, BehindOnes
  <2> QED BY <2>1, <2>2 DEF FlagsIn, FlagsInv, BlockRule
<1>4. ASSUME NEW b \in Nat, b \in S PROVE b + 1 \in S
  <2> SUFFICES ASSUME b + 1 <= W PROVE FlagsIn(b + 1)
    OBVIOUS
  <2>1. b \in Mask /\ FlagsIn(b)
    BY <1>0, <1>4
  <2>2. PICK p \in Nat : p = base + b
    BY <1>2
  <2>3. block * W + b = p /\ block * W + (b + 1) = p + 1
    BY <1>2, <2>2
  <2>4. PICK c : c = CharAt(p)
    OBVIOUS
  <2>5. /\ EscapedIn(b + 1) <=> c = "backslash" /\ ~EscapedIn(b)
        /\ InStringIn(b + 1) <=> (InStringIn(b) <=> ~Quoted(b))
        /\ BehindScalarIn(b + 1) <=> InScalar(b) /\ ~Quoted(b)
    BY <2>1, <2>3, <2>4 DEF BlockRule
  <2>6. /\ Quoted(b) <=> c = "quote" /\ ~EscapedIn(b)
        /\ InScalar(b) <=> c \notin {"op", "ff", "space", "newline"}
    BY <2>3, <2>4 DEF Quoted, InScalar
  <2>7. CASE p < len
    <3>1. Met(b) = p /\ Met(b + 1) = p + 1 /\ p <= len /\ p + 1 <= len /\ p + 1 > 0
      BY <1>1, <2>3, <2>7 DEF Met
    <3>2. c = text[p + 1]
      BY <2>4, <2>7 DEF CharAt
    <3>3. /\ InStringIn(b) <=> Inside(p)
          /\ EscapedIn(b) <=> AfterBackslash(p + 1)
      BY <2>1, <2>3, <3>1 DEF FlagsIn
    <3>4. Quoted(b) <=> EndsString(p + 1)
      BY <2>6, <3>2, <3>3 DEF EndsString
    <3>5. InStringIn(b + 1) <=> Inside(p + 1)
      BY <2>2, <2>5, <3>3, <3>4, InsideRule
    <3>6. EscapedIn(b + 1) <=> AfterBackslash((p + 1) + 1)
      <4>1. AfterBackslash((p + 1) + 1) <=> text[p + 1] = "backslash" /\ ~AfterBackslash(p + 1)
        BY <2>2, EscapedRule
      <4> QED BY <2>5, <3>2, <3>3, <4>1
    <3>7. BehindScalarIn(b + 1) <=> Behind(p + 1)
      BY <2>5, <2>6, <3>1, <3>2, <3>4 DEF Behind
    <3> QED BY <3>1, <3>5, <3>6, <3>7 DEF FlagsIn
  <2>8. CASE p >= len
    <3>1. Met(b) = len /\ Met(b + 1) = len /\ ~(p + 1 <= len) /\ ~(p < len)
      BY <1>1, <2>3, <2>8 DEF Met
    <3>2. c = "space"
      BY <2>4, <3>1 DEF CharAt
    <3>3. InStringIn(b + 1) <=> InStringIn(b)
      BY <2>5, <2>6, <3>2
    <3> QED BY <2>1, <2>3, <3>1, <3>3 DEF FlagsIn
  <2> QED BY <1>1, <2>2, <2>7, <2>8
<1> HIDE DEF S
<1>5. Nat \subseteq S
  BY <1>3, <1>4, Induction
<1> QED BY <1>0, <1>5 DEF S

LEMMA OpensInBlock ==
  ASSUME ScanTypeOK, CarriesInv, FlagsInv, BlockRule, NEW b \in structural_start
  PROVE  block * W + b + 1 \in OpeningOnes
<1>0. W \in Nat /\ Mask = 0 .. W - 1 /\ structural_start \subseteq Mask
  BY BlockAssumption DEF Mask, structural_start, op, scalar, In
<1>1. text \in Files /\ block \in Nat /\ len \in Nat /\ b \in Mask /\ b \in 0 .. W /\ b \in Nat
  BY <1>0, LexedRule DEF ScanTypeOK
<1>2. PICK p \in Nat : p = block * W + b
  BY <1>0, <1>1
<1>3. p < len
  BY <1>1, <1>2, StartsInBlock
<1>4. Met(b) = p /\ p <= len /\ CharAt(p) = text[p + 1] /\ (p + 1) - 1 = p
  BY <1>1, <1>2, <1>3 DEF Met, CharAt
<1>5. /\ \/ text[p + 1] \in {"op", "ff"}
         \/ ~BehindScalarIn(b)
      /\ ~InStringIn(b)
  BY <1>1, <1>2, <1>4 DEF BlockRule, InScalar
<1>6. (InStringIn(b) <=> Inside(p)) /\ (BehindScalarIn(b) <=> Behind(p))
  BY <1>1, <1>2, <1>4, FlagsInBlock DEF FlagsIn
<1>7. p + 1 \in OpeningOnes
  BY <1>4, <1>5, <1>6 DEF Opens, OpeningOnes
<1> QED BY <1>2, <1>7

\* What is written are places of the last block.
LEMMA OpensGrow ==
  ASSUME ScanInv, StringsInv, scan_error = "scanning", NEW w,
         w = write((block - 1) * W, prev_structurals)
  PROVE  w.tail \in Nat /\ \A i \in 0 .. w.tail - 1 : w.indexes[i] + 1 \in OpeningOnes
<1>1. tail \in Nat /\ block \in Nat /\ (block - 1) * W \in Int /\ prev_structurals \in SUBSET Mask
  <2>1. text \in Files
    BY DEF ScanInv, ScanTypeOK
  <2>2. Blocks \in Nat
    BY <2>1, LexedRule, BlocksRule
  <2> QED BY <2>2, BlockAssumption DEF ScanInv, ScanTypeOK, MaskInv
<1>2. PICK low \in Int : low = (block - 1) * W
  BY <1>1
<1>3. Appended(w, low, prev_structurals)
  BY <1>1, <1>2, WriteRule
<1>4. PICK n : n = w.tail
  OBVIOUS
<1>5. /\ n \in Nat /\ n >= tail
      /\ \A i \in DOMAIN structural_indexes : i \in 0 .. tail - 1 =>
           w.indexes[i] = structural_indexes[i]
      /\ \A i \in tail .. n - 1 : \E b \in prev_structurals : w.indexes[i] = low + b
  BY <1>3, <1>4, Zenon DEF Appended
<1>6. \A i \in 0 .. tail - 1 : i \in DOMAIN structural_indexes
  BY DEF ScanInv, EntriesInv, EntriesTo
<1>7. ASSUME NEW i \in 0 .. n - 1 PROVE w.indexes[i] + 1 \in OpeningOnes
  <2>1. i \in 0 .. tail - 1 \/ i \in tail .. n - 1
    BY <1>1, <1>5
  <2>2. CASE i \in 0 .. tail - 1
    BY <1>5, <1>6, <2>2 DEF StringsInv, OpensInv
  <2>3. CASE i \in tail .. n - 1
    <3>1. PICK b \in prev_structurals : w.indexes[i] = low + b
      BY <1>5, <2>3
    <3>2. (block - 1) * W + b + 1 \in OpeningOnes
      BY DEF StringsInv, OpensInv
    <3> QED BY <1>2, <3>1, <3>2
  <2> QED BY <2>1, <2>2, <2>3
<1> QED BY <1>4, <1>5, <1>7

LEMMA SameStrings ==
  ASSUME text' = text
  PROVE  /\ EscapedOnes' = EscapedOnes /\ InsideOnes' = InsideOnes
         /\ BehindOnes' = BehindOnes /\ OpeningOnes' = OpeningOnes
<1>1. ASSUME NEW i PROVE AfterBackslash(i)' <=> AfterBackslash(i)
  <2>1. {j \in 1 .. i - 1 : \A k \in j .. i - 1 : text'[k] = "backslash"}
          = {j \in 1 .. i - 1 : \A k \in j .. i - 1 : text[k] = "backslash"}
    OBVIOUS
  <2> QED BY <2>1, Zenon DEF AfterBackslash
<1>2. ASSUME NEW i PROVE EndsString(i)' <=> EndsString(i)
  BY <1>1 DEF EndsString
<1>3. ASSUME NEW i PROVE Quotes(i)' = Quotes(i)
  BY <1>2 DEF Quotes
<1>4. ASSUME NEW i PROVE Inside(i)' <=> Inside(i)
  BY <1>3, Zenon DEF Inside
<1>5. ASSUME NEW i PROVE Behind(i)' <=> Behind(i)
  BY <1>2 DEF Behind
<1>6. ASSUME NEW i PROVE Opens(i)' <=> Opens(i)
  <2>1. Inside(i - 1)' <=> Inside(i - 1)
    BY <1>4
  <2>2. Behind(i - 1)' <=> Behind(i - 1)
    BY <1>5
  <2> QED BY <2>1, <2>2 DEF Opens
<1>7. EscapedOnes' = EscapedOnes
  BY <1>1 DEF EscapedOnes
<1>8. InsideOnes' = InsideOnes
  BY <1>4 DEF InsideOnes
<1>9. BehindOnes' = BehindOnes
  BY <1>5 DEF BehindOnes
<1>10. OpeningOnes' = OpeningOnes
  BY <1>6 DEF OpeningOnes
<1> QED BY <1>7, <1>8, <1>9, <1>10

LEMMA InitStrings == ScanInit => StringsInv
<1> SUFFICES ASSUME ScanInit PROVE StringsInv
  OBVIOUS
<1>1. /\ text \in Files /\ block = 0 /\ tail = 0 /\ prev_structurals = {}
      /\ prev_escaped = FALSE /\ prev_in_string = FALSE /\ prev_scalar = FALSE
  BY DEF ScanInit
<1>2. len \in Nat /\ W \in Nat
  BY <1>1, LexedRule, BlockAssumption
<1>3. Scanned = 0
  BY <1>1, <1>2 DEF Scanned
<1>4. 0 \notin InsideOnes /\ 0 + 1 \notin EscapedOnes /\ 0 \notin BehindOnes
  BY InsideRule, EscapedRule DEF Behind, InsideOnes, EscapedOnes, BehindOnes
<1> QED BY <1>1, <1>3, <1>4 DEF StringsInv, FlagsInv, OpensInv

LEMMA StepKeepsStrings == ScanInv /\ StringsInv /\ Step => StringsInv'
<1> SUFFICES ASSUME ScanInv, StringsInv, Step PROVE StringsInv'
  OBVIOUS
<1>1. /\ Scanned' = Met(W) /\ len' = len /\ text' = text
      /\ block' * W = block * W + W /\ (block' - 1) * W = block * W
      /\ EscapedIn(W) <=> prev_escaped'
      /\ InStringIn(W) <=> prev_in_string'
      /\ BehindScalarIn(W) <=> prev_scalar'
      /\ BlockRule
  BY CarriedOn
<1>2. FlagsIn(W)
  <2>1. W \in 0 .. W
    BY BlockAssumption
  <2> QED BY <1>1, <2>1, FlagsInBlock DEF ScanInv, StringsInv
<1>3. FlagsInv'
  <2>1. Met(W) \in Int
    <3>1. len \in Int /\ block \in Int
      BY LexedRule, BlocksRule DEF ScanInv, ScanTypeOK
    <3> QED BY <3>1, BlockBase, BlockAssumption DEF Met
  <2>2. /\ Met(W) \in InsideOnes <=> Inside(Met(W))
        /\ Met(W) + 1 \in EscapedOnes <=> AfterBackslash(Met(W) + 1)
        /\ Met(W) \in BehindOnes <=> Behind(Met(W))
    BY <2>1 DEF InsideOnes, EscapedOnes, BehindOnes
  <2> QED BY <1>1, <1>2, <2>2, SameStrings DEF FlagsIn, FlagsInv
<1>4. PICK w : w = write((block - 1) * W, prev_structurals)
  OBVIOUS
<1>5. /\ scan_error = "scanning" /\ structural_indexes' = w.indexes /\ tail' = w.tail
      /\ prev_structurals' = structural_start
  BY <1>4 DEF Step
<1>6. \A i \in 0 .. tail' - 1 : structural_indexes'[i] + 1 \in OpeningOnes
  BY <1>4, <1>5, OpensGrow
<1>7. \A b \in structural_start : block * W + b + 1 \in OpeningOnes
  BY <1>1, OpensInBlock DEF ScanInv, StringsInv
<1>8. OpensInv'
  BY <1>1, <1>5, <1>6, <1>7, SameStrings DEF OpensInv
<1> QED BY <1>3, <1>8 DEF StringsInv

LEMMA FinishKeepsStrings == ScanInv /\ StringsInv /\ Finish => StringsInv'
<1> SUFFICES ASSUME ScanInv, StringsInv, Finish PROVE StringsInv'
  OBVIOUS
<1>1. PICK w : w = write((block - 1) * W, prev_structurals)
  OBVIOUS
<1>2. /\ scan_error = "scanning" /\ text' = text /\ block' = block
      /\ prev_escaped' = prev_escaped /\ prev_in_string' = prev_in_string
      /\ prev_scalar' = prev_scalar /\ prev_structurals' = prev_structurals
      /\ tail' = w.tail
      /\ structural_indexes' = w.indexes
           \/ structural_indexes' = Overwrite(w.indexes, Sentinels(w.tail))
  BY <1>1 DEF Finish
<1>3. len' = len /\ Scanned' = Scanned
  BY <1>2 DEF len, Scanned
<1>4. w.tail \in Nat /\ \A i \in 0 .. w.tail - 1 : w.indexes[i] + 1 \in OpeningOnes
  BY <1>1, <1>2, OpensGrow
<1>5. ASSUME NEW i \in 0 .. w.tail - 1 PROVE structural_indexes'[i] = w.indexes[i]
  <2>1. i \in DOMAIN w.indexes
    BY <1>1, <1>2, EntriesGrow DEF ScanInv, EntriesTo
  <2>2. CASE structural_indexes' = Overwrite(w.indexes, Sentinels(w.tail))
    <3>1. Closed(structural_indexes', w.indexes, w.tail)
      BY <1>4, <2>2, SentinelRule
    <3>2. i \notin {w.tail, w.tail + 1, w.tail + 2}
      BY <1>4
    <3> QED BY <2>1, <3>1, <3>2 DEF Closed
  <2> QED BY <1>2, <2>2
<1>6. FlagsInv'
  BY <1>2, <1>3, SameStrings DEF StringsInv, FlagsInv
<1>7. OpensInv'
  BY <1>2, <1>4, <1>5, SameStrings DEF StringsInv, OpensInv
<1> QED BY <1>6, <1>7 DEF StringsInv

LEMMA StutterKeepsStrings == StringsInv /\ UNCHANGED scan_vars => StringsInv'
<1> SUFFICES ASSUME StringsInv, UNCHANGED scan_vars PROVE StringsInv'
  OBVIOUS
<1>1. /\ text' = text /\ block' = block /\ prev_escaped' = prev_escaped
      /\ prev_in_string' = prev_in_string /\ prev_scalar' = prev_scalar
      /\ prev_structurals' = prev_structurals
      /\ structural_indexes' = structural_indexes /\ tail' = tail
  BY DEF scan_vars
<1>2. len' = len /\ Scanned' = Scanned
  BY <1>1 DEF len, Scanned
<1> QED BY <1>1, <1>2, SameStrings DEF StringsInv, FlagsInv, OpensInv

\* What ends the strings holds of every file.
THEOREM StringsKeep == ScanSpec => []StringsInv
<1>1. ScanInv /\ StringsInv /\ [ScanNext]_scan_vars => StringsInv'
  BY StepKeepsStrings, FinishKeepsStrings, StutterKeepsStrings DEF ScanNext
<1> QED BY InitStrings, <1>1, ScanKeeps, PTL DEF ScanSpec

-----------------------------------------------------------------------------
(* What follows from it.                                                   *)

\* json_structural_indexer: however the whole batches fall, bit_indexer::write
\* and finish stay within the entries that set_capacity allocated.
THEOREM NoIndexOutside == ScanSpec => []IndexesFit
<1>1. ASSUME ScanInv PROVE IndexesFit
  <2>1. W \in Nat /\ W > 0 /\ Batch \in Nat
    BY BlockAssumption
  <2>2. len \in Nat
    BY <1>1, LexedRule DEF ScanInv, ScanTypeOK
  <2>3. PICK q : q = (len + W - 1) \div W
    OBVIOUS
  <2>4. PICK r : r = (len + W - 1) % W
    OBVIOUS
  <2>5. q \in Nat /\ r \in 0 .. W - 1 /\ len + W - 1 = W * q + r
    BY <2>1, <2>2, <2>3, <2>4
  <2>6. max_structures(len) = q * W + 2 + (Batch - 1) /\ q * W = W * q
    BY <2>1, <2>3, <2>5 DEF max_structures
  <2>7. PICK m \in Nat : m = W * q
    BY <2>1, <2>5
  <2>8. len + Batch + 1 <= max_structures(len) /\ max_structures(len) \in Nat
    BY <2>1, <2>2, <2>5, <2>6, <2>7
  <2>9. \A i \in DOMAIN structural_indexes : i \in Nat /\ i < len + Batch + 1
    BY <1>1 DEF ScanInv, ScanTypeOK
  <2> HIDE DEF max_structures
  <2> QED BY <2>1, <2>2, <2>8, <2>9 DEF IndexesFit
<1> QED BY ScanKeeps, <1>1, PTL

\* What ScanInv says of a file that was scanned to its end.
LEMMA AtTheEnd ==
  ASSUME ScanInv, scan_error # "scanning"
  PROVE  /\ text \in Files /\ len \in Nat /\ tail \in Nat
         /\ \A i \in 0 .. tail - 1 : /\ i \in DOMAIN structural_indexes
                                     /\ structural_indexes[i] \in 0 .. len - 1
         /\ \A i, j \in 0 .. tail - 1 : i < j => structural_indexes[i] < structural_indexes[j]
         /\ \A p \in Sound : (\E i \in 0 .. tail - 1 : structural_indexes[i] = p - 1) <=> TokenStart(p)
         /\ Scanned = len
<1>1. text \in Files /\ len \in Nat /\ tail \in Nat /\ block = Blocks
  BY LexedRule DEF ScanInv, ScanTypeOK, ResultInv
<1>2. PICK end \in Nat : end = block * W
  BY <1>1, BlocksRule, BlockAssumption
<1>3. end >= len
  BY <1>1, <1>2, BlocksRule
<1>4. EntriesTo(structural_indexes, tail, end)
  BY <1>2 DEF ScanInv, EntriesInv, Unwritten
<1>5. \A i \in 0 .. tail - 1 : /\ i \in DOMAIN structural_indexes
                               /\ structural_indexes[i] \in 0 .. len - 1
  BY <1>1, <1>4 DEF EntriesTo
<1>6. \A i, j \in 0 .. tail - 1 : i < j => structural_indexes[i] < structural_indexes[j]
  BY <1>4 DEF EntriesTo
<1>7. ASSUME NEW p \in Sound
      PROVE  (\E i \in 0 .. tail - 1 : structural_indexes[i] = p - 1) <=> TokenStart(p)
  <2>1. p - 1 \in 0 .. end - 1 /\ (p - 1) + 1 = p
    BY <1>1, <1>3 DEF Sound
  <2> QED BY <1>4, <2>1 DEF EntriesTo
<1>8. Scanned = len
  BY <1>1, <1>2, <1>3 DEF Scanned
<1> QED BY <1>1, <1>5, <1>6, <1>7, <1>8

\* From a quote that opens a string to a place in no string the string ends.
LEMMA StringEnds ==
  ASSUME NEW p \in Nat \ {0}, text[p] = "quote", Opens(p), NEW q \in Nat, p <= q, ~Inside(q)
  PROVE  \E c \in p + 1 .. q : EndsString(c)
<1>1. PICK m \in Nat : m + 1 = p
  <2>1. p - 1 \in Nat /\ (p - 1) + 1 = p
    OBVIOUS
  <2> QED BY <2>1
<1>2. ~Inside(m) /\ ~Behind(m)
  <2>1. p - 1 = m
    BY <1>1
  <2> QED BY <2>1 DEF Opens
<1>3. ~AfterBackslash(m + 1)
  <2>1. CASE m = 0
    BY <2>1, EscapedRule
  <2>2. CASE m # 0
    <3>1. AfterBackslash(m + 1) <=> text[m] = "backslash" /\ ~AfterBackslash(m)
      BY <2>2, EscapedRule
    <3>2. text[m] = "backslash" => Behind(m)
      BY <2>2 DEF Behind, EndsString
    <3> QED BY <1>2, <3>1, <3>2
  <2> QED BY <2>1, <2>2
<1>4. Inside(p)
  <2>1. EndsString(m + 1)
    BY <1>1, <1>3 DEF EndsString
  <2>2. Inside(m + 1)
    BY <1>2, <2>1, InsideRule
  <2> QED BY <1>1, <2>2
<1> DEFINE T == {n \in Nat : p <= n /\ ~Inside(n)}
<1>5. PICK c \in T : \A k \in T : c <= k
  <2>1. q \in T /\ T \subseteq Nat
    OBVIOUS
  <2> QED BY <2>1, Least
<1>6. c \in Nat /\ p < c /\ c <= q /\ ~Inside(c)
  <2>1. q \in T
    OBVIOUS
  <2>2. c \in Nat /\ p <= c /\ ~Inside(c) /\ c <= q
    BY <1>5, <2>1
  <2>3. c # p
    BY <1>4, <2>2
  <2> QED BY <2>2, <2>3
<1>7. PICK k \in Nat : k + 1 = c
  <2>1. c - 1 \in Nat /\ (c - 1) + 1 = c
    BY <1>6
  <2> QED BY <2>1
<1>8. Inside(k)
  <2>1. k \in T => c <= k
    BY <1>5
  <2>2. p <= k /\ ~(c <= k)
    BY <1>6, <1>7
  <2> QED BY <2>1, <2>2
<1>9. Inside(k + 1) <=> (Inside(k) <=> ~EndsString(k + 1))
  BY InsideRule
<1>10. EndsString(c)
  BY <1>6, <1>7, <1>8, <1>9
<1> QED BY <1>6, <1>10

\* A file that is accepted does not end in a string.
LEMMA EndsOutside ==
  ASSUME ScanInv, StringsInv, scan_error = "none"
  PROVE  ~Inside(len)
<1>1. ~prev_in_string
  BY DEF ScanInv, ScanTypeOK, ResultInv
<1>2. Scanned = len /\ len \in Int
  BY AtTheEnd
<1>3. Scanned \notin InsideOnes
  BY <1>1 DEF StringsInv, FlagsInv
<1> QED BY <1>2, <1>3 DEF InsideOnes

\* json_structural_indexer::finish: a file it accepts is ready for the walk,
\* whatever it has where no JSON text has it.
THEOREM WalkIsReady == ScanSpec => []ReadyToWalk
<1>1. ASSUME ScanInv, StringsInv PROVE ReadyToWalk
  <2> SUFFICES ASSUME scan_error = "none"
               PROVE  /\ tail > 0
                      /\ \A i \in 0 .. tail - 1 : structural_indexes[i] \in i .. len - 1
                      /\ 0 .. tail + 2 \subseteq DOMAIN structural_indexes
                      /\ structural_indexes[tail] = len /\ structural_indexes[tail + 1] = len
                      /\ structural_indexes[tail + 2] = 0
                      /\ \A i \in 0 .. tail - 1 : text[structural_indexes[i] + 1] = "quote" =>
                           \E c \in structural_indexes[i] + 2 .. structural_indexes[i + 1] :
                             EndsString(c)
                      /\ text[1] \in {"space", "newline"} <=> structural_indexes[0] > 0
    BY DEF ReadyToWalk
  <2>1. /\ text \in Files /\ len \in Nat /\ tail \in Nat
        /\ \A i \in 0 .. tail - 1 : /\ i \in DOMAIN structural_indexes
                                    /\ structural_indexes[i] \in 0 .. len - 1
        /\ \A i, j \in 0 .. tail - 1 : i < j => structural_indexes[i] < structural_indexes[j]
        /\ \A p \in Sound : (\E i \in 0 .. tail - 1 : structural_indexes[i] = p - 1) <=> TokenStart(p)
    BY <1>1, AtTheEnd
  <2>2. /\ {tail, tail + 1, tail + 2} \subseteq DOMAIN structural_indexes
        /\ structural_indexes[tail] = len /\ structural_indexes[tail + 1] = len
        /\ structural_indexes[tail + 2] = 0
    BY <1>1 DEF ScanInv, ResultInv
  <2>3. tail > 0
    <3>1. tail # 0
      BY <1>1 DEF ScanInv, ResultInv, ScanTypeOK
    <3> QED BY <2>1, <3>1
  <2>4. \A i \in 0 .. tail - 1 : i <= structural_indexes[i]
    <3>1. \A i \in 0 .. tail - 1 : structural_indexes[i] \in Nat /\ structural_indexes[i] < len
      BY <2>1
    <3> QED BY <2>1, <3>1, AscendingBelow
  <2>5. \A i \in 0 .. tail - 1 : structural_indexes[i] \in i .. len - 1
    BY <2>1, <2>4
  <2>6. 0 .. tail + 2 \subseteq DOMAIN structural_indexes
    <3>1. \A i \in 0 .. tail + 2 : i \in 0 .. tail - 1 \/ i \in {tail, tail + 1, tail + 2}
      BY <2>1
    <3> QED BY <2>1, <2>2, <3>1
  <2>7. ASSUME NEW i \in 0 .. tail - 1, text[structural_indexes[i] + 1] = "quote"
        PROVE  \E c \in structural_indexes[i] + 2 .. structural_indexes[i + 1] : EndsString(c)
    <3>1. PICK p \in Nat \ {0} : p = structural_indexes[i] + 1
      BY <2>1
    <3>2. p <= len /\ text[p] = "quote" /\ Opens(p)
      <4>1. p <= len
        BY <2>1, <3>1
      <4>2. structural_indexes[i] + 1 \in OpeningOnes
        BY <1>1 DEF StringsInv, OpensInv
      <4> QED BY <2>7, <3>1, <4>1, <4>2 DEF OpeningOnes
    <3>3. PICK q \in Nat : q = structural_indexes[i + 1] /\ p <= q /\ ~Inside(q)
      <4>1. CASE i = tail - 1
        <5>1. structural_indexes[i + 1] = len
          BY <2>1, <2>2, <4>1
        <5> QED BY <1>1, <2>1, <3>2, <5>1, EndsOutside
      <4>2. CASE i # tail - 1
        <5>1. i + 1 \in 0 .. tail - 1 /\ i < i + 1
          BY <2>1, <4>2
        <5>2. structural_indexes[i] < structural_indexes[i + 1] /\ structural_indexes[i + 1] \in Nat
          BY <2>1, <5>1
        <5>3. structural_indexes[i + 1] + 1 \in OpeningOnes
          BY <1>1, <5>1 DEF StringsInv, OpensInv
        <5>4. ~Inside((structural_indexes[i + 1] + 1) - 1)
          BY <5>3 DEF OpeningOnes, Opens
        <5>5. (structural_indexes[i + 1] + 1) - 1 = structural_indexes[i + 1]
          BY <5>2
        <5>6. p <= structural_indexes[i + 1]
          BY <2>1, <3>1, <5>2
        <5> QED BY <5>2, <5>4, <5>5, <5>6
      <4> QED BY <4>1, <4>2
    <3>4. \E c \in p + 1 .. q : EndsString(c)
      BY <3>2, <3>3, StringEnds
    <3>5. p + 1 = structural_indexes[i] + 2
      BY <2>1, <3>1
    <3> QED BY <3>3, <3>4, <3>5
  <2>8. text[1] \in {"space", "newline"} <=> structural_indexes[0] > 0
    <3>1. 0 \in 0 .. tail - 1 /\ structural_indexes[0] \in Nat /\ structural_indexes[0] < len
      BY <2>1, <2>3
    <3>2. 1 \in 1 .. len /\ 1 \in Sound
      BY <2>1, <3>1 DEF Sound
    <3>3. text[1] \in Characters /\ Before(1) = "out"
      BY <2>1, <3>2, LexedRule DEF Before
    <3>4. TokenStart(1) <=> text[1] \notin {"space", "newline"}
      BY <3>3 DEF TokenStart, Characters
    <3>5. (\E i \in 0 .. tail - 1 : structural_indexes[i] = 1 - 1) <=> structural_indexes[0] = 0
      <4>1. \A i \in 0 .. tail - 1 : i # 0 => structural_indexes[0] < structural_indexes[i]
        BY <2>1, <3>1
      <4>2. \A i \in 0 .. tail - 1 : structural_indexes[i] \in Nat
        BY <2>1
      <4> QED BY <3>1, <4>1, <4>2
    <3> QED BY <2>1, <3>1, <3>2, <3>4, <3>5
  <2> QED BY <2>2, <2>3, <2>5, <2>6, <2>7, <2>8
<1> QED BY ScanKeeps, StringsKeep, <1>1, PTL

\* json_scanner::next: on a file without strays stage 1 refuses what the lexer
\* would, for the reason it would, however the blocks cut the file.
THEOREM StringsAreRefused == ScanSpec => []RefusesStrings
<1>1. ASSUME ScanInv PROVE RefusesStrings
  <2> DEFINE open == Lexed[len] \in {"string", "escape"}
             raw  == \E i \in 1 .. len : Raw(i)
             none == \A i \in 1 .. len : ~TokenStart(i)
  <2> SUFFICES ASSUME scan_error # "scanning", Clean
               PROVE  scan_error = CASE open                          -> "UNCLOSED_STRING"
                                     [] ~open /\ raw                  -> "UNESCAPED_CHARS"
                                     [] ~open /\ ~raw /\ none         -> "EMPTY"
                                     [] OTHER                         -> "none"
    BY DEF RefusesStrings
  <2>1. /\ len \in Nat /\ tail \in Nat
        /\ \A i \in 0 .. tail - 1 : structural_indexes[i] \in 0 .. len - 1
        /\ \A p \in Sound : (\E i \in 0 .. tail - 1 : structural_indexes[i] = p - 1) <=> TokenStart(p)
        /\ Scanned = len
    BY <1>1, AtTheEnd
  <2>2. SoundTo(Scanned)
    BY <2>1 DEF Clean, SoundTo
  <2>3. (prev_in_string <=> open) /\ (unescaped_chars_error <=> raw)
    BY <1>1, <2>1, <2>2 DEF ScanInv, CarriesInv
  <2>4. \A p \in 1 .. len : p \in Sound
    BY <2>1 DEF Sound, Clean
  <2>5. tail = 0 <=> none
    <3>1. ASSUME tail = 0, NEW p \in 1 .. len PROVE ~TokenStart(p)
      BY <2>1, <2>4, <3>1
    <3>2. ASSUME tail # 0 PROVE \E p \in 1 .. len : TokenStart(p)
      <4>1. 0 \in 0 .. tail - 1
        BY <2>1, <3>2
      <4>2. PICK p : p = structural_indexes[0] + 1
        OBVIOUS
      <4>3. p \in 1 .. len /\ structural_indexes[0] = p - 1
        BY <2>1, <4>1, <4>2
      <4>4. TokenStart(p)
        BY <2>1, <2>4, <4>1, <4>3
      <4> QED BY <4>3, <4>4
    <3> QED BY <3>1, <3>2
  <2>6. scan_error = CASE prev_in_string -> "UNCLOSED_STRING"
                       [] ~prev_in_string /\ unescaped_chars_error -> "UNESCAPED_CHARS"
                       [] ~prev_in_string /\ ~unescaped_chars_error /\ tail = 0 -> "EMPTY"
                       [] OTHER -> "none"
    BY <1>1 DEF ScanInv, ResultInv
  <2>7. prev_in_string \in BOOLEAN /\ unescaped_chars_error \in BOOLEAN
    BY <1>1 DEF ScanInv, ScanTypeOK
  <2> HIDE DEF open, raw, none
  <2> QED BY <2>3, <2>5, <2>6, <2>7
<1> QED BY ScanKeeps, <1>1, PTL

\* In front of a stray character is a token it belongs to.
LEMMA StrayInToken ==
  ASSUME text \in Files, NEW i \in Sound, Stray(i)
  PROVE  \E j \in 1 .. i : /\ j \in Sound /\ TokenStart(j)
                           /\ \A k \in j .. i - 1 : Before(k + 1) = "scalar"
<1>1. /\ len \in Nat /\ Lexed[0] = "out"
      /\ \A k \in 1 .. len : text[k] \in Characters /\ Lexed[k] = After(Lexed[k - 1], text[k])
  BY LexedRule
<1>2. i \in 1 .. len /\ \A j \in 1 .. i : j \in Sound
  BY <1>1 DEF Sound
<1>3. CASE TokenStart(i)
  <2>1. i \in 1 .. i /\ \A k \in i .. i - 1 : Before(k + 1) = "scalar"
    BY <1>2
  <2> QED BY <1>2, <1>3, <2>1
<1>4. CASE ~TokenStart(i)
  <2>1. Before(i) = "scalar"
    BY <1>4 DEF Stray, TokenStart
  <2> DEFINE T == {j \in 1 .. i : \A k \in j .. i - 1 : Before(k + 1) = "scalar"}
  <2>2. i \in T /\ T \subseteq Nat
    BY <1>2
  <2>3. PICK m \in T : \A k \in T : m <= k
    BY <2>2, Least
  <2>4. m \in 1 .. i /\ \A k \in m .. i - 1 : Before(k + 1) = "scalar"
    OBVIOUS
  <2>5. Before(m) # "scalar"
    <3> SUFFICES ASSUME Before(m) = "scalar" PROVE FALSE
      OBVIOUS
    <3>1. m # 1
      BY <1>1 DEF Before
    <3>2. m - 1 \in 1 .. i
      BY <1>2, <2>4, <3>1
    <3>3. \A k \in m - 1 .. i - 1 : k \in m .. i - 1 \/ k + 1 = m
      BY <1>2, <2>4
    <3>4. m - 1 \in T
      BY <2>4, <3>2, <3>3
    <3> QED BY <1>2, <2>3, <2>4, <3>4
  <2>6. m \in m .. i - 1 /\ m \in 1 .. len /\ (m + 1) - 1 = m
    BY <1>1, <1>2, <2>1, <2>4, <2>5
  <2>7. Lexed[m] = "scalar" /\ Lexed[m] = After(Lexed[m - 1], text[m]) /\ text[m] \in Characters
    BY <1>1, <2>4, <2>6 DEF Before
  <2>8. Lexed[m - 1] \in States /\ Lexed[m - 1] # "scalar"
    <3>1. m - 1 \in 0 .. len
      BY <1>1, <2>6
    <3> QED BY <2>5, <3>1, StatesOfLexer DEF Before
  <2>9. Lexed[m - 1] = "out" /\ text[m] \in {"letter", "control", "backslash"}
    <3>1. PICK state \in States : state = Lexed[m - 1]
      BY <2>8
    <3>2. PICK c \in Characters : c = text[m]
      BY <2>7
    <3>3. After(state, c) = "scalar" /\ state # "scalar"
      BY <2>7, <2>8, <3>1, <3>2
    <3>4. state = "out" /\ c \in {"letter", "control", "backslash"}
      BY <3>3, LexerTurn DEF States, Characters
    <3> QED BY <3>1, <3>2, <3>4
  <2>10. TokenStart(m)
    BY <2>9 DEF TokenStart, Before
  <2> QED BY <1>2, <2>4, <2>10
<1> QED BY <1>3, <1>4

\* json_scanner::next and bit_indexer::write: stage 1 finds the characters that
\* the lexer starts a token at, however the blocks cut strings and escapes.
THEOREM TokensAreFound == ScanSpec => []FindsTokens
<1>1. ASSUME ScanInv PROVE FindsTokens
  <2> SUFFICES ASSUME scan_error = "none"
               PROVE  /\ \A i \in 0 .. tail - 2 : structural_indexes[i] < structural_indexes[i + 1]
                      /\ Found \cap Sound = {i \in Sound : TokenStart(i)}
                      /\ \A i \in Sound : Stray(i) =>
                           \E j \in 1 .. i : j \in Found /\ \A k \in j .. i - 1 :
                                               Before(k + 1) = "scalar"
    BY DEF FindsTokens
  <2>1. /\ text \in Files /\ len \in Nat /\ tail \in Nat
        /\ \A i \in 0 .. tail - 1 : structural_indexes[i] \in 0 .. len - 1
        /\ \A i, j \in 0 .. tail - 1 : i < j => structural_indexes[i] < structural_indexes[j]
        /\ \A p \in Sound : (\E i \in 0 .. tail - 1 : structural_indexes[i] = p - 1) <=> TokenStart(p)
    BY <1>1, AtTheEnd
  <2>2. \A i \in 0 .. tail - 2 : structural_indexes[i] < structural_indexes[i + 1]
    <3>1. \A i \in 0 .. tail - 2 : i \in 0 .. tail - 1 /\ i + 1 \in 0 .. tail - 1 /\ i < i + 1
      BY <2>1
    <3> QED BY <2>1, <3>1
  <2>3. ASSUME NEW p \in Sound PROVE p \in Found <=> TokenStart(p)
    <3>1. \A i \in 0 .. tail - 1 : structural_indexes[i] + 1 = p <=> structural_indexes[i] = p - 1
      <4>1. p \in Int
        BY DEF Sound
      <4> QED BY <2>1, <4>1
    <3>2. p \in Found <=> \E i \in 0 .. tail - 1 : structural_indexes[i] + 1 = p
      BY DEF Found
    <3> QED BY <2>1, <3>1, <3>2
  <2>4. Found \cap Sound = {i \in Sound : TokenStart(i)}
    BY <2>3
  <2>5. ASSUME NEW i \in Sound, Stray(i)
        PROVE  \E j \in 1 .. i : j \in Found /\ \A k \in j .. i - 1 : Before(k + 1) = "scalar"
    <3>1. PICK j \in 1 .. i : /\ j \in Sound /\ TokenStart(j)
                              /\ \A k \in j .. i - 1 : Before(k + 1) = "scalar"
      BY <2>1, <2>5, StrayInToken
    <3> QED BY <2>3, <3>1
  <2> QED BY <2>2, <2>4, <2>5
<1> QED BY ScanKeeps, <1>1, PTL

-----------------------------------------------------------------------------
(* From one stage to the next.                                             *)

Stage2 == INSTANCE JsonDocument

\* What the walk takes a character of the file for.
ReadAs(c) ==
  CASE c = "quote"  -> {"string"}
    [] c = "op"     -> Stage2!Opening \cup Stage2!Closing \cup {"colon", "comma"}
    [] c = "letter" -> {"number", "atom", "other"}
    [] OTHER        -> {"other"}

\* d is the document stage 1 has left: the characters at its entries, the length
\* of the file behind them, and strings that have no more characters without
\* their escapes than they have up to their end.
HasLeft(d) ==
  /\ d.n = tail
  /\ d.at = [k \in 0 .. tail |-> structural_indexes[k]]
  /\ d.char \in [0 .. tail - 1 -> Stage2!Char]
  /\ \A k \in 0 .. tail - 1 : d.char[k] \in ReadAs(text[structural_indexes[k] + 1])
  /\ d.size \in [0 .. tail - 1 -> Nat]
  /\ \A k \in 0 .. tail - 1, c \in 1 .. len :
       d.char[k] = "string" /\ structural_indexes[k] + 1 < c /\ EndsString(c) =>
         d.size[k] <= c - structural_indexes[k] - 2
  /\ d.padding \in Stage2!Char
  /\ d.first \in ReadAs(text[1]) /\ (structural_indexes[0] = 0 => d.first = d.char[0])

\* Ascending naturals are as far apart as their places are.
LEMMA AscendingApart ==
  ASSUME NEW f, NEW n \in Nat, \A i \in 0 .. n : f[i] \in Nat,
         \A i, j \in 0 .. n : i < j => f[i] < f[j]
  PROVE  \A i, j \in 0 .. n : i <= j => f[i] + (j - i) <= f[j]
<1> SUFFICES ASSUME NEW i \in 0 .. n PROVE \A j \in 0 .. n : i <= j => f[i] + (j - i) <= f[j]
  OBVIOUS
<1> DEFINE S == {k \in Nat : i + k <= n => f[i] + k <= f[i + k]}
<1>1. 0 \in S
  <2>1. i + 0 = i /\ f[i] \in Nat
    OBVIOUS
  <2> QED BY <2>1
<1>2. ASSUME NEW k \in Nat, k \in S PROVE k + 1 \in S
  <2> SUFFICES ASSUME i + (k + 1) <= n PROVE f[i] + (k + 1) <= f[i + (k + 1)]
    OBVIOUS
  <2>1. PICK a \in Nat : a = i + k
    OBVIOUS
  <2>2. PICK b \in Nat : b = i + (k + 1)
    OBVIOUS
  <2>3. a \in 0 .. n /\ b \in 0 .. n /\ a < b /\ a <= n
    BY <2>1, <2>2
  <2>4. f[i] \in Nat /\ f[a] \in Nat /\ f[b] \in Nat /\ f[a] < f[b] /\ f[i] + k <= f[a]
    BY <1>2, <2>1, <2>3
  <2> QED BY <2>2, <2>4
<1> HIDE DEF S
<1>3. Nat \subseteq S
  BY <1>1, <1>2, Induction
<1>4. ASSUME NEW j \in 0 .. n, i <= j PROVE f[i] + (j - i) <= f[j]
  <2>1. PICK k \in Nat : k = j - i
    BY <1>4
  <2>2. k \in S /\ i + k = j
    BY <1>3, <2>1
  <2> QED BY <2>1, <2>2 DEF S
<1> QED BY <1>4

\* There is one: each character can be read as something.
LEMMA SomethingLeft ==
  ASSUME ScanInv, scan_error = "none"
  PROVE  \E d : HasLeft(d)
<1>1. \A c : ReadAs(c) \subseteq Stage2!Char /\ ReadAs(c) # {}
  BY DEF ReadAs, Stage2!Char, Stage2!Opening, Stage2!Closing, Stage2!Scalar
<1> DEFINE some(c) == CHOOSE x \in ReadAs(c) : TRUE
           d == [n |-> tail, at |-> [k \in 0 .. tail |-> structural_indexes[k]],
                 char |-> [k \in 0 .. tail - 1 |-> some(text[structural_indexes[k] + 1])],
                 size |-> [k \in 0 .. tail - 1 |-> 0],
                 padding |-> "other", first |-> some(text[1])]
<1>2. \A c : some(c) \in ReadAs(c) /\ some(c) \in Stage2!Char
  BY <1>1
<1>3. /\ len \in Nat /\ tail \in Nat /\ tail > 0
      /\ \A k \in 0 .. tail - 1 : structural_indexes[k] \in 0 .. len - 1
  <2>1. tail # 0
    BY DEF ScanInv, ResultInv, ScanTypeOK
  <2> QED BY <2>1, AtTheEnd
<1> HIDE DEF some
<1>4. /\ d.n = tail /\ d.at = [k \in 0 .. tail |-> structural_indexes[k]]
      /\ d.padding = "other" /\ d.first = some(text[1])
      /\ \A k \in 0 .. tail - 1 : d.char[k] = some(text[structural_indexes[k] + 1])
      /\ \A k \in 0 .. tail - 1 : d.size[k] = 0
      /\ d.char \in [0 .. tail - 1 -> Stage2!Char] /\ d.size \in [0 .. tail - 1 -> Nat]
  BY <1>2
<1> HIDE DEF d
<1>5. structural_indexes[0] = 0 => d.first = d.char[0]
  <2>1. 0 \in 0 .. tail - 1 /\ 0 + 1 = 1
    BY <1>3
  <2> QED BY <1>4, <2>1
<1>6. ASSUME NEW k \in 0 .. tail - 1, NEW c \in 1 .. len, structural_indexes[k] + 1 < c
      PROVE  d.size[k] <= c - structural_indexes[k] - 2
  <2>1. structural_indexes[k] \in Int /\ c \in Int
    BY <1>3
  <2>2. c - structural_indexes[k] - 2 >= 0
    BY <1>6, <2>1
  <2>3. d.size[k] = 0
    BY <1>4
  <2> QED BY <2>2, <2>3
<1>7. d.padding \in Stage2!Char
  BY <1>4 DEF Stage2!Char
<1>8. HasLeft(d)
  BY <1>2, <1>4, <1>5, <1>6, <1>7 DEF HasLeft
<1> QED BY <1>8

\* json_structural_indexer::finish and json_iterator::walk_document: of any file
\* that is accepted, what stage 1 has left is a document as Walk.tla has it, so
\* that all that WalkProofs shows of documents it shows of files.
THEOREM StageOneLeavesDocuments ==
  ScanSpec => [](scan_error = "none" =>
                   (\E d : HasLeft(d)) /\ \A d : HasLeft(d) => Stage2!IsDocument(d))
<1>1. ASSUME ScanInv, ReadyToWalk, scan_error = "none", NEW d, HasLeft(d)
      PROVE  Stage2!IsDocument(d)
  <2>1. /\ text \in Files /\ len \in Nat /\ tail \in Nat /\ tail > 0
        /\ \A i \in 0 .. tail - 1 : structural_indexes[i] \in 0 .. len - 1
        /\ \A i, j \in 0 .. tail - 1 : i < j => structural_indexes[i] < structural_indexes[j]
        /\ structural_indexes[tail] = len
    BY <1>1, AtTheEnd DEF ReadyToWalk
  <2>2. /\ \A i \in 0 .. tail : structural_indexes[i] \in Nat
        /\ \A i, j \in 0 .. tail : i < j => structural_indexes[i] < structural_indexes[j]
    <3>1. \A i \in 0 .. tail : i \in 0 .. tail - 1 \/ i = tail
      BY <2>1
    <3>2. \A i \in 0 .. tail - 1 : structural_indexes[i] \in Nat /\ structural_indexes[i] < len
      BY <2>1
    <3>3. \A i, j \in 0 .. tail : i < j => i \in 0 .. tail - 1
      BY <2>1
    <3> QED BY <2>1, <3>1, <3>2, <3>3
  <2>3. \A i, j \in 0 .. tail : i <= j =>
          structural_indexes[i] + (j - i) <= structural_indexes[j]
    BY <2>1, <2>2, AscendingApart
  <2>4. /\ d.n = tail
        /\ \A k \in 0 .. tail : d.at[k] = structural_indexes[k]
        /\ d.at \in [0 .. tail -> Nat]
        /\ d.char \in [0 .. tail - 1 -> Stage2!Char] /\ d.size \in [0 .. tail - 1 -> Nat]
        /\ d.padding \in Stage2!Char
    BY <1>1, <2>2 DEF HasLeft
  <2>5. d.first \in {d.char[0], "other"}
    <3>1. CASE structural_indexes[0] = 0
      BY <1>1, <3>1 DEF HasLeft
    <3>2. CASE structural_indexes[0] # 0
      <4>1. 0 \in 0 .. tail /\ structural_indexes[0] \in Nat
        BY <2>1, <2>2
      <4>2. text[1] \in {"space", "newline"}
        BY <1>1, <3>2, <4>1 DEF ReadyToWalk
      <4>3. ReadAs(text[1]) = {"other"}
        BY <4>2 DEF ReadAs
      <4> QED BY <1>1, <4>3 DEF HasLeft
    <3> QED BY <3>1, <3>2
  <2>6. ASSUME NEW j \in 0 .. tail, NEW k \in 0 .. tail, j < k
        PROVE  d.at[j] + (IF d.char[j] = "string" THEN 2 + d.size[j] ELSE 1) + (k - j - 1)
                 <= d.at[k]
    <3>1. PICK a \in Nat : a = structural_indexes[j]
      BY <2>2
    <3>2. PICK b \in Nat : b = structural_indexes[k]
      BY <2>2
    <3>3. PICK c \in Nat : c = structural_indexes[j + 1]
      <4>1. j + 1 \in 0 .. tail
        BY <2>1, <2>6
      <4> QED BY <2>2, <4>1
    <3>4. d.at[j] = a /\ d.at[k] = b /\ j \in 0 .. tail - 1
      BY <2>1, <2>4, <2>6, <3>1, <3>2
    <3>5. c + (k - j - 1) <= b
      <4>1. j + 1 \in 0 .. tail /\ j + 1 <= k /\ k - (j + 1) = k - j - 1
        BY <2>1, <2>6
      <4>2. c + (k - (j + 1)) <= b
        BY <2>3, <3>2, <3>3, <4>1
      <4> QED BY <4>1, <4>2
    <3>6. a + 1 <= c
      <4>1. j + 1 \in 0 .. tail /\ j < j + 1
        BY <2>1, <2>6
      <4> QED BY <2>2, <3>1, <3>3, <4>1
    <3>7. CASE d.char[j] # "string"
      BY <3>4, <3>5, <3>6, <3>7
    <3>8. CASE d.char[j] = "string"
      <4>1. text[structural_indexes[j] + 1] = "quote"
        <5>1. d.char[j] \in ReadAs(text[structural_indexes[j] + 1])
          BY <1>1, <3>4 DEF HasLeft
        <5> QED BY <3>8, <5>1 DEF ReadAs, Stage2!Opening, Stage2!Closing
      <4>2. PICK e \in a + 2 .. c : EndsString(e)
        BY <1>1, <3>1, <3>3, <3>4, <4>1 DEF ReadyToWalk
      <4>3. c <= len
        <5>1. j + 1 \in 0 .. tail /\ tail \in 0 .. tail
          BY <2>1, <3>4
        <5>2. structural_indexes[j + 1] <= structural_indexes[tail]
          BY <2>1, <2>2, <5>1
        <5> QED BY <2>1, <3>3, <5>2
      <4>4. e \in 1 .. len /\ a + 1 < e
        BY <2>1, <4>2, <4>3
      <4>5. PICK n \in Nat : n = d.size[j]
        BY <2>4, <3>4
      <4>6. n <= e - a - 2
        BY <1>1, <3>1, <3>4, <3>8, <4>2, <4>4, <4>5 DEF HasLeft
      <4>7. a + (2 + n) <= c
        BY <4>2, <4>6
      <4> QED BY <3>4, <3>5, <3>8, <4>5, <4>7
    <3> QED BY <3>7, <3>8
  <2>7. \A j, k \in 0 .. d.n : j < k =>
          d.at[j] + (IF d.char[j] = "string" THEN 2 + d.size[j] ELSE 1) + (k - j - 1) <= d.at[k]
    <3>1. d.n = tail
      BY <2>4
    <3> QED BY <2>6, <3>1
  <2>8. /\ d.n \in Nat \ {0}
        /\ d.char \in [0 .. d.n - 1 -> Stage2!Char]
        /\ d.at \in [0 .. d.n -> Nat]
        /\ d.size \in [0 .. d.n - 1 -> Nat]
    BY <2>1, <2>4
  <2> QED BY <2>4, <2>5, <2>7, <2>8, Zenon DEF Stage2!IsDocument
<1>2. ScanInv /\ ReadyToWalk =>
        (scan_error = "none" =>
           (\E d : HasLeft(d)) /\ \A d : HasLeft(d) => Stage2!IsDocument(d))
  BY <1>1, SomethingLeft
<1> QED BY <1>2, ScanKeeps, WalkIsReady, PTL

=============================================================================

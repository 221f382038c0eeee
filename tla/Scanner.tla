------------------------------ MODULE Scanner ------------------------------
(***************************************************************************)
(* Stage 1 of the JSON parser that parse_json_filename runs: simdjson's    *)
(* json_structural_indexer, as the haswell kernel drives it, which finds   *)
(* the places of the structural characters for the walk.  It takes the     *)
(* file a block at a time and treats each with operations on whole masks,  *)
(* so that three carries are all that one block knows of those before it;  *)
(* the places found in a block are written when the next one is scanned.   *)
(*                                                                         *)
(* A mask is the set of its one bits.  A character is its class: "quote",  *)
(* "backslash", "op" for the six operators, "space", "newline" for the     *)
(* white space below 0x20, "control" for other control characters, "ff"    *)
(* for the two of those that classify takes for operators, and "letter".   *)
(* The check of UTF-8 that runs along is left out.                         *)
(***************************************************************************)
EXTENDS Integers, Sequences, FiniteSets

CONSTANTS
  Files,   \* texts, sequences of characters
  W,       \* characters of a block, bits of a mask (64)
  Batch    \* entries bit_indexer writes at once (8)

Characters == {"quote", "backslash", "op", "space", "newline", "control", "ff", "letter"}

\* The masks of find_escaped_branchless need blocks of an even length.
ASSUME FilesAssumption == \A file \in Files : file \in Seq(Characters)
ASSUME BlockAssumption == W \in Nat \ {0} /\ W % 2 = 0 /\ Batch \in 2 .. W

VARIABLES
  text,                  \* the file
  block,                 \* the number of the next block
  prev_escaped, prev_in_string, prev_scalar,   \* the carries
  prev_structurals,      \* the mask of the last block, not yet written
  unescaped_chars_error, \* a control character has been seen in a string
  structural_indexes,    \* as far as it was ever written
  tail,                  \* entries in use
  scan_error             \* what index() returned, "scanning" before it does

scan_vars == <<text, block, prev_escaped, prev_in_string, prev_scalar,
               prev_structurals, unescaped_chars_error, structural_indexes,
               tail, scan_error>>

len == Len(text)

-----------------------------------------------------------------------------
(* Masks.                                                                  *)

Mask == 0 .. W - 1

Carry(bit)  == IF bit THEN {0} ELSE {}
Shl(bits)   == {b + 1 : b \in bits} \cap Mask
Xor(a, b)   == (a \ b) \cup (b \ a)

\* Where a one is carried to when a and b are added as integers: from a place
\* where both have a bit, over places where one of them has.
Carries(a, b) ==
  {n \in 0 .. W : \E m \in 0 .. n - 1 : m \in a \cap b /\ \A k \in m + 1 .. n - 1 : k \in a \cup b}

Plus(a, b) == Xor(Xor(a, b), Carries(a, b)) \cap Mask

\* Each bit tells whether an odd number of those up to it are set.
prefix_xor(bits) == {b \in Mask : Cardinality({c \in bits : c <= b}) % 2 = 1}

-----------------------------------------------------------------------------
(* The scanner, on one block.                                              *)

\* The block at hand, filled up with spaces behind the end of the file.
In(classes) ==
  {b \in Mask : LET i == block * W + b + 1 IN
                (IF i <= len THEN text[i] ELSE "space") \in classes}

\* Characters behind a backslash that is not itself escaped, by adding the
\* series of backslashes that start on odd bits: each carries over its end.
find_escaped_branchless(all) ==
  LET backslash == all \ Carry(prev_escaped)
      follows   == Shl(backslash) \cup Carry(prev_escaped)
      even      == {b \in Mask : b % 2 = 0}
      starts    == (backslash \ even) \ follows
  IN [escaped  |-> Xor(even, Shl(Plus(starts, backslash))) \cap follows,
      overflow |-> W \in Carries(starts, backslash)]

\* As if no series went on into the next block.
find_escaped_NoOverflow(all) == [find_escaped_branchless(all) EXCEPT !.overflow = FALSE]

find_escaped(all) == find_escaped_branchless(all)

quote     == In({"quote"}) \ find_escaped(In({"backslash"})).escaped
in_string == Xor(prefix_xor(quote), IF prev_in_string THEN Mask ELSE {})

whitespace == In({"space", "newline"})
op         == In({"op", "ff"})
scalar     == Mask \ (op \cup whitespace)

nonquote_scalar == scalar \ quote

follows_nonquote_scalar == Shl(nonquote_scalar) \cup Carry(prev_scalar)

\* Operators and the starts of scalars, but nothing of a string behind its
\* first quote.
structural_start ==
  (op \cup (scalar \ follows_nonquote_scalar)) \ Xor(in_string, quote)

\* Without the strings that go on from the block before.
non_quote_inside_string_SameBlock(mask) == mask \cap prefix_xor(quote)
non_quote_inside_string(mask)           == mask \cap in_string

-----------------------------------------------------------------------------
(* The indexer.                                                            *)

\* bit_indexer::write stores whole batches, twice at most, before it looks at
\* the number of bits; of a mask that has none left it stores idx + W.
Stored(cnt) == IF cnt = 0 THEN 0
               ELSE IF cnt <= Batch THEN Batch
               ELSE IF cnt <= 2 * Batch THEN 2 * Batch
               ELSE cnt

\* The bits in their order, as trailing_zeroes and clear_lowest_bit find them.
Ascending(bits) ==
  LET cnt == Cardinality(bits) IN
  CHOOSE s \in [1 .. cnt -> bits] :
    /\ \A i, j \in 1 .. cnt : i < j => s[i] < s[j]
    /\ \A b \in bits : \E i \in 1 .. cnt : s[i] = b

\* f with the entries of g stored into it.
Overwrite(f, g) ==
  [i \in DOMAIN f \cup DOMAIN g |-> IF i \in DOMAIN g THEN g[i] ELSE f[i]]

write(idx, bits) ==
  LET cnt    == Cardinality(bits)
      sorted == Ascending(bits)
      stored == [i \in tail .. tail + Stored(cnt) - 1 |->
                   idx + (IF i < tail + cnt THEN sorted[i - tail + 1] ELSE W)]
  IN [indexes |-> Overwrite(structural_indexes, stored), tail |-> tail + cnt]

\* set_capacity, for a file of n characters and one entry more.
max_structures_OneMore(n) == ((n + W - 1) \div W) * W + 1

\* set_capacity, for a file of n characters.
max_structures(n) == ((n + W - 1) \div W) * W + 2 + (Batch - 1)

\* buf_block_reader hands out steps of two blocks; the last one has a
\* character at least.
Blocks == 2 * ((len + 2 * W - 1) \div (2 * W))

Step ==
  /\ scan_error = "scanning" /\ block < Blocks
  /\ block' = block + 1
  /\ prev_escaped' = find_escaped(In({"backslash"})).overflow
  /\ prev_in_string' = (W - 1 \in in_string)
  /\ prev_scalar' = (W - 1 \in nonquote_scalar)
  /\ LET written == write((block - 1) * W, prev_structurals) IN
       structural_indexes' = written.indexes /\ tail' = written.tail
  /\ prev_structurals' = structural_start
  /\ unescaped_chars_error' =
       (unescaped_chars_error
          \/ non_quote_inside_string(In({"newline", "control", "ff"})) # {})
  /\ UNCHANGED <<text, scan_error>>

\* Two entries behind the structural characters.
Sentinels_Two(n) == [i \in n .. n + 1 |-> len]

\* The three entries behind the structural characters.
Sentinels(n) == [i \in n .. n + 2 |-> IF i < n + 2 THEN len ELSE 0]

Finish ==
  /\ scan_error = "scanning" /\ block = Blocks
  /\ LET written == write((block - 1) * W, prev_structurals)
         failed  == prev_in_string \/ unescaped_chars_error
     IN /\ tail' = written.tail
        /\ structural_indexes' =
             IF failed THEN written.indexes ELSE Overwrite(written.indexes, Sentinels(tail'))
        /\ scan_error' = CASE prev_in_string        -> "UNCLOSED_STRING"
                           [] ~prev_in_string /\ unescaped_chars_error -> "UNESCAPED_CHARS"
                           [] ~failed /\ tail' = 0  -> "EMPTY"
                           [] OTHER                 -> "none"
  /\ UNCHANGED <<text, block, prev_escaped, prev_in_string, prev_scalar,
                 prev_structurals, unescaped_chars_error>>

\* index() returns at once for a file of no characters.
ScanInit ==
  /\ text \in Files /\ text # <<>>
  /\ block = 0
  /\ prev_escaped = FALSE /\ prev_in_string = FALSE /\ prev_scalar = FALSE
  /\ prev_structurals = {}
  /\ unescaped_chars_error = FALSE
  /\ structural_indexes = <<>> /\ tail = 0
  /\ scan_error = "scanning"

ScanNext == Step \/ Finish

ScanSpec == ScanInit /\ [][ScanNext]_scan_vars

-----------------------------------------------------------------------------
(* The lexer stage 1 stands for: one character after the other.            *)

After(state, c) ==
  CASE state = "escape"                                    -> "string"
    [] state = "string" /\ c = "backslash"                 -> "escape"
    [] state = "string" /\ c = "quote"                     -> "out"
    [] state = "string" /\ c \notin {"backslash", "quote"} -> "string"
    [] state \in {"out", "scalar"} /\ c = "quote"          -> "string"
    [] state \in {"out", "scalar"} /\ c \in {"op", "ff", "space", "newline"} -> "out"
    [] OTHER                                               -> "scalar"

\* The state behind each character, Lexed[0] being the one before the first.
Lexed[i \in 0 .. len] == IF i = 0 THEN "out" ELSE After(Lexed[i - 1], text[i])
Before(i) == Lexed[i - 1]

\* What no JSON text has: a backslash outside of a string, or a string right
\* behind a scalar.
Stray(i) == \/ text[i] = "backslash" /\ Before(i) \in {"out", "scalar"}
            \/ text[i] = "quote" /\ Before(i) = "scalar"

TokenStart(i) ==
  \/ text[i] \in {"op", "ff"} /\ Before(i) \in {"out", "scalar"}
  \/ text[i] \in {"quote", "backslash", "letter", "control"} /\ Before(i) = "out"

Clean == \A i \in 1 .. len : ~Stray(i)

\* The characters before the first stray one, and that one.
Sound == {i \in 1 .. len : \A j \in 1 .. i - 1 : ~Stray(j)}

Raw(i) == text[i] \in {"newline", "control", "ff"} /\ Before(i) \in {"string", "escape"}

Found == {structural_indexes[i] + 1 : i \in 0 .. tail - 1}

-----------------------------------------------------------------------------
\* simdjson.cpp:9833, 9868, 10015: wherever the ends of the blocks fall, the
\* characters found are the starts of the tokens, in their order, up to the
\* first character no JSON text has; the token that one is in is found.
FindsTokens ==
  scan_error = "none" =>
    /\ \A i \in 0 .. tail - 2 : structural_indexes[i] < structural_indexes[i + 1]
    /\ Found \cap Sound = {i \in Sound : TokenStart(i)}
    /\ \A i \in Sound : Stray(i) => \E j \in 1 .. i : j \in Found /\ \A k \in j .. i - 1 :
                                      Before(k + 1) = "scalar"

\* simdjson.cpp:10496: a file without strays is refused when it ends within a
\* string, when a string has a control character, or when it has no tokens.
RefusesStrings ==
  (scan_error # "scanning" /\ Clean) =>
    LET open == Lexed[len] \in {"string", "escape"}
        raw  == \E i \in 1 .. len : Raw(i)
    IN scan_error = CASE open                          -> "UNCLOSED_STRING"
                      [] ~open /\ raw                  -> "UNESCAPED_CHARS"
                      [] ~open /\ ~raw /\ \A i \in 1 .. len : ~TokenStart(i) -> "EMPTY"
                      [] OTHER                         -> "none"

\* simdjson.h:16244: the entries written in whole batches, and those behind
\* the last one, are within what set_capacity allocated.
IndexesFit == \A i \in DOMAIN structural_indexes : i < max_structures(len)

\* Behind an odd number of backslashes.
AfterBackslash(i) ==
  Cardinality({j \in 1 .. i - 1 : \A k \in j .. i - 1 : text[k] = "backslash"}) % 2 = 1

\* A quote that is not escaped ends the string it is in.
EndsString(i) == text[i] = "quote" /\ ~AfterBackslash(i)

\* simdjson.cpp:10519: what the walk takes for granted of any file, a broken one
\* included: the characters it is sent to are in the file and a step apart, a
\* string is over before the next of them, nothing but white space is before the
\* first, and the three entries behind them are written.
ReadyToWalk ==
  scan_error = "none" =>
    /\ tail > 0
    /\ \A i \in 0 .. tail - 1 : structural_indexes[i] \in i .. len - 1
    /\ 0 .. tail + 2 \subseteq DOMAIN structural_indexes
    /\ structural_indexes[tail] = len /\ structural_indexes[tail + 1] = len
    /\ structural_indexes[tail + 2] = 0
    /\ \A i \in 0 .. tail - 1 : text[structural_indexes[i] + 1] = "quote" =>
         \E c \in structural_indexes[i] + 2 .. structural_indexes[i + 1] : EndsString(c)
    /\ text[1] \in {"space", "newline"} <=> structural_indexes[0] > 0

=============================================================================

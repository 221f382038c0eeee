--------------------------- MODULE StringParsing ---------------------------
(***************************************************************************)
(* stringparsing::parse_string of simdjson, which the walk calls for each  *)
(* string: it copies the string into the buffer of the document a vector   *)
(* at a time, without looking first, and then finds out from the quotes    *)
(* and backslashes of the vector how much of it to keep.                   *)
(*                                                                         *)
(* A byte is its class: "quote", "backslash", "u", "n" for what else makes *)
(* an escape, "b" for the two letters that do and are digits, "x" for the  *)
(* rest, or a hexadecimal digit; one of Leads stands for what the four     *)
(* digits it begins make up.  What is in the buffer is told by where it    *)
(* comes from: <<"raw", i>> is the byte at i, <<"escape", i>> what it      *)
(* stands for behind a backslash, and <<"utf8", i>> a byte of the code     *)
(* point written at i.                                                     *)
(***************************************************************************)
EXTENDS Integers, Sequences

CONSTANTS
  Strings,   \* the strings: their bytes from behind the quote on
  Vector,    \* BYTES_PROCESSED (32)
  Padding    \* bytes that may be read behind the file (SIMDJSON_PADDING)

Leads  == {"ascii", "two", "three", "high", "low"}
Digits == Leads \cup {"digit", "b"}
Escapes == {"quote", "backslash", "n", "b"}   \* with a result in escape_map
Bytes  == Digits \cup Escapes \cup {"u", "x"}

\* The places up to the n-th of the bytes that a backslash in front takes.
Escaped(chars, n) ==
  LET escaped[i \in 0 .. n] == i > 0 /\ chars[i] = "backslash" /\ ~escaped[i - 1]
  IN {i \in 0 .. n : escaped[i]}

\* s.chars are the bytes to the end of the file, the quote that ends the string
\* being at s.close: the first one that is not escaped, as stage 1 found it.
IsString(s) ==
  /\ s.chars \in Seq(Bytes) /\ s.close \in 0 .. Len(s.chars) - 1
  /\ \A i \in 0 .. s.close : s.chars[i + 1] = "quote" =>
       (i \in Escaped(s.chars, s.close) <=> i # s.close)
  /\ s.chars[s.close + 1] = "quote"

\* The padding is that of copy_and_find, and enough for the digits of an escape
\* that the closing quote cuts.
ASSUME StringsAssumption == \A s \in Strings : IsString(s)
ASSUME VectorAssumption == Vector \in Nat \ {0} /\ Padding \in Nat
                             /\ Padding >= Vector - 1 /\ Padding >= 3

VARIABLES
  str,      \* the string
  src, dst, \* the two pointers
  out,      \* the buffer, as far as it was written
  seen,     \* the last byte that was read
  parsed    \* what was returned: "parsing", "nullptr" or "ok" with dst

string_vars == <<str, src, dst, out, seen, parsed>>

-----------------------------------------------------------------------------
\* The byte at i; behind the file are Padding bytes.
At(i) == IF i < Len(str.chars) THEN str.chars[i + 1] ELSE "padding"

\* hex_to_u32_nocheck of the four bytes at i.
hex_to_u32_nocheck(i) ==
  IF At(i) \in Leads /\ \A j \in 1 .. 3 : At(i + j) \in Digits THEN At(i) ELSE "invalid"

\* Bytes of a code point as UTF-8.
codepoint_to_utf8(c) == CASE c = "ascii" -> 1 [] c = "two" -> 2 [] c = "three" -> 3
                          [] c = "pair"  -> 4 [] OTHER     -> 0

\* The buffer with the given cells written from d on.
Overwritten(buffer, d, cells) ==
  [i \in DOMAIN buffer \cup {d + j : j \in DOMAIN cells} |->
     IF i - d \in DOMAIN cells THEN cells[i - d] ELSE buffer[i]]

\* The escape at i: the code point, the bytes it takes, and the last one read.
\* A high surrogate needs a low one behind it.
handle_unicode_codepoint(i) ==
  LET first == hex_to_u32_nocheck(i + 2) IN
  CASE first = "high" /\ At(i + 6) = "backslash" /\ At(i + 7) = "u" ->
         [code  |-> IF hex_to_u32_nocheck(i + 8) = "low" THEN "pair" ELSE "invalid",
          bytes |-> 12, last |-> i + 11]
    [] first = "high" /\ ~(At(i + 6) = "backslash" /\ At(i + 7) = "u") ->
         [code |-> "invalid", bytes |-> 6, last |-> i + 7]
    [] first = "low" -> [code |-> "invalid", bytes |-> 6, last |-> i + 5]
    [] OTHER         -> [code |-> first, bytes |-> 6, last |-> i + 5]

-----------------------------------------------------------------------------
(* One turn of the loop: a vector is copied, then one of three things.     *)

Window == 0 .. Vector - 1
Places(c) == {j \in Window : At(src + j) = c}
Lowest(places) == CHOOSE j \in places : \A k \in places : j <= k

\* Any quote, wherever the backslashes are.
has_quote_first_Any == Places("quote") # {}

\* A quote below the lowest backslash, and the other way round.
has_quote_first == \E q \in Places("quote") : \A b \in Places("backslash") : q < b
has_backslash   == \E b \in Places("backslash") : \A q \in Places("quote") : b < q

copied == Overwritten(out, dst, [j \in Window |-> <<"raw", src + j>>])
Sees(i) == seen' = IF i > seen THEN i ELSE seen

Return(result) == parsed' = result /\ UNCHANGED <<str, src>>

AtQuote ==
  /\ has_quote_first
  /\ out' = copied /\ dst' = dst + Lowest(Places("quote"))
  /\ Sees(src + Vector - 1)
  /\ Return("ok")

\* The escaped character may lie behind the vector.
AtEscape ==
  LET b == Lowest(Places("backslash")) IN
  /\ has_backslash /\ At(src + b + 1) # "u"
  /\ Sees(IF src + Vector - 1 > src + b + 1 THEN src + Vector - 1 ELSE src + b + 1)
  /\ \/ /\ At(src + b + 1) \in Escapes
        /\ out' = Overwritten(copied, dst + b, [j \in {0} |-> <<"escape", src + b + 1>>])
        /\ src' = src + b + 2 /\ dst' = dst + b + 1 /\ UNCHANGED <<str, parsed>>
     \/ /\ At(src + b + 1) \notin Escapes
        /\ out' = copied /\ dst' = dst /\ Return("nullptr")

AtCodePoint ==
  LET b == Lowest(Places("backslash"))
      u == handle_unicode_codepoint(src + b)
      n == codepoint_to_utf8(u.code)
  IN /\ has_backslash /\ At(src + b + 1) = "u"
     /\ Sees(IF src + Vector - 1 > u.last THEN src + Vector - 1 ELSE u.last)
     /\ out' = Overwritten(copied, dst + b, [j \in 0 .. n - 1 |-> <<"utf8", src + b>>])
     /\ \/ /\ n > 0
           /\ src' = src + b + u.bytes /\ dst' = dst + b + n /\ UNCHANGED <<str, parsed>>
        \/ /\ n = 0
           /\ dst' = dst /\ Return("nullptr")

\* The quotes not looked for.
AtNeither_PastQuote ==
  /\ ~has_backslash
  /\ out' = copied
  /\ src' = src + Vector /\ dst' = dst + Vector
  /\ Sees(src + Vector - 1) /\ UNCHANGED <<str, parsed>>

AtNeither ==
  /\ ~has_quote_first /\ ~has_backslash
  /\ out' = copied
  /\ src' = src + Vector /\ dst' = dst + Vector
  /\ Sees(src + Vector - 1) /\ UNCHANGED <<str, parsed>>

parse_string == parsed = "parsing" /\ (AtQuote \/ AtEscape \/ AtCodePoint \/ AtNeither)

StringInit ==
  /\ str \in Strings
  /\ src = 0 /\ dst = 0 /\ out = <<>> /\ seen = -1 /\ parsed = "parsing"

StringSpec == StringInit /\ [][parse_string]_string_vars

-----------------------------------------------------------------------------
\* What JSON makes of the bytes at i, and where those behind them begin; it
\* makes nothing of an escape it does not have.
Item(i) ==
  LET u == handle_unicode_codepoint(i) IN
  CASE At(i) # "backslash" -> [bytes |-> <<<<"raw", i>>>>, next |-> i + 1]
    [] At(i) = "backslash" /\ At(i + 1) \in Escapes ->
         [bytes |-> <<<<"escape", i + 1>>>>, next |-> i + 2]
    [] At(i) = "backslash" /\ At(i + 1) = "u" ->
         [bytes |-> [j \in 1 .. codepoint_to_utf8(u.code) |-> <<"utf8", i>>], next |-> i + u.bytes]
    [] OTHER -> [bytes |-> <<>>, next |-> i + 1]

\* What it makes of the string from i on, and whether it makes something of all.
Unescaped[i \in Nat] ==
  IF i >= str.close THEN [ok |-> i = str.close, bytes |-> <<>>]
  ELSE LET rest == Unescaped[Item(i).next] IN
       [ok |-> Item(i).bytes # <<>> /\ rest.ok, bytes |-> Item(i).bytes \o rest.bytes]

-----------------------------------------------------------------------------
\* simdjson.cpp:10772: wherever the vectors end, within an escape or between
\* the two of a pair, the buffer holds what the string says, and a string is
\* refused for a bad escape and for nothing else.
UnescapesString ==
  /\ parsed = "ok" =>
       Unescaped[0].ok /\ [i \in 1 .. dst |-> out[i - 1]] = Unescaped[0].bytes
  /\ parsed = "nullptr" => ~Unescaped[0].ok

\* simdjson.cpp:10768, simdjson.h:16939: the buffer is sized by the file, so a
\* string takes no more of it than of the file, and no more than a vector is
\* stored behind; and only as many bytes behind the file are read as a vector
\* has behind its first one.
StaysInItsBuffers ==
  /\ dst <= src + (IF parsed = "ok" THEN Vector - 1 ELSE 0)
  /\ parsed = "ok" => dst <= str.close
  /\ \A i \in DOMAIN out : i < str.close + Vector
  /\ seen < Len(str.chars) + Padding

=============================================================================

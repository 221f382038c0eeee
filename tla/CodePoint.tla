----------------------------- MODULE CodePoint -----------------------------
(***************************************************************************)
(* The arithmetic of handle_unicode_codepoint in simdjson, which           *)
(* StringParsing leaves out: what two escapes of a surrogate pair come to, *)
(* and the bytes a code point is written as, against the encodings of the  *)
(* Unicode standard.  There every number is the class its range makes it.  *)
(***************************************************************************)
EXTENDS StringParsing

\* What four hexadecimal digits come to.  Others make the largest uint32_t;
\* here any number above the code points and the pairs stands for it.
IsUnit(u) == u \in Nat /\ u <= 65535
NoUnit    == 16777215

IsHigh(u) == u >= 55296 /\ u < 56320    \* 0xd800, 0xdc00
IsLow(u)  == u >= 56320 /\ u <= 57343   \* 0xdfff

\* The class StringParsing has for what four digits come to, and for what one
\* or two of them make.
Lead(u) ==
  IF u <= 127 THEN "ascii" ELSE IF u <= 2047 THEN "two"
  ELSE IF IsHigh(u) THEN "high" ELSE IF IsLow(u) THEN "low"
  ELSE IF u <= 65535 THEN "three" ELSE "invalid"

Class(c) == IF c > 65535 THEN "pair" ELSE Lead(c)

\* The second of a pair is a low surrogate when no bit above the tenth is left
\* of the difference.  Below zero, where the code wraps, some are left as well.
low_bit(second) == second - 56320
IsPair(second)  == low_bit(second) \div 1024 = 0

combined(high, second) == (high - 55296) * 1024 + low_bit(second) + 65536

uint8(n) == n % 256

\* codepoint_to_utf8, with the bytes it writes.
utf8(cp) ==
  IF cp <= 127 THEN <<uint8(cp)>>
  ELSE IF cp <= 2047 THEN <<uint8((cp \div 64) + 192), uint8((cp % 64) + 128)>>
  ELSE IF cp <= 65535 THEN
    <<uint8((cp \div 4096) + 224), uint8(((cp \div 64) % 64) + 128),
      uint8((cp % 64) + 128)>>
  ELSE IF cp <= 1114111 THEN
    <<uint8((cp \div 262144) + 240), uint8(((cp \div 4096) % 64) + 128),
      uint8(((cp \div 64) % 64) + 128), uint8((cp % 64) + 128)>>
  ELSE << >>

-----------------------------------------------------------------------------
(* The encodings.                                                          *)

IsScalarValue(c) == c \in Nat /\ c <= 1114111 /\ ~IsHigh(c) /\ ~IsLow(c)

\* The sequences of bytes that are UTF-8: no code point in more bytes than it
\* needs, no surrogate, and none above the last one.
Continues(b, n) == b[n] \in 128 .. 191
WellFormed(b) ==
  \/ Len(b) = 1 /\ b[1] \in 0 .. 127
  \/ Len(b) = 2 /\ b[1] \in 194 .. 223 /\ Continues(b, 2)
  \/ /\ Len(b) = 3 /\ b[1] \in 224 .. 239 /\ Continues(b, 2) /\ Continues(b, 3)
     /\ b[1] = 224 => b[2] >= 160
     /\ b[1] = 237 => b[2] < 160
  \/ /\ Len(b) = 4 /\ b[1] \in 240 .. 244
     /\ Continues(b, 2) /\ Continues(b, 3) /\ Continues(b, 4)
     /\ b[1] = 240 => b[2] >= 144
     /\ b[1] = 244 => b[2] < 144

\* The code point such a sequence is: what is left of its bytes without the
\* marks of their places, put together.
Decoded(b) ==
  IF Len(b) = 1 THEN b[1]
  ELSE IF Len(b) = 2 THEN (b[1] - 192) * 64 + (b[2] - 128)
  ELSE IF Len(b) = 3 THEN ((b[1] - 224) * 64 + (b[2] - 128)) * 64 + (b[3] - 128)
  ELSE (((b[1] - 240) * 64 + (b[2] - 128)) * 64 + (b[3] - 128)) * 64
         + (b[4] - 128)

\* The two units of a code point above the first 65536.
Utf16(c) == <<55296 + ((c - 65536) \div 1024), 56320 + ((c - 65536) % 1024)>>

\* simdjson.h:16773: every code point is written as the UTF-8 that reads back as
\* it, in as many bytes as StringParsing has for its class.
WritesUtf8(c) ==
  /\ WellFormed(utf8(c)) /\ Decoded(utf8(c)) = c
  /\ Len(utf8(c)) = codepoint_to_utf8(Class(c))

\* simdjson.cpp:10702: behind a high surrogate nothing but a low one makes a
\* pair, and the pair is the code point that has these two units.
ReadsUtf16(high, second) ==
  /\ IsPair(second) <=> IsLow(second)
  /\ IsLow(second) => LET c == combined(high, second) IN
                      IsScalarValue(c) /\ c > 65535 /\ Utf16(c) = <<high, second>>

=============================================================================

------------------------------- MODULE Number -------------------------------
(***************************************************************************)
(* numberparsing::parse_number of simdjson, on integers: the digits are    *)
(* taken one at a time into an unsigned integer of the machine, which may  *)
(* overflow, and the checks at the end tell from the number of digits, the *)
(* first one and what is left in the integer whether it did.               *)
(*                                                                         *)
(* The text is what the environment shows next.  Two history variables     *)
(* keep the number as it was written and the character behind it.  Of a    *)
(* number with a point or an exponent only the refusals in front of them   *)
(* are modelled.                                                           *)
(***************************************************************************)
EXTENDS Integers

CONSTANTS
  Modulus,    \* numbers of a uint64_t (2^64)
  Longest,    \* digits of the largest of them (20)
  MaxDigits,  \* digits of the longest text
  Pow         \* the powers of ten up to that length

Half == Modulus \div 2

ASSUME WidthAssumption == Half \in Nat \ {0} /\ Modulus = 2 * Half

ASSUME PowersAssumption ==
  /\ Longest \in Nat /\ MaxDigits \in Nat /\ 2 <= Longest /\ Longest <= MaxDigits
  /\ Pow \in [0 .. MaxDigits -> Nat] /\ Pow[0] = 1
  /\ \A n \in 0 .. MaxDigits - 1 : Pow[n + 1] = 10 * Pow[n]

\* What the comment in parse_number says of 64 bits: the largest number has
\* Longest digits and the first one is 1, the largest negative one has a digit
\* less, and what overflows with a 1 in front leaves less than INT64_MAX.
ASSUME DigitsAssumption ==
  /\ Pow[Longest - 1] < Modulus /\ Modulus <= 2 * Pow[Longest - 1]
  /\ Pow[Longest - 2] <= Half /\ Half < Pow[Longest - 1]
  /\ 2 * Pow[Longest - 1] <= Modulus + Half

VARIABLES
  negative,     \* a minus sign was seen
  i,            \* the integer
  digit_count,  \* digits seen
  first,        \* the first of them
  value,        \* history: the number in the text, without its sign
  behind,       \* history: the character behind the digits
  number        \* what was written, or why nothing is; "reading" before that

number_vars == <<negative, i, digit_count, first, value, behind, number>>

-----------------------------------------------------------------------------
Invalid == [type |-> "INVALID_NUMBER", of |-> 0]
Reading == [type |-> "reading", of |-> 0]
Float   == [type |-> "float", of |-> 0]

\* An unsigned integer kept in its type.
Narrow(n) == n % Modulus

\* An unsigned integer taken for a signed one, and ~n + 1.
Signed(n) == IF n < Half THEN n ELSE n - Modulus
Minus(n)  == Narrow(Modulus - n)

\* parse_digit, and one turn of the loop around it.
parse_digit(d) ==
  /\ number = Reading /\ digit_count < MaxDigits
  /\ i' = Narrow(10 * i + d)
  /\ digit_count' = digit_count + 1
  /\ first' = IF digit_count = 0 THEN d ELSE first
  /\ value' = 10 * value + d
  /\ UNCHANGED <<negative, behind, number>>

longest_digit_count == IF negative THEN Longest - 1 ELSE Longest

\* The check of the sign left out.
Overflowed_FirstDigit ==
  \/ digit_count > longest_digit_count
  \/ digit_count = longest_digit_count /\ ~negative /\ first # 1

\* The three checks for an overflow.
Overflowed ==
  \/ digit_count > longest_digit_count
  \/ digit_count = longest_digit_count /\ negative /\ i > Half
  \/ digit_count = longest_digit_count /\ ~negative /\ (first # 1 \/ i <= Half - 1)

\* WRITE_UNSIGNED for what is too large for a signed integer, WRITE_INTEGER for
\* the others; a negative number of the longest kind is written before the
\* comparison that decides between the two.
Written ==
  IF negative /\ digit_count = longest_digit_count
  THEN [type |-> "INT64", of |-> Signed(Minus(i))]
  ELSE IF i > Half - 1
  THEN [type |-> "UINT64", of |-> i]
  ELSE [type |-> "INT64", of |-> IF negative THEN Signed(Minus(i)) ELSE Signed(i)]

\* The first character c that is not a digit: white space or an operator, a
\* point or an exponent, or another.
End(c) ==
  /\ number = Reading
  /\ behind' = c
  /\ \/ /\ digit_count = 0 \/ (first = 0 /\ digit_count > 1)
        /\ number' = Invalid
     \/ /\ digit_count # 0 /\ ~(first = 0 /\ digit_count > 1)
        /\ number' = IF c = "float" THEN Float
                     ELSE IF Overflowed \/ c = "other" THEN Invalid
                     ELSE Written
  /\ UNCHANGED <<negative, i, digit_count, first, value>>

NumberInit ==
  /\ negative \in BOOLEAN
  /\ i = 0 /\ digit_count = 0 /\ first = 0 /\ value = 0 /\ behind = "digit"
  /\ number = Reading

NumberNext ==
  \/ \E d \in 0 .. 9 : parse_digit(d)
  \/ \E c \in {"structural", "float", "other"} : End(c)

NumberSpec == NumberInit /\ [][NumberNext]_number_vars

-----------------------------------------------------------------------------
\* The integer and the counters keep their types, however often it overflows.
NumberTypeOK ==
  /\ negative \in BOOLEAN
  /\ i \in 0 .. Modulus - 1
  /\ digit_count \in 0 .. MaxDigits
  /\ first \in 0 .. 9
  /\ value \in Nat
  /\ number.type \in {"reading", "float", "INVALID_NUMBER", "INT64", "UINT64"}

InText == IF negative THEN -value ELSE value

\* simdjson.h:17585: what is written for an integer is the number in the text,
\* as a signed integer whenever it fits in one; and an integer that stands by
\* itself and fits in 64 bits, with no zero in front, is never refused.
ReadsTheNumber ==
  /\ number.type \in {"INT64", "UINT64"} => number.of = InText
  /\ number.type = "INT64"  => -Half <= InText /\ InText < Half
  /\ number.type = "UINT64" => Half <= InText /\ InText < Modulus
  /\ number = Invalid =>
       \/ digit_count = 0 \/ (first = 0 /\ digit_count > 1)
       \/ behind = "other"
       \/ InText < -Half \/ InText >= Modulus

=============================================================================

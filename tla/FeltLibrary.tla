---------------------------- MODULE FeltLibrary ----------------------------
(***************************************************************************)
(* The felt library as a C program sees it: the wrappers of lib.rs over    *)
(* the field elements of the lambdaworks crate, called on a few buffers of *)
(* four limbs (felt_t) that the caller owns.                               *)
(*                                                                         *)
(* The crate is not in this repository.  A FieldElement is modelled by     *)
(* what docs/rust-integration.md says of it: an array of limbs in          *)
(* Montgomery form, that is the element times R modulo the prime.  What    *)
(* matters here is lib.rs: which of the two forms it writes into a buffer, *)
(* and what becomes of limbs that no call of the library has written.      *)
(*                                                                         *)
(* Base stands for 2^64.  A limb is a digit in that base.                  *)
(***************************************************************************)
EXTENDS Relocatable

CONSTANTS
  Base,     \* values of a limb (2^64)
  Prime,    \* the order of the field
  Buffer    \* the felt_t buffers of the caller

ASSUME BaseAssumption == Base \in Nat \ {0, 1} /\ Limb = 0 .. Base - 1
ASSUME PrimeAssumption ==
  /\ Prime \in Nat
  /\ Base < Prime /\ Prime < Base * Base * Base * Base
  /\ \E i \in 0 .. Prime - 1 : (Base * Base * Base * Base * i) % Prime = 1

VARIABLES
  buf,       \* the four limbs in each buffer
  written    \* the buffers whose limbs the library wrote last

felt_vars == <<buf, written>>

-----------------------------------------------------------------------------
\* The number an array of limbs stands for, and the array for a number.
Value(l) == ((l[1] * Base + l[2]) * Base + l[3]) * Base + l[4]

Limbs(n) ==
  LET n1 == n \div Base
      n2 == n1 \div Base
      n3 == n2 \div Base IN
  <<n3 % Base, n2 % Base, n1 % Base, n % Base>>

\* A FieldElement: the element times R, modulo the prime.
FieldElement == 0 .. Prime - 1

R == Base * Base * Base * Base

\* R times this is one modulo the prime.
R_inverse == CHOOSE i \in FieldElement : (R * i) % Prime = 1

FieldElement_from(n) == (n * R) % Prime

\* A reduction that may end a prime too high, without its last subtraction.
representative_Lazy(m) ==
  LET n == (m * R_inverse) % Prime IN IF n + Prime < R THEN n + Prime ELSE n

representative(m)    == (m * R_inverse) % Prime

FieldElement_add(x, y) == (x + y) % Prime
FieldElement_sub(x, y) == (x - y) % Prime
FieldElement_mul(x, y) == (x * y * R_inverse) % Prime

\* What x / y may be.  The crate decides what a zero divisor gives.
FieldElement_div(x, y) ==
  {q \in FieldElement : y # 0 => FieldElement_mul(q, y) = x}

-----------------------------------------------------------------------------
\* felt_to_limbs that takes felt.value(), the limbs in Montgomery form.
felt_to_limbs_Value(felt) == Limbs(felt)

felt_to_limbs(felt) == Limbs(representative(felt))

\* The limbs need not be below the prime.
limbs_to_felt(limbs) == FieldElement_from(Value(limbs))

\* The wrapper writes felt into result.  Both operands have been read.
Write(result, felt) ==
  /\ buf' = [buf EXCEPT ![result] = felt_to_limbs(felt)]
  /\ written' = written \cup {result}

from(result, value) == Write(result, FieldElement_from(value))
zero(result)        == Write(result, FieldElement_from(0))
one(result)         == Write(result, FieldElement_from(1))

add(a, b, result) ==
  Write(result, FieldElement_add(limbs_to_felt(buf[a]), limbs_to_felt(buf[b])))

sub(a, b, result) ==
  Write(result, FieldElement_sub(limbs_to_felt(buf[a]), limbs_to_felt(buf[b])))

mul(a, b, result) ==
  Write(result, FieldElement_mul(limbs_to_felt(buf[a]), limbs_to_felt(buf[b])))

lw_div(a, b, result) ==
  \E q \in FieldElement_div(limbs_to_felt(buf[a]), limbs_to_felt(buf[b])) :
    Write(result, q)

\* A buffer no call has written holds whatever its memory held.
FeltInit == buf \in [Buffer -> felt_t] /\ written = {}

FeltNext ==
  \/ \E r \in Buffer :
       \/ \E value \in 0 .. Base - 1 : from(r, value)
       \/ zero(r) \/ one(r)
  \/ \E a, b, r \in Buffer :
       add(a, b, r) \/ sub(a, b, r) \/ mul(a, b, r) \/ lw_div(a, b, r)

FeltSpec == FeltInit /\ [][FeltNext]_felt_vars

-----------------------------------------------------------------------------
\* Limbs that the library wrote are those of a number below the prime, and all
\* buffers are arrays of four limbs (lambdaworks.h:8-11).
FeltTypeOK ==
  /\ buf \in [Buffer -> felt_t]
  /\ written \subseteq Buffer
  /\ \A b \in written : Value(buf[b]) < Prime

\* utils.c:3: felt_equal compares limbs, and stands for equality in the field.
\* It is that for buffers the library has written, whatever was computed, and
\* from whatever limbs.
EqualIsSameElement ==
  \A a, b \in written :
    felt_equal(buf[a], buf[b]) <=> Value(buf[a]) % Prime = Value(buf[b]) % Prime

\* A chain of calls computes in the field: each buffer is a register holding
\* its number modulo the prime, results can be operands of later calls, and a
\* result may overwrite an operand.
Field == INSTANCE FieldRegisters WITH
           Register <- Buffer, Word <- 0 .. Base - 1,
           element <- [b \in Buffer |-> Value(buf[b]) % Prime]
ComputesInField == Field!Spec

=============================================================================

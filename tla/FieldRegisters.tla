--------------------------- MODULE FieldRegisters ---------------------------
(***************************************************************************)
(* What the felt library promises its C caller: registers that hold        *)
(* elements of the prime field, with no limbs and no representation.  An   *)
(* operation replaces the element of one register and no other, whichever  *)
(* registers its operands are.                                             *)
(***************************************************************************)
EXTENDS Integers

CONSTANTS
  Register,   \* names of registers
  Word,       \* the numbers a caller can ask for (uint64_t)
  Prime       \* order of the field

VARIABLE element   \* the field element in each register

Z == 0 .. Prime - 1

\* Register r holds v now.
Put(r, v) == element' = [element EXCEPT ![r] = v]

\* An element out of nothing: only small ones can be had so.
Constant(r) == \E n \in Word : Put(r, n % Prime)

Sum(a, b, r)        == Put(r, (element[a] + element[b]) % Prime)
Difference(a, b, r) == Put(r, (element[a] - element[b]) % Prime)
Product(a, b, r)    == Put(r, (element[a] * element[b]) % Prime)

\* A quotient by zero is some element.
Quotient(a, b, r) ==
  \E q \in Z : /\ element[b] # 0 => (q * element[b]) % Prime = element[a]
               /\ Put(r, q)

Init == element \in [Register -> Z]

Next ==
  \/ \E r \in Register : Constant(r)
  \/ \E a, b, r \in Register :
       Sum(a, b, r) \/ Difference(a, b, r) \/ Product(a, b, r) \/ Quotient(a, b, r)

Spec == Init /\ [][Next]_element

=============================================================================

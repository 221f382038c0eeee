----------------------------- MODULE FeltProofs -----------------------------
(***************************************************************************)
(* Theorems about FeltLibrary, for every prime, every base and any number  *)
(* of buffers.                                                             *)
(***************************************************************************)
EXTENDS FeltLibrary, TLAPS

-----------------------------------------------------------------------------
(* Remainders.                                                             *)

\* Division with remainder.
LEMMA Division ==
  ASSUME NEW n \in Int, NEW p \in Nat \ {0}
  PROVE  /\ n \div p \in Int /\ n % p \in 0 .. p - 1
         /\ n = p * (n \div p) + (n % p)
  OBVIOUS

\* A remainder is the only number of its range that differs from n by a
\* multiple of p.
LEMMA RemainderUnique ==
  ASSUME NEW p \in Nat \ {0}, NEW k \in Int, NEW r \in 0 .. p - 1
  PROVE  (p * k + r) % p = r /\ (p * k + r) \div p = k
<1> DEFINE n == p * k + r
<1> DEFINE q == n \div p
<1> DEFINE s == n % p
<1>1. n \in Int
  OBVIOUS
<1>2. q \in Int /\ s \in 0 .. p - 1 /\ n = p * q + s
  BY <1>1, Division
<1>3. p * (k - q) = s - r
  BY <1>2
<1> HIDE DEF q, s
<1>4. k - q = 0
  <2>1. CASE k - q >= 1
    <3>1. p * (k - q) >= p
      BY <2>1, <1>2
    <3> QED BY <3>1, <1>2, <1>3
  <2>2. CASE k - q <= -1
    <3>1. p * (k - q) <= -p
      BY <2>2, <1>2
    <3> QED BY <3>1, <1>2, <1>3
  <2> QED BY <2>1, <2>2, <1>2
<1>5. s = r
  BY <1>2, <1>3, <1>4
<1> QED BY <1>4, <1>5, <1>2 DEF q, s

\* A last digit in base p, and what is in front of it, are determined.
LEMMA LastDigit ==
  ASSUME NEW p \in Nat \ {0}, NEW k \in Int, NEW j \in Int,
         NEW r \in 0 .. p - 1, NEW s \in 0 .. p - 1, p * k + r = p * j + s
  PROVE  k = j /\ r = s
<1>1. (p * k + r) % p = r /\ (p * k + r) \div p = k
  BY RemainderUnique
<1>2. (p * j + s) % p = s /\ (p * j + s) \div p = j
  BY RemainderUnique
<1> QED BY <1>1, <1>2

\* Multiples of p do not change a remainder.
LEMMA RemainderShift ==
  ASSUME NEW p \in Nat \ {0}, NEW k \in Int, NEW n \in Int
  PROVE  (p * k + n) % p = n % p
<1> DEFINE q == n \div p
<1> DEFINE r == n % p
<1>1. q \in Int /\ r \in 0 .. p - 1 /\ n = p * q + r
  BY Division
<1> HIDE DEF q, r
<1>2. p * k + n = p * (k + q) + r
  BY <1>1
<1>3. (p * (k + q) + r) % p = r
  BY <1>1, RemainderUnique
<1> QED BY <1>2, <1>3 DEF r

\* A factor may be replaced by its remainder.
LEMMA RemainderOfProduct ==
  ASSUME NEW p \in Nat \ {0}, NEW m \in Int, NEW n \in Int
  PROVE  ((m % p) * n) % p = (m * n) % p
<1> DEFINE q == m \div p
<1> DEFINE r == m % p
<1>1. q \in Int /\ r \in 0 .. p - 1 /\ m = p * q + r
  BY Division
<1> HIDE DEF q, r
<1>2. m * n = p * (q * n) + r * n
  BY <1>1
<1>3. q * n \in Int /\ r * n \in Int
  BY <1>1
<1>4. (p * (q * n) + r * n) % p = (r * n) % p
  BY <1>3, RemainderShift
<1> QED BY <1>2, <1>4 DEF r

\* And so may the two terms of a sum or a difference.
LEMMA RemainderOfSum ==
  ASSUME NEW p \in Nat \ {0}, NEW m \in Int, NEW n \in Int
  PROVE  /\ ((m % p) + (n % p)) % p = (m + n) % p
         /\ ((m % p) - (n % p)) % p = (m - n) % p
<1> DEFINE q == m \div p
<1> DEFINE r == m % p
<1> DEFINE t == n \div p
<1> DEFINE s == n % p
<1>1. q \in Int /\ r \in 0 .. p - 1 /\ m = p * q + r
  BY Division
<1>2. t \in Int /\ s \in 0 .. p - 1 /\ n = p * t + s
  BY Division
<1> HIDE DEF q, r, t, s
<1>3. m + n = p * (q + t) + (r + s) /\ m - n = p * (q - t) + (r - s)
  BY <1>1, <1>2
<1>4. q + t \in Int /\ r + s \in Int /\ q - t \in Int /\ r - s \in Int
  BY <1>1, <1>2
<1>5. (p * (q + t) + (r + s)) % p = (r + s) % p
  BY <1>4, RemainderShift
<1>6. (p * (q - t) + (r - s)) % p = (r - s) % p
  BY <1>4, RemainderShift
<1> QED BY <1>3, <1>5, <1>6 DEF r, s

-----------------------------------------------------------------------------
(* The representation.                                                     *)

\* One more digit in front keeps a number below the next power of the base.
LEMMA DigitsBelow ==
  ASSUME NEW n \in Nat, NEW d \in Nat \ {0}, n < Base * d
  PROVE  /\ n \div Base \in Nat /\ n \div Base < d
         /\ n % Base \in Limb
         /\ n = Base * (n \div Base) + (n % Base)
<1> DEFINE q == n \div Base
<1> DEFINE r == n % Base
<1>1. Base \in Nat /\ Base > 1 /\ Base \in Nat \ {0}
  BY BaseAssumption
<1>2. q \in Int /\ r \in 0 .. Base - 1 /\ n = Base * q + r
  BY <1>1, Division
<1> HIDE DEF q, r
<1>3. q >= 0
  <2>1. CASE q <= -1
    <3>1. Base * q <= -Base
      BY <2>1, <1>1, <1>2
    <3> QED BY <3>1, <1>1, <1>2
  <2> QED BY <2>1, <1>2
<1>4. q < d
  <2>1. CASE q >= d
    <3>1. Base * q >= Base * d
      BY <2>1, <1>1, <1>2
    <3> QED BY <3>1, <1>1, <1>2
  <2> QED BY <2>1, <1>2
<1> QED BY <1>2, <1>3, <1>4, BaseAssumption DEF q, r

\* The limbs of a number that fits are limbs, and give it back.
LEMMA LimbsGiveNumber ==
  ASSUME NEW n \in 0 .. R - 1
  PROVE  Limbs(n) \in felt_t /\ Value(Limbs(n)) = n
<1> DEFINE n1 == n \div Base
<1> DEFINE n2 == n1 \div Base
<1> DEFINE n3 == n2 \div Base
<1>1. /\ Base \in Nat \ {0}
      /\ Base * Base \in Nat \ {0}
      /\ Base * Base * Base \in Nat \ {0}
  BY BaseAssumption
<1>2. n \in Nat /\ n < Base * (Base * Base * Base)
  BY <1>1 DEF R
<1>3. n1 \in Nat /\ n1 < Base * (Base * Base) /\ n % Base \in Limb
      /\ n = Base * n1 + (n % Base)
  BY <1>1, <1>2, DigitsBelow
<1>4. n2 \in Nat /\ n2 < Base * Base /\ n1 % Base \in Limb
      /\ n1 = Base * n2 + (n1 % Base)
  BY <1>1, <1>3, DigitsBelow
<1>5. n3 \in Nat /\ n3 < Base /\ n2 % Base \in Limb
      /\ n2 = Base * n3 + (n2 % Base)
  BY <1>1, <1>4, DigitsBelow
<1>6. n3 % Base = n3
  <2> DEFINE q == n3 \div Base
  <2> DEFINE r == n3 % Base
  <2>1. n3 \in Int /\ n3 \in 0 .. Base - 1
    BY <1>1, <1>5
  <2>2. q \in Int /\ r \in 0 .. Base - 1 /\ n3 = Base * q + r
    BY <1>1, <2>1, Division
  <2>3. 0 \in Int /\ Base * q + r = Base * 0 + n3
    BY <1>1, <2>1, <2>2
  <2> HIDE DEF n3, q, r
  <2>4. r = n3
    BY <1>1, <2>1, <2>2, <2>3, LastDigit
  <2> QED BY <2>4 DEF r
<1>7. Limbs(n) = <<n3, n2 % Base, n1 % Base, n % Base>>
  BY <1>6 DEF Limbs
<1>8. n3 \in Limb
  BY <1>5, BaseAssumption
<1>9. Limbs(n) \in felt_t
  BY <1>3, <1>4, <1>5, <1>7, <1>8 DEF felt_t
<1>10. Value(Limbs(n)) = ((n3 * Base + (n2 % Base)) * Base + (n1 % Base)) * Base + (n % Base)
  BY <1>7 DEF Value
<1> HIDE DEF n1, n2, n3
<1>11. n3 * Base + (n2 % Base) = n2
  BY <1>1, <1>5
<1>12. n2 * Base + (n1 % Base) = n1
  BY <1>1, <1>4
<1>13. n1 * Base + (n % Base) = n
  BY <1>1, <1>3
<1> QED BY <1>9, <1>10, <1>11, <1>12, <1>13

\* The number in a buffer, and the numbers its leading limbs make.
LEMMA ValueType ==
  ASSUME NEW l \in felt_t
  PROVE  /\ Value(l) \in Nat
         /\ \A i \in 1 .. 4 : l[i] \in 0 .. Base - 1
         /\ l[1] * Base + l[2] \in Nat
         /\ (l[1] * Base + l[2]) * Base + l[3] \in Nat
<1>1. \A i \in 1 .. 4 : l[i] \in 0 .. Base - 1
  BY BaseAssumption DEF felt_t
<1>2. Base \in Nat /\ l[1] \in Nat /\ l[2] \in Nat /\ l[3] \in Nat /\ l[4] \in Nat
  BY <1>1, BaseAssumption
<1>3. l[1] * Base + l[2] \in Nat
  BY <1>2
<1>4. (l[1] * Base + l[2]) * Base + l[3] \in Nat
  BY <1>2, <1>3
<1>5. Value(l) \in Nat
  BY <1>2, <1>4 DEF Value
<1> QED BY <1>1, <1>3, <1>4, <1>5

\* felt_equal tells two arrays apart exactly when they are different numbers.
LEMMA EqualLimbs ==
  ASSUME NEW l \in felt_t, NEW m \in felt_t
  PROVE  felt_equal(l, m) <=> Value(l) = Value(m)
<1>1. Base \in Nat \ {0}
  BY BaseAssumption
<1>2. ASSUME felt_equal(l, m) PROVE Value(l) = Value(m)
  BY <1>2 DEF felt_equal, Value
<1>3. ASSUME Value(l) = Value(m) PROVE felt_equal(l, m)
  <2> DEFINE a(i) == l[i]
  <2> DEFINE b(i) == m[i]
  <2> DEFINE a12 == a(1) * Base + a(2)
  <2> DEFINE b12 == b(1) * Base + b(2)
  <2> DEFINE a123 == a12 * Base + a(3)
  <2> DEFINE b123 == b12 * Base + b(3)
  <2>0. /\ a(1) \in Int /\ b(1) \in Int /\ a12 \in Int /\ b12 \in Int
        /\ a123 \in Int /\ b123 \in Int
    <3>1. l[1] \in 0 .. Base - 1 /\ m[1] \in 0 .. Base - 1
      BY ValueType
    <3>2. l[1] \in Int /\ m[1] \in Int
      BY <3>1
    <3> QED BY <3>2, ValueType
  <2>1. /\ a(2) \in 0 .. Base - 1 /\ b(2) \in 0 .. Base - 1
        /\ a(3) \in 0 .. Base - 1 /\ b(3) \in 0 .. Base - 1
        /\ a(4) \in 0 .. Base - 1 /\ b(4) \in 0 .. Base - 1
    BY ValueType
  <2>2. Value(l) = a123 * Base + a(4) /\ Value(m) = b123 * Base + b(4)
    BY DEF Value
  <2> HIDE DEF a, b
  <2>3. a12 = Base * a(1) + a(2) /\ b12 = Base * b(1) + b(2)
    BY <1>1, <2>0, <2>1
  <2> HIDE DEF a12, b12
  <2>4. a123 = Base * a12 + a(3) /\ b123 = Base * b12 + b(3)
    BY <1>1, <2>0, <2>1
  <2> HIDE DEF a123, b123
  <2>5. Base * a123 + a(4) = Base * b123 + b(4)
    <3>1. a123 * Base = Base * a123 /\ b123 * Base = Base * b123
      BY <1>1, <2>0
    <3> QED BY <1>3, <2>2, <3>1
  <2>6. a(4) = b(4) /\ a123 = b123
    BY <1>1, <2>0, <2>1, <2>5, LastDigit
  <2>7. a(3) = b(3) /\ a12 = b12
    <3>1. Base * a12 + a(3) = Base * b12 + b(3)
      BY <2>4, <2>6
    <3> QED BY <1>1, <2>0, <2>1, <3>1, LastDigit
  <2>9. a(2) = b(2) /\ a(1) = b(1)
    <3>1. Base * a(1) + a(2) = Base * b(1) + b(2)
      BY <2>3, <2>7
    <3> QED BY <1>1, <2>0, <2>1, <3>1, LastDigit
  <2>8. \A i \in 1 .. 4 : i = 1 \/ i = 2 \/ i = 3 \/ i = 4
    OBVIOUS
  <2> QED BY <2>6, <2>7, <2>8, <2>9 DEF felt_equal, a, b
<1> QED BY <1>2, <1>3

-----------------------------------------------------------------------------
(* Montgomery form.                                                        *)

\* The prime and R, and what the inverse of R is.
LEMMA Inverse ==
  /\ Prime \in Nat \ {0} /\ Prime < R /\ R \in Nat
  /\ R_inverse \in FieldElement /\ R_inverse \in Int
  /\ (R * R_inverse) % Prime = 1
<1>1. /\ Base \in Nat /\ Prime \in Nat /\ Base < Prime
      /\ Base * Base * Base * Base \in Nat
  BY BaseAssumption, PrimeAssumption
<1>2. \E i \in FieldElement : (R * i) % Prime = 1
  BY PrimeAssumption DEF FieldElement, R
<1>3. R_inverse \in FieldElement /\ (R * R_inverse) % Prime = 1
  BY <1>2 DEF R_inverse
<1> QED BY <1>1, <1>3, PrimeAssumption DEF R, FieldElement

\* A factor R and its inverse leave a remainder alone.
LEMMA InverseCancels ==
  ASSUME NEW n \in Int
  PROVE  (n * R * R_inverse) % Prime = n % Prime
<1>0. Prime \in Nat \ {0} /\ R \in Int /\ R_inverse \in Int
  BY Inverse
<1> DEFINE x == R * R_inverse
<1>1. x \in Int /\ x % Prime = 1
  BY <1>0, Inverse
<1>2. n * R * R_inverse = x * n
  BY <1>0
<1> HIDE DEF x
<1>3. ((x % Prime) * n) % Prime = (x * n) % Prime
  BY <1>0, <1>1, RemainderOfProduct
<1> QED BY <1>1, <1>2, <1>3

\* An element read from a number and written back is the number's remainder.
LEMMA ReadThenWrite ==
  ASSUME NEW n \in Int
  PROVE  /\ FieldElement_from(n) \in FieldElement
         /\ representative(FieldElement_from(n)) = n % Prime
<1>0. Prime \in Nat \ {0} /\ R \in Int /\ R_inverse \in Int
  BY Inverse
<1>1. n * R \in Int
  BY <1>0
<1>2. FieldElement_from(n) \in FieldElement
  BY <1>0, <1>1, Division DEF FieldElement_from, FieldElement
<1>3. (((n * R) % Prime) * R_inverse) % Prime = (n * R * R_inverse) % Prime
  BY <1>0, <1>1, RemainderOfProduct
<1>4. (n * R * R_inverse) % Prime = n % Prime
  BY InverseCancels
<1> QED BY <1>2, <1>3, <1>4 DEF FieldElement_from, representative

\* What is written for an element is its representative, below the prime.
LEMMA WrittenNumber ==
  ASSUME NEW felt \in FieldElement
  PROVE  /\ felt_to_limbs(felt) \in felt_t
         /\ Value(felt_to_limbs(felt)) = representative(felt)
         /\ representative(felt) \in 0 .. Prime - 1
<1>0. Prime \in Nat \ {0} /\ Prime < R /\ R \in Nat /\ R_inverse \in Int
  BY Inverse
<1>1. felt * R_inverse \in Int
  BY <1>0 DEF FieldElement
<1>2. representative(felt) \in 0 .. Prime - 1
  BY <1>0, <1>1, Division DEF representative
<1>3. representative(felt) \in 0 .. R - 1
  BY <1>0, <1>2
<1> QED BY <1>2, <1>3, LimbsGiveNumber DEF felt_to_limbs

\* Sums and differences of elements are those of the numbers.
LEMMA SumInField ==
  ASSUME NEW v \in Int, NEW w \in Int
  PROVE  /\ FieldElement_add(FieldElement_from(v), FieldElement_from(w))
              = FieldElement_from(v + w)
         /\ FieldElement_sub(FieldElement_from(v), FieldElement_from(w))
              = FieldElement_from(v - w)
<1>0. Prime \in Nat \ {0} /\ R \in Int
  BY Inverse
<1> DEFINE a == v * R
<1> DEFINE b == w * R
<1>1. a \in Int /\ b \in Int
  BY <1>0
<1>2. (v + w) * R = a + b /\ (v - w) * R = a - b
  BY <1>0
<1> HIDE DEF a, b
<1>3. /\ ((a % Prime) + (b % Prime)) % Prime = (a + b) % Prime
      /\ ((a % Prime) - (b % Prime)) % Prime = (a - b) % Prime
  BY <1>0, <1>1, RemainderOfSum
<1> QED BY <1>2, <1>3
       DEF a, b, FieldElement_add, FieldElement_sub, FieldElement_from

\* One product in Montgomery form, one of its factors read from a number.
LEMMA ProductWithRead ==
  ASSUME NEW v \in Int, NEW y \in Int
  PROVE  (FieldElement_from(v) * y * R_inverse) % Prime = (v * y) % Prime
<1>0. Prime \in Nat \ {0} /\ R \in Int /\ R_inverse \in Int
  BY Inverse
<1> DEFINE x == v * R
<1> DEFINE z == y * R_inverse
<1>1. x \in Int /\ z \in Int
  BY <1>0
<1>2. FieldElement_from(v) = x % Prime
  BY DEF FieldElement_from
<1>3. x * z = (v * y) * R * R_inverse
  BY <1>0
<1>4. x % Prime \in Int
  BY <1>0, <1>1, Division
<1>5. FieldElement_from(v) * y * R_inverse = (x % Prime) * z
  <2> DEFINE f == x % Prime
  <2>1. f \in Int
    BY <1>4
  <2> HIDE DEF f
  <2>2. f * y * R_inverse = f * (y * R_inverse)
    BY <1>0, <2>1
  <2> QED BY <1>2, <2>2 DEF f
<1> HIDE DEF x, z
<1>6. ((x % Prime) * z) % Prime = (x * z) % Prime
  BY <1>0, <1>1, RemainderOfProduct
<1>7. v * y \in Int
  OBVIOUS
<1>8. ((v * y) * R * R_inverse) % Prime = (v * y) % Prime
  BY <1>7, InverseCancels
<1> QED BY <1>3, <1>5, <1>6, <1>8

\* A product of elements is that of the numbers.
LEMMA ProductInField ==
  ASSUME NEW v \in Int, NEW w \in Int
  PROVE  FieldElement_mul(FieldElement_from(v), FieldElement_from(w))
           = FieldElement_from(v * w)
<1>0. Prime \in Nat \ {0} /\ R \in Int
  BY Inverse
<1> DEFINE y == FieldElement_from(w)
<1>1. y \in Int
  BY ReadThenWrite, <1>0 DEF FieldElement
<1> HIDE DEF y
<1>2. FieldElement_mul(FieldElement_from(v), y) = (v * y) % Prime
  BY <1>1, ProductWithRead DEF FieldElement_mul
<1>3. y = (w * R) % Prime
  BY DEF y, FieldElement_from
<1>4. w * R \in Int
  BY <1>0
<1>5. (((w * R) % Prime) * v) % Prime = ((w * R) * v) % Prime
  BY <1>0, <1>4, RemainderOfProduct
<1>6. v * y = y * v /\ (w * R) * v = (v * w) * R
  BY <1>0, <1>1
<1> QED BY <1>2, <1>3, <1>5, <1>6 DEF y, FieldElement_from

\* What a quotient writes, times the divisor, is the dividend.
LEMMA QuotientInField ==
  ASSUME NEW v \in Int, NEW w \in Int, w % Prime # 0,
         NEW q \in FieldElement_div(FieldElement_from(v), FieldElement_from(w))
  PROVE  (representative(q) * (w % Prime)) % Prime = v % Prime
<1>0. Prime \in Nat \ {0} /\ R \in Int /\ R_inverse \in Int
  BY Inverse
<1> DEFINE x == FieldElement_from(v)
<1> DEFINE y == FieldElement_from(w)
<1> DEFINE e == q * R_inverse
<1> DEFINE d == w % Prime
<1>1. x \in FieldElement /\ y \in FieldElement /\ x \in Int /\ y \in Int
  BY ReadThenWrite, <1>0 DEF FieldElement
<1>2. q \in Int /\ e \in Int /\ d \in Int
  BY <1>0, Division DEF FieldElement_div, FieldElement
<1>3. y # 0
  <2>1. CASE y = 0
    <3>1. y * R_inverse = 0
      BY <2>1, <1>0
    <3>2. 0 % Prime = 0
      <4>1. (Prime * 0 + 0) % Prime = 0
        BY <1>0, RemainderUnique
      <4> QED BY <4>1, <1>0
    <3>3. representative(y) = 0
      BY <3>1, <3>2 DEF representative
    <3> QED BY <3>3, ReadThenWrite
  <2> QED BY <2>1
<1>4. FieldElement_mul(q, y) = x
  BY <1>3 DEF FieldElement_div
<1> HIDE DEF x
<1>5. (q * y * R_inverse) % Prime = x
  BY <1>4 DEF FieldElement_mul
<1>6. q * y * R_inverse = y * q * R_inverse
  BY <1>0, <1>1, <1>2
<1>7. (y * q * R_inverse) % Prime = (w * q) % Prime
  BY <1>2, ProductWithRead
<1>8. x = (w * q) % Prime
  BY <1>5, <1>6, <1>7
<1>9. (x * R_inverse) % Prime = ((w * q) * R_inverse) % Prime
  <2>1. w * q \in Int
    BY <1>2
  <2> QED BY <1>0, <1>8, <2>1, RemainderOfProduct
<1>10. (x * R_inverse) % Prime = v % Prime
  BY ReadThenWrite DEF representative, x
<1>11. ((w * q) * R_inverse) % Prime = (e * w) % Prime
  <2>1. (w * q) * R_inverse = e * w
    BY <1>0, <1>2
  <2> QED BY <2>1
<1>12. (representative(q) * d) % Prime = (e * w) % Prime
  <2>1. representative(q) = e % Prime
    BY DEF representative
  <2> HIDE DEF e, d
  <2>2. ((e % Prime) * d) % Prime = (e * d) % Prime
    BY <1>0, <1>2, RemainderOfProduct
  <2>3. ((w % Prime) * e) % Prime = (w * e) % Prime
    BY <1>0, <1>2, RemainderOfProduct
  <2>4. e * d = d * e /\ w * e = e * w
    BY <1>2
  <2> QED BY <2>1, <2>2, <2>3, <2>4 DEF d
<1> QED BY <1>9, <1>10, <1>11, <1>12

-----------------------------------------------------------------------------
(* The library.                                                            *)

\* What the library wrote is below the prime, and all buffers hold limbs.
THEOREM FeltTypeCorrect == FeltSpec => []FeltTypeOK
<1>1. FeltInit => FeltTypeOK
  BY DEF FeltInit, FeltTypeOK
<1>2. FeltTypeOK /\ [FeltNext]_felt_vars => FeltTypeOK'
  <2> SUFFICES ASSUME FeltTypeOK, [FeltNext]_felt_vars PROVE FeltTypeOK'
    OBVIOUS
  <2>1. ASSUME NEW r \in Buffer, NEW felt \in FieldElement, Write(r, felt)
        PROVE  FeltTypeOK'
    <3>1. felt_to_limbs(felt) \in felt_t /\ Value(felt_to_limbs(felt)) < Prime
      BY WrittenNumber, Inverse
    <3> QED BY <2>1, <3>1 DEF FeltTypeOK, Write
  <2>2. ASSUME NEW b \in Buffer PROVE Value(buf[b]) \in Int
    BY ValueType DEF FeltTypeOK
  <2>3. \A n \in Int : FieldElement_from(n) \in FieldElement
    BY ReadThenWrite
  <2>4. ASSUME NEW r \in Buffer,
               (\E value \in 0 .. Base - 1 : from(r, value)) \/ zero(r) \/ one(r)
        PROVE  FeltTypeOK'
    BY <2>1, <2>3, <2>4, BaseAssumption DEF from, zero, one
  <2>5. ASSUME NEW a \in Buffer, NEW b \in Buffer, NEW r \in Buffer,
               add(a, b, r) \/ sub(a, b, r) \/ mul(a, b, r) \/ lw_div(a, b, r)
        PROVE  FeltTypeOK'
    <3> DEFINE v == Value(buf[a])
    <3> DEFINE w == Value(buf[b])
    <3>1. v \in Int /\ w \in Int
      BY <2>2
    <3>2. v + w \in Int /\ v - w \in Int /\ v * w \in Int
      BY <3>1
    <3>3. CASE add(a, b, r)
      <4>1. Write(r, FieldElement_from(v + w))
        BY <3>1, <3>3, SumInField DEF add, limbs_to_felt
      <4> QED BY <4>1, <2>1, <2>3, <3>2
    <3>4. CASE sub(a, b, r)
      <4>1. Write(r, FieldElement_from(v - w))
        BY <3>1, <3>4, SumInField DEF sub, limbs_to_felt
      <4> QED BY <4>1, <2>1, <2>3, <3>2
    <3>5. CASE mul(a, b, r)
      <4>1. Write(r, FieldElement_from(v * w))
        BY <3>1, <3>5, ProductInField DEF mul, limbs_to_felt
      <4> QED BY <4>1, <2>1, <2>3, <3>2
    <3>6. CASE lw_div(a, b, r)
      BY <3>6, <2>1 DEF lw_div, FieldElement_div
    <3> QED BY <2>5, <3>3, <3>4, <3>5, <3>6
  <2>6. CASE UNCHANGED felt_vars
    BY <2>6 DEF FeltTypeOK, felt_vars
  <2> QED BY <2>4, <2>5, <2>6 DEF FeltNext
<1> QED BY <1>1, <1>2, PTL DEF FeltSpec

\* Comparing limbs compares field elements.
THEOREM EqualityIsFieldEquality == FeltSpec => []EqualIsSameElement
<1>1. FeltTypeOK => EqualIsSameElement
  <2> SUFFICES ASSUME FeltTypeOK, NEW a \in written, NEW b \in written
               PROVE  felt_equal(buf[a], buf[b])
                        <=> Value(buf[a]) % Prime = Value(buf[b]) % Prime
    BY DEF EqualIsSameElement
  <2>1. buf[a] \in felt_t /\ buf[b] \in felt_t
    BY DEF FeltTypeOK
  <2>2. /\ Value(buf[a]) \in Nat /\ Value(buf[a]) < Prime
        /\ Value(buf[b]) \in Nat /\ Value(buf[b]) < Prime
    BY <2>1, ValueType DEF FeltTypeOK
  <2>3. ASSUME NEW n \in Nat, n < Prime PROVE n % Prime = n
    <3>1. n \in 0 .. Prime - 1
      BY <2>3, Inverse
    <3>2. (Prime * 0 + n) % Prime = n
      BY <3>1, Inverse, RemainderUnique
    <3> QED BY <3>2, Inverse
  <2>4. felt_equal(buf[a], buf[b]) <=> Value(buf[a]) = Value(buf[b])
    BY <2>1, EqualLimbs
  <2> QED BY <2>2, <2>3, <2>4
<1> QED BY <1>1, FeltTypeCorrect, PTL

\* What a write does to the registers: the result holds the representative.
LEMMA WriteIsPut ==
  ASSUME FeltTypeOK, NEW r \in Buffer, NEW felt \in FieldElement, Write(r, felt)
  PROVE  Field!Put(r, representative(felt)) /\ representative(felt) \in Field!Z
<1> DEFINE reg == [b \in Buffer |-> Value(buf[b]) % Prime]
<1> DEFINE e == representative(felt)
<1> DEFINE n == Value(felt_to_limbs(felt))
<1>1. n = e /\ e \in 0 .. Prime - 1
  BY WrittenNumber
<1>2. e % Prime = e
  <2>1. e \in Int /\ (Prime * 0 + e) % Prime = e
    BY <1>1, Inverse, RemainderUnique
  <2> QED BY <2>1, Inverse
<1>3. \A b \in Buffer : buf'[b] = IF b = r THEN felt_to_limbs(felt) ELSE buf[b]
  BY DEF Write, FeltTypeOK
<1>4. reg' = [reg EXCEPT ![r] = e]
  <2>1. reg' = [b \in Buffer |-> Value(buf'[b]) % Prime]
    OBVIOUS
  <2>2. \A b \in Buffer : Value(buf'[b]) % Prime = IF b = r THEN e ELSE reg[b]
    BY <1>1, <1>2, <1>3
  <2> QED BY <2>1, <2>2
<1> QED BY <1>1, <1>4 DEF Field!Put, Field!Z

\* The library implements the registers of the field, for every sequence of
\* calls, every choice of buffers and every content they start with.
THEOREM LibraryComputesInField == FeltSpec => ComputesInField
<1> DEFINE reg == [b \in Buffer |-> Value(buf[b]) % Prime]
<1>1. FeltInit => Field!Init
  <2> SUFFICES ASSUME FeltInit PROVE reg \in [Buffer -> 0 .. Prime - 1]
    BY DEF Field!Init, Field!Z
  <2>1. ASSUME NEW b \in Buffer PROVE Value(buf[b]) % Prime \in 0 .. Prime - 1
    <3>1. Value(buf[b]) \in Int
      BY ValueType DEF FeltInit
    <3> QED BY <3>1, Division, Inverse
  <2> QED BY <2>1
<1>2. FeltTypeOK /\ [FeltNext]_felt_vars => [Field!Next]_reg
  <2> SUFFICES ASSUME FeltTypeOK, [FeltNext]_felt_vars
               PROVE  [Field!Next]_reg
    OBVIOUS
  <2>1. ASSUME NEW b \in Buffer
        PROVE  Value(buf[b]) \in Int /\ reg[b] = Value(buf[b]) % Prime
    BY ValueType DEF FeltTypeOK
  <2>2. ASSUME NEW r \in Buffer, NEW n \in Int, Write(r, FieldElement_from(n))
        PROVE  Field!Put(r, n % Prime) /\ n % Prime \in Field!Z
    <3>1. FieldElement_from(n) \in FieldElement
      BY ReadThenWrite
    <3>2. representative(FieldElement_from(n)) = n % Prime
      BY ReadThenWrite
    <3> QED BY <2>2, <3>1, <3>2, WriteIsPut
  <2>3. ASSUME NEW r \in Buffer,
               (\E value \in 0 .. Base - 1 : from(r, value)) \/ zero(r) \/ one(r)
        PROVE  Field!Next
    <3>1. PICK n \in 0 .. Base - 1 : Write(r, FieldElement_from(n))
      BY <2>3, BaseAssumption DEF from, zero, one
    <3>2. Field!Put(r, n % Prime)
      BY <3>1, <2>2, BaseAssumption
    <3>3. Field!Constant(r)
      BY <3>2 DEF Field!Constant
    <3> QED BY <3>3 DEF Field!Next
  <2>4. ASSUME NEW a \in Buffer, NEW b \in Buffer, NEW r \in Buffer,
               add(a, b, r) \/ sub(a, b, r) \/ mul(a, b, r) \/ lw_div(a, b, r)
        PROVE  Field!Next
    <3> DEFINE v == Value(buf[a])
    <3> DEFINE w == Value(buf[b])
    <3>1. /\ v \in Int /\ w \in Int /\ Prime \in Nat \ {0}
          /\ v + w \in Int /\ v - w \in Int /\ v * w \in Int
          /\ v % Prime \in Int /\ w % Prime \in Int
      <4>1. v \in Int /\ w \in Int
        BY <2>1
      <4> HIDE DEF v, w
      <4> QED BY <4>1, Inverse, Division
    <3>2. reg[a] = v % Prime /\ reg[b] = w % Prime
      OBVIOUS
    <3>3. CASE add(a, b, r)
      <4>1. Write(r, FieldElement_from(v + w))
        BY <3>1, <3>3, SumInField DEF add, limbs_to_felt
      <4>2. Field!Put(r, (v + w) % Prime)
        BY <4>1, <3>1, <2>2
      <4> HIDE DEF v, w, reg
      <4>3. (v + w) % Prime = (reg[a] + reg[b]) % Prime
        <5>1. ((v % Prime) + (w % Prime)) % Prime = (v + w) % Prime
          BY <3>1, RemainderOfSum
        <5> QED BY <5>1, <3>2
      <4>4. Field!Put(r, (reg[a] + reg[b]) % Prime)
        BY <4>2, <4>3
      <4> QED BY <4>4 DEF Field!Sum, Field!Next, reg
    <3>4. CASE sub(a, b, r)
      <4>1. Write(r, FieldElement_from(v - w))
        BY <3>1, <3>4, SumInField DEF sub, limbs_to_felt
      <4>2. Field!Put(r, (v - w) % Prime)
        BY <4>1, <3>1, <2>2
      <4> HIDE DEF v, w, reg
      <4>3. (v - w) % Prime = (reg[a] - reg[b]) % Prime
        <5>1. ((v % Prime) - (w % Prime)) % Prime = (v - w) % Prime
          BY <3>1, RemainderOfSum
        <5> QED BY <5>1, <3>2
      <4>4. Field!Put(r, (reg[a] - reg[b]) % Prime)
        BY <4>2, <4>3
      <4> QED BY <4>4 DEF Field!Difference, Field!Next, reg
    <3>5. CASE mul(a, b, r)
      <4>1. Write(r, FieldElement_from(v * w))
        BY <3>1, <3>5, ProductInField DEF mul, limbs_to_felt
      <4>2. Field!Put(r, (v * w) % Prime)
        BY <4>1, <3>1, <2>2
      <4> HIDE DEF v, w, reg
      <4>3. (v * w) % Prime = (reg[a] * reg[b]) % Prime
        <5>1. ((v % Prime) * (w % Prime)) % Prime = (v * (w % Prime)) % Prime
          BY <3>1, RemainderOfProduct
        <5>2. ((w % Prime) * v) % Prime = (w * v) % Prime
          BY <3>1, RemainderOfProduct
        <5>3. v * (w % Prime) = (w % Prime) * v /\ w * v = v * w
          BY <3>1
        <5> QED BY <3>2, <5>1, <5>2, <5>3
      <4>4. Field!Put(r, (reg[a] * reg[b]) % Prime)
        BY <4>2, <4>3
      <4> QED BY <4>4 DEF Field!Product, Field!Next, reg
    <3>6. CASE lw_div(a, b, r)
      <4>1. PICK q \in FieldElement_div(FieldElement_from(v), FieldElement_from(w)) :
              Write(r, q)
        BY <3>6 DEF lw_div, limbs_to_felt
      <4>2. q \in FieldElement
        BY DEF FieldElement_div
      <4>3. Field!Put(r, representative(q)) /\ representative(q) \in Field!Z
        BY <4>1, <4>2, WriteIsPut
      <4> HIDE DEF v, w, reg
      <4>4. reg[b] # 0 => (representative(q) * reg[b]) % Prime = reg[a]
        BY <3>1, <3>2, QuotientInField
      <4> QED BY <4>3, <4>4 DEF Field!Quotient, Field!Next, reg
    <3> QED BY <2>4, <3>3, <3>4, <3>5, <3>6
  <2>5. CASE UNCHANGED felt_vars
    BY <2>5 DEF felt_vars
  <2> QED BY <2>3, <2>4, <2>5 DEF FeltNext
<1> QED BY <1>1, <1>2, FeltTypeCorrect, PTL DEF FeltSpec, ComputesInField, Field!Spec

=============================================================================

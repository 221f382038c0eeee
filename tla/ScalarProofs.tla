---------------------------- MODULE ScalarProofs ----------------------------
(***************************************************************************)
(* The theorems about the scalars of a document: integers, for every width *)
(* and every length of the text that the comment in parse_number may speak *)
(* of, and strings, for every string, vector and padding, with the code    *)
(* points their escapes make.                                              *)
(***************************************************************************)
EXTENDS Number, CodePoint, SequenceTheorems, WellFoundedInduction, TLAPS

-----------------------------------------------------------------------------
\* A nonempty set of naturals has a least element.
LEMMA Least ==
  ASSUME NEW T, T \subseteq Nat, T # {}
  PROVE  \E m \in T : \A k \in T : m <= k
<1> DEFINE R == OpToRel(<, Nat)
<1>1. IsWellFoundedOn(R, Nat)
  BY NatLessThanWellFounded, Zenon
<1>2. \A m, k \in Nat : <<k, m>> \in R <=> k < m
  BY DEF OpToRel
<1> HIDE DEF R
<1>3. PICK m \in T : \A k \in T : ~(<<k, m>> \in R)
  BY <1>1, WFMin, Zenon
<1>4. ASSUME NEW k \in T PROVE m <= k
  <2>1. m \in Nat /\ k \in Nat /\ ~(<<k, m>> \in R)
    BY <1>3
  <2>2. ~(k < m)
    BY <1>2, <2>1
  <2> QED BY <2>1, <2>2
<1> QED BY <1>4

LEMMA Induction ==
  ASSUME NEW S, 0 \in S, \A n \in Nat : n \in S => n + 1 \in S
  PROVE  Nat \subseteq S
<1> SUFFICES ASSUME Nat \ S # {} PROVE FALSE
  OBVIOUS
<1>1. PICK m \in Nat \ S : \A k \in Nat \ S : m <= k
  BY Least
<1>2. m - 1 \in Nat /\ m - 1 \in S /\ (m - 1) + 1 = m
  BY <1>1
<1> QED BY <1>1, <1>2

-----------------------------------------------------------------------------
(* Strings.                                                                *)

\* A run of the marking of escaped bytes.
Marks(escaped, chars, n) ==
  escaped = [j \in 0 .. n |-> j > 0 /\ chars[j] = "backslash" /\ ~escaped[j - 1]]

\* A byte is escaped when the one before it is a backslash that is not.
LEMMA EscapedRule ==
  ASSUME NEW chars, NEW n \in Nat
  PROVE  /\ 0 \notin Escaped(chars, n)
         /\ \A j \in 1 .. n : j \in Escaped(chars, n)
                                <=> chars[j] = "backslash" /\ j - 1 \notin Escaped(chars, n)
<1> DEFINE S == {m \in Nat : \E escaped : Marks(escaped, chars, m)}
<1>1. 0 \in S
  <2> DEFINE none == [j \in 0 .. 0 |-> FALSE]
  <2>1. \A j \in 0 .. 0 : ~(j > 0)
    OBVIOUS
  <2>2. Marks(none, chars, 0)
    BY <2>1 DEF Marks
  <2> QED BY <2>2
<1>2. ASSUME NEW m \in Nat, m \in S PROVE m + 1 \in S
  <2>1. PICK escaped : Marks(escaped, chars, m)
    BY <1>2
  <2> DEFINE T(f, j) == j > 0 /\ chars[j] = "backslash" /\ ~f[j - 1]
             more == [j \in 0 .. m + 1 |-> IF j = m + 1 THEN T(escaped, j) ELSE escaped[j]]
  <2>2. \A j \in 0 .. m : escaped[j] = T(escaped, j)
    BY <2>1 DEF Marks
  <2>3. \A j \in 0 .. m + 1 : j > 0 => j - 1 \in 0 .. m /\ j - 1 # m + 1
    OBVIOUS
  <2>4. \A j \in 0 .. m + 1 : j > 0 => more[j - 1] = escaped[j - 1]
    BY <2>3
  <2>5. ASSUME NEW j \in 0 .. m + 1 PROVE more[j] = T(more, j)
    <3>1. T(more, j) = T(escaped, j)
      <4> HIDE DEF more
      <4> QED BY <2>4
    <3>2. j \in 0 .. m \/ j = m + 1
      OBVIOUS
    <3> HIDE DEF T
    <3> QED BY <2>2, <3>1, <3>2
  <2>6. Marks(more, chars, m + 1)
    <3>1. more = [j \in 0 .. m + 1 |-> more[j]]
      OBVIOUS
    <3>2. more = [j \in 0 .. m + 1 |-> T(more, j)]
      <4> HIDE DEF more, T
      <4> QED BY <2>5, <3>1
    <3> HIDE DEF more
    <3> QED BY <3>2, Zenon DEF Marks
  <2> QED BY <2>6
<1> HIDE DEF S
<1>3. \E escaped : Marks(escaped, chars, n)
  <2>1. n \in S
    BY <1>1, <1>2, Induction
  <2> QED BY <2>1 DEF S
<1> DEFINE e == CHOOSE escaped : Marks(escaped, chars, n)
<1>4. Marks(e, chars, n)
  BY <1>3
<1>5. Escaped(chars, n) = {j \in 0 .. n : e[j]}
  BY DEF Escaped, Marks
<1> HIDE DEF e
<1>6. \A j \in 0 .. n : e[j] <=> j > 0 /\ chars[j] = "backslash" /\ ~e[j - 1]
  BY <1>4, Zenon DEF Marks
<1>7. \A j \in 1 .. n : j \in 0 .. n /\ j - 1 \in 0 .. n /\ j > 0
  OBVIOUS
<1> QED BY <1>5, <1>6, <1>7

\* The bytes of a string, and the one that closes it.
LEMMA AtRule ==
  ASSUME IsString(str)
  PROVE  /\ str.close \in Nat /\ Len(str.chars) \in Nat /\ str.close < Len(str.chars)
         /\ \A k \in 0 .. str.close : At(k) = str.chars[k + 1]
         /\ At(str.close) = "quote"
         /\ \A k \in 0 .. str.close :
              At(k) = "quote" => (k \in Escaped(str.chars, str.close) <=> k # str.close)
<1>1. str.chars \in Seq(Bytes) /\ str.close \in 0 .. Len(str.chars) - 1
  BY DEF IsString
<1>2. Len(str.chars) \in Nat
  BY <1>1
<1>3. ASSUME NEW k \in 0 .. str.close PROVE At(k) = str.chars[k + 1]
  <2>1. k < Len(str.chars)
    BY <1>1, <1>2
  <2> QED BY <2>1 DEF At
<1>4. str.close \in Nat /\ str.close < Len(str.chars) /\ str.close \in 0 .. str.close
  BY <1>1, <1>2
<1> QED BY <1>2, <1>3, <1>4 DEF IsString

\* What is known of an escaped code point at k.
CodePointFits(u, k) ==
  /\ u.bytes \in {6, 12} /\ codepoint_to_utf8(u.code) \in 0 .. 4
  /\ u.last \in Nat /\ u.last <= str.close + 3
  /\ codepoint_to_utf8(u.code) > 0 =>
       k + u.bytes <= str.close /\ At(k + u.bytes - 1) # "backslash"

LEMMA CodePointRule ==
  ASSUME IsString(str), NEW k \in Nat, k < str.close, At(k + 1) = "u"
  PROVE  CodePointFits(handle_unicode_codepoint(k), k)
<1> DEFINE lead == hex_to_u32_nocheck(k + 2)
           second == hex_to_u32_nocheck(k + 8)
           pair == At(k + 6) = "backslash" /\ At(k + 7) = "u"
<1>1. str.close \in Nat /\ At(str.close) = "quote"
  BY AtRule
<1>2. ASSUME NEW j \in Nat, j <= str.close, At(j) # "quote" PROVE j < str.close
  BY <1>1, <1>2
<1>3. "quote" \notin Digits /\ "backslash" \notin Digits /\ Leads \subseteq Digits
  BY DEF Digits, Leads
<1>4. \A j \in Nat : hex_to_u32_nocheck(j) \in Leads \cup {"invalid"}
  BY DEF hex_to_u32_nocheck
<1>5. ASSUME NEW j \in Nat, j <= str.close, hex_to_u32_nocheck(j) \in Leads
      PROVE  j + 4 <= str.close /\ At(j + 3) # "backslash"
  <2>1. At(j) \in Digits /\ At(j + 1) \in Digits /\ At(j + 2) \in Digits /\ At(j + 3) \in Digits
    <3>1. At(j) \in Leads /\ \A m \in 1 .. 3 : At(j + m) \in Digits
      BY <1>5 DEF hex_to_u32_nocheck, Leads
    <3> QED BY <1>3, <3>1
  <2>2. j + 1 <= str.close
    BY <1>1, <1>2, <1>3, <1>5, <2>1
  <2>3. j + 2 <= str.close
    BY <1>1, <1>2, <1>3, <2>1, <2>2
  <2>4. j + 3 <= str.close
    BY <1>1, <1>2, <1>3, <2>1, <2>3
  <2>5. j + 4 <= str.close
    BY <1>1, <1>2, <1>3, <2>1, <2>4
  <2> QED BY <1>3, <2>1, <2>5
<1>6. k + 2 <= str.close
  <2>1. k + 1 <= str.close /\ k + 1 \in Nat
    BY <1>1
  <2>2. k + 1 < str.close
    BY <1>2, <2>1
  <2> QED BY <1>1, <2>2
<1>7. lead \in Leads => k + 6 <= str.close /\ At(k + 5) # "backslash"
  <2>1. k + 2 \in Nat /\ k + 2 + 4 = k + 6 /\ k + 2 + 3 = k + 5
    OBVIOUS
  <2> QED BY <1>5, <1>6, <2>1
<1>8. lead \in Leads /\ pair => k + 8 <= str.close
  <2> SUFFICES ASSUME lead \in Leads, pair PROVE k + 8 <= str.close
    OBVIOUS
  <2>1. k + 6 < str.close
    BY <1>1, <1>2, <1>7
  <2>2. k + 7 < str.close
    BY <1>1, <1>2, <2>1
  <2> QED BY <1>1, <2>2
<1>9. lead \in Leads /\ pair /\ second \in Leads => k + 12 <= str.close /\ At(k + 11) # "backslash"
  <2>1. k + 8 \in Nat /\ k + 8 + 4 = k + 12 /\ k + 8 + 3 = k + 11
    OBVIOUS
  <2> QED BY <1>5, <1>8, <2>1
<1>10. /\ \A c : codepoint_to_utf8(c) \in 0 .. 4
       /\ codepoint_to_utf8("invalid") = 0
       /\ codepoint_to_utf8("high") = 0 /\ codepoint_to_utf8("low") = 0
  BY DEF codepoint_to_utf8
<1>11. handle_unicode_codepoint(k) =
         CASE lead = "high" /\ pair ->
                [code  |-> IF second = "low" THEN "pair" ELSE "invalid",
                 bytes |-> 12, last |-> k + 11]
           [] lead = "high" /\ ~pair -> [code |-> "invalid", bytes |-> 6, last |-> k + 7]
           [] lead = "low" -> [code |-> "invalid", bytes |-> 6, last |-> k + 5]
           [] OTHER         -> [code |-> lead, bytes |-> 6, last |-> k + 5]
  BY DEF handle_unicode_codepoint
<1>12. {"high", "low"} \subseteq Leads /\ lead \in Leads \cup {"invalid"}
  BY <1>4 DEF Leads
<1> HIDE DEF lead, second, pair
<1>13. PICK u : u = handle_unicode_codepoint(k)
  OBVIOUS
<1>14. CASE lead = "high" /\ pair
  <2>1. u.code = (IF second = "low" THEN "pair" ELSE "invalid") /\ u.bytes = 12 /\ u.last = k + 11
    BY <1>11, <1>13, <1>14
  <2>2. k + 12 - 1 = k + 11
    OBVIOUS
  <2> QED BY <1>1, <1>8, <1>9, <1>10, <1>12, <1>13, <1>14, <2>1, <2>2 DEF CodePointFits
<1>15. CASE lead = "high" /\ ~pair
  <2>1. u.code = "invalid" /\ u.bytes = 6 /\ u.last = k + 7
    BY <1>11, <1>13, <1>15
  <2> QED BY <1>1, <1>7, <1>10, <1>12, <1>13, <1>15, <2>1 DEF CodePointFits
<1>16. CASE lead = "low"
  <2>1. u.code = "invalid" /\ u.bytes = 6 /\ u.last = k + 5
    BY <1>11, <1>13, <1>16
  <2> QED BY <1>1, <1>6, <1>10, <1>13, <2>1 DEF CodePointFits
<1>17. CASE lead \notin {"high", "low"}
  <2>1. u.code = lead /\ u.bytes = 6 /\ u.last = k + 5
    BY <1>11, <1>13, <1>17
  <2>2. k + 6 - 1 = k + 5
    OBVIOUS
  <2> QED BY <1>1, <1>6, <1>7, <1>10, <1>12, <1>13, <2>1, <2>2 DEF CodePointFits
<1> QED BY <1>14, <1>15, <1>16, <1>17

\* What the buffer holds.
Cells == {"raw", "escape", "utf8"} \X Nat

\* The kinds of items there are.
ItemIs(it, k, u) ==
  /\ At(k) # "backslash" => it.bytes = <<<<"raw", k>>>> /\ it.next = k + 1
  /\ At(k) = "backslash" /\ At(k + 1) \in Escapes =>
       it.bytes = <<<<"escape", k + 1>>>> /\ it.next = k + 2
  /\ At(k) = "backslash" /\ At(k + 1) = "u" =>
       /\ it.bytes = [j \in 1 .. codepoint_to_utf8(u.code) |-> <<"utf8", k>>]
       /\ it.next = k + u.bytes
  /\ At(k) = "backslash" /\ At(k + 1) \notin Escapes \cup {"u"} =>
       it.bytes = <<>> /\ it.next = k + 1

LEMMA ItemRule == ASSUME NEW k PROVE ItemIs(Item(k), k, handle_unicode_codepoint(k))
<1> DEFINE u == handle_unicode_codepoint(k)
           units == [j \in 1 .. codepoint_to_utf8(u.code) |-> <<"utf8", k>>]
           past == k + u.bytes
<1>1. Item(k) = CASE At(k) # "backslash" -> [bytes |-> <<<<"raw", k>>>>, next |-> k + 1]
                  [] At(k) = "backslash" /\ At(k + 1) \in Escapes ->
                       [bytes |-> <<<<"escape", k + 1>>>>, next |-> k + 2]
                  [] At(k) = "backslash" /\ At(k + 1) = "u" -> [bytes |-> units, next |-> past]
                  [] OTHER -> [bytes |-> <<>>, next |-> k + 1]
  BY DEF Item
<1>2. "u" \notin Escapes
  BY DEF Escapes
<1> HIDE DEF units, past
<1>3. PICK it : it = Item(k)
  OBVIOUS
<1>4. CASE At(k) # "backslash"
  <2>1. it = [bytes |-> <<<<"raw", k>>>>, next |-> k + 1]
    BY <1>1, <1>3, <1>4
  <2> QED BY <1>3, <1>4, <2>1 DEF ItemIs
<1>5. CASE At(k) = "backslash" /\ At(k + 1) \in Escapes
  <2>1. it = [bytes |-> <<<<"escape", k + 1>>>>, next |-> k + 2]
    BY <1>1, <1>2, <1>3, <1>5
  <2> QED BY <1>2, <1>3, <1>5, <2>1 DEF ItemIs
<1>6. CASE At(k) = "backslash" /\ At(k + 1) = "u"
  <2>1. it = [bytes |-> units, next |-> past]
    BY <1>1, <1>2, <1>3, <1>6
  <2>2. it.bytes = units /\ it.next = past
    BY <2>1
  <2> QED BY <1>2, <1>3, <1>6, <2>2 DEF ItemIs, units, past
<1>7. CASE At(k) = "backslash" /\ At(k + 1) \notin Escapes \cup {"u"}
  <2>1. it = [bytes |-> <<>>, next |-> k + 1]
    BY <1>1, <1>2, <1>3, <1>7
  <2> QED BY <1>3, <1>7, <2>1 DEF ItemIs
<1> QED BY <1>4, <1>5, <1>6, <1>7

LEMMA CellsAre ==
  /\ \A c \in Cells : <<c>> \in Seq(Cells)
  /\ \A n \in Nat, c \in Cells : [j \in 1 .. n |-> c] \in Seq(Cells)
  /\ <<>> \in Seq(Cells)
  /\ \A kind \in {"raw", "escape", "utf8"}, k \in Nat : <<kind, k>> \in Cells
<1>1. \A kind \in {"raw", "escape", "utf8"}, k \in Nat : <<kind, k>> \in Cells
  BY DEF Cells
<1>2. ASSUME NEW n \in Nat, NEW c \in Cells PROVE [j \in 1 .. n |-> c] \in Seq(Cells)
  OBVIOUS
<1>3. \A c \in Cells : <<c>> \in Seq(Cells)
  OBVIOUS
<1>4. <<>> \in Seq(Cells)
  OBVIOUS
<1> QED BY <1>1, <1>2, <1>3, <1>4

\* An item is of cells, and goes on behind itself.
LEMMA ItemType ==
  ASSUME IsString(str), NEW k \in Nat, k < str.close
  PROVE  Item(k).bytes \in Seq(Cells) /\ Item(k).next \in Nat /\ Item(k).next > k
<1> DEFINE u == handle_unicode_codepoint(k)
<1>1. PICK it : it = Item(k)
  OBVIOUS
<1>2. ItemIs(it, k, u)
  BY <1>1, ItemRule
<1>3. /\ <<<<"raw", k>>>> \in Seq(Cells) /\ <<<<"escape", k + 1>>>> \in Seq(Cells)
      /\ k + 1 \in Nat /\ k + 2 \in Nat /\ <<>> \in Seq(Cells)
  <2>1. <<"raw", k>> \in Cells /\ <<"escape", k + 1>> \in Cells
    BY CellsAre
  <2>2. k + 1 \in Nat /\ k + 2 \in Nat
    OBVIOUS
  <2> QED BY <2>1, <2>2, CellsAre, Zenon
<1>4. At(k + 1) = "u" => CodePointFits(u, k)
  BY CodePointRule
<1> HIDE DEF u
<1>5. CASE At(k) # "backslash"
  <2>1. it.bytes = <<<<"raw", k>>>> /\ it.next = k + 1
    BY <1>2, <1>5, Zenon DEF ItemIs
  <2> QED BY <1>1, <1>3, <2>1
<1>6. CASE At(k) = "backslash" /\ At(k + 1) \in Escapes
  <2>1. it.bytes = <<<<"escape", k + 1>>>> /\ it.next = k + 2
    BY <1>2, <1>6, Zenon DEF ItemIs
  <2> QED BY <1>1, <1>3, <2>1
<1>7. CASE At(k) = "backslash" /\ At(k + 1) = "u"
  <2>1. u.bytes \in {6, 12} /\ codepoint_to_utf8(u.code) \in Nat
    BY <1>4, <1>7 DEF CodePointFits
  <2>2. it.bytes = [j \in 1 .. codepoint_to_utf8(u.code) |-> <<"utf8", k>>] /\ it.next = k + u.bytes
    BY <1>2, <1>7, Zenon DEF ItemIs
  <2>3. <<"utf8", k>> \in Cells
    BY CellsAre
  <2>4. it.bytes \in Seq(Cells)
    BY <2>1, <2>2, <2>3, CellsAre, Zenon
  <2> QED BY <1>1, <2>1, <2>2, <2>4
<1>8. CASE At(k) = "backslash" /\ At(k + 1) \notin Escapes \cup {"u"}
  <2>1. it.bytes = <<>> /\ it.next = k + 1
    BY <1>2, <1>8, Zenon DEF ItemIs
  <2> QED BY <1>1, <1>3, <2>1
<1> QED BY <1>5, <1>6, <1>7, <1>8

\* One turn of Unescaped.
Meaning(f, k) ==
  IF k >= str.close THEN [ok |-> k = str.close, bytes |-> <<>>]
  ELSE [ok    |-> Item(k).bytes # <<>> /\ f[Item(k).next].ok,
        bytes |-> Item(k).bytes \o f[Item(k).next].bytes]

LEMMA UnescapedTurns ==
  ASSUME IsString(str)
  PROVE  \A k \in Nat : Unescaped[k] = Meaning(Unescaped, k)
<1> DEFINE Turns(f, m) == /\ f = [k \in Nat |-> f[k]]
                          /\ \A k \in Nat : k + m >= str.close => f[k] = Meaning(f, k)
           S == {m \in Nat : \E f : Turns(f, m)}
<1>1. str.close \in Nat
  BY AtRule
<1>2. 0 \in S
  <2> DEFINE f == [k \in Nat |-> [ok |-> k = str.close, bytes |-> <<>>]]
  <2>1. ASSUME NEW k \in Nat, k + 0 >= str.close PROVE f[k] = Meaning(f, k)
    <3>1. k >= str.close /\ f[k] = [ok |-> k = str.close, bytes |-> <<>>]
      BY <2>1
    <3> HIDE DEF f
    <3> QED BY <3>1, Zenon DEF Meaning
  <2>2. f = [k \in Nat |-> f[k]]
    OBVIOUS
  <2> HIDE DEF f
  <2> QED BY <2>1, <2>2
<1>3. ASSUME NEW m \in Nat, m \in S PROVE m + 1 \in S
  <2>1. PICK f : Turns(f, m)
    BY <1>3
  <2> DEFINE g == [k \in Nat |-> IF k + m + 1 = str.close THEN Meaning(f, k) ELSE f[k]]
  <2>2. ASSUME NEW k \in Nat, k + (m + 1) >= str.close PROVE g[k] = Meaning(g, k)
    <3>1. k < str.close => g[Item(k).next] = f[Item(k).next]
      <4> SUFFICES ASSUME k < str.close PROVE g[Item(k).next] = f[Item(k).next]
        OBVIOUS
      <4>1. PICK n \in Nat : n = Item(k).next /\ n > k
        BY ItemType
      <4>2. n + m + 1 # str.close
        BY <1>1, <2>2, <4>1
      <4>3. g[n] = f[n]
        BY <4>2
      <4> QED BY <4>1, <4>3
    <3>2. Meaning(g, k) = Meaning(f, k)
      <4> HIDE DEF g
      <4>1. CASE k >= str.close
        BY <4>1, Zenon DEF Meaning
      <4>2. CASE ~(k >= str.close)
        <5>1. k < str.close
          BY <1>1, <4>2
        <5> QED BY <3>1, <4>2, <5>1, Zenon DEF Meaning
      <4> QED BY <4>1, <4>2
    <3>3. CASE k + m + 1 = str.close
      <4>1. g[k] = Meaning(f, k)
        BY <3>3
      <4> HIDE DEF g
      <4> QED BY <3>2, <4>1
    <3>4. CASE k + m + 1 # str.close
      <4>1. k + m >= str.close
        BY <1>1, <2>2, <3>4
      <4>2. g[k] = f[k]
        BY <3>4
      <4>3. f[k] = Meaning(f, k)
        BY <2>1, <4>1
      <4> HIDE DEF g
      <4> QED BY <3>2, <4>2, <4>3
    <3> QED BY <3>3, <3>4
  <2>3. g = [k \in Nat |-> g[k]]
    OBVIOUS
  <2> HIDE DEF g
  <2> QED BY <2>2, <2>3
<1>4. \E f : Turns(f, str.close)
  <2> HIDE DEF Turns
  <2>1. \A m \in Nat : m \in S => m + 1 \in S
    BY <1>3
  <2>2. 0 \in S
    BY <1>2
  <2> HIDE DEF S
  <2>3. str.close \in S
    BY <1>1, <2>1, <2>2, Induction
  <2> QED BY <2>3 DEF S
<1>5. PICK f : Turns(f, str.close)
  BY <1>4
<1>6. f = [k \in Nat |-> Meaning(f, k)]
  <2>1. \A k \in Nat : k + str.close >= str.close
    BY <1>1
  <2>2. /\ f = [k \in Nat |-> f[k]]
        /\ \A k \in Nat : f[k] = Meaning(f, k)
    BY <1>5, <2>1
  <2> QED BY <2>2
<1>7. Unescaped = CHOOSE g : g = [k \in Nat |-> Meaning(g, k)]
  BY Zenon DEF Unescaped, Meaning
<1>8. Unescaped = [k \in Nat |-> Meaning(Unescaped, k)]
  BY <1>6, <1>7
<1> QED BY <1>8

LEMMA UnescapedType ==
  ASSUME IsString(str)
  PROVE  \A k \in Nat : Unescaped[k].bytes \in Seq(Cells) /\ Unescaped[k].ok \in BOOLEAN
<1> DEFINE Typed(k) == Unescaped[k].bytes \in Seq(Cells) /\ Unescaped[k].ok \in BOOLEAN
           S == {m \in Nat : \A k \in Nat : k + m >= str.close => Typed(k)}
<1>1. str.close \in Nat
  BY AtRule
<1>2. ASSUME NEW k \in Nat, k >= str.close PROVE Typed(k)
  <2>1. Unescaped[k] = [ok |-> k = str.close, bytes |-> <<>>]
    BY <1>2, UnescapedTurns, Zenon DEF Meaning
  <2>2. <<>> \in Seq(Cells)
    BY CellsAre
  <2> QED BY <2>1, <2>2
<1>3. ASSUME NEW k \in Nat, k < str.close, Typed(Item(k).next) PROVE Typed(k)
  <2>1. ~(k >= str.close)
    BY <1>1, <1>3
  <2>2. Unescaped[k] = [ok    |-> Item(k).bytes # <<>> /\ Unescaped[Item(k).next].ok,
                        bytes |-> Item(k).bytes \o Unescaped[Item(k).next].bytes]
    BY <2>1, UnescapedTurns, Zenon DEF Meaning
  <2>3. PICK head \in Seq(Cells) : head = Item(k).bytes
    BY <1>3, ItemType
  <2>4. PICK rest \in Seq(Cells) : rest = Unescaped[Item(k).next].bytes
    BY <1>3
  <2>5. head \o rest \in Seq(Cells)
    BY ConcatProperties
  <2> QED BY <2>2, <2>3, <2>4, <2>5
<1> HIDE DEF Typed
<1>4. 0 \in S
  BY <1>1, <1>2
<1>5. ASSUME NEW m \in Nat, m \in S PROVE m + 1 \in S
  <2>1. ASSUME NEW k \in Nat, k + (m + 1) >= str.close PROVE Typed(k)
    <3>1. CASE k >= str.close
      BY <1>2, <3>1
    <3>2. CASE k < str.close
      <4>1. PICK n \in Nat : n = Item(k).next /\ n > k
        BY <3>2, ItemType
      <4>2. n + m >= str.close
        BY <1>1, <2>1, <4>1
      <4>3. Typed(n)
        BY <1>5, <4>2
      <4> QED BY <1>3, <3>2, <4>1, <4>3
    <3> QED BY <1>1, <3>1, <3>2
  <2> QED BY <2>1
<1> HIDE DEF S
<1>6. str.close \in S
  BY <1>1, <1>4, <1>5, Induction
<1>7. \A k \in Nat : Typed(k)
  <2>1. \A k \in Nat : k + str.close >= str.close
    BY <1>1
  <2> QED BY <1>6, <2>1 DEF S
<1> QED BY <1>7 DEF Typed

\* The bytes from k to n are well formed and stand for the cells.
Spells(k, cells, n) ==
  /\ cells \in Seq(Cells)
  /\ Unescaped[k].bytes = cells \o Unescaped[n].bytes
  /\ Unescaped[k].ok = Unescaped[n].ok

LEMMA SpellsNothing ==
  ASSUME IsString(str), NEW k \in Nat
  PROVE  Spells(k, <<>>, k)
<1>1. PICK rest \in Seq(Cells) : rest = Unescaped[k].bytes
  BY UnescapedType
<1>2. <<>> \o rest = rest
  BY <1>1, ConcatEmptySeq
<1>3. <<>> \in Seq(Cells)
  BY CellsAre
<1> QED BY <1>1, <1>2, <1>3 DEF Spells

LEMMA SpellsBoth ==
  ASSUME IsString(str), NEW k \in Nat, NEW m \in Nat, NEW n \in Nat, NEW a, NEW b,
         Spells(k, a, m), Spells(m, b, n)
  PROVE  Spells(k, a \o b, n)
<1>1. a \in Seq(Cells) /\ b \in Seq(Cells)
  BY DEF Spells
<1>2. PICK rest \in Seq(Cells) : rest = Unescaped[n].bytes
  BY UnescapedType
<1>3. a \o b \in Seq(Cells) /\ (a \o b) \o rest = a \o (b \o rest)
  <2>1. a \o b \in Seq(Cells)
    BY <1>1, ConcatProperties
  <2>2. (a \o b) \o rest = a \o (b \o rest)
    <3>1. PICK S : S = Cells
      OBVIOUS
    <3>2. a \in Seq(S) /\ b \in Seq(S) /\ rest \in Seq(S)
      BY <1>1, <1>2, <3>1
    <3> HIDE <1>1, <1>2, <3>1
    <3> QED BY <3>2
  <2> QED BY <2>1, <2>2
<1>4. Unescaped[k].bytes = a \o (b \o rest)
  BY <1>2 DEF Spells
<1> QED BY <1>2, <1>3, <1>4 DEF Spells

\* An item is spelt by its bytes, or nothing is.
LEMMA SpellsItem ==
  ASSUME IsString(str), NEW k \in Nat, k < str.close
  PROVE  /\ Item(k).bytes # <<>> => Spells(k, Item(k).bytes, Item(k).next)
         /\ Item(k).bytes = <<>> => ~Unescaped[k].ok
<1>1. ~(k >= str.close)
  BY AtRule
<1>2. Unescaped[k] = [ok    |-> Item(k).bytes # <<>> /\ Unescaped[Item(k).next].ok,
                      bytes |-> Item(k).bytes \o Unescaped[Item(k).next].bytes]
  BY <1>1, UnescapedTurns, Zenon DEF Meaning
<1>3. PICK n \in Nat : n = Item(k).next
  BY ItemType
<1>4. PICK bytes \in Seq(Cells) : bytes = Item(k).bytes
  BY ItemType
<1>5. Unescaped[k] = [ok |-> bytes # <<>> /\ Unescaped[n].ok, bytes |-> bytes \o Unescaped[n].bytes]
  BY <1>2, <1>3, <1>4, Zenon
<1>6. PICK said \in BOOLEAN : said = Unescaped[n].ok
  BY UnescapedType
<1>7. Unescaped[k].ok = (bytes # <<>> /\ said) /\ Unescaped[k].bytes = bytes \o Unescaped[n].bytes
  BY <1>5, <1>6
<1>8. CASE bytes = <<>>
  <2>1. ~Unescaped[k].ok
    BY <1>7, <1>8
  <2> QED BY <1>4, <1>8, <2>1
<1>9. CASE bytes # <<>>
  <2>1. Unescaped[k].ok = said
    <3>1. (bytes # <<>> /\ said) = said
      BY <1>9
    <3> QED BY <1>7, <3>1
  <2>2. Spells(k, bytes, n)
    BY <1>6, <1>7, <2>1 DEF Spells
  <2> QED BY <1>3, <1>4, <1>9, <2>2
<1> QED BY <1>8, <1>9

\* The same for each kind of item.
LEMMA SpellsByte ==
  ASSUME IsString(str), NEW k \in Nat, k < str.close, At(k) # "backslash"
  PROVE  Spells(k, <<<<"raw", k>>>>, k + 1)
<1>1. PICK it : it = Item(k)
  OBVIOUS
<1>2. it.bytes = <<<<"raw", k>>>> /\ it.next = k + 1
  <2>1. ItemIs(it, k, handle_unicode_codepoint(k))
    BY <1>1, ItemRule
  <2> QED BY <2>1, Zenon DEF ItemIs
<1>3. <<<<"raw", k>>>> # <<>>
  OBVIOUS
<1> QED BY <1>1, <1>2, <1>3, SpellsItem, Zenon

LEMMA SpellsEscape ==
  ASSUME IsString(str), NEW k \in Nat, k < str.close, At(k) = "backslash", At(k + 1) # "u"
  PROVE  /\ At(k + 1) \in Escapes => Spells(k, <<<<"escape", k + 1>>>>, k + 2)
         /\ At(k + 1) \notin Escapes => ~Unescaped[k].ok
<1>1. PICK it : it = Item(k)
  OBVIOUS
<1>2. ItemIs(it, k, handle_unicode_codepoint(k))
  BY <1>1, ItemRule
<1>3. CASE At(k + 1) \in Escapes
  <2>1. it.bytes = <<<<"escape", k + 1>>>> /\ it.next = k + 2
    BY <1>2, <1>3, Zenon DEF ItemIs
  <2>2. <<<<"escape", k + 1>>>> # <<>>
    OBVIOUS
  <2> QED BY <1>1, <1>3, <2>1, <2>2, SpellsItem, Zenon
<1>4. CASE At(k + 1) \notin Escapes
  <2>1. At(k + 1) \notin Escapes \cup {"u"}
    BY <1>4
  <2>2. it.bytes = <<>>
    BY <1>2, <2>1, Zenon DEF ItemIs
  <2> QED BY <1>1, <1>4, <2>2, SpellsItem, Zenon
<1> QED BY <1>3, <1>4

LEMMA SpellsCodePoint ==
  ASSUME IsString(str), NEW k \in Nat, k < str.close, At(k) = "backslash", At(k + 1) = "u",
         NEW n \in Nat, NEW u, u = handle_unicode_codepoint(k), n = codepoint_to_utf8(u.code)
  PROVE  /\ n > 0 => Spells(k, [j \in 1 .. n |-> <<"utf8", k>>], k + u.bytes)
         /\ n = 0 => ~Unescaped[k].ok
<1>1. PICK it : it = Item(k)
  OBVIOUS
<1>2. ItemIs(it, k, u)
  BY <1>1, ItemRule
<1>3. it.bytes = [j \in 1 .. n |-> <<"utf8", k>>] /\ it.next = k + u.bytes
  BY <1>2, Zenon DEF ItemIs
<1>4. n = 0 <=> [j \in 1 .. n |-> <<"utf8", k>>] = <<>>
  OBVIOUS
<1>5. n > 0 => n # 0
  OBVIOUS
<1> QED BY <1>1, <1>3, <1>4, <1>5, SpellsItem, Zenon

\* Bytes with no backslash among them stand for themselves.
Raws(k, n) == [j \in 1 .. n |-> <<"raw", k + j - 1>>]

LEMMA SpellsRun ==
  ASSUME IsString(str), NEW k \in Nat, NEW n \in Nat, k + n <= str.close,
         \A j \in 0 .. n - 1 : At(k + j) # "backslash"
  PROVE  Spells(k, Raws(k, n), k + n)
<1> DEFINE S == {m \in Nat : m <= n => Spells(k, Raws(k, m), k + m)}
<1>1. 0 \in S
  <2>1. Raws(k, 0) = <<>> /\ k + 0 = k
    BY DEF Raws
  <2> QED BY <2>1, SpellsNothing
<1>2. ASSUME NEW m \in Nat, m \in S PROVE m + 1 \in S
  <2> SUFFICES ASSUME m + 1 <= n PROVE Spells(k, Raws(k, m + 1), k + (m + 1))
    OBVIOUS
  <2>1. str.close \in Nat
    BY AtRule
  <2>2. m \in 0 .. n - 1 /\ m <= n /\ k + m \in Nat /\ k + m < str.close
        /\ k + m + 1 = k + (m + 1) /\ k + (m + 1) \in Nat
    BY <2>1
  <2>3. Spells(k, Raws(k, m), k + m)
    BY <1>2, <2>2
  <2>4. Spells(k + m, <<<<"raw", k + m>>>>, k + (m + 1))
    <3>1. PICK p \in Nat : p = k + m
      BY <2>2
    <3>2. At(p) # "backslash" /\ p < str.close
      BY <2>2, <3>1
    <3>3. Spells(p, <<<<"raw", p>>>>, p + 1)
      BY <3>2, SpellsByte
    <3>4. p + 1 = k + (m + 1)
      BY <3>1
    <3> QED BY <3>1, <3>3, <3>4
  <2>5. Raws(k, m + 1) = Raws(k, m) \o <<<<"raw", k + m>>>>
    <3> DEFINE cell(j) == <<"raw", k + j - 1>>
    <3>1. \A j : j = m + 1 => cell(j) = <<"raw", k + m>>
      OBVIOUS
    <3>2. \A j \in 1 .. m + 1 : j <= m \/ j = m + 1
      OBVIOUS
    <3>3. Raws(k, m + 1) = [j \in 1 .. m + 1 |-> cell(j)] /\ Raws(k, m) = [j \in 1 .. m |-> cell(j)]
      BY DEF Raws
    <3> HIDE DEF cell
    <3>4. PICK last : last = <<"raw", k + m>>
      OBVIOUS
    <3>5. [j \in 1 .. m + 1 |-> cell(j)] = [j \in 1 .. m |-> cell(j)] \o <<last>>
      BY <3>1, <3>2, <3>4
    <3> QED BY <3>3, <3>4, <3>5
  <2>6. Spells(k, Raws(k, m) \o <<<<"raw", k + m>>>>, k + (m + 1))
    BY <2>2, <2>3, <2>4, SpellsBoth
  <2> QED BY <2>5, <2>6
<1> HIDE DEF S
<1>3. n \in S
  BY <1>1, <1>2, Induction
<1> QED BY <1>3 DEF S

\* The bytes written to the buffer up to n.
Prefix(buffer, n) == [j \in 1 .. n |-> buffer[j - 1]]

LEMMA PrefixGrows ==
  ASSUME NEW f, NEW g, NEW d \in Nat, NEW cells \in Seq(Cells), Prefix(f, d) \in Seq(Cells),
         \A j \in 0 .. d - 1 : g[j] = f[j],
         \A j \in 1 .. Len(cells) : g[d + j - 1] = cells[j]
  PROVE  Prefix(g, d + Len(cells)) = Prefix(f, d) \o cells
<1>1. PICK n \in Nat : n = Len(cells)
  OBVIOUS
<1>2. PICK head \in Seq(Cells) : head = Prefix(f, d)
  OBVIOUS
<1>3. Len(head) = d /\ \A j \in 1 .. d : head[j] = f[j - 1]
  BY <1>2 DEF Prefix
<1>4. ASSUME NEW j \in 1 .. d + n PROVE g[j - 1] = (head \o cells)[j]
  <2>1. (head \o cells)[j] = IF j <= d THEN head[j] ELSE cells[j - d]
    BY <1>1, <1>3, ConcatProperties
  <2>2. CASE j <= d
    <3>1. j \in 1 .. d /\ j - 1 \in 0 .. d - 1
      BY <2>2
    <3> QED BY <1>3, <2>1, <2>2, <3>1
  <2>3. CASE ~(j <= d)
    <3>1. PICK m \in 1 .. n : m = j - d
      BY <2>3
    <3>2. g[d + m - 1] = cells[m]
      BY <1>1
    <3>3. d + m - 1 = j - 1
      BY <3>1
    <3> QED BY <2>1, <2>3, <3>1, <3>2, <3>3
  <2> QED BY <2>2, <2>3
<1>5. head \o cells \in Seq(Cells) /\ Len(head \o cells) = d + n
  BY <1>1, <1>3, ConcatProperties
<1>6. head \o cells = [j \in 1 .. d + n |-> (head \o cells)[j]]
  <2>1. PICK both \in Seq(Cells) : both = head \o cells
    BY <1>5
  <2>2. both = [j \in 1 .. d + n |-> both[j]]
    <3>1. Len(both) = d + n
      BY <1>5, <2>1
    <3> HIDE <2>1
    <3> QED BY <3>1
  <2> QED BY <2>1, <2>2
<1>7. Prefix(g, d + n) = [j \in 1 .. d + n |-> g[j - 1]]
  BY DEF Prefix
<1>8. Prefix(g, d + n) = head \o cells
  BY <1>4, <1>6, <1>7
<1> QED BY <1>1, <1>2, <1>8

-----------------------------------------------------------------------------
\* What the buffer holds is what was read so far, an escape is never cut, and
\* the two pointers stay apart from the end.
StringInv ==
  /\ str \in Strings
  /\ src \in 0 .. str.close /\ src \notin Escaped(str.chars, str.close)
  /\ dst \in 0 .. str.close /\ 0 .. dst - 1 \subseteq DOMAIN out
  /\ DOMAIN out \subseteq 0 .. str.close + Vector - 1
  /\ seen \in Int /\ seen < Len(str.chars) + Padding
  /\ parsed \in {"parsing", "ok", "nullptr"}
  /\ parsed = "ok" => dst <= src + Vector - 1
  /\ parsed # "ok" => dst <= src
  /\ parsed = "parsing" => Spells(0, Prefix(out, dst), src)
  /\ UnescapesString

LEMMA Unprimed ==
  ASSUME str' = str
  PROVE  Unescaped' = Unescaped
BY SMT DEF Unescaped, Item, handle_unicode_codepoint, hex_to_u32_nocheck, At

LEMMA LowestRule ==
  ASSUME NEW T, T \subseteq Nat, T # {}
  PROVE  Lowest(T) \in T /\ \A k \in T : Lowest(T) <= k
<1>1. \E m \in T : \A k \in T : m <= k
  BY Least
<1> QED BY <1>1 DEF Lowest

\* With no backslash in front of it the byte at src + n is not escaped.
LEMMA NotEscaped ==
  ASSUME StringInv, NEW n \in Nat, src + n <= str.close,
         \A j \in 0 .. n - 1 : At(src + j) # "backslash"
  PROVE  src + n \notin Escaped(str.chars, str.close)
<1>1. IsString(str) /\ src \in Nat
  BY StringsAssumption DEF StringInv
<1>2. str.close \in Nat
  BY <1>1, AtRule
<1>3. CASE n = 0
  <2>1. src + n = src
    BY <1>1, <1>3
  <2> QED BY <2>1 DEF StringInv
<1>4. CASE n # 0
  <2>1. PICK p \in 1 .. str.close : p = src + n
    BY <1>1, <1>2, <1>4
  <2>2. n - 1 \in 0 .. n - 1 /\ src + (n - 1) = p - 1
    BY <1>1, <1>4, <2>1
  <2>3. At(p - 1) # "backslash"
    BY <2>2
  <2>4. p - 1 \in 0 .. str.close /\ p - 1 + 1 = p
    BY <1>2, <2>1
  <2>5. str.chars[p] # "backslash"
    BY <1>1, <2>3, <2>4, AtRule
  <2> QED BY <1>2, <2>1, <2>5, EscapedRule
<1> QED BY <1>3, <1>4

\* The quote below the backslashes is the one that closes the string.
LEMMA QuoteIs ==
  ASSUME StringInv, has_quote_first, NEW q, q = Lowest(Places("quote"))
  PROVE  /\ q \in Window /\ src + q = str.close
         /\ \A j \in 0 .. q - 1 : At(src + j) # "backslash"
<1>1. IsString(str) /\ src \in Nat /\ src <= str.close /\ Vector \in Nat
  BY StringsAssumption, VectorAssumption DEF StringInv
<1>2. /\ str.close \in Nat /\ At(str.close) = "quote"
      /\ \A k \in 0 .. str.close :
           At(k) = "quote" => (k \in Escaped(str.chars, str.close) <=> k # str.close)
  BY <1>1, AtRule
<1>3. PICK p \in Places("quote") : \A b \in Places("backslash") : p < b
  BY DEF has_quote_first
<1>4. Places("quote") \subseteq Nat
  BY <1>1 DEF Places, Window
<1>5. q \in Places("quote") /\ \A k \in Places("quote") : q <= k
  BY <1>3, <1>4, LowestRule
<1>6. /\ q \in Nat /\ q \in Window /\ q <= Vector - 1 /\ At(src + q) = "quote"
      /\ p \in Nat /\ q <= p
  BY <1>1, <1>3, <1>5 DEF Places, Window
<1>7. ASSUME NEW j \in 0 .. q - 1 PROVE At(src + j) # "backslash"
  <2> SUFFICES ASSUME At(src + j) = "backslash" PROVE FALSE
    OBVIOUS
  <2>1. j \in Places("backslash")
    BY <1>1, <1>6 DEF Places, Window
  <2> QED BY <1>3, <1>6, <2>1
<1>8. src + q <= str.close
  <2> SUFFICES ASSUME src + q > str.close PROVE FALSE
    BY <1>1, <1>2, <1>6
  <2>1. PICK j \in Nat : j = str.close - src /\ src + j = str.close
    BY <1>1, <1>2
  <2>2. j < q
    BY <1>1, <1>6, <2>1
  <2>3. j \in Places("quote")
    BY <1>1, <1>2, <1>6, <2>1, <2>2 DEF Places, Window
  <2> QED BY <1>5, <1>6, <2>2, <2>3
<1>9. src + q \notin Escaped(str.chars, str.close)
  BY <1>6, <1>7, <1>8, NotEscaped
<1> QED BY <1>1, <1>2, <1>6, <1>7, <1>8, <1>9

\* The backslash below the quotes begins an escape in front of that quote.
LEMMA BackslashIs ==
  ASSUME StringInv, has_backslash, NEW b, b = Lowest(Places("backslash"))
  PROVE  /\ b \in Window /\ At(src + b) = "backslash" /\ src + b + 2 <= str.close
         /\ src + b + 2 \notin Escaped(str.chars, str.close)
         /\ \A j \in 0 .. b - 1 : At(src + j) # "backslash"
<1>1. IsString(str) /\ src \in Nat /\ src <= str.close /\ Vector \in Nat
  BY StringsAssumption, VectorAssumption DEF StringInv
<1>2. /\ str.close \in Nat /\ At(str.close) = "quote"
      /\ \A k \in 0 .. str.close : At(k) = str.chars[k + 1]
      /\ \A k \in 0 .. str.close :
           At(k) = "quote" => (k \in Escaped(str.chars, str.close) <=> k # str.close)
  BY <1>1, AtRule
<1>3. PICK p \in Places("backslash") : \A q \in Places("quote") : p < q
  BY DEF has_backslash
<1>4. Places("backslash") \subseteq Nat
  BY <1>1 DEF Places, Window
<1>5. b \in Places("backslash") /\ \A k \in Places("backslash") : b <= k
  BY <1>3, <1>4, LowestRule
<1>6. /\ b \in Nat /\ b \in Window /\ b <= Vector - 1 /\ At(src + b) = "backslash"
      /\ p \in Nat /\ b <= p
  BY <1>1, <1>3, <1>5 DEF Places, Window
<1>7. ASSUME NEW j \in 0 .. b - 1 PROVE At(src + j) # "backslash"
  <2> SUFFICES ASSUME At(src + j) = "backslash" PROVE FALSE
    OBVIOUS
  <2>1. j \in Places("backslash")
    BY <1>1, <1>6 DEF Places, Window
  <2> QED BY <1>5, <1>6, <2>1
<1>8. src + b < str.close
  <2> SUFFICES ASSUME src + b >= str.close PROVE FALSE
    BY <1>1, <1>2, <1>6
  <2>1. PICK j \in Nat : j = str.close - src /\ src + j = str.close
    BY <1>1, <1>2
  <2>2. j <= b
    BY <1>1, <1>6, <2>1
  <2>3. j \in Places("quote")
    BY <1>1, <1>2, <1>6, <2>1, <2>2 DEF Places, Window
  <2> QED BY <1>3, <1>6, <2>2, <2>3
<1>9. PICK k \in Nat : k = src + b
  BY <1>1, <1>6
<1>10. k \notin Escaped(str.chars, str.close) /\ k < str.close /\ At(k) = "backslash"
  BY <1>1, <1>2, <1>6, <1>7, <1>8, <1>9, NotEscaped
<1>11. k + 1 \in Escaped(str.chars, str.close)
  <2>1. k + 1 \in 1 .. str.close /\ k + 1 - 1 = k /\ k \in 0 .. str.close
    BY <1>2, <1>10
  <2>2. str.chars[k + 1] = "backslash"
    BY <1>2, <1>10, <2>1
  <2> QED BY <1>2, <1>10, <2>1, <2>2, EscapedRule
<1>12. k + 1 < str.close
  <2>1. k + 1 = str.close => str.close \notin Escaped(str.chars, str.close)
    BY <1>2
  <2> QED BY <1>2, <1>10, <1>11, <2>1
<1>13. k + 2 \notin Escaped(str.chars, str.close) /\ k + 2 <= str.close
  <2>1. k + 2 \in 1 .. str.close /\ k + 2 - 1 = k + 1
    BY <1>2, <1>12
  <2> QED BY <1>2, <1>11, <2>1, EscapedRule
<1> QED BY <1>1, <1>6, <1>7, <1>9, <1>13

\* With neither in the window the string goes on behind it.
LEMMA NeitherIs ==
  ASSUME StringInv, ~has_quote_first, ~has_backslash
  PROVE  src + Vector <= str.close /\ \A j \in 0 .. Vector - 1 : At(src + j) # "backslash"
<1>1. IsString(str) /\ src \in Nat /\ src <= str.close /\ Vector \in Nat
  BY StringsAssumption, VectorAssumption DEF StringInv
<1>2. str.close \in Nat /\ At(str.close) = "quote"
  BY <1>1, AtRule
<1>3. Places("quote") \subseteq Nat /\ Places("backslash") \subseteq Nat
  BY <1>1 DEF Places, Window
<1>4. Places("quote") = {}
  <2> SUFFICES ASSUME Places("quote") # {} PROVE FALSE
    OBVIOUS
  <2>1. PICK q \in Places("quote") : \A k \in Places("quote") : q <= k
    BY <1>3, Least
  <2>2. PICK b \in Places("backslash") : ~(q < b)
    BY <2>1 DEF has_quote_first
  <2>3. PICK k \in Places("quote") : ~(b < k)
    BY <2>2 DEF has_backslash
  <2>4. q = b
    BY <1>3, <2>1, <2>2, <2>3
  <2> QED BY <2>1, <2>2, <2>4 DEF Places
<1>5. Places("backslash") = {}
  BY <1>4 DEF has_backslash
<1>6. src + Vector <= str.close
  <2> SUFFICES ASSUME src + Vector > str.close PROVE FALSE
    BY <1>1, <1>2
  <2>1. PICK j \in Nat : j = str.close - src /\ src + j = str.close
    BY <1>1, <1>2
  <2>2. j \in Places("quote")
    BY <1>1, <1>2, <2>1 DEF Places, Window
  <2> QED BY <1>4, <2>2
<1> QED BY <1>5, <1>6 DEF Places, Window

\* The cells are written from d on, and what is before that stays.
Writes(more, buffer, d, cells) ==
  /\ \A k : k \in DOMAIN more <=> k \in DOMAIN buffer \/ \E j \in DOMAIN cells : k = d + j
  /\ \A j \in DOMAIN cells : more[d + j] = cells[j]
  /\ \A k \in Int : k \in DOMAIN buffer /\ k < d => more[k] = buffer[k]

LEMMA OverwrittenRule ==
  ASSUME NEW buffer, NEW d \in Nat, NEW cells, DOMAIN cells \subseteq Nat
  PROVE  Writes(Overwritten(buffer, d, cells), buffer, d, cells)
<1>1. PICK more : more = Overwritten(buffer, d, cells)
  OBVIOUS
<1>2. DOMAIN more = DOMAIN buffer \cup {d + j : j \in DOMAIN cells}
  BY <1>1 DEF Overwritten
<1>3. ASSUME NEW j \in DOMAIN cells PROVE more[d + j] = cells[j]
  <2>1. d + j \in DOMAIN more /\ (d + j) - d = j
    BY <1>2
  <2> QED BY <1>1, <2>1 DEF Overwritten
<1>4. ASSUME NEW k \in Int, k \in DOMAIN buffer, k < d PROVE more[k] = buffer[k]
  <2>1. k - d \notin DOMAIN cells
    BY <1>4
  <2> QED BY <1>1, <1>4, <2>1 DEF Overwritten
<1> QED BY <1>1, <1>2, <1>3, <1>4 DEF Writes

\* What the vector leaves in the buffer.
LEMMA CopiedRule ==
  ASSUME StringInv, parsed = "parsing"
  PROVE  /\ DOMAIN copied \subseteq 0 .. str.close + Vector - 1
         /\ \A n \in 0 .. Vector : 0 .. dst + n - 1 \subseteq DOMAIN copied
         /\ \A n \in 0 .. Vector :
              src + n <= str.close /\ (\A j \in 0 .. n - 1 : At(src + j) # "backslash")
                => Spells(0, Prefix(copied, dst + n), src + n)
<1>1. /\ IsString(str) /\ src \in Nat /\ src <= str.close /\ Vector \in Nat
      /\ dst \in Nat /\ dst <= src
      /\ 0 .. dst - 1 \subseteq DOMAIN out /\ DOMAIN out \subseteq 0 .. str.close + Vector - 1
      /\ Spells(0, Prefix(out, dst), src)
  BY StringsAssumption, VectorAssumption DEF StringInv
<1>2. str.close \in Nat
  BY <1>1, AtRule
<1> DEFINE cells == [j \in Window |-> <<"raw", src + j>>]
<1>3. DOMAIN cells = Window /\ DOMAIN cells \subseteq Nat /\ copied = Overwritten(out, dst, cells)
  BY <1>1 DEF copied, Window
<1>4. /\ \A k : k \in DOMAIN copied <=> k \in DOMAIN out \/ \E j \in Window : k = dst + j
      /\ \A j \in Window : copied[dst + j] = cells[j]
      /\ \A k \in Int : k \in DOMAIN out /\ k < dst => copied[k] = out[k]
  <2>1. Writes(copied, out, dst, cells)
    <3> HIDE DEF cells
    <3> QED BY <1>1, <1>3, OverwrittenRule
  <2> HIDE DEF cells
  <2> QED BY <1>3, <2>1 DEF Writes
<1>5. \A j \in Window : copied[dst + j] = <<"raw", src + j>>
  BY <1>4
<1> HIDE DEF cells
<1>6. DOMAIN copied \subseteq 0 .. str.close + Vector - 1
  <2>1. ASSUME NEW j \in Window PROVE dst + j \in 0 .. str.close + Vector - 1
    BY <1>1, <1>2 DEF Window
  <2> QED BY <1>1, <1>4, <2>1
<1>7. ASSUME NEW n \in 0 .. Vector, NEW k \in 0 .. dst + n - 1 PROVE k \in DOMAIN copied
  <2>1. CASE k < dst
    BY <1>1, <1>4, <2>1
  <2>2. CASE k >= dst
    <3>1. PICK j \in Window : k = dst + j
      <4>1. k - dst \in Window /\ k = dst + (k - dst)
        BY <1>1, <1>7, <2>2 DEF Window
      <4> QED BY <4>1
    <3> QED BY <1>4, <3>1
  <2> QED BY <1>1, <2>1, <2>2
<1>8. ASSUME NEW n \in 0 .. Vector, src + n <= str.close,
             \A j \in 0 .. n - 1 : At(src + j) # "backslash"
      PROVE  Spells(0, Prefix(copied, dst + n), src + n)
  <2>0. n \in Nat /\ src + n \in Nat /\ n <= Vector
    BY <1>1
  <2>1. Spells(src, Raws(src, n), src + n)
    BY <1>1, <1>8, <2>0, SpellsRun
  <2>2. Spells(0, Prefix(out, dst) \o Raws(src, n), src + n)
    BY <1>1, <2>0, <2>1, SpellsBoth
  <2>3. Raws(src, n) \in Seq(Cells) /\ Prefix(out, dst) \in Seq(Cells)
    BY <1>1, <2>1 DEF Spells
  <2>4. Len(Raws(src, n)) = n /\ \A j \in 1 .. n : Raws(src, n)[j] = <<"raw", src + j - 1>>
    BY <2>0 DEF Raws
  <2>5. \A j \in 0 .. dst - 1 : copied[j] = out[j]
    BY <1>1, <1>4
  <2>6. ASSUME NEW j \in 1 .. n PROVE copied[dst + j - 1] = Raws(src, n)[j]
    <3>1. j - 1 \in Window /\ dst + (j - 1) = dst + j - 1 /\ src + (j - 1) = src + j - 1
      BY <1>1, <2>0 DEF Window
    <3>2. copied[dst + (j - 1)] = <<"raw", src + (j - 1)>>
      BY <1>5, <3>1
    <3> QED BY <2>4, <3>1, <3>2
  <2>7. Prefix(copied, dst + n) = Prefix(out, dst) \o Raws(src, n)
    <3>1. PICK raws \in Seq(Cells) : raws = Raws(src, n)
      BY <2>3
    <3>2. Len(raws) = n /\ \A j \in 1 .. Len(raws) : copied[dst + j - 1] = raws[j]
      BY <2>4, <2>6, <3>1
    <3>3. PICK f : f = copied
      OBVIOUS
    <3>4. Prefix(f, dst + Len(raws)) = Prefix(out, dst) \o raws
      <4>1. \A j \in 0 .. dst - 1 : f[j] = out[j]
        BY <2>5, <3>3
      <4>2. \A j \in 1 .. Len(raws) : f[dst + j - 1] = raws[j]
        BY <3>2, <3>3
      <4> QED BY <1>1, <2>3, <4>1, <4>2, PrefixGrows
    <3> QED BY <3>1, <3>2, <3>3, <3>4
  <2> QED BY <2>2, <2>7
<1> QED BY <1>6, <1>7, <1>8

\* And what is left when something is written over it.
LEMMA AddedRule ==
  ASSUME StringInv, parsed = "parsing", NEW b \in Window, src + b <= str.close,
         \A j \in 0 .. b - 1 : At(src + j) # "backslash",
         NEW n \in Nat, NEW c \in Cells, dst + b + n <= str.close + 1, NEW more,
         more = Overwritten(copied, dst + b, [j \in 0 .. n - 1 |-> c])
  PROVE  /\ DOMAIN more \subseteq 0 .. str.close + Vector - 1
         /\ 0 .. dst + b + n - 1 \subseteq DOMAIN more
         /\ \A next \in Nat : Spells(src + b, [j \in 1 .. n |-> c], next)
                                => Spells(0, Prefix(more, dst + b + n), next)
<1>1. /\ IsString(str) /\ src \in Nat /\ dst \in Nat /\ dst <= src
      /\ Vector \in Nat \ {0} /\ b \in 0 .. Vector /\ b \in Nat
  BY StringsAssumption, VectorAssumption DEF StringInv, Window
<1>2. str.close \in Nat
  BY <1>1, AtRule
<1> DEFINE cells == [j \in 0 .. n - 1 |-> c]
           said  == [j \in 1 .. n |-> c]
<1>3. PICK d \in Nat : d = dst + b
  BY <1>1
<1>4. Writes(more, copied, d, cells)
  <2>1. DOMAIN cells \subseteq Nat /\ more = Overwritten(copied, d, cells)
    BY <1>3
  <2> HIDE DEF cells
  <2> QED BY <1>3, <2>1, OverwrittenRule
<1>5. /\ \A k : k \in DOMAIN more <=> k \in DOMAIN copied \/ \E j \in 0 .. n - 1 : k = d + j
      /\ \A j \in 0 .. n - 1 : more[d + j] = c
      /\ \A k \in Int : k \in DOMAIN copied /\ k < d => more[k] = copied[k]
  BY <1>4 DEF Writes
<1>6. DOMAIN copied \subseteq 0 .. str.close + Vector - 1 /\ 0 .. d - 1 \subseteq DOMAIN copied
  BY <1>1, <1>3, CopiedRule
<1>7. DOMAIN more \subseteq 0 .. str.close + Vector - 1
  <2>1. ASSUME NEW j \in 0 .. n - 1 PROVE d + j \in 0 .. str.close + Vector - 1
    BY <1>1, <1>2, <1>3
  <2>2. ASSUME NEW k \in DOMAIN more PROVE k \in DOMAIN copied \/ \E j \in 0 .. n - 1 : k = d + j
    BY <1>5
  <2> QED BY <1>6, <2>1, <2>2, Zenon
<1>8. ASSUME NEW k \in 0 .. d + n - 1 PROVE k \in DOMAIN more
  <2>1. CASE k < d
    BY <1>5, <1>6, <2>1
  <2>2. CASE k >= d
    <3>1. k - d \in 0 .. n - 1 /\ k = d + (k - d)
      BY <2>2
    <3> QED BY <1>5, <3>1
  <2> QED BY <2>1, <2>2
<1>9. ASSUME NEW next \in Nat, Spells(src + b, said, next)
      PROVE  Spells(0, Prefix(more, d + n), next)
  <2>1. Spells(0, Prefix(copied, d), src + b)
    BY <1>1, <1>3, CopiedRule
  <2>2. src + b \in Nat
    BY <1>1
  <2>3. Spells(0, Prefix(copied, d) \o said, next)
    <3> HIDE DEF said
    <3> QED BY <1>1, <1>9, <2>1, <2>2, SpellsBoth
  <2>4. said \in Seq(Cells) /\ Len(said) = n
    <3>1. said \in Seq(Cells)
      BY <1>9 DEF Spells
    <3> QED BY <3>1
  <2>5. \A j \in 1 .. n : said[j] = c
    OBVIOUS
  <2> HIDE DEF said
  <2>6. Prefix(copied, d) \in Seq(Cells)
    BY <2>1 DEF Spells
  <2>7. PICK f : f = copied
    OBVIOUS
  <2>8. \A j \in 0 .. d - 1 : more[j] = f[j]
    BY <1>5, <1>6, <2>7
  <2>9. \A j \in 1 .. Len(said) : more[d + j - 1] = said[j]
    <3>1. ASSUME NEW j \in 1 .. n PROVE more[d + j - 1] = c
      <4>1. j - 1 \in 0 .. n - 1 /\ d + (j - 1) = d + j - 1
        OBVIOUS
      <4> QED BY <1>5, <4>1
    <3> QED BY <2>4, <2>5, <3>1
  <2>10. Prefix(more, d + Len(said)) = Prefix(f, d) \o said
    <3>1. Prefix(f, d) \in Seq(Cells) /\ said \in Seq(Cells) /\ d \in Nat
      BY <2>4, <2>6, <2>7
    <3> QED BY <2>8, <2>9, <3>1, PrefixGrows, Zenon
  <2> QED BY <2>3, <2>4, <2>7, <2>10
<1> QED BY <1>3, <1>7, <1>8, <1>9

\* What is spelt up to the quote is the string, and what cannot be spelt makes
\* all of it wrong.
LEMMA SpellsAll ==
  ASSUME IsString(str), NEW cells, Spells(0, cells, str.close)
  PROVE  Unescaped[0].ok /\ cells = Unescaped[0].bytes
<1>1. str.close \in Nat /\ str.close >= str.close
  BY AtRule
<1>2. Unescaped[str.close] = [ok |-> TRUE, bytes |-> <<>>]
  <2>1. Unescaped[str.close] = [ok |-> str.close = str.close, bytes |-> <<>>]
    BY <1>1, UnescapedTurns, Zenon DEF Meaning
  <2> QED BY <2>1
<1>3. Unescaped[str.close].ok = TRUE /\ Unescaped[str.close].bytes = <<>>
  BY <1>2
<1>4. cells \o <<>> = cells
  BY ConcatEmptySeq DEF Spells
<1> QED BY <1>3, <1>4 DEF Spells

LEMMA SpellsNone ==
  ASSUME StringInv, parsed = "parsing", NEW b \in Window, src + b <= str.close,
         \A j \in 0 .. b - 1 : At(src + j) # "backslash", ~Unescaped[src + b].ok
  PROVE  ~Unescaped[0].ok
<1>1. /\ IsString(str) /\ src \in Nat /\ Vector \in Nat /\ b \in 0 .. Vector
  BY StringsAssumption, VectorAssumption DEF StringInv, Window
<1>2. Spells(0, Prefix(copied, dst + b), src + b)
  BY <1>1, CopiedRule
<1> QED BY <1>2 DEF Spells

-----------------------------------------------------------------------------
LEMMA QuoteStep ==
  ASSUME StringInv, parsed = "parsing", AtQuote
  PROVE  StringInv'
<1>1. PICK q : q = Lowest(Places("quote"))
  OBVIOUS
<1>2. /\ out' = copied /\ dst' = dst + q /\ Sees(src + Vector - 1)
      /\ parsed' = "ok" /\ str' = str /\ src' = src /\ has_quote_first
  BY <1>1 DEF AtQuote, Return
<1>3. /\ IsString(str) /\ src \in Nat /\ dst \in Nat /\ dst <= src
      /\ Vector \in Nat \ {0} /\ Padding \in Nat /\ Padding >= Vector - 1
  BY StringsAssumption, VectorAssumption DEF StringInv
<1>4. str.close \in Nat /\ Len(str.chars) \in Nat /\ str.close < Len(str.chars)
  BY <1>3, AtRule
<1>5. /\ q \in Window /\ src + q = str.close
      /\ \A j \in 0 .. q - 1 : At(src + j) # "backslash"
  BY <1>1, <1>2, QuoteIs
<1>6. q \in 0 .. Vector /\ q \in Nat /\ q <= Vector - 1
  BY <1>3, <1>5 DEF Window
<1>7. dst' \in 0 .. str.close /\ dst' <= src + Vector - 1
  BY <1>2, <1>3, <1>4, <1>5, <1>6
<1>8. /\ 0 .. dst' - 1 \subseteq DOMAIN out'
      /\ DOMAIN out' \subseteq 0 .. str.close + Vector - 1
  <2>1. DOMAIN copied \subseteq 0 .. str.close + Vector - 1 /\ 0 .. dst + q - 1 \subseteq DOMAIN copied
    BY <1>6, CopiedRule
  <2>2. dst' - 1 = dst + q - 1
    BY <1>2, <1>3, <1>6
  <2> QED BY <1>2, <2>1, <2>2
<1>9. seen' \in Int /\ seen' < Len(str.chars) + Padding
  BY <1>2, <1>3, <1>4, <1>5, <1>6 DEF StringInv, Sees
<1>10. UnescapesString'
  <2>1. Spells(0, Prefix(copied, dst + q), str.close)
    <3>1. src + q <= str.close
      BY <1>4, <1>5
    <3>2. Spells(0, Prefix(copied, dst + q), src + q)
      BY <1>5, <1>6, <3>1, CopiedRule
    <3> QED BY <1>5, <3>2
  <2>2. Unescaped[0].ok /\ Prefix(copied, dst + q) = Unescaped[0].bytes
    BY <1>3, <2>1, SpellsAll
  <2>3. Unescaped' = Unescaped
    BY <1>2, Unprimed
  <2>4. Prefix(copied, dst + q) = [j \in 1 .. dst' |-> out'[j - 1]]
    BY <1>2 DEF Prefix
  <2> QED BY <1>2, <2>2, <2>3, <2>4 DEF UnescapesString
<1> QED BY <1>2, <1>7, <1>8, <1>9, <1>10 DEF StringInv

LEMMA EscapeStep ==
  ASSUME StringInv, parsed = "parsing", AtEscape
  PROVE  StringInv'
<1>1. PICK b : b = Lowest(Places("backslash"))
  OBVIOUS
<1>2. PICK last \in {src + Vector - 1, src + b + 1} : Sees(last)
  BY <1>1 DEF AtEscape
<1>3. /\ has_backslash /\ At(src + b + 1) # "u" /\ str' = str
      /\ \/ /\ At(src + b + 1) \in Escapes
            /\ out' = Overwritten(copied, dst + b, [j \in {0} |-> <<"escape", src + b + 1>>])
            /\ src' = src + b + 2 /\ dst' = dst + b + 1 /\ parsed' = parsed
         \/ /\ At(src + b + 1) \notin Escapes
            /\ out' = copied /\ dst' = dst /\ parsed' = "nullptr" /\ src' = src
  BY <1>1 DEF AtEscape, Return
<1>4. /\ IsString(str) /\ src \in Nat /\ dst \in Nat /\ dst <= src
      /\ Vector \in Nat \ {0} /\ Padding \in Nat /\ Padding >= Vector - 1
  BY StringsAssumption, VectorAssumption DEF StringInv
<1>5. str.close \in Nat /\ Len(str.chars) \in Nat /\ str.close < Len(str.chars)
  BY <1>4, AtRule
<1>6. /\ b \in Window /\ At(src + b) = "backslash" /\ src + b + 2 <= str.close
      /\ src + b + 2 \notin Escaped(str.chars, str.close)
      /\ \A j \in 0 .. b - 1 : At(src + j) # "backslash"
  BY <1>1, <1>3, BackslashIs
<1>7. b \in 0 .. Vector /\ b \in Nat /\ b <= Vector - 1
  BY <1>4, <1>6 DEF Window
<1>8. PICK k \in Nat : k = src + b /\ k < str.close /\ k + 1 = src + b + 1 /\ k + 2 = src + b + 2
  BY <1>4, <1>5, <1>6, <1>7
<1>9. seen' \in Int /\ seen' < Len(str.chars) + Padding
  <2>1. last \in Int /\ last < Len(str.chars) + Padding
    BY <1>2, <1>4, <1>5, <1>6, <1>7
  <2> QED BY <1>2, <1>4, <1>5, <2>1 DEF StringInv, Sees
<1>10. Unescaped' = Unescaped
  BY <1>3, Unprimed
<1>11. CASE /\ At(src + b + 1) \in Escapes
            /\ out' = Overwritten(copied, dst + b, [j \in {0} |-> <<"escape", src + b + 1>>])
            /\ src' = src + b + 2 /\ dst' = dst + b + 1 /\ parsed' = parsed
  <2>1. PICK c \in Cells : c = <<"escape", k + 1>>
    <3>1. k + 1 \in Nat
      OBVIOUS
    <3> QED BY <3>1, CellsAre, Zenon
  <2>2. out' = Overwritten(copied, dst + b, [j \in 0 .. 1 - 1 |-> c])
    <3>1. {0} = 0 .. 1 - 1
      OBVIOUS
    <3> QED BY <1>8, <1>11, <2>1, <3>1
  <2>3. dst + b + 1 <= str.close /\ dst + b + 1 <= str.close + 1 /\ src + b <= str.close
    BY <1>4, <1>5, <1>6, <1>7
  <2>4. Spells(k, [j \in 1 .. 1 |-> c], k + 2)
    <3>1. [j \in 1 .. 1 |-> c] = <<c>>
      OBVIOUS
    <3>2. Spells(k, <<<<"escape", k + 1>>>>, k + 2)
      BY <1>3, <1>4, <1>6, <1>8, <1>11, SpellsEscape
    <3> QED BY <2>1, <3>1, <3>2
  <2>5. PICK more : more = out'
    OBVIOUS
  <2>6. /\ DOMAIN more \subseteq 0 .. str.close + Vector - 1
        /\ 0 .. dst + b + 1 - 1 \subseteq DOMAIN more
        /\ \A next \in Nat : Spells(src + b, [j \in 1 .. 1 |-> c], next)
                               => Spells(0, Prefix(more, dst + b + 1), next)
    <3>1. 1 \in Nat /\ more = Overwritten(copied, dst + b, [j \in 0 .. 1 - 1 |-> c])
      BY <2>2, <2>5
    <3> QED BY <1>6, <2>3, <3>1, AddedRule
  <2>7. Spells(0, Prefix(more, dst + b + 1), k + 2)
    BY <1>8, <2>4, <2>6
  <2>8. Spells(0, Prefix(out, dst), src)'
    BY <1>8, <1>10, <1>11, <2>5, <2>7 DEF Spells, Prefix
  <2>9. src' \in 0 .. str.close /\ src' \notin Escaped(str.chars, str.close) /\ dst' <= src'
        /\ dst' \in 0 .. str.close
    BY <1>4, <1>5, <1>6, <1>7, <1>11, <2>3
  <2>10. /\ 0 .. dst' - 1 \subseteq DOMAIN out'
         /\ DOMAIN out' \subseteq 0 .. str.close + Vector - 1
    <3>1. dst' - 1 = dst + b + 1 - 1
      BY <1>4, <1>7, <1>11
    <3> QED BY <2>5, <2>6, <3>1
  <2>11. UnescapesString'
    BY <1>11 DEF UnescapesString
  <2> QED BY <1>3, <1>9, <1>11, <2>8, <2>9, <2>10, <2>11 DEF StringInv
<1>12. CASE /\ At(src + b + 1) \notin Escapes
            /\ out' = copied /\ dst' = dst /\ parsed' = "nullptr" /\ src' = src
  <2>1. ~Unescaped[k].ok
    BY <1>3, <1>4, <1>6, <1>8, <1>12, SpellsEscape
  <2>2. ~Unescaped[0].ok
    <3>1. src + b <= str.close /\ ~Unescaped[src + b].ok
      BY <1>4, <1>5, <1>8, <2>1
    <3> QED BY <1>6, <3>1, SpellsNone
  <2>3. UnescapesString'
    BY <1>10, <1>12, <2>2 DEF UnescapesString
  <2>4. DOMAIN out' \subseteq 0 .. str.close + Vector - 1 /\ 0 .. dst' - 1 \subseteq DOMAIN out'
    <3>1. 0 \in 0 .. Vector /\ dst + 0 = dst
      BY <1>4
    <3>2. DOMAIN copied \subseteq 0 .. str.close + Vector - 1 /\ 0 .. dst + 0 - 1 \subseteq DOMAIN copied
      BY <3>1, CopiedRule
    <3>3. dst' - 1 = dst + 0 - 1
      BY <1>4, <1>12
    <3> QED BY <1>12, <3>2, <3>3
  <2> QED BY <1>3, <1>4, <1>9, <1>12, <2>3, <2>4 DEF StringInv
<1> QED BY <1>3, <1>11, <1>12

LEMMA CodePointStep ==
  ASSUME StringInv, parsed = "parsing", AtCodePoint
  PROVE  StringInv'
<1>1. PICK b : b = Lowest(Places("backslash"))
  OBVIOUS
<1>2. PICK u : u = handle_unicode_codepoint(src + b)
  OBVIOUS
<1>3. PICK n : n = codepoint_to_utf8(u.code)
  OBVIOUS
<1>4. /\ has_backslash /\ At(src + b + 1) = "u" /\ str' = str
      /\ Sees(IF src + Vector - 1 > u.last THEN src + Vector - 1 ELSE u.last)
      /\ out' = Overwritten(copied, dst + b, [j \in 0 .. n - 1 |-> <<"utf8", src + b>>])
      /\ \/ /\ n > 0
            /\ src' = src + b + u.bytes /\ dst' = dst + b + n /\ parsed' = parsed
         \/ /\ n = 0
            /\ dst' = dst /\ parsed' = "nullptr" /\ src' = src
  BY <1>1, <1>2, <1>3 DEF AtCodePoint, Return
<1>5. /\ IsString(str) /\ src \in Nat /\ dst \in Nat /\ dst <= src
      /\ Vector \in Nat \ {0} /\ Padding \in Nat /\ Padding >= Vector - 1 /\ Padding >= 3
  BY StringsAssumption, VectorAssumption DEF StringInv
<1>6. str.close \in Nat /\ Len(str.chars) \in Nat /\ str.close < Len(str.chars)
  BY <1>5, AtRule
<1>7. /\ b \in Window /\ At(src + b) = "backslash" /\ src + b + 2 <= str.close
      /\ \A j \in 0 .. b - 1 : At(src + j) # "backslash"
  BY <1>1, <1>4, BackslashIs
<1>8. b \in 0 .. Vector /\ b \in Nat /\ b <= Vector - 1
  BY <1>5, <1>7 DEF Window
<1>9. PICK k \in Nat : k = src + b /\ k < str.close /\ k + 1 = src + b + 1
  BY <1>5, <1>6, <1>7, <1>8
<1>10. CodePointFits(u, k)
  BY <1>2, <1>4, <1>5, <1>9, CodePointRule
<1>11. /\ u.bytes \in {6, 12} /\ n \in 0 .. 4
       /\ u.last \in Nat /\ u.last <= str.close + 3
       /\ n > 0 => k + u.bytes <= str.close /\ At(k + u.bytes - 1) # "backslash"
  BY <1>3, <1>10 DEF CodePointFits
<1>12. seen' \in Int /\ seen' < Len(str.chars) + Padding
  <2>1. PICK last \in {src + Vector - 1, u.last} : Sees(last)
    BY <1>4
  <2>2. last \in Int /\ last < Len(str.chars) + Padding
    BY <1>5, <1>6, <1>7, <1>8, <1>11, <2>1
  <2> QED BY <1>5, <1>6, <2>1, <2>2 DEF StringInv, Sees
<1>13. Unescaped' = Unescaped
  BY <1>4, Unprimed
<1>14. PICK c \in Cells : c = <<"utf8", k>>
  BY CellsAre, Zenon
<1>15. PICK more : more = out'
  OBVIOUS
<1>16. /\ DOMAIN more \subseteq 0 .. str.close + Vector - 1
       /\ 0 .. dst + b + n - 1 \subseteq DOMAIN more
       /\ \A next \in Nat : Spells(src + b, [j \in 1 .. n |-> c], next)
                              => Spells(0, Prefix(more, dst + b + n), next)
  <2>1. more = Overwritten(copied, dst + b, [j \in 0 .. n - 1 |-> c])
    BY <1>4, <1>9, <1>14, <1>15
  <2>2. src + b <= str.close /\ dst + b + n <= str.close + 1 /\ n \in Nat
    BY <1>5, <1>6, <1>7, <1>8, <1>9, <1>11
  <2> QED BY <1>7, <2>1, <2>2, AddedRule
<1>17. CASE /\ n > 0
            /\ src' = src + b + u.bytes /\ dst' = dst + b + n /\ parsed' = parsed
  <2>1. PICK next \in 1 .. str.close : next = k + u.bytes /\ next = src'
    BY <1>5, <1>6, <1>8, <1>9, <1>11, <1>17
  <2>2. Spells(k, [j \in 1 .. n |-> c], next)
    <3>1. n \in Nat /\ n > 0 /\ u = handle_unicode_codepoint(k) /\ At(k + 1) = "u" /\ At(k) = "backslash"
      BY <1>2, <1>4, <1>7, <1>9, <1>11, <1>17
    <3>2. Spells(k, [j \in 1 .. n |-> <<"utf8", k>>], k + u.bytes)
      BY <1>3, <1>5, <1>9, <3>1, SpellsCodePoint
    <3> QED BY <1>14, <2>1, <3>2
  <2>3. Spells(0, Prefix(more, dst + b + n), next)
    BY <1>6, <1>9, <1>16, <2>1, <2>2
  <2>4. Spells(0, Prefix(out, dst), src)'
    BY <1>13, <1>15, <1>17, <2>1, <2>3 DEF Spells, Prefix
  <2>5. next \notin Escaped(str.chars, str.close)
    <3>1. next - 1 \in 0 .. str.close /\ next - 1 + 1 = next /\ next - 1 = k + u.bytes - 1
      BY <1>6, <1>11, <2>1
    <3>2. At(next - 1) # "backslash"
      BY <1>11, <1>17, <3>1
    <3>3. str.chars[next] # "backslash"
      BY <1>5, <3>1, <3>2, AtRule
    <3> QED BY <1>6, <2>1, <3>3, EscapedRule
  <2>6. dst' \in 0 .. str.close /\ dst' <= src'
    BY <1>5, <1>6, <1>8, <1>9, <1>11, <1>17, <2>1
  <2>7. /\ 0 .. dst' - 1 \subseteq DOMAIN out'
        /\ DOMAIN out' \subseteq 0 .. str.close + Vector - 1
    <3>1. dst' - 1 = dst + b + n - 1
      BY <1>5, <1>8, <1>11, <1>17
    <3> QED BY <1>15, <1>16, <3>1
  <2>8. UnescapesString'
    BY <1>17 DEF UnescapesString
  <2>9. src' \in 0 .. str.close /\ src' \notin Escaped(str.chars, str.close)
    BY <2>1, <2>5
  <2> QED BY <1>4, <1>12, <1>17, <2>4, <2>6, <2>7, <2>8, <2>9 DEF StringInv
<1>18. CASE /\ n = 0
            /\ dst' = dst /\ parsed' = "nullptr" /\ src' = src
  <2>1. ~Unescaped[k].ok
    <3>1. n \in Nat /\ u = handle_unicode_codepoint(k) /\ At(k + 1) = "u" /\ At(k) = "backslash"
      BY <1>2, <1>4, <1>7, <1>9, <1>11
    <3> QED BY <1>3, <1>5, <1>9, <1>18, <3>1, SpellsCodePoint
  <2>2. ~Unescaped[0].ok
    <3>1. src + b <= str.close /\ ~Unescaped[src + b].ok
      BY <1>5, <1>6, <1>9, <2>1
    <3> QED BY <1>7, <3>1, SpellsNone
  <2>3. UnescapesString'
    BY <1>13, <1>18, <2>2 DEF UnescapesString
  <2>4. DOMAIN out' \subseteq 0 .. str.close + Vector - 1 /\ 0 .. dst' - 1 \subseteq DOMAIN out'
    <3>1. 0 .. dst' - 1 \subseteq 0 .. dst + b + n - 1
      BY <1>5, <1>8, <1>18
    <3> QED BY <1>15, <1>16, <3>1
  <2> QED BY <1>4, <1>5, <1>12, <1>18, <2>3, <2>4 DEF StringInv
<1> QED BY <1>4, <1>17, <1>18

LEMMA NeitherStep ==
  ASSUME StringInv, parsed = "parsing", AtNeither
  PROVE  StringInv'
<1>1. /\ ~has_quote_first /\ ~has_backslash /\ out' = copied
      /\ src' = src + Vector /\ dst' = dst + Vector
      /\ Sees(src + Vector - 1) /\ str' = str /\ parsed' = parsed
  BY DEF AtNeither
<1>2. /\ IsString(str) /\ src \in Nat /\ dst \in Nat /\ dst <= src
      /\ Vector \in Nat \ {0} /\ Padding \in Nat /\ Padding >= Vector - 1
  BY StringsAssumption, VectorAssumption DEF StringInv
<1>3. str.close \in Nat /\ Len(str.chars) \in Nat /\ str.close < Len(str.chars)
  BY <1>2, AtRule
<1>4. src + Vector <= str.close /\ \A j \in 0 .. Vector - 1 : At(src + j) # "backslash"
  BY <1>1, NeitherIs
<1>5. src + Vector \notin Escaped(str.chars, str.close)
  BY <1>2, <1>4, NotEscaped
<1>6. seen' \in Int /\ seen' < Len(str.chars) + Padding
  BY <1>1, <1>2, <1>3, <1>4 DEF StringInv, Sees
<1>7. Vector \in 0 .. Vector
  BY <1>2
<1>8. Spells(0, Prefix(out, dst), src)'
  <2>1. Spells(0, Prefix(copied, dst + Vector), src + Vector)
    BY <1>4, <1>7, CopiedRule
  <2>2. Unescaped' = Unescaped
    BY <1>1, Unprimed
  <2> QED BY <1>1, <2>1, <2>2 DEF Spells, Prefix
<1>9. /\ 0 .. dst' - 1 \subseteq DOMAIN out'
      /\ DOMAIN out' \subseteq 0 .. str.close + Vector - 1
  <2>1. DOMAIN copied \subseteq 0 .. str.close + Vector - 1 /\ 0 .. dst + Vector - 1 \subseteq DOMAIN copied
    BY <1>7, CopiedRule
  <2>2. dst' - 1 = dst + Vector - 1
    BY <1>1, <1>2
  <2> QED BY <1>1, <2>1, <2>2
<1>10. /\ src' \in 0 .. str.close /\ src' \notin Escaped(str.chars, str.close)
       /\ dst' \in 0 .. str.close /\ dst' <= src'
  BY <1>1, <1>2, <1>3, <1>4, <1>5
<1>11. UnescapesString'
  BY <1>1 DEF UnescapesString
<1> QED BY <1>1, <1>6, <1>8, <1>9, <1>10, <1>11 DEF StringInv

-----------------------------------------------------------------------------
LEMMA StringInvariant == StringSpec => []StringInv
<1>1. StringInit => StringInv
  <2> SUFFICES ASSUME StringInit
               PROVE  StringInv
    OBVIOUS
  <2>1. /\ IsString(str) /\ str \in Strings /\ src = 0 /\ dst = 0 /\ out = <<>> /\ seen = -1
        /\ parsed = "parsing" /\ Vector \in Nat /\ Padding \in Nat
    BY StringsAssumption, VectorAssumption DEF StringInit
  <2>2. str.close \in Nat /\ Len(str.chars) \in Nat
    BY <2>1, AtRule
  <2>3. 0 \notin Escaped(str.chars, str.close)
    BY <2>2, EscapedRule
  <2>4. Spells(0, Prefix(out, dst), src)
    <3>1. Prefix(out, dst) = <<>>
      BY <2>1 DEF Prefix
    <3> QED BY <2>1, <3>1, SpellsNothing
  <2>5. UnescapesString
    BY <2>1 DEF UnescapesString
  <2>6. DOMAIN out = {} /\ 0 .. dst - 1 = {}
    BY <2>1
  <2> QED BY <2>1, <2>2, <2>3, <2>4, <2>5, <2>6 DEF StringInv
<1>2. StringInv /\ [parse_string]_string_vars => StringInv'
  <2> SUFFICES ASSUME StringInv, [parse_string]_string_vars
               PROVE  StringInv'
    OBVIOUS
  <2>1. CASE parse_string
    BY <2>1, QuoteStep, EscapeStep, CodePointStep, NeitherStep DEF parse_string
  <2>2. CASE UNCHANGED string_vars
    <3>1. UNCHANGED <<str, src, dst, out, seen, parsed>>
      BY <2>2 DEF string_vars
    <3>2. Unescaped' = Unescaped
      BY <3>1, Unprimed
    <3> QED BY <3>1, <3>2 DEF StringInv, Spells, Prefix, UnescapesString
  <2> QED BY <2>1, <2>2
<1> QED BY <1>1, <1>2, PTL DEF StringSpec

\* For every string, every vector and every padding that copy_and_find may have,
\* a string is copied as JSON reads it, or refused because JSON makes nothing of
\* it (simdjson.cpp:10772).
THEOREM StringsAreUnescaped == StringSpec => []UnescapesString
<1>1. StringInv => UnescapesString
  BY DEF StringInv
<1> QED BY <1>1, StringInvariant, PTL

\* And no string leaves the buffer or reads beyond the padding (simdjson.h:16939).
THEOREM StringsStay == StringSpec => []StaysInItsBuffers
<1>1. StringInv => StaysInItsBuffers
  <2> SUFFICES ASSUME StringInv
               PROVE  StaysInItsBuffers
    OBVIOUS
  <2>1. IsString(str) /\ Vector \in Nat
    BY StringsAssumption, VectorAssumption DEF StringInv
  <2>2. str.close \in Nat
    BY <2>1, AtRule
  <2>3. src \in Nat /\ dst \in Nat /\ dst <= str.close
    BY <2>2 DEF StringInv
  <2>4. dst <= src + (IF parsed = "ok" THEN Vector - 1 ELSE 0)
    BY <2>1, <2>3 DEF StringInv
  <2>5. \A k \in DOMAIN out : k < str.close + Vector
    BY <2>1, <2>2 DEF StringInv
  <2> QED BY <2>3, <2>4, <2>5 DEF StringInv, StaysInItsBuffers
<1> QED BY <1>1, StringInvariant, PTL

-----------------------------------------------------------------------------
(* Code points.                                                            *)

\* The shifts by 6, 12 and 18 bits take one group of six bits after the other.
LEMMA Shift ==
  ASSUME NEW n \in Nat
  PROVE  /\ n \div 64 \in Nat /\ n % 64 \in 0 .. 63
         /\ n = (n \div 64) * 64 + (n % 64)
         /\ n \div 4096 = (n \div 64) \div 64
         /\ n \div 262144 = ((n \div 64) \div 64) \div 64
OBVIOUS

\* A number that fits in a byte.
LEMMA OneByte ==
  ASSUME NEW n \in Nat, n <= 255
  PROVE  uint8(n) = n
BY DEF uint8

\* codepoint_to_utf8, one branch after the other.
LEMMA AsciiIsUtf8 ==
  ASSUME NEW c \in Nat, c <= 127
  PROVE  WritesUtf8(c)
<1>1. utf8(c) = <<c>>
  BY DEF utf8, uint8
<1>2. codepoint_to_utf8(Class(c)) = 1
  <2>1. Class(c) = "ascii"
    BY DEF Class, Lead
  <2> QED BY <2>1 DEF codepoint_to_utf8
<1>3. WellFormed(utf8(c)) /\ Decoded(utf8(c)) = c /\ Len(utf8(c)) = 1
  BY <1>1 DEF WellFormed, Decoded
<1> QED BY <1>2, <1>3 DEF WritesUtf8

LEMMA TwoBytesAreUtf8 ==
  ASSUME NEW c \in Nat, c > 127, c <= 2047
  PROVE  WritesUtf8(c)
<1>1. PICK q \in Nat, r \in 0 .. 63 : c = 64 * q + r /\ c \div 64 = q /\ c % 64 = r
  BY Shift
<1>2. q >= 2 /\ q <= 31
  BY <1>1
<1>3. utf8(c) = <<q + 192, r + 128>>
  <2>1. uint8(q + 192) = q + 192 /\ uint8(r + 128) = r + 128
    BY <1>1, <1>2, OneByte
  <2> QED BY <1>1, <2>1 DEF utf8
<1>4. codepoint_to_utf8(Class(c)) = 2
  <2>1. Class(c) = "two"
    BY DEF Class, Lead
  <2> QED BY <2>1 DEF codepoint_to_utf8
<1>5. WellFormed(utf8(c))
  BY <1>1, <1>2, <1>3 DEF WellFormed, Continues
<1>6. Decoded(utf8(c)) = c /\ Len(utf8(c)) = 2
  BY <1>1, <1>2, <1>3 DEF Decoded
<1> QED BY <1>4, <1>5, <1>6 DEF WritesUtf8

LEMMA ThreeBytesAreUtf8 ==
  ASSUME NEW c \in Nat, c > 2047, c <= 65535, ~IsHigh(c), ~IsLow(c)
  PROVE  WritesUtf8(c)
<1>1. PICK q \in Nat, r \in 0 .. 63 : c = 64 * q + r /\ c \div 64 = q /\ c % 64 = r
  BY Shift
<1>2. PICK p \in Nat, s \in 0 .. 63 : q = 64 * p + s /\ q \div 64 = p /\ q % 64 = s
  BY Shift
<1>3. c \div 4096 = p
  BY <1>1, <1>2, Shift
<1>4. p <= 15 /\ (p = 0 => s >= 32)
  BY <1>1, <1>2
<1>5. p = 13 => s < 32
  BY <1>1, <1>2 DEF IsHigh, IsLow
<1>6. utf8(c) = <<p + 224, s + 128, r + 128>>
  <2>1. uint8(p + 224) = p + 224 /\ uint8(s + 128) = s + 128 /\ uint8(r + 128) = r + 128
    BY <1>1, <1>2, <1>4, OneByte
  <2>2. ~(c <= 127) /\ ~(c <= 2047)
    OBVIOUS
  <2> QED BY <1>1, <1>2, <1>3, <2>1, <2>2 DEF utf8
<1>7. codepoint_to_utf8(Class(c)) = 3
  <2>1. Class(c) = "three"
    BY DEF Class, Lead
  <2> QED BY <2>1 DEF codepoint_to_utf8
<1>8. WellFormed(utf8(c))
  BY <1>1, <1>2, <1>4, <1>5, <1>6 DEF WellFormed, Continues
<1>9. Decoded(utf8(c)) = c /\ Len(utf8(c)) = 3
  <2> DEFINE b == utf8(c)
  <2>1. Len(b) = 3 /\ b[1] = p + 224 /\ b[2] = s + 128 /\ b[3] = r + 128
    BY <1>6
  <2>2. b[1] - 224 = p /\ b[2] - 128 = s /\ b[3] - 128 = r
    BY <1>1, <1>2, <2>1
  <2> HIDE DEF b
  <2>3. Decoded(b) = (p * 64 + s) * 64 + r
    BY <2>1, <2>2 DEF Decoded
  <2>4. (p * 64 + s) * 64 + r = c
    BY <1>1, <1>2
  <2> QED BY <2>1, <2>3, <2>4 DEF b
<1> QED BY <1>7, <1>8, <1>9 DEF WritesUtf8

LEMMA FourBytesAreUtf8 ==
  ASSUME NEW c \in Nat, c > 65535, c <= 1114111
  PROVE  WritesUtf8(c)
<1>1. PICK q \in Nat, r \in 0 .. 63 : c = 64 * q + r /\ c \div 64 = q /\ c % 64 = r
  BY Shift
<1>2. PICK p \in Nat, s \in 0 .. 63 : q = 64 * p + s /\ q \div 64 = p /\ q % 64 = s
  BY Shift
<1>3. PICK o \in Nat, t \in 0 .. 63 : p = 64 * o + t /\ p \div 64 = o /\ p % 64 = t
  BY Shift
<1>4. c \div 4096 = p /\ c \div 262144 = o
  BY <1>1, <1>2, <1>3, Shift
<1>5. o <= 4 /\ (o = 0 => t >= 16) /\ (o = 4 => t < 16)
  BY <1>1, <1>2, <1>3
<1>6. utf8(c) = <<o + 240, t + 128, s + 128, r + 128>>
  <2>1. /\ uint8(o + 240) = o + 240 /\ uint8(t + 128) = t + 128
        /\ uint8(s + 128) = s + 128 /\ uint8(r + 128) = r + 128
    BY <1>1, <1>2, <1>3, <1>5, OneByte
  <2>2. ~(c <= 127) /\ ~(c <= 2047) /\ ~(c <= 65535)
    OBVIOUS
  <2> QED BY <1>1, <1>2, <1>3, <1>4, <2>1, <2>2 DEF utf8
<1>7. WellFormed(utf8(c))
  BY <1>1, <1>2, <1>3, <1>5, <1>6 DEF WellFormed, Continues
<1>8. Decoded(utf8(c)) = c /\ Len(utf8(c)) = 4
  <2> DEFINE b == utf8(c)
  <2>1. Len(b) = 4 /\ b[1] = o + 240 /\ b[2] = t + 128 /\ b[3] = s + 128 /\ b[4] = r + 128
    BY <1>6
  <2>2. b[1] - 240 = o /\ b[2] - 128 = t /\ b[3] - 128 = s /\ b[4] - 128 = r
    BY <1>1, <1>2, <1>3, <2>1
  <2> HIDE DEF b
  <2>3. Decoded(b) = ((o * 64 + t) * 64 + s) * 64 + r
    BY <2>1, <2>2 DEF Decoded
  <2>4. ((o * 64 + t) * 64 + s) * 64 + r = c
    BY <1>1, <1>2, <1>3
  <2> QED BY <2>1, <2>3, <2>4 DEF b
<1>9. codepoint_to_utf8(Class(c)) = 4
  <2>1. Class(c) = "pair"
    BY DEF Class
  <2> QED BY <2>1 DEF codepoint_to_utf8
<1> QED BY <1>7, <1>8, <1>9 DEF WritesUtf8

\* simdjson.h:16773: every code point is written as the bytes that UTF-8 has for
\* it, and those are as many as StringParsing has for its class.
THEOREM CodePointsAreWritten ==
  \A c : IsScalarValue(c) => WritesUtf8(c)
<1> SUFFICES ASSUME NEW c, IsScalarValue(c)
             PROVE  WritesUtf8(c)
  OBVIOUS
<1>1. c \in Nat /\ c <= 1114111 /\ ~IsHigh(c) /\ ~IsLow(c)
  BY DEF IsScalarValue
<1>2. CASE c <= 127
  BY <1>1, <1>2, AsciiIsUtf8
<1>3. CASE c > 127 /\ c <= 2047
  BY <1>1, <1>3, TwoBytesAreUtf8
<1>4. CASE c > 2047 /\ c <= 65535
  BY <1>1, <1>4, ThreeBytesAreUtf8
<1>5. CASE c > 65535
  BY <1>1, <1>5, FourBytesAreUtf8
<1> QED BY <1>1, <1>2, <1>3, <1>4, <1>5

\* simdjson.cpp:10702: of whatever is behind a high surrogate, only a low one is
\* taken for the other half, and the two are read as UTF-16 has them.
THEOREM PairsAreRead ==
  \A high, second : IsUnit(high) /\ IsHigh(high) /\ (IsUnit(second) \/ second = NoUnit)
                      => ReadsUtf16(high, second)
<1> SUFFICES ASSUME NEW high, NEW second, IsUnit(high), IsHigh(high),
                    IsUnit(second) \/ second = NoUnit
             PROVE  ReadsUtf16(high, second)
  OBVIOUS
<1>1. high \in Nat /\ high >= 55296 /\ high <= 56319 /\ second \in Nat
  BY DEF IsHigh, IsUnit, NoUnit
<1>2. IsPair(second) <=> IsLow(second)
  BY <1>1 DEF IsPair, low_bit, IsLow
<1>3. ASSUME IsLow(second)
      PROVE  /\ IsScalarValue(combined(high, second)) /\ combined(high, second) > 65535
             /\ Utf16(combined(high, second)) = <<high, second>>
  <2>1. second >= 56320 /\ second <= 57343
    BY <1>1, <1>3 DEF IsLow
  <2>2. combined(high, second) = (high - 55296) * 1024 + (second - 56320) + 65536
    BY DEF combined, low_bit
  <2>3. /\ (combined(high, second) - 65536) \div 1024 = high - 55296
        /\ (combined(high, second) - 65536) % 1024 = second - 56320
    BY <1>1, <2>1, <2>2
  <2>4. combined(high, second) \in Nat /\ combined(high, second) > 65535 /\ combined(high, second) <= 1114111
    BY <1>1, <2>1, <2>2
  <2>5. IsScalarValue(combined(high, second))
    BY <2>4 DEF IsScalarValue, IsHigh, IsLow
  <2> QED BY <1>1, <2>1, <2>3, <2>4, <2>5 DEF Utf16
<1> QED BY <1>2, <1>3 DEF ReadsUtf16

-----------------------------------------------------------------------------
(* Integers.                                                               *)

\* The powers of ten do not fall.
LEMMA PowersGrow == \A m, n \in 0 .. MaxDigits : m <= n => Pow[m] <= Pow[n]
<1> DEFINE S == {k \in Nat : \A m \in 0 .. MaxDigits : m + k <= MaxDigits => Pow[m] <= Pow[m + k]}
<1>1. /\ MaxDigits \in Nat /\ \A n \in 0 .. MaxDigits : Pow[n] \in Nat
      /\ \A n \in 0 .. MaxDigits - 1 : Pow[n + 1] = 10 * Pow[n]
  BY PowersAssumption
<1>2. 0 \in S
  <2>1. \A m \in 0 .. MaxDigits : m + 0 = m /\ Pow[m] <= Pow[m]
    BY <1>1
  <2> QED BY <2>1
<1>3. ASSUME NEW k \in Nat, k \in S PROVE k + 1 \in S
  <2>1. ASSUME NEW m \in 0 .. MaxDigits, m + (k + 1) <= MaxDigits
        PROVE  Pow[m] <= Pow[m + (k + 1)]
    <3>1. PICK n \in 0 .. MaxDigits - 1 : n = m + k /\ n + 1 = m + (k + 1)
      BY <1>1, <2>1
    <3>2. Pow[m] <= Pow[n]
      <4>1. m + k <= MaxDigits => Pow[m] <= Pow[m + k]
        BY <1>3
      <4>2. m + k <= MaxDigits
        BY <1>1, <3>1
      <4> QED BY <3>1, <4>1, <4>2, Zenon
    <3>3. Pow[n + 1] = 10 * Pow[n] /\ Pow[n] \in Nat /\ Pow[m] \in Nat
      BY <1>1, <3>1
    <3> QED BY <3>1, <3>2, <3>3
  <2> QED BY <2>1
<1> HIDE DEF S
<1>4. Nat \subseteq S
  BY <1>2, <1>3, Induction
<1>5. ASSUME NEW m \in 0 .. MaxDigits, NEW n \in 0 .. MaxDigits, m <= n PROVE Pow[m] <= Pow[n]
  <2>1. PICK k \in Nat : k = n - m
    BY <1>1, <1>5
  <2>2. k \in S /\ m + k = n /\ m + k <= MaxDigits
    BY <1>1, <1>4, <2>1
  <2> QED BY <2>2 DEF S
<1> QED BY <1>5

\* The integer is the number but for what was lost on top.
LostOnTop == \E q \in Nat : value = Modulus * q + i

\* What is known of a number from its first digit and how many it has.
Magnitude ==
  /\ value < Pow[digit_count]
  /\ digit_count = 0 => value = 0 /\ first = 0
  /\ digit_count = 1 /\ first = 0 => value = 0
  /\ digit_count > 0 =>
       /\ first >= 1 => value >= Pow[digit_count - 1]
       /\ first = 1  => value < 2 * Pow[digit_count - 1]
       /\ first >= 2 => value >= 2 * Pow[digit_count - 1]

NumberInv == NumberTypeOK /\ LostOnTop /\ Magnitude /\ ReadsTheNumber

-----------------------------------------------------------------------------
\* The remainder, and what was lost.
LEMMA Narrowed ==
  ASSUME NEW n \in Nat
  PROVE  Narrow(n) \in 0 .. Modulus - 1 /\ \E q \in Nat : n = Modulus * q + Narrow(n)
<1>1. Modulus \in Nat \ {0}
  BY WidthAssumption
<1>2. n \div Modulus \in Nat /\ n = Modulus * (n \div Modulus) + (n % Modulus)
  BY <1>1
<1>3. n % Modulus \in 0 .. Modulus - 1
  BY <1>1
<1> QED BY <1>2, <1>3 DEF Narrow

\* A number that is not lost is less than the modulus.
LEMMA NothingLost ==
  ASSUME NEW q \in Nat, NEW n \in 0 .. Modulus - 1
  PROVE  /\ q = 0 => Modulus * q + n = n
         /\ q # 0 => Modulus * q + n >= Modulus + n
<1>1. Modulus \in Nat \ {0}
  BY WidthAssumption
<1>2. CASE q = 0
  BY <1>1, <1>2
<1>3. CASE q >= 1
  <2>1. Modulus * q >= Modulus
    BY <1>1, <1>3
  <2>2. Modulus * q \in Nat
    BY <1>1
  <2> QED BY <1>1, <1>3, <2>1, <2>2
<1> QED BY <1>2, <1>3

\* ~n + 1, taken for a signed integer, is -n.
LEMMA MinusIs ==
  ASSUME NEW n \in 0 .. Half
  PROVE  Signed(Minus(n)) = -n
<1>1. Half \in Nat \ {0} /\ Modulus = 2 * Half
  BY WidthAssumption
<1>2. CASE n = 0
  <2>1. Modulus % Modulus = 0
    BY <1>1
  <2>2. Minus(n) = 0
    BY <1>1, <1>2, <2>1 DEF Minus, Narrow
  <2> QED BY <1>1, <1>2, <2>2 DEF Signed
<1>3. CASE n # 0
  <2>1. Modulus - n \in 0 .. Modulus - 1
    BY <1>1, <1>3
  <2>2. (Modulus - n) % Modulus = Modulus - n
    BY <1>1, <2>1
  <2>3. Minus(n) = Modulus - n
    BY <2>2 DEF Minus, Narrow
  <2> QED BY <1>1, <1>3, <2>3 DEF Signed
<1> QED BY <1>2, <1>3

-----------------------------------------------------------------------------
LEMMA DigitStep ==
  ASSUME NumberInv, NEW d \in 0 .. 9, parse_digit(d)
  PROVE  NumberInv'
<1>1. /\ value \in Nat /\ i \in 0 .. Modulus - 1 /\ digit_count \in 0 .. MaxDigits - 1
      /\ first \in 0 .. 9 /\ Modulus \in Nat \ {0} /\ MaxDigits \in Nat
  BY WidthAssumption, PowersAssumption DEF NumberInv, NumberTypeOK, parse_digit
<1>2. /\ i' = Narrow(10 * i + d) /\ digit_count' = digit_count + 1 /\ value' = 10 * value + d
      /\ first' = (IF digit_count = 0 THEN d ELSE first)
      /\ UNCHANGED <<negative, behind, number>> /\ number = Reading
  BY DEF parse_digit
<1>3. i' \in 0 .. Modulus - 1 /\ \E q \in Nat : 10 * i + d = Modulus * q + i'
  <2>1. 10 * i + d \in Nat
    BY <1>1
  <2> QED BY <1>2, <2>1, Narrowed
<1>4. NumberTypeOK'
  BY <1>1, <1>2, <1>3 DEF NumberInv, NumberTypeOK
<1>5. LostOnTop'
  <2>1. PICK q \in Nat : value = Modulus * q + i
    BY DEF NumberInv, LostOnTop
  <2>2. PICK r \in Nat : 10 * i + d = Modulus * r + i'
    BY <1>3
  <2>3. 10 * q + r \in Nat /\ Modulus * (10 * q + r) = 10 * (Modulus * q) + Modulus * r
    BY <1>1
  <2>4. value' = Modulus * (10 * q + r) + i'
    <3>1. Modulus * q \in Nat /\ Modulus * r \in Nat /\ i' \in Nat
      BY <1>1, <1>3
    <3>2. value' = 10 * (Modulus * q + i) + d
      BY <1>2, <2>1
    <3>3. value' = 10 * (Modulus * q) + (10 * i + d)
      BY <1>1, <3>1, <3>2
    <3> DEFINE a == Modulus * q
    <3> DEFINE b == Modulus * r
    <3> DEFINE c == Modulus * (10 * q + r)
    <3>4. a \in Nat /\ b \in Nat /\ c = 10 * a + b
      BY <2>3, <3>1
    <3>5. value' = 10 * a + (10 * i + d) /\ 10 * i + d = b + i'
      BY <2>2, <3>3
    <3>6. i' \in Nat
      BY <3>1
    <3> HIDE DEF a, b, c
    <3>7. value' = c + i'
      <4>1. 10 * i + d \in Nat /\ value' \in Nat /\ c \in Nat
        BY <1>1, <1>2, <3>4
      <4> QED BY <3>4, <3>5, <3>6, <4>1
    <3> QED BY <3>7 DEF c
  <2> QED BY <2>3, <2>4 DEF LostOnTop
<1>6. Magnitude'
  <2>1. /\ Pow[digit_count] \in Nat /\ Pow[digit_count + 1] = 10 * Pow[digit_count]
        /\ Pow[0] = 1
    BY <1>1, PowersAssumption
  <2>2. value < Pow[digit_count] /\ (digit_count = 0 => value = 0)
    BY DEF NumberInv, Magnitude
  <2>3. digit_count' - 1 = digit_count /\ digit_count' > 0
    BY <1>1, <1>2
  <2>4. value' < Pow[digit_count']
    BY <1>1, <1>2, <2>1, <2>2
  <2>5. CASE digit_count = 0
    BY <1>1, <1>2, <2>1, <2>2, <2>3, <2>4, <2>5 DEF Magnitude
  <2>6. CASE digit_count # 0
    <3>1. /\ digit_count - 1 \in 0 .. MaxDigits - 1
          /\ Pow[digit_count] = 10 * Pow[digit_count - 1] /\ Pow[digit_count - 1] \in Nat
      <4>1. digit_count - 1 \in 0 .. MaxDigits - 1 /\ (digit_count - 1) + 1 = digit_count
        BY <1>1, <2>6
      <4>2. Pow[(digit_count - 1) + 1] = 10 * Pow[digit_count - 1]
        BY <4>1, PowersAssumption
      <4> QED BY <1>1, <4>1, <4>2, PowersAssumption
    <3>2. /\ first >= 1 => value >= Pow[digit_count - 1]
          /\ first = 1  => value < 2 * Pow[digit_count - 1]
          /\ first >= 2 => value >= 2 * Pow[digit_count - 1]
      BY <1>1, <2>6 DEF NumberInv, Magnitude
    <3>3. first' = first /\ digit_count' # 0 /\ digit_count' # 1
      BY <1>1, <1>2, <2>6
    <3>4. /\ first >= 1 => value' >= Pow[digit_count]
          /\ first = 1  => value' < 2 * Pow[digit_count]
          /\ first >= 2 => value' >= 2 * Pow[digit_count]
      BY <1>1, <1>2, <3>1, <3>2
    <3> QED BY <2>3, <2>4, <3>3, <3>4 DEF Magnitude
  <2> QED BY <2>5, <2>6
<1>7. ReadsTheNumber'
  BY <1>2 DEF ReadsTheNumber, Reading, Invalid
<1> QED BY <1>4, <1>5, <1>6, <1>7 DEF NumberInv

\* What the three checks find out: the number does not fit, or nothing is lost.
LEMMA Checked ==
  ASSUME NumberInv, digit_count # 0, ~(first = 0 /\ digit_count > 1)
  PROVE  \/ Overflowed /\ (InText < -Half \/ InText >= Modulus)
         \/ /\ ~Overflowed /\ value = i /\ (negative => i <= Half)
            /\ negative /\ digit_count # longest_digit_count => i < Half
<1> DEFINE p1 == Pow[Longest - 1]
<1> DEFINE p2 == Pow[Longest - 2]
<1>1. /\ value \in Nat /\ i \in 0 .. Modulus - 1 /\ digit_count \in 1 .. MaxDigits
      /\ first \in 0 .. 9 /\ negative \in BOOLEAN
      /\ Half \in Nat \ {0} /\ Modulus = 2 * Half
      /\ Longest \in Nat /\ MaxDigits \in Nat /\ 2 <= Longest /\ Longest <= MaxDigits
  BY WidthAssumption, PowersAssumption DEF NumberInv, NumberTypeOK
<1>2. /\ p1 \in Nat /\ p2 \in Nat /\ p1 < Modulus /\ Modulus <= 2 * p1
      /\ p2 <= Half /\ Half < p1 /\ 2 * p1 <= Modulus + Half
  <2>1. Longest - 1 \in 0 .. MaxDigits /\ Longest - 2 \in 0 .. MaxDigits
    BY <1>1
  <2> QED BY <2>1, PowersAssumption, DigitsAssumption
<1>3. \A m, n \in 0 .. MaxDigits : m <= n => Pow[m] <= Pow[n] /\ Pow[m] \in Nat /\ Pow[n] \in Nat
  BY PowersAssumption, PowersGrow
<1>4. Pow[Longest] >= 2 * p1 /\ Pow[Longest] \in Nat
  <2>1. /\ Longest - 1 \in 0 .. MaxDigits - 1 /\ (Longest - 1) + 1 = Longest
        /\ Longest \in 0 .. MaxDigits
    BY <1>1
  <2>2. Pow[(Longest - 1) + 1] = 10 * p1
    BY <2>1, PowersAssumption
  <2> QED BY <1>2, <2>1, <2>2, PowersAssumption
<1>5. /\ value < Pow[digit_count]
      /\ first >= 1 => value >= Pow[digit_count - 1]
      /\ first = 1  => value < 2 * Pow[digit_count - 1]
      /\ first >= 2 => value >= 2 * Pow[digit_count - 1]
  BY <1>1 DEF NumberInv, Magnitude
<1>6. /\ value < Modulus => value = i
      /\ value >= Modulus => value >= Modulus + i
  <2>1. PICK q \in Nat : value = Modulus * q + i
    BY DEF NumberInv, LostOnTop
  <2>2. CASE q = 0
    BY <1>1, <2>1, <2>2, NothingLost
  <2>3. CASE q # 0
    BY <1>1, <2>1, <2>3, NothingLost
  <2> QED BY <2>2, <2>3
<1>7. InText = IF negative THEN -value ELSE value
  BY DEF InText
<1>8. longest_digit_count = IF negative THEN Longest - 1 ELSE Longest
  BY DEF longest_digit_count
<1> HIDE DEF p1, p2
<1>9. CASE negative
  <2>1. CASE digit_count > Longest - 1
    <3>1. first >= 1 /\ Longest - 1 <= digit_count - 1
      BY <1>1, <2>1
    <3>2. p1 <= Pow[digit_count - 1] /\ Pow[digit_count - 1] \in Nat
      BY <1>1, <1>3, <3>1 DEF p1
    <3>3. value > Half
      BY <1>1, <1>2, <1>5, <3>1, <3>2
    <3>4. Overflowed
      BY <1>8, <1>9, <2>1 DEF Overflowed
    <3> QED BY <1>1, <1>7, <1>9, <3>3, <3>4
  <2>2. CASE digit_count = Longest - 1
    <3>1. value = i
      BY <1>1, <1>2, <1>5, <1>6, <2>2 DEF p1
    <3>2. Overflowed <=> i > Half
      BY <1>1, <1>8, <1>9, <2>2 DEF Overflowed
    <3>3. CASE i > Half
      BY <1>1, <1>7, <1>9, <3>1, <3>2, <3>3
    <3>4. CASE i <= Half
      BY <1>1, <1>8, <1>9, <2>2, <3>1, <3>2, <3>4
    <3> QED BY <1>1, <3>3, <3>4
  <2>3. CASE digit_count < Longest - 1
    <3>1. digit_count <= Longest - 2 /\ Longest - 2 \in 0 .. MaxDigits
      BY <1>1, <2>3
    <3>2. Pow[digit_count] <= p2 /\ Pow[digit_count] \in Nat
      BY <1>1, <1>3, <3>1 DEF p2
    <3>3. value < Half /\ value = i
      BY <1>1, <1>2, <1>5, <1>6, <3>2
    <3>4. ~Overflowed
      BY <1>1, <1>8, <1>9, <2>3 DEF Overflowed
    <3> QED BY <1>1, <3>3, <3>4
  <2> QED BY <1>1, <2>1, <2>2, <2>3
<1>10. CASE ~negative
  <2>1. CASE digit_count > Longest
    <3>1. first >= 1 /\ Longest <= digit_count - 1 /\ digit_count - 1 \in 0 .. MaxDigits
      BY <1>1, <2>1
    <3>2. Pow[Longest] <= Pow[digit_count - 1] /\ Pow[digit_count - 1] \in Nat
      BY <1>1, <1>3, <3>1
    <3>3. value >= Modulus
      BY <1>1, <1>2, <1>4, <1>5, <3>1, <3>2
    <3>4. Overflowed
      BY <1>8, <1>10, <2>1 DEF Overflowed
    <3> QED BY <1>1, <1>7, <1>10, <3>3, <3>4
  <2>2. CASE digit_count = Longest
    <3>1. first >= 1 /\ Pow[digit_count - 1] = p1
      BY <1>1, <2>2 DEF p1
    <3>2. Overflowed <=> (first # 1 \/ i <= Half - 1)
      BY <1>1, <1>8, <1>10, <2>2 DEF Overflowed
    <3>3. CASE first # 1
      <4>1. value >= Modulus
        BY <1>1, <1>2, <1>5, <3>1, <3>3
      <4> QED BY <1>1, <1>7, <1>10, <3>2, <3>3, <4>1
    <3>4. CASE first = 1 /\ i <= Half - 1
      <4>1. value >= Modulus
        BY <1>1, <1>2, <1>5, <1>6, <3>1, <3>4
      <4> QED BY <1>1, <1>7, <1>10, <3>2, <3>4, <4>1
    <3>5. CASE first = 1 /\ i > Half - 1
      <4>1. value = i
        BY <1>1, <1>2, <1>5, <1>6, <3>1, <3>5
      <4> QED BY <1>1, <1>10, <3>2, <3>5, <4>1
    <3> QED BY <1>1, <3>3, <3>4, <3>5
  <2>3. CASE digit_count < Longest
    <3>1. digit_count <= Longest - 1 /\ Longest - 1 \in 0 .. MaxDigits
      BY <1>1, <2>3
    <3>2. Pow[digit_count] <= p1 /\ Pow[digit_count] \in Nat
      BY <1>1, <1>3, <3>1 DEF p1
    <3>3. value = i
      BY <1>1, <1>2, <1>5, <1>6, <3>2
    <3>4. ~Overflowed
      BY <1>1, <1>8, <1>10, <2>3 DEF Overflowed
    <3> QED BY <1>10, <3>3, <3>4
  <2> QED BY <1>1, <2>1, <2>2, <2>3
<1> QED BY <1>9, <1>10

\* What is written is the number.
LEMMA WrittenIs ==
  ASSUME NumberInv, ~Overflowed, value = i, negative => i <= Half,
         negative /\ digit_count # longest_digit_count => i < Half
  PROVE  /\ Written.of = InText
         /\ \/ Written.type = "INT64" /\ -Half <= InText /\ InText < Half
            \/ Written.type = "UINT64" /\ Half <= InText /\ InText < Modulus
<1>1. /\ i \in 0 .. Modulus - 1 /\ negative \in BOOLEAN
      /\ Half \in Nat \ {0} /\ Modulus = 2 * Half
  BY WidthAssumption DEF NumberInv, NumberTypeOK
<1>2. CASE negative /\ digit_count = longest_digit_count
  <2>1. Written.type = "INT64" /\ Written.of = Signed(Minus(i))
    BY <1>2 DEF Written
  <2>2. Signed(Minus(i)) = -i
    BY <1>1, <1>2, MinusIs
  <2> QED BY <1>1, <1>2, <2>1, <2>2 DEF InText
<1>3. CASE ~(negative /\ digit_count = longest_digit_count) /\ i > Half - 1
  <2>1. Written.type = "UINT64" /\ Written.of = i
    BY <1>3 DEF Written
  <2>2. ~negative
    BY <1>1, <1>3
  <2> QED BY <1>1, <1>3, <2>1, <2>2 DEF InText
<1>4. CASE ~(negative /\ digit_count = longest_digit_count) /\ ~(i > Half - 1)
  <2>1. /\ Written.type = "INT64"
        /\ Written.of = IF negative THEN Signed(Minus(i)) ELSE Signed(i)
    BY <1>4 DEF Written
  <2>2. Signed(i) = i
    BY <1>1, <1>4 DEF Signed
  <2>3. Signed(Minus(i)) = -i
    BY <1>1, <1>4, MinusIs
  <2> QED BY <1>1, <1>4, <2>1, <2>2, <2>3 DEF InText
<1> QED BY <1>2, <1>3, <1>4

LEMMA EndStep ==
  ASSUME NumberInv, NEW c \in {"structural", "float", "other"}, End(c)
  PROVE  NumberInv'
<1>1. /\ UNCHANGED <<negative, i, digit_count, first, value>> /\ behind' = c
      /\ InText' = InText
  BY DEF End, InText
<1>2. CASE (digit_count = 0 \/ (first = 0 /\ digit_count > 1)) /\ number' = Invalid
  <2>1. NumberTypeOK' /\ ReadsTheNumber'
    BY <1>1, <1>2 DEF NumberInv, NumberTypeOK, ReadsTheNumber, Invalid
  <2> QED BY <1>1, <2>1 DEF NumberInv, LostOnTop, Magnitude
<1>3. CASE /\ digit_count # 0 /\ ~(first = 0 /\ digit_count > 1)
           /\ number' = IF c = "float" THEN Float
                        ELSE IF Overflowed \/ c = "other" THEN Invalid
                        ELSE Written
  <2>1. CASE c = "float"
    <3>1. NumberTypeOK' /\ ReadsTheNumber'
      BY <1>1, <1>3, <2>1 DEF NumberInv, NumberTypeOK, ReadsTheNumber, Invalid, Float
    <3> QED BY <1>1, <3>1 DEF NumberInv, LostOnTop, Magnitude
  <2>2. CASE c # "float" /\ (Overflowed \/ c = "other")
    <3>1. number' = Invalid
      BY <1>3, <2>2
    <3>2. behind' = "other" \/ InText' < -Half \/ InText' >= Modulus
      BY <1>1, <1>3, <2>2, Checked
    <3>3. NumberTypeOK' /\ ReadsTheNumber'
      BY <1>1, <3>1, <3>2 DEF NumberInv, NumberTypeOK, ReadsTheNumber, Invalid
    <3> QED BY <1>1, <3>3 DEF NumberInv, LostOnTop, Magnitude
  <2>3. CASE c # "float" /\ ~(Overflowed \/ c = "other")
    <3>1. number' = Written
      BY <1>3, <2>3
    <3>2. /\ ~Overflowed /\ value = i /\ (negative => i <= Half)
          /\ negative /\ digit_count # longest_digit_count => i < Half
      BY <1>3, <2>3, Checked
    <3>3. /\ Written.of = InText
          /\ \/ Written.type = "INT64" /\ -Half <= InText /\ InText < Half
             \/ Written.type = "UINT64" /\ Half <= InText /\ InText < Modulus
      BY <3>2, WrittenIs
    <3>4. number'.of = InText' /\ number' # Invalid
      BY <1>1, <3>1, <3>3 DEF Invalid
    <3>5. \/ number'.type = "INT64" /\ -Half <= InText' /\ InText' < Half
          \/ number'.type = "UINT64" /\ Half <= InText' /\ InText' < Modulus
      BY <1>1, <3>1, <3>3
    <3>6. NumberTypeOK' /\ ReadsTheNumber'
      BY <1>1, <3>4, <3>5 DEF NumberInv, NumberTypeOK, ReadsTheNumber
    <3> QED BY <1>1, <3>6 DEF NumberInv, LostOnTop, Magnitude
  <2> QED BY <2>1, <2>2, <2>3
<1> QED BY <1>2, <1>3 DEF End

-----------------------------------------------------------------------------
LEMMA NumberInvariant == NumberSpec => []NumberInv
<1>1. NumberInit => NumberInv
  <2> SUFFICES ASSUME NumberInit
               PROVE  NumberInv
    OBVIOUS
  <2>1. Modulus \in Nat \ {0} /\ MaxDigits \in Nat
    BY WidthAssumption, PowersAssumption
  <2>2. NumberTypeOK /\ ReadsTheNumber
    BY <2>1 DEF NumberInit, NumberTypeOK, ReadsTheNumber, Reading, Invalid
  <2>3. value = Modulus * 0 + i
    BY <2>1 DEF NumberInit
  <2>4. Magnitude
    BY PowersAssumption DEF NumberInit, Magnitude
  <2> QED BY <2>2, <2>3, <2>4 DEF NumberInv, LostOnTop
<1>2. NumberInv /\ [NumberNext]_number_vars => NumberInv'
  <2> SUFFICES ASSUME NumberInv, [NumberNext]_number_vars
               PROVE  NumberInv'
    OBVIOUS
  <2>1. ASSUME NEW d \in 0 .. 9, parse_digit(d)
        PROVE  NumberInv'
    BY <2>1, DigitStep
  <2>2. ASSUME NEW c \in {"structural", "float", "other"}, End(c)
        PROVE  NumberInv'
    BY <2>2, EndStep
  <2>3. CASE UNCHANGED number_vars
    BY <2>3 DEF number_vars, NumberInv, NumberTypeOK, LostOnTop, Magnitude,
                ReadsTheNumber, InText, Invalid
  <2> QED BY <2>1, <2>2, <2>3 DEF NumberNext
<1> QED BY <1>1, <1>2, PTL DEF NumberSpec

\* For every width of the integer and every length of the text, what is written
\* is the number in the text, signed when it fits, and a number that fits is
\* not refused, though the integer may have overflowed (simdjson.h:17585).
THEOREM NumberReadsTheNumber == NumberSpec => []ReadsTheNumber
<1>1. NumberInv => ReadsTheNumber
  BY DEF NumberInv
<1> QED BY <1>1, NumberInvariant, PTL

=============================================================================

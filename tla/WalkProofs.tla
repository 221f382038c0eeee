----------------------------- MODULE WalkProofs -----------------------------
(***************************************************************************)
(* Theorems about Walk and Dom, for every document stage 1 may leave,      *)
(* whatever follows it in memory, and for every depth.  The second part    *)
(* says what is on the tape after each step of the walk, and from that     *)
(* what the iterators of Dom read of a document that was parsed; the last  *)
(* part what may still come, and from that which documents are taken.      *)
(***************************************************************************)
EXTENDS Dom, TLAPS, FiniteSetTheorems, SequenceTheorems, WellFoundedInduction

Begins    == {"object_begin", "array_begin"}
Expecting == {"next_key", "array_value"}
Continues == {"object_continue", "array_continue"}
Inside    == {"first_key", "object_field"} \cup Expecting \cup Continues

\* The walk is inside of a document that ends with a closing character; past
\* its end it goes on only as long as the padding is a comma or closes.
PlaceInv ==
  /\ read <= doc.n + 2
  /\ pc = "document_start" => next = 0
  /\ pc \in Begins \cup Inside =>
       doc.char[0] \in Opening /\ doc.char[doc.n - 1] \in Closing
  /\ pc \in Begins \cup {"first_key", "object_field"} => next \in 1 .. doc.n - 1
  /\ pc \in Expecting =>
       \/ next \in 1 .. doc.n - 1
       \/ next = doc.n + 1 /\ doc.padding = "comma"
  /\ pc \in Continues =>
       \/ next \in 1 .. doc.n
       \/ next \in doc.n + 1 .. doc.n + 2 /\ doc.padding \in Closing
  /\ pc = "document_end" => next <= doc.n \/ doc.padding \in Closing
  /\ pc \in Inside => depth >= 1

\* A word for each character, one for the root and one more for a number.
TapeInv ==
  doc.padding \notin Closing =>
    /\ pc = "document_start" => next_tape = 1
    /\ pc \in Begins => next_tape <= next
    /\ pc \in Expecting \cup {"first_key", "object_field"} => next_tape <= next + 1
    /\ pc \in Continues \cup {"document_end"} => next_tape <= next + 2
    /\ next_tape <= doc.n + 3

\* A string and the character behind it pay for what the string takes.
StringInv ==
  /\ pc = "document_start" => string_loc = 0
  /\ (pc \in Begins \cup Expecting \cup {"first_key"} /\ next < doc.n) =>
       3 * string_loc <= 5 * (doc.at[next] - 1)
  /\ (pc \in Continues \cup {"object_field"} /\ next <= doc.n) =>
       3 * string_loc <= 5 * doc.at[next]
  /\ 3 * string_loc <= 5 * doc.at[doc.n] + 5

WalkInv == WalkTypeOK /\ PlaceInv /\ TapeInv /\ StringInv

-----------------------------------------------------------------------------
(* What the operators do to the types.                                     *)

\* What the file has paid for up to a place is paid for at any later one.
LEMMA PaysLater ==
  ASSUME NEW s \in Nat, NEW a \in Nat, NEW b \in Nat, a <= b
  PROVE  /\ 3 * s <= 5 * a     => 3 * s <= 5 * b
         /\ 3 * s <= 5 * a + 5 => 3 * s <= 5 * b + 5
OBVIOUS

\* Behind a character there is room for those that follow.
LEMMA Room ==
  ASSUME IsDocument(doc)
  PROVE  /\ doc.n \in Nat \ {0}
         /\ \A k \in 0 .. doc.n : doc.at[k] \in Nat /\ doc.at[k] + (doc.n - k) <= doc.at[doc.n]
         /\ \A k \in 0 .. doc.n : k <= doc.at[k]
         /\ \A j, k \in 0 .. doc.n : j < k => doc.at[j] + (k - j) <= doc.at[k]
         /\ \A k \in 0 .. doc.n - 1 : doc.size[k] \in Nat /\ doc.char[k] \in Char
         /\ \A k \in 0 .. doc.n - 1 : doc.char[k] = "string" =>
              doc.at[k] + 2 + doc.size[k] <= doc.at[k + 1]
<1> DEFINE width(k) == IF doc.char[k] = "string" THEN 2 + doc.size[k] ELSE 1
<1>1. doc.n \in Nat \ {0} /\ \A k \in 0 .. doc.n : doc.at[k] \in Nat
  BY DEF IsDocument
<1>2. \A k \in 0 .. doc.n - 1 : doc.size[k] \in Nat /\ doc.char[k] \in Char
  BY DEF IsDocument
<1>3. \A k \in 0 .. doc.n - 1 : width(k) \in Nat /\ width(k) >= 1
  BY <1>1, <1>2
<1>4. \A j, k \in 0 .. doc.n : j < k => doc.at[j] + width(j) + (k - j - 1) <= doc.at[k]
  BY DEF IsDocument
<1>5. \A k \in 0 .. doc.n - 1 : doc.char[k] = "string" => width(k) = 2 + doc.size[k]
  OBVIOUS
<1> HIDE DEF width
<1>6. \A j, k \in 0 .. doc.n : j < k => doc.at[j] + (k - j) <= doc.at[k]
  BY <1>1, <1>3, <1>4
<1>7. \A k \in 0 .. doc.n : doc.at[k] + (doc.n - k) <= doc.at[doc.n]
  BY <1>1, <1>6
<1>8. \A k \in 0 .. doc.n : k <= doc.at[k]
  BY <1>1, <1>6
<1>9. ASSUME NEW k \in 0 .. doc.n - 1, doc.char[k] = "string"
      PROVE  doc.at[k] + 2 + doc.size[k] <= doc.at[k + 1]
  <2>1. k \in 0 .. doc.n /\ k + 1 \in 0 .. doc.n /\ k < k + 1
    BY <1>1
  <2>2. doc.at[k] + width(k) + (k + 1 - k - 1) <= doc.at[k + 1]
    BY <2>1, <1>4
  <2> QED BY <2>1, <2>2, <1>1, <1>2, <1>5, <1>9
<1> QED BY <1>1, <1>2, <1>6, <1>7, <1>8, <1>9

\* Words are appended at next_tape.
LEMMA AppendOne ==
  ASSUME next_tape \in Nat \ {0}, NEW w, Append1(w)
  PROVE  next_tape' = next_tape + 1 /\ DOMAIN tape' = 0 .. next_tape' - 1
<1>1. Cardinality({0}) = 1
  BY FS_Singleton
<1>2. DOMAIN [i \in {0} |-> w] = {0}
  OBVIOUS
<1> QED BY <1>1, <1>2 DEF Append1, Appended

LEMMA AppendTwo ==
  ASSUME next_tape \in Nat \ {0}, NEW w0, NEW w1, Append2(w0, w1)
  PROVE  next_tape' = next_tape + 2 /\ DOMAIN tape' = 0 .. next_tape' - 1
<1>1. Cardinality(0 .. 1) = 2
  <2>1. \A a, b \in Int : Cardinality(a .. b) = IF a > b THEN 0 ELSE b - a + 1
    BY FS_Interval, Zenon
  <2>2. 0 \in Int /\ 1 \in Int
    OBVIOUS
  <2>3. Cardinality(0 .. 1) = IF 0 > 1 THEN 0 ELSE 1 - 0 + 1
    BY <2>1, <2>2, Zenon
  <2> QED BY <2>3
<1>2. DOMAIN [i \in 0 .. 1 |-> IF i = 0 THEN w0 ELSE w1] = 0 .. 1
  OBVIOUS
<1> QED BY <1>1, <1>2 DEF Append2, Appended

\* A string grows the buffer by what it takes there.
LEMMA VisitString ==
  ASSUME WalkTypeOK, NEW k \in 0 .. doc.n - 1, visit_string(k)
  PROVE  /\ next_tape' = next_tape + 1 /\ DOMAIN tape' = 0 .. next_tape' - 1
         /\ string_loc' = string_loc + 5 + doc.size[k] /\ string_loc' \in Nat
<1>1. Append1(Word("string", string_loc, 0)) /\ string_loc' = string_loc + 4 + Size(k) + 1
  BY DEF visit_string
<1>2. next_tape \in Nat \ {0} /\ string_loc \in Nat /\ doc.n \in Nat
  BY DEF WalkTypeOK, IsDocument
<1>3. Size(k) = doc.size[k] /\ doc.size[k] \in Nat
  BY <1>2, Room DEF Size, WalkTypeOK
<1> QED BY <1>1, <1>2, <1>3, AppendOne

\* An error ends the walk, and its place is not beyond what stage 1 wrote.
LEMMA FailStep ==
  ASSUME WalkInv, NEW k \in 0 .. doc.n + 2, NEW e \in Error, Fail(k, e)
  PROVE  WalkInv'
<1> USE DEF WalkInv, Fail
<1>0. doc.n \in Nat /\ read' = k /\ pc' = "done" /\ doc' = doc
  BY DEF WalkTypeOK, IsDocument
<1>1. WalkTypeOK'
  BY DEF WalkTypeOK, Label
<1>2. PlaceInv'
  <2>1. read' <= doc'.n + 2
    BY <1>0
  <2>2. pc' \notin Begins \cup Inside \cup {"document_start", "document_end"}
    BY <1>0 DEF Begins, Inside, Expecting, Continues
  <2> QED BY <2>1, <2>2 DEF PlaceInv, Inside
<1>3. TapeInv'
  BY DEF TapeInv, Begins, Inside, Expecting, Continues
<1>4. StringInv'
  BY DEF StringInv, Begins, Inside, Expecting, Continues
<1> QED BY <1>1, <1>2, <1>3, <1>4

\* A scalar that is refused ends the walk with at most two words more.
LEMMA RefuseStep ==
  ASSUME WalkInv, NEW k \in 0 .. doc.n - 1, refuse_scalar(k),
         open_containers' \in [0 .. MaxDepth - 1 -> [tape_index : Nat, count : Nat]],
         doc.padding \notin Closing => next_tape <= k + 1
  PROVE  WalkInv'
<1>0. /\ doc.n \in Nat /\ read' = k /\ pc' = "done" /\ doc' = doc /\ error' = "SCALAR_ERROR"
      /\ UNCHANGED <<next, depth, is_array, string_loc>>
      /\ next_tape \in Nat \ {0} /\ string_loc \in Nat
  BY DEF WalkInv, WalkTypeOK, IsDocument, refuse_scalar
<1>1. /\ next_tape' \in next_tape .. next_tape + 2
      /\ DOMAIN tape' = 0 .. next_tape' - 1
  <2>1. CASE Append1(Word("string", string_loc, 0))
    BY <2>1, <1>0, AppendOne
  <2>2. CASE Append2(Word("number", 0, 0), Word("data", k, 0))
    BY <2>2, <1>0, AppendTwo
  <2>3. CASE UNCHANGED <<tape, next_tape>>
    BY <2>3, <1>0 DEF WalkInv, WalkTypeOK
  <2> QED BY <2>1, <2>2, <2>3 DEF refuse_scalar
<1>2. pc' \notin Begins \cup Inside \cup {"document_start", "document_end"}
  BY <1>0 DEF Begins, Inside, Expecting, Continues
<1>3. WalkTypeOK'
  BY <1>0, <1>1 DEF WalkInv, WalkTypeOK, Label, Error
<1>4. PlaceInv'
  <2>1. read' <= doc'.n + 2
    BY <1>0
  <2> QED BY <1>2, <2>1 DEF PlaceInv, Inside
<1>5. TapeInv'
  BY <1>0, <1>1, <1>2 DEF TapeInv, Inside
<1>6. StringInv'
  BY <1>0, <1>2 DEF WalkInv, StringInv, Inside
<1> QED BY <1>3, <1>4, <1>5, <1>6 DEF WalkInv

-----------------------------------------------------------------------------
(* A value.                                                                *)

\* Where the walk is when it takes the value at k, and after is the label that
\* follows it: at the first one, or inside of a container.
Ready(k, after) ==
  /\ k \in 0 .. doc.n - 1
  /\ doc.char[0] \in Opening => doc.char[doc.n - 1] \in Closing
  /\ k = 0 => after = "document_end" /\ string_loc = 0
  /\ k > 0 => /\ after \in Continues /\ depth >= 1
              /\ doc.char[0] \in Opening
              /\ 3 * string_loc <= 5 * (doc.at[k] - 1)
  /\ doc.padding \notin Closing => next_tape <= k + 1

\* The entries that stage 1 found are characters of the document.
LEMMA ByteIn ==
  ASSUME doc.n \in Nat, NEW k \in 0 .. doc.n - 1
  PROVE  Byte(k) = doc.char[k]
<1>1. k < doc.n
  OBVIOUS
<1> QED BY <1>1 DEF Byte

\* The value is not the last character but in a document of one, and an opening
\* character has another behind it.
LEMMA ValuePlace ==
  ASSUME WalkInv, NEW k, NEW after, Ready(k, after), Byte(k) \in Scalar \cup Opening
  PROVE  /\ k \in 0 .. doc.n - 1 /\ Byte(k) = doc.char[k]
         /\ k > 0 => k + 1 <= doc.n - 1
         /\ Byte(k) \in Opening => k + 1 <= doc.n - 1
<1>1. doc.n \in Nat \ {0}
  BY DEF WalkInv, WalkTypeOK, IsDocument
<1>2. k \in 0 .. doc.n - 1
  BY DEF Ready
<1>3. Byte(k) = doc.char[k]
  BY <1>1, <1>2, ByteIn
<1>4. /\ doc.char[0] \in Opening => doc.char[doc.n - 1] \in Closing
      /\ k > 0 => doc.char[0] \in Opening
  BY DEF Ready
<1>5. doc.char[k] \notin Closing
  BY <1>3 DEF Scalar, Opening, Closing
<1>6. doc.char[0] \in Opening => k # doc.n - 1
  BY <1>4, <1>5
<1>7. k = 0 /\ Byte(k) \in Opening => doc.char[0] \in Opening
  BY <1>3
<1> QED BY <1>1, <1>2, <1>3, <1>4, <1>6, <1>7

LEMMA ValueStep ==
  ASSUME WalkInv, NEW k, NEW after, Ready(k, after), Value(k, after)
  PROVE  WalkInv'
<1> DEFINE c == Byte(k)
<1>0. /\ doc.n \in Nat \ {0} /\ next_tape \in Nat \ {0} /\ string_loc \in Nat
      /\ DOMAIN tape = 0 .. next_tape - 1 /\ depth \in Nat
      /\ k \in 0 .. doc.n - 1 /\ IsDocument(doc)
      /\ after \in Continues \cup {"document_end"} /\ after \in Label
  BY DEF WalkInv, WalkTypeOK, IsDocument, Ready, Continues, Label
<1>k. /\ k = 0 => after = "document_end" /\ string_loc = 0
      /\ k > 0 => after \in Continues /\ depth >= 1 /\ doc.char[0] \in Opening
      /\ k > 0 => doc.char[doc.n - 1] \in Closing
      /\ doc.char[0] \in Opening => doc.char[doc.n - 1] \in Closing
  BY DEF Ready
<1>s. k > 0 => 3 * string_loc <= 5 * (doc.at[k] - 1)
  BY DEF Ready
<1>a. /\ after # "document_start" /\ after \notin Begins
      /\ after \notin Expecting \cup {"first_key", "object_field"}
      /\ after \in Continues \cup {"document_end"}
      /\ after \in Inside => after \in Continues
      /\ after \in Continues => k > 0
      /\ after \in Continues => after # "document_end"
  BY <1>0, <1>k DEF Begins, Expecting, Continues, Inside
<1>r. /\ \A j \in 0 .. doc.n : doc.at[j] \in Nat
      /\ \A j, m \in 0 .. doc.n : j < m => doc.at[j] + (m - j) <= doc.at[m]
  BY <1>0, Room
<1>n. doc.n \in Nat \ {0} /\ k \in 0 .. doc.n - 1 /\ string_loc \in Nat
  BY <1>0
<1>e. ASSUME NEW j \in 0 .. doc.n
      PROVE  doc.at[j] <= doc.at[doc.n]
  <2>1. CASE j = doc.n
    BY <1>n, <1>r, <2>1
  <2>2. CASE j < doc.n
    <3>1. doc.n \in 0 .. doc.n
      BY <1>n
    <3>2. doc.at[j] + (doc.n - j) <= doc.at[doc.n]
      BY <3>1, <2>2, <1>r
    <3> QED BY <3>1, <3>2, <2>2, <1>n, <1>r
  <2> QED BY <1>n, <2>1, <2>2
<1>t. 3 * string_loc <= 5 * doc.at[k] /\ doc.at[k] \in Nat
  <2>1. doc.at[k] \in Nat
    BY <1>n, <1>r
  <2>2. CASE k = 0
    BY <2>1, <2>2, <1>k
  <2>3. CASE k > 0
    BY <2>1, <2>3, <1>n, <1>s
  <2> QED BY <1>n, <2>1, <2>2, <2>3
<1>1. CASE c \in Opening /\ Byte(k + 1) = Matching(c)
  <2>1. /\ Append2(Word(c, next_tape + 2, 0), Word(Matching(c), next_tape, 0))
        /\ next' = k + 2 /\ read' = k + 1 /\ pc' = after /\ doc' = doc
        /\ UNCHANGED <<depth, is_array, error, open_containers, string_loc>>
    BY <1>1 DEF Value, Frame, empty_container, Scalar, Opening
  <2>2. next_tape' = next_tape + 2 /\ DOMAIN tape' = 0 .. next_tape' - 1
    BY <2>1, <1>0, AppendTwo
  <2>3. k + 1 <= doc.n - 1
    BY <1>1, ValuePlace
  <2>4. WalkTypeOK'
    BY <1>0, <2>1, <2>2 DEF WalkInv, WalkTypeOK
  <2>5. PlaceInv'
    <3>1. read' <= doc'.n + 2 /\ next' \in 1 .. doc'.n
      BY <1>0, <2>1, <2>3
    <3>2. doc'.char[0] \in Opening /\ k > 0 => doc'.char[doc'.n - 1] \in Closing
      BY <1>k, <2>1
    <3>3. pc' \in Inside => doc'.char[0] \in Opening /\ k > 0 /\ depth' >= 1
      BY <1>k, <1>a, <2>1
    <3>4. /\ pc' # "document_start" /\ pc' \notin Begins
          /\ pc' \notin Expecting /\ pc' \notin {"first_key", "object_field"}
      BY <1>a, <2>1
    <3>5. next' <= doc'.n
      BY <1>n, <2>1, <2>3
    <3>6. pc' \in Begins \cup Inside =>
            doc'.char[0] \in Opening /\ doc'.char[doc'.n - 1] \in Closing
      BY <3>2, <3>3, <3>4
    <3> QED BY <3>1, <3>3, <3>4, <3>5, <3>6, Zenon DEF PlaceInv
  <2>6. TapeInv'
    BY <1>0, <2>1, <2>2, <2>3 DEF TapeInv, Ready, Begins, Inside, Expecting, Continues
  <2>7. /\ doc.at[k] \in Nat /\ doc.at[k + 2] \in Nat /\ doc.at[doc.n] \in Nat
        /\ doc.at[k] <= doc.at[k + 2] /\ doc.at[k + 2] <= doc.at[doc.n]
    <3>1. k \in 0 .. doc.n /\ k + 2 \in 0 .. doc.n /\ doc.n \in 0 .. doc.n /\ k < k + 2
      BY <1>0, <2>3
    <3>2. doc.at[k] + (k + 2 - k) <= doc.at[k + 2]
      BY <3>1, <1>r
    <3> QED BY <1>0, <1>r, <1>e, <3>1, <3>2, SMTT(20)
  <2>8. StringInv'
    <3>1. 3 * string_loc <= 5 * doc.at[k + 2]
      BY <1>n, <1>t, <2>7
    <3>2. 3 * string_loc <= 5 * doc.at[doc.n] + 5
      BY <1>n, <1>t, <2>7
    <3>3. /\ pc' # "document_start"
          /\ pc' \notin Begins \cup Expecting \cup {"first_key"}
          /\ pc' # "object_field"
      BY <1>a, <2>1
    <3> QED BY <2>1, <3>1, <3>2, <3>3 DEF StringInv
  <2> QED BY <2>4, <2>5, <2>6, <2>8 DEF WalkInv
<1>2. CASE c \in Opening /\ Byte(k + 1) # Matching(c)
  <2>1. /\ next' = k + 1 /\ read' = k + 1 /\ pc' \in Begins /\ doc' = doc
        /\ UNCHANGED <<depth, is_array, error, open_containers, tape, next_tape, string_loc>>
    BY <1>2 DEF Value, Frame, Scalar, Opening, Begins
  <2>b. /\ pc' # "document_start" /\ pc' # "document_end"
        /\ pc' \notin Inside /\ pc' \notin Expecting \cup {"first_key", "object_field"}
        /\ pc' \notin Continues \cup {"object_field"}
        /\ pc' \notin Continues /\ pc' \notin Expecting
    BY <2>1 DEF Begins, Inside, Expecting, Continues
  <2>2. k + 1 <= doc.n - 1 /\ Byte(k) = doc.char[k]
    BY <1>2, ValuePlace
  <2>3. WalkTypeOK'
    BY <1>0, <2>1 DEF WalkInv, WalkTypeOK, Begins, Label
  <2>4. k = 0 => doc.char[0] \in Opening
    BY <1>2, <2>2
  <2>5. PlaceInv'
    <3>1. read' <= doc'.n + 2 /\ next' \in 1 .. doc'.n - 1
      BY <1>0, <2>1, <2>2
    <3>2. doc'.char[0] \in Opening /\ doc'.char[doc'.n - 1] \in Closing
      BY <1>0, <1>k, <2>1, <2>4
    <3> QED BY <3>1, <3>2, <2>b DEF PlaceInv
  <2>6. TapeInv'
    BY <1>0, <2>1, <2>2 DEF TapeInv, Ready, Begins, Inside, Expecting, Continues
  <2>7. /\ doc.at[k] \in Nat /\ doc.at[k + 1] \in Nat /\ doc.at[doc.n] \in Nat
        /\ doc.at[k] + 1 <= doc.at[k + 1] /\ doc.at[k + 1] <= doc.at[doc.n]
    <3>1. k \in 0 .. doc.n /\ k + 1 \in 0 .. doc.n /\ doc.n \in 0 .. doc.n /\ k < k + 1
      BY <1>0, <2>2
    <3>2. doc.at[k] + (k + 1 - k) <= doc.at[k + 1]
      BY <3>1, <1>r
    <3> QED BY <1>0, <1>r, <1>e, <3>1, <3>2, SMTT(20)
  <2>8. StringInv'
    <3>1. 3 * string_loc <= 5 * (doc.at[k + 1] - 1)
      BY <1>n, <1>t, <2>7
    <3>2. 3 * string_loc <= 5 * doc.at[doc.n] + 5
      BY <1>n, <1>t, <2>7
    <3> QED BY <2>1, <3>1, <3>2, <2>b DEF StringInv
  <2> QED BY <2>3, <2>5, <2>6, <2>8 DEF WalkInv
<1>3. CASE c \in Scalar
  <2>1. c \notin Opening /\ UNCHANGED open_containers
    BY <1>3 DEF Value, Scalar, Opening
  <2>2. CASE refuse_scalar(k)
    BY <1>0, <2>1, <2>2, RefuseStep DEF WalkInv, WalkTypeOK, Ready
  <2>3. CASE visit_scalar(k) /\ Advanced(k, after) /\ Frame
    <3>1. /\ next' = k + 1 /\ read' = k /\ pc' = after /\ doc' = doc
          /\ UNCHANGED <<depth, is_array, error, open_containers>>
      BY <2>1, <2>3 DEF Advanced, Frame
    <3>2. /\ next_tape' \in next_tape .. next_tape + 2
          /\ DOMAIN tape' = 0 .. next_tape' - 1 /\ next_tape' \in Nat \ {0}
          /\ string_loc' \in Nat
          /\ \/ string_loc' = string_loc
             \/ doc.char[k] = "string" /\ string_loc' = string_loc + 5 + doc.size[k]
      <4>1. CASE Byte(k) = "string" /\ visit_string(k)
        BY <1>0, <4>1, VisitString DEF Byte, WalkInv
      <4>2. CASE Append2(Word("number", 0, 0), Word("data", k, 0)) /\ UNCHANGED string_loc
        BY <1>0, <4>2, AppendTwo
      <4>3. CASE Append1(Word("atom", 0, 0)) /\ UNCHANGED string_loc
        BY <1>0, <4>3, AppendOne
      <4> QED BY <2>3, <4>1, <4>2, <4>3 DEF visit_scalar
    <3>3. k > 0 => k + 1 <= doc.n - 1
      BY <1>3, ValuePlace
    <3>4. WalkTypeOK'
      BY <1>0, <3>1, <3>2 DEF WalkInv, WalkTypeOK
    <3>5. PlaceInv'
      <4>1. read' <= doc'.n + 2 /\ next' \in 1 .. doc'.n
        BY <1>0, <3>1
      <4>2. pc' \in Inside => /\ doc'.char[0] \in Opening /\ depth' >= 1
                              /\ doc'.char[doc'.n - 1] \in Closing
        BY <1>k, <1>a, <3>1
      <4>3. /\ pc' # "document_start" /\ pc' \notin Begins
            /\ pc' \notin Expecting /\ pc' \notin {"first_key", "object_field"}
        BY <1>a, <3>1
      <4>4. next' <= doc'.n
        BY <1>n, <3>1
      <4>5. pc' \in Begins \cup Inside =>
              doc'.char[0] \in Opening /\ doc'.char[doc'.n - 1] \in Closing
        BY <4>2, <4>3
      <4> QED BY <4>1, <4>2, <4>3, <4>4, <4>5, Zenon DEF PlaceInv
    <3>6. TapeInv'
      BY <1>0, <3>1, <3>2, <3>3 DEF TapeInv, Ready, Begins, Inside, Expecting, Continues
    <3>7. /\ doc.at[k] \in Nat /\ doc.at[k + 1] \in Nat /\ doc.at[doc.n] \in Nat
          /\ doc.at[k] + 1 <= doc.at[k + 1] /\ doc.at[k + 1] <= doc.at[doc.n]
          /\ doc.size[k] \in Nat
          /\ doc.char[k] = "string" => doc.at[k] + 2 + doc.size[k] <= doc.at[k + 1]
      <4>1. k \in 0 .. doc.n /\ k + 1 \in 0 .. doc.n /\ doc.n \in 0 .. doc.n /\ k < k + 1
        BY <1>0
      <4>2. doc.at[k] + (k + 1 - k) <= doc.at[k + 1]
        BY <4>1, <1>r
      <4>3. doc.size[k] \in Nat
        BY <1>0, Room
      <4>4. doc.char[k] = "string" => doc.at[k] + 2 + doc.size[k] <= doc.at[k + 1]
        BY <1>0, Room
      <4> QED BY <1>0, <1>r, <1>e, <4>1, <4>2, <4>3, <4>4
    <3>s. \/ string_loc' = string_loc
          \/ /\ string_loc' = string_loc + 5 + doc.size[k] /\ doc.size[k] \in Nat
             /\ doc.at[k] + 2 + doc.size[k] <= doc.at[k + 1]
      BY <3>2, <3>7
    <3>8. 3 * string_loc' <= 5 * doc.at[k + 1] + 5
      BY <1>n, <1>t, <3>s, <3>7
    <3>9. k > 0 => 3 * string_loc' <= 5 * doc.at[k + 1]
      BY <1>n, <1>s, <3>s, <3>7
    <3>10. StringInv'
      <4>0. string_loc' \in Nat
        BY <1>0, <3>s
      <4>1. 3 * string_loc' <= 5 * doc.at[doc.n] + 5
        BY <4>0, <3>7, <3>8, PaysLater
      <4>2. /\ pc' # "document_start"
            /\ pc' \notin Begins \cup Expecting \cup {"first_key"}
            /\ pc' # "object_field"
            /\ pc' \in Continues => k > 0
        BY <1>a, <3>1
      <4> QED BY <3>1, <3>9, <4>1, <4>2 DEF StringInv
    <3> QED BY <3>4, <3>5, <3>6, <3>10 DEF WalkInv
  <2> QED BY <1>3, <2>1, <2>2, <2>3 DEF Value
<1>4. CASE c \notin Scalar \cup Opening
  <2>1. Fail(k, "TAPE_ERROR")
    BY <1>4 DEF Value
  <2> QED BY <1>0, <2>1, FailStep DEF Error
<1> QED BY <1>1, <1>2, <1>3, <1>4

-----------------------------------------------------------------------------
(* The actions, and the theorems.                                          *)

\* What ObjectBegin and ArrayBegin have in common.
LEMMA BeginStep ==
  ASSUME WalkInv, pc \in Begins, depth + 1 < MaxDepth, NEW array \in BOOLEAN, NEW n \in Nat,
         depth' = depth + 1, is_array' = [is_array EXCEPT ![depth + 1] = array],
         start_container(depth + 1, n), pc' \in {"first_key", "array_value"},
         UNCHANGED <<doc, error, next, string_loc, read>>
  PROVE  WalkInv'
<1>1. /\ doc.n \in Nat \ {0} /\ next_tape \in Nat \ {0} /\ depth + 1 \in 0 .. MaxDepth - 1
      /\ next \in 1 .. doc.n - 1 /\ depth \in Nat /\ doc' = doc
  <2>1. pc \in Begins \cup {"first_key", "object_field"}
    OBVIOUS
  <2>2. next \in 1 .. doc.n - 1
    BY <2>1 DEF WalkInv, PlaceInv
  <2>3. doc.n \in Nat \ {0} /\ next_tape \in Nat \ {0} /\ depth \in 0 .. MaxDepth - 1
    BY DEF WalkInv, WalkTypeOK, IsDocument
  <2> QED BY <2>2, <2>3, DepthAssumption
<1>2. next_tape' = next_tape + 1 /\ DOMAIN tape' = 0 .. next_tape' - 1
  BY <1>1, AppendOne DEF start_container
<1>3. WalkTypeOK'
  <2>1. is_array' \in [0 .. MaxDepth - 1 -> BOOLEAN]
    BY <1>1 DEF WalkInv, WalkTypeOK
  <2>2. open_containers' \in [0 .. MaxDepth - 1 -> [tape_index : Nat, count : Nat]]
    BY <1>1 DEF WalkInv, WalkTypeOK, start_container
  <2>3. next_tape' \in Nat \ {0} /\ depth' \in 0 .. MaxDepth - 1 /\ pc' \in Label
    BY <1>1, <1>2 DEF Label
  <2> QED BY <1>1, <1>2, <2>1, <2>2, <2>3 DEF WalkInv, WalkTypeOK
<1>4. /\ pc' \notin Begins \cup Continues \cup {"document_start", "document_end"}
      /\ pc' \notin Continues \cup {"object_field"} /\ pc' \notin Continues
      /\ pc' \notin Continues \cup {"document_end"} /\ pc' \notin Begins
      /\ pc' # "document_start" /\ pc' # "document_end"
  BY DEF Begins, Continues
<1>5. PlaceInv'
  <2>1. doc.char[0] \in Opening /\ doc.char[doc.n - 1] \in Closing
    BY DEF WalkInv, PlaceInv
  <2>2. next' \in 1 .. doc'.n - 1 /\ depth' >= 1
    BY <1>1
  <2>3. read' <= doc'.n + 2
    BY DEF WalkInv, PlaceInv
  <2> QED BY <1>1, <1>4, <2>1, <2>2, <2>3, Zenon DEF PlaceInv
<1>6. TapeInv'
  BY <1>1, <1>2, <1>4 DEF WalkInv, TapeInv
<1>7. StringInv'
  BY <1>1, <1>4 DEF WalkInv, StringInv
<1> QED BY <1>3, <1>5, <1>6, <1>7 DEF WalkInv

\* What a string of z bytes between a and b takes is paid for.
LEMMA StringPays ==
  ASSUME NEW s \in Nat, NEW z \in Nat, NEW a \in Nat, NEW b \in Nat,
         3 * s <= 5 * (a - 1), a + 2 + z <= b
  PROVE  3 * (s + 5 + z) <= 5 * b
OBVIOUS

\* A key, after which a colon is looked at.
LEMMA KeyStep ==
  ASSUME WalkInv, pc \in {"first_key", "next_key"}, Byte(next) = "string", Key,
         open_containers' \in [0 .. MaxDepth - 1 -> [tape_index : Nat, count : Nat]]
  PROVE  WalkInv'
<1>1. /\ doc.n \in Nat \ {0} /\ next \in Nat /\ IsDocument(doc)
      /\ next_tape \in Nat \ {0} /\ string_loc \in Nat
  BY DEF WalkInv, WalkTypeOK, IsDocument
<1>2. doc.char[0] \in Opening /\ doc.char[doc.n - 1] \in Closing /\ depth >= 1
  BY DEF WalkInv, PlaceInv, Inside, Expecting
<1>3. next \in 1 .. doc.n - 1
  <2>1. \/ next \in 1 .. doc.n - 1
        \/ next = doc.n + 1 /\ doc.padding = "comma"
    BY DEF WalkInv, PlaceInv, Expecting
  <2>2. next = doc.n + 1 => Byte(next) = doc.padding
    BY <1>1 DEF Byte
  <2> QED BY <2>1, <2>2
<1>4. Byte(next) = doc.char[next]
  BY <1>1, <1>3, ByteIn
<1>5. next + 1 <= doc.n - 1
  <2>1. next # doc.n - 1
    BY <1>2, <1>4 DEF Closing
  <2> QED BY <1>1, <1>3, <2>1
<1>6. doc.padding \notin Closing => next_tape <= next + 1
  BY DEF WalkInv, TapeInv, Expecting
<1>7. CASE refuse_scalar(next)
  BY <1>1, <1>3, <1>6, <1>7, RefuseStep
<1>8. CASE visit_string(next) /\ Advanced(next, "object_field") /\ Frame
  <2>1. /\ next' = next + 1 /\ read' = next /\ pc' = "object_field" /\ doc' = doc
        /\ UNCHANGED <<depth, is_array, error>>
    BY <1>8 DEF Advanced, Frame
  <2>2. /\ next_tape' = next_tape + 1 /\ DOMAIN tape' = 0 .. next_tape' - 1
        /\ string_loc' = string_loc + 5 + doc.size[next] /\ string_loc' \in Nat
    BY <1>1, <1>3, <1>8, VisitString DEF WalkInv
  <2>3. WalkTypeOK'
    BY <1>1, <2>1, <2>2 DEF WalkInv, WalkTypeOK, Label
  <2>4. /\ pc' \notin Begins /\ pc' \notin Expecting /\ pc' \notin Continues
        /\ pc' # "document_start" /\ pc' # "document_end"
        /\ pc' \notin Begins \cup Expecting \cup {"first_key"}
        /\ pc' \notin Continues \cup {"document_end"}
    BY <2>1 DEF Begins, Expecting, Continues
  <2>5. PlaceInv'
    <3>1. next' \in 1 .. doc'.n - 1 /\ depth' >= 1 /\ read' <= doc'.n + 2
      BY <1>1, <1>2, <1>3, <1>5, <2>1
    <3> QED BY <1>2, <2>1, <2>4, <3>1, Zenon DEF PlaceInv
  <2>6. TapeInv'
    BY <1>1, <1>5, <1>6, <2>1, <2>2, <2>4 DEF TapeInv
  <2>7. StringInv'
    <3>1. 3 * string_loc <= 5 * (doc.at[next] - 1)
      BY <1>1, <1>3 DEF WalkInv, StringInv, Expecting
    <3>2. /\ doc.at[next] \in Nat /\ doc.at[next + 1] \in Nat /\ doc.at[doc.n] \in Nat
          /\ doc.at[next + 1] <= doc.at[doc.n]
      <4>1. next \in 0 .. doc.n /\ next + 1 \in 0 .. doc.n /\ doc.n \in 0 .. doc.n
        BY <1>1, <1>3
      <4>2. /\ doc.at[next] \in Nat /\ doc.at[next + 1] \in Nat /\ doc.at[doc.n] \in Nat
            /\ doc.at[next + 1] + (doc.n - (next + 1)) <= doc.at[doc.n]
        BY <1>1, <4>1, Room
      <4> QED BY <1>1, <1>5, <4>1, <4>2
    <3>3. doc.size[next] \in Nat /\ doc.at[next] + 2 + doc.size[next] <= doc.at[next + 1]
      <4>1. next \in 0 .. doc.n - 1 /\ doc.char[next] = "string"
        BY <1>1, <1>3, <1>4
      <4> QED BY <1>1, <4>1, Room
    <3>4. 3 * string_loc' <= 5 * doc.at[next + 1]
      <4>1. string_loc' = string_loc + 5 + doc.size[next] /\ string_loc \in Nat
        BY <1>1, <2>2
      <4> QED BY <3>1, <3>2, <3>3, <4>1, StringPays
    <3>5. 3 * string_loc' <= 5 * doc.at[doc.n] + 5
      BY <1>1, <1>5, <2>2, <3>2, <3>4, SMTT(20)
    <3> QED BY <2>1, <2>4, <3>4, <3>5 DEF StringInv
  <2> QED BY <2>3, <2>5, <2>6, <2>7 DEF WalkInv
<1> QED BY <1>7, <1>8 DEF Key

\* Where the walk may be behind a whole value.
LEMMA BehindValue ==
  ASSUME WalkInv, pc \in Continues
  PROVE  /\ doc.n \in Nat \ {0} /\ depth \in 1 .. MaxDepth - 1
         /\ doc.char[0] \in Opening /\ doc.char[doc.n - 1] \in Closing
         /\ \/ next \in 1 .. doc.n
            \/ next = doc.n + 1 /\ Byte(next) \in Closing /\ doc.padding \in Closing
            \/ next = doc.n + 2 /\ Byte(next) \in Opening \cup {"other"}
<1>1. /\ doc.n \in Nat \ {0} /\ depth \in 0 .. MaxDepth - 1 /\ next \in Nat
      /\ doc.first \in {doc.char[0], "other"}
  BY DEF WalkInv, WalkTypeOK, IsDocument
<1>2. \/ next \in 1 .. doc.n
      \/ next \in doc.n + 1 .. doc.n + 2 /\ doc.padding \in Closing
  BY DEF WalkInv, PlaceInv
<1>3. doc.char[0] \in Opening /\ doc.char[doc.n - 1] \in Closing /\ depth >= 1
  <2>1. pc \in Inside
    BY DEF Inside
  <2>2. pc \in Begins \cup Inside
    BY <2>1
  <2> QED BY <2>1, <2>2 DEF WalkInv, PlaceInv
<1>4. CASE next \in 1 .. doc.n
  BY <1>1, <1>3, <1>4, DepthAssumption
<1>5. CASE next = doc.n + 1
  <2>1. Byte(next) = doc.padding
    BY <1>1, <1>5 DEF Byte
  <2>2. doc.padding \in Closing
    BY <1>1, <1>2, <1>5
  <2> QED BY <1>1, <1>3, <1>5, <2>1, <2>2, DepthAssumption
<1>6. CASE next = doc.n + 2
  <2>1. Byte(next) = doc.first
    BY <1>1, <1>6 DEF Byte
  <2>2. doc.first \in Opening \cup {"other"}
    BY <1>1, <1>3
  <2> QED BY <1>1, <1>3, <1>6, <2>1, <2>2, DepthAssumption
<1> QED BY <1>1, <1>2, <1>4, <1>5, <1>6

\* What has been written by then.
LEMMA WrittenBehindValue ==
  ASSUME WalkInv, pc \in Continues
  PROVE  /\ doc.padding \notin Closing => next_tape <= next + 2
         /\ next <= doc.n => 3 * string_loc <= 5 * doc.at[next]
         /\ 3 * string_loc <= 5 * doc.at[doc.n] + 5
         /\ next_tape \in Nat \ {0} /\ string_loc \in Nat
<1>1. doc.padding \notin Closing => next_tape <= next + 2
  <2>1. pc \in Continues \cup {"document_end"}
    OBVIOUS
  <2> QED BY <2>1 DEF WalkInv, TapeInv
<1>2. /\ next <= doc.n => 3 * string_loc <= 5 * doc.at[next]
      /\ 3 * string_loc <= 5 * doc.at[doc.n] + 5
  <2>1. pc \in Continues \cup {"object_field"}
    OBVIOUS
  <2> QED BY <2>1 DEF WalkInv, StringInv
<1>3. next_tape \in Nat \ {0} /\ string_loc \in Nat
  BY DEF WalkInv, WalkTypeOK
<1> QED BY <1>1, <1>2, <1>3

\* A comma goes on with a key or a value.
LEMMA CommaStep ==
  ASSUME WalkInv, pc \in Continues, Byte(next) = "comma", NEW l \in Expecting,
         increment_count, Advanced(next, l), Frame,
         UNCHANGED <<tape, next_tape, string_loc>>
  PROVE  WalkInv'
<1>1. /\ doc.n \in Nat \ {0} /\ next \in 1 .. doc.n /\ depth \in 1 .. MaxDepth - 1
      /\ doc.char[0] \in Opening /\ doc.char[doc.n - 1] \in Closing
  BY BehindValue DEF Opening, Closing
<1>2. /\ doc' = doc /\ next' = next + 1 /\ read' = next /\ pc' = l
      /\ UNCHANGED <<error, depth, is_array, tape, next_tape, string_loc>>
  BY DEF Advanced, Frame
<1>3. \/ next + 1 <= doc.n - 1
      \/ next = doc.n /\ doc.padding = "comma"
  <2>1. CASE next = doc.n
    BY <1>1, <2>1 DEF Byte
  <2>2. CASE next < doc.n
    <3>1. Byte(next) = doc.char[next]
      BY <1>1, <2>2, ByteIn
    <3>2. next # doc.n - 1
      BY <1>1, <3>1 DEF Closing
    <3> QED BY <1>1, <2>2, <3>2
  <2> QED BY <1>1, <2>1, <2>2
<1>4. WalkTypeOK'
  <2>1. open_containers' \in [0 .. MaxDepth - 1 -> [tape_index : Nat, count : Nat]]
    BY <1>1 DEF WalkInv, WalkTypeOK, increment_count
  <2>2. pc' \in Label
    BY <1>2 DEF Expecting, Label
  <2>3. next' \in Nat /\ read' \in Nat
    BY <1>1, <1>2
  <2> QED BY <1>2, <2>1, <2>2, <2>3 DEF WalkInv, WalkTypeOK
<1>5. /\ pc' \in Expecting /\ pc' \in Inside
      /\ pc' \notin Begins /\ pc' \notin Continues /\ pc' \notin Continues \cup {"object_field"}
      /\ pc' \notin Continues \cup {"document_end"} /\ pc' \notin {"first_key", "object_field"}
      /\ pc' # "document_start" /\ pc' # "document_end"
  BY <1>2 DEF Begins, Continues, Inside, Expecting
<1>6. PlaceInv'
  <2>1. \/ next' \in 1 .. doc'.n - 1
        \/ next' = doc'.n + 1 /\ doc'.padding = "comma"
    BY <1>1, <1>2, <1>3
  <2>2. read' <= doc'.n + 2 /\ depth' >= 1
    BY <1>1, <1>2
  <2> QED BY <1>1, <1>2, <1>5, <2>1, <2>2, Zenon DEF PlaceInv
<1>7. TapeInv'
  <2>1. doc.padding \notin Closing => next_tape' <= next' + 1
    BY <1>1, <1>2, WrittenBehindValue
  <2>2. doc.padding \notin Closing => next_tape' <= doc'.n + 3
    BY <1>2 DEF WalkInv, TapeInv
  <2> QED BY <1>2, <1>5, <2>1, <2>2 DEF TapeInv
<1>8. StringInv'
  <2>1. ASSUME next' < doc'.n
        PROVE  3 * string_loc' <= 5 * (doc'.at[next'] - 1)
    <3>1. next \in 0 .. doc.n /\ next + 1 \in 0 .. doc.n /\ next < next + 1
      BY <1>1, <1>2, <2>1
    <3>2. /\ doc.at[next] \in Nat /\ doc.at[next + 1] \in Nat
          /\ doc.at[next] + (next + 1 - next) <= doc.at[next + 1]
      <4>1. IsDocument(doc)
        BY DEF WalkInv, WalkTypeOK
      <4>2. \A j \in 0 .. doc.n : doc.at[j] \in Nat
        BY <4>1, Room
      <4>3. \A j, k \in 0 .. doc.n : j < k => doc.at[j] + (k - j) <= doc.at[k]
        BY <4>1, Room
      <4> QED BY <3>1, <4>2, <4>3
    <3>3. 3 * string_loc <= 5 * doc.at[next] /\ string_loc \in Nat
      BY <1>1, WrittenBehindValue
    <3>4. 3 * string_loc <= 5 * (doc.at[next + 1] - 1)
      BY <1>1, <3>2, <3>3
    <3> QED BY <1>2, <3>4
  <2>2. 3 * string_loc' <= 5 * doc'.at[doc'.n] + 5
    BY <1>2, WrittenBehindValue
  <2> QED BY <1>5, <2>1, <2>2 DEF StringInv
<1> QED BY <1>4, <1>6, <1>7, <1>8 DEF WalkInv

\* A closing character ends a container.
LEMMA ScopeEndStep ==
  ASSUME WalkInv, pc \in Continues, Byte(next) \in Closing, NEW start, ScopeEnd(start)
  PROVE  WalkInv'
<1>1. /\ doc.n \in Nat \ {0} /\ next \in 1 .. doc.n + 1 /\ depth \in 1 .. MaxDepth - 1
      /\ doc.char[0] \in Opening /\ doc.char[doc.n - 1] \in Closing
      /\ next > doc.n => doc.padding \in Closing
  BY BehindValue DEF Opening, Closing
<1>2. /\ doc' = doc /\ next' = next + 1 /\ read' = next /\ depth' = depth - 1
      /\ pc' \in Continues \cup {"document_end"}
      /\ pc' \in Continues => depth - 1 # 0
      /\ UNCHANGED <<error, is_array, open_containers, string_loc>>
  BY DEF ScopeEnd, Advanced, Continues
<1>3. next_tape' = next_tape + 1 /\ DOMAIN tape' = 0 .. next_tape' - 1
  <2>1. Cardinality({0}) = 1
    BY FS_Singleton
  <2>2. next_tape \in Nat \ {0}
    BY DEF WalkInv, WalkTypeOK
  <2>3. \A w : DOMAIN [i \in {0} |-> w] = {0}
    OBVIOUS
  <2> QED BY <2>1, <2>2, <2>3 DEF ScopeEnd, end_container, Appended
<1>4. next >= doc.n => doc.padding \in Closing
  <2>1. next = doc.n => Byte(next) = doc.padding
    BY <1>1 DEF Byte
  <2> QED BY <1>1, <2>1
<1>5. WalkTypeOK'
  <2>1. pc' \in Label
    BY <1>2 DEF Continues, Label
  <2>2. next' \in Nat /\ read' \in Nat /\ depth' \in 0 .. MaxDepth - 1
    BY <1>1, <1>2, DepthAssumption
  <2>3. next_tape' \in Nat \ {0}
    BY <1>3 DEF WalkInv, WalkTypeOK
  <2> QED BY <1>2, <1>3, <2>1, <2>2, <2>3 DEF WalkInv, WalkTypeOK
<1>6. /\ pc' \notin Begins /\ pc' \notin Expecting /\ pc' \notin {"first_key", "object_field"}
      /\ pc' \notin Expecting \cup {"first_key", "object_field"}
      /\ pc' \notin Begins \cup Expecting \cup {"first_key"} /\ pc' # "object_field"
      /\ pc' # "document_start"
      /\ pc' \in Inside => pc' \in Continues
  BY <1>2 DEF Begins, Expecting, Continues, Inside
<1>7. PlaceInv'
  <2>1. \/ next' \in 1 .. doc'.n /\ next' <= doc'.n
        \/ next' \in doc'.n + 1 .. doc'.n + 2 /\ doc'.padding \in Closing
    BY <1>1, <1>2, <1>4
  <2>2. read' <= doc'.n + 2
    BY <1>1, <1>2
  <2>3. pc' \in Continues => depth' >= 1
    BY <1>1, <1>2
  <2> QED BY <1>1, <1>2, <1>6, <2>1, <2>2, <2>3, Zenon DEF PlaceInv
<1>8. TapeInv'
  <2>1. doc.padding \notin Closing => next_tape \in Nat /\ next_tape <= next + 2 /\ next < doc.n
    BY <1>1, <1>4, WrittenBehindValue
  <2>2. doc.padding \notin Closing => next_tape' <= next' + 2 /\ next_tape' <= doc'.n + 3
    BY <1>1, <1>2, <1>3, <2>1
  <2> QED BY <1>2, <1>6, <2>2 DEF TapeInv
<1>9. StringInv'
  <2>1. ASSUME next' <= doc'.n
        PROVE  3 * string_loc' <= 5 * doc'.at[next']
    <3>1. next \in 0 .. doc.n /\ next + 1 \in 0 .. doc.n /\ next < next + 1
      BY <1>1, <1>2, <2>1
    <3>2. /\ doc.at[next] \in Nat /\ doc.at[next + 1] \in Nat
          /\ doc.at[next] + (next + 1 - next) <= doc.at[next + 1]
      <4>1. IsDocument(doc)
        BY DEF WalkInv, WalkTypeOK
      <4>2. \A j \in 0 .. doc.n : doc.at[j] \in Nat
        BY <4>1, Room
      <4>3. \A j, k \in 0 .. doc.n : j < k => doc.at[j] + (k - j) <= doc.at[k]
        BY <4>1, Room
      <4> QED BY <3>1, <4>2, <4>3
    <3>3. 3 * string_loc <= 5 * doc.at[next] /\ string_loc \in Nat
      BY <3>1, <1>1, WrittenBehindValue
    <3>4. 3 * string_loc <= 5 * doc.at[next + 1]
      <4>0. next + 1 - next = 1
        BY <1>1
      <4>1. doc.at[next] <= doc.at[next + 1]
        <5>1. doc.at[next] + 1 <= doc.at[next + 1]
          BY <3>2, <4>0
        <5> QED BY <5>1, <3>2
      <4> QED BY <4>1, <3>2, <3>3, PaysLater
    <3> QED BY <1>2, <3>4
  <2>2. 3 * string_loc' <= 5 * doc'.at[doc'.n] + 5
    BY <1>2, WrittenBehindValue
  <2> QED BY <1>6, <2>1, <2>2 DEF StringInv
<1> QED BY <1>5, <1>7, <1>8, <1>9 DEF WalkInv

\* No place of the walk is more than one entry behind what Fail may look at.
LEMMA NextRead ==
  ASSUME WalkInv, pc \in Begins \cup Inside
  PROVE  next \in 0 .. doc.n + 2 /\ read \in 0 .. doc.n + 2 /\ doc.n \in Nat \ {0}
<1>1. doc.n \in Nat \ {0} /\ read \in Nat /\ read <= doc.n + 2
  BY DEF WalkInv, WalkTypeOK, IsDocument, PlaceInv
<1>2. CASE pc \in Begins \cup {"first_key", "object_field"}
  BY <1>1, <1>2 DEF WalkInv, PlaceInv
<1>3. CASE pc \in Expecting
  BY <1>1, <1>3 DEF WalkInv, PlaceInv
<1>4. CASE pc \in Continues
  BY <1>1, <1>4 DEF WalkInv, PlaceInv
<1> QED BY <1>1, <1>2, <1>3, <1>4 DEF Inside

LEMMA InitInv == WalkInit => WalkInv
<1> SUFFICES ASSUME WalkInit
             PROVE  WalkInv
  OBVIOUS
<1>1. IsDocument(doc) /\ doc.n \in Nat \ {0}
  BY DocumentsAssumption DEF WalkInit, IsDocument
<1>2. doc.at[doc.n] \in Nat
  BY <1>1, Room
<1>3. WalkTypeOK
  BY <1>1, DepthAssumption DEF WalkInit, WalkTypeOK, Label, Error
<1>4. /\ pc = "document_start" /\ pc \notin Begins \cup Inside /\ pc \notin Inside
      /\ pc \notin Begins \cup {"first_key", "object_field"} /\ pc \notin Begins
      /\ pc \notin Expecting /\ pc \notin Continues /\ pc # "document_end"
      /\ pc \notin Expecting \cup {"first_key", "object_field"}
      /\ pc \notin Continues \cup {"document_end"}
      /\ pc \notin Begins \cup Expecting \cup {"first_key"}
      /\ pc \notin Continues \cup {"object_field"}
  BY DEF WalkInit, Begins, Inside, Expecting, Continues
<1>5. PlaceInv
  BY <1>1, <1>4 DEF WalkInit, PlaceInv
<1>6. TapeInv
  BY <1>1, <1>4 DEF WalkInit, TapeInv
<1>7. StringInv
  BY <1>2, <1>4 DEF WalkInit, StringInv
<1> QED BY <1>3, <1>5, <1>6, <1>7 DEF WalkInv

LEMMA NextInv == WalkInv /\ [WalkNext]_walk_vars => WalkInv'
<1> SUFFICES ASSUME WalkInv, [WalkNext]_walk_vars
             PROVE  WalkInv'
  OBVIOUS
<1>t. /\ doc.n \in Nat \ {0} /\ IsDocument(doc) /\ next_tape \in Nat \ {0} /\ string_loc \in Nat
      /\ "TAPE_ERROR" \in Error /\ "DEPTH_ERROR" \in Error
  BY DEF WalkInv, WalkTypeOK, IsDocument, Error
<1>1. CASE UnclosedDocument
  <2>1. doc.n - 1 \in 0 .. doc.n + 2
    BY <1>t
  <2> QED BY <1>1, <1>t, <2>1, FailStep DEF UnclosedDocument
<1>2. CASE FirstValue
  <2>1. doc.char[0] \in Opening => doc.char[doc.n - 1] \in Closing
    <3>1. 0 \in 0 .. doc.n - 1 /\ doc.n - 1 \in 0 .. doc.n - 1
      BY <1>t
    <3>2. Byte(0) = doc.char[0] /\ Byte(doc.n - 1) = doc.char[doc.n - 1]
      BY <1>t, <3>1, ByteIn
    <3> QED BY <1>2, <3>2 DEF FirstValue, ClosedAtTheEnd, Matching, Opening, Closing
  <2>2. string_loc = 0 /\ (doc.padding \notin Closing => next_tape <= 0 + 1)
    BY <1>2 DEF WalkInv, TapeInv, StringInv, FirstValue
  <2>3. Ready(0, "document_end")
    BY <1>t, <2>1, <2>2 DEF Ready
  <2> QED BY <1>2, <2>3, ValueStep DEF FirstValue
<1>3. CASE ObjectBegin
  <2>1. pc \in Begins /\ pc \in Begins \cup Inside
    BY <1>3 DEF ObjectBegin, Begins
  <2>2. CASE Fail(read, "DEPTH_ERROR")
    BY <1>t, <2>1, <2>2, NextRead, FailStep
  <2>3. CASE depth + 1 < MaxDepth /\ ~Fail(read, "DEPTH_ERROR")
    <3>1. depth' = depth + 1 /\ start_container(depth + 1, 0) /\ pc' \in {"first_key", "array_value"}
      BY <1>3, <2>3 DEF ObjectBegin
    <3>2. is_array' = [is_array EXCEPT ![depth + 1] = FALSE]
      BY <1>3, <2>3 DEF ObjectBegin
    <3>3. UNCHANGED <<doc, error, next, string_loc, read>>
      BY <1>3, <2>3 DEF ObjectBegin
    <3> QED BY <2>1, <2>3, <3>1, <3>2, <3>3, BeginStep
  <2> QED BY <1>3, <2>2, <2>3 DEF ObjectBegin
<1>4. CASE ArrayBegin
  <2>1. pc \in Begins /\ pc \in Begins \cup Inside
    BY <1>4 DEF ArrayBegin, Begins
  <2>2. CASE Fail(read, "DEPTH_ERROR")
    BY <1>t, <2>1, <2>2, NextRead, FailStep
  <2>3. CASE depth + 1 < MaxDepth /\ ~Fail(read, "DEPTH_ERROR")
    <3>1. depth' = depth + 1 /\ start_container(depth + 1, 1) /\ pc' \in {"first_key", "array_value"}
      BY <1>4, <2>3 DEF ArrayBegin
    <3>2. is_array' = [is_array EXCEPT ![depth + 1] = TRUE]
      BY <1>4, <2>3 DEF ArrayBegin
    <3>3. UNCHANGED <<doc, error, next, string_loc, read>>
      BY <1>4, <2>3 DEF ArrayBegin
    <3> QED BY <2>1, <2>3, <3>1, <3>2, <3>3, BeginStep
  <2> QED BY <1>4, <2>2, <2>3 DEF ArrayBegin
<1>5. CASE FirstKey
  <2>1. pc \in Begins \cup Inside /\ pc \in {"first_key", "next_key"}
    BY <1>5 DEF FirstKey, Inside
  <2>2. CASE Fail(next, "TAPE_ERROR")
    BY <1>t, <2>1, <2>2, NextRead, FailStep
  <2>3. CASE Byte(next) = "string" /\ increment_count /\ Key
    <3>1. depth \in 0 .. MaxDepth - 1
      BY DEF WalkInv, WalkTypeOK
    <3>2. open_containers' \in [0 .. MaxDepth - 1 -> [tape_index : Nat, count : Nat]]
      BY <2>3, <3>1 DEF WalkInv, WalkTypeOK, increment_count
    <3> QED BY <2>1, <2>3, <3>2, KeyStep
  <2> QED BY <1>5, <2>2, <2>3 DEF FirstKey
<1>6. CASE NextKey
  <2>1. pc \in Begins \cup Inside /\ pc \in {"first_key", "next_key"}
    BY <1>6 DEF NextKey, Inside, Expecting
  <2>2. CASE Fail(next, "TAPE_ERROR")
    BY <1>t, <2>1, <2>2, NextRead, FailStep
  <2>3. CASE Byte(next) = "string" /\ Key /\ UNCHANGED open_containers
    <3>1. open_containers' \in [0 .. MaxDepth - 1 -> [tape_index : Nat, count : Nat]]
      BY <2>3 DEF WalkInv, WalkTypeOK
    <3> QED BY <2>1, <2>3, <3>1, KeyStep
  <2> QED BY <1>6, <2>2, <2>3 DEF NextKey
<1>7. CASE ObjectField
  <2>1. pc \in Begins \cup Inside /\ pc = "object_field"
    BY <1>7 DEF ObjectField, Inside
  <2>2. CASE Fail(next, "TAPE_ERROR")
    BY <1>t, <2>1, <2>2, NextRead, FailStep
  <2>3. CASE Byte(next) = "colon" /\ Value(next + 1, "object_continue")
    <3>1. /\ next \in 1 .. doc.n - 1 /\ depth >= 1
          /\ doc.char[0] \in Opening /\ doc.char[doc.n - 1] \in Closing
      BY <2>1 DEF WalkInv, PlaceInv, Inside
    <3>2. next + 1 \in 0 .. doc.n - 1 /\ next + 1 > 0
      <4>1. Byte(next) = doc.char[next]
        BY <1>t, <3>1, ByteIn
      <4>2. next # doc.n - 1
        BY <2>3, <3>1, <4>1 DEF Closing
      <4> QED BY <1>t, <3>1, <4>2
    <3>3. 3 * string_loc <= 5 * (doc.at[next + 1] - 1)
      <4>1. next \in 0 .. doc.n /\ next + 1 \in 0 .. doc.n /\ next < next + 1 /\ next <= doc.n
        BY <1>t, <3>1, <3>2
      <4>2. /\ doc.at[next] \in Nat /\ doc.at[next + 1] \in Nat
            /\ doc.at[next] + (next + 1 - next) <= doc.at[next + 1]
        BY <1>t, <4>1, Room
      <4>3. 3 * string_loc <= 5 * doc.at[next]
        BY <2>1, <4>1 DEF WalkInv, StringInv
      <4> QED BY <1>t, <3>1, <4>2, <4>3
    <3>4. doc.padding \notin Closing => next_tape <= next + 1 + 1
      BY <1>t, <2>1, <3>1 DEF WalkInv, TapeInv
    <3>5. "object_continue" \in Continues
      BY DEF Continues
    <3>6. Ready(next + 1, "object_continue")
      BY <3>1, <3>2, <3>3, <3>4, <3>5 DEF Ready
    <3> QED BY <2>3, <3>6, ValueStep
  <2> QED BY <1>7, <2>2, <2>3 DEF ObjectField
<1>8. CASE ObjectContinue
  <2>1. pc \in Begins \cup Inside /\ pc \in Continues
    BY <1>8 DEF ObjectContinue, Inside, Continues
  <2>2. CASE Fail(next, "TAPE_ERROR")
    BY <1>t, <2>1, <2>2, NextRead, FailStep
  <2>3. CASE Byte(next) = "rbrace" /\ ScopeEnd("lbrace")
    BY <2>1, <2>3, ScopeEndStep DEF Closing
  <2>4. CASE /\ Byte(next) = "comma" /\ increment_count
             /\ Advanced(next, "next_key") /\ Frame
             /\ UNCHANGED <<tape, next_tape, string_loc>>
    BY <2>1, <2>4, CommaStep DEF Expecting
  <2> QED BY <1>8, <2>2, <2>3, <2>4 DEF ObjectContinue
<1>9. CASE ArrayContinue
  <2>1. pc \in Begins \cup Inside /\ pc \in Continues
    BY <1>9 DEF ArrayContinue, Inside, Continues
  <2>2. CASE Fail(next, "TAPE_ERROR")
    BY <1>t, <2>1, <2>2, NextRead, FailStep
  <2>3. CASE Byte(next) = "rbracket" /\ ScopeEnd("lbracket")
    BY <2>1, <2>3, ScopeEndStep DEF Closing
  <2>4. CASE /\ Byte(next) = "comma" /\ increment_count
             /\ Advanced(next, "array_value") /\ Frame
             /\ UNCHANGED <<tape, next_tape, string_loc>>
    BY <2>1, <2>4, CommaStep DEF Expecting
  <2> QED BY <1>9, <2>2, <2>3, <2>4 DEF ArrayContinue
<1>10. CASE ArrayValue
  <2>1. /\ pc \in Begins \cup Inside /\ pc \in Inside /\ pc \in Expecting
        /\ pc \in Expecting \cup {"first_key", "object_field"}
        /\ pc \in Begins \cup Expecting \cup {"first_key"}
    BY <1>10 DEF ArrayValue, Inside, Expecting
  <2>2. Value(next, "array_continue")
    BY <1>10 DEF ArrayValue
  <2>3. /\ depth >= 1 /\ doc.char[0] \in Opening /\ doc.char[doc.n - 1] \in Closing
        /\ \/ next \in 1 .. doc.n - 1
           \/ next = doc.n + 1 /\ doc.padding = "comma"
    BY <2>1 DEF WalkInv, PlaceInv
  <2>4. CASE next \in 1 .. doc.n - 1
    <3>1. 3 * string_loc <= 5 * (doc.at[next] - 1)
      BY <1>t, <2>1, <2>4 DEF WalkInv, StringInv
    <3>2. doc.padding \notin Closing => next_tape <= next + 1
      BY <2>1 DEF WalkInv, TapeInv
    <3>3. "array_continue" \in Continues /\ next \in 0 .. doc.n - 1 /\ next # 0
      BY <1>t, <2>4 DEF Continues
    <3>4. Ready(next, "array_continue")
      BY <2>3, <3>1, <3>2, <3>3 DEF Ready
    <3> QED BY <2>2, <3>4, ValueStep
  <2>5. CASE next = doc.n + 1 /\ doc.padding = "comma"
    <3>1. Byte(next) = "comma"
      BY <1>t, <2>5 DEF Byte
    <3>2. Fail(next, "TAPE_ERROR")
      BY <2>2, <3>1 DEF Value, Scalar, Opening
    <3> QED BY <1>t, <2>1, <3>2, NextRead, FailStep
  <2> QED BY <2>3, <2>4, <2>5
<1>11. CASE DocumentEnd
  <2>1. /\ pc' = "done" /\ next_tape' = next_tape + 1 /\ error' \in Error /\ doc' = doc
        /\ UNCHANGED <<depth, is_array, next, open_containers, string_loc, read>>
    BY <1>11 DEF DocumentEnd, Frame, Error
  <2>2. DOMAIN tape' = 0 .. next_tape' - 1
    <3>1. Cardinality({0}) = 1
      BY FS_Singleton
    <3>2. \A w : DOMAIN [i \in {0} |-> w] = {0}
      OBVIOUS
    <3> QED BY <1>11, <1>t, <3>1, <3>2 DEF DocumentEnd, Appended
  <2>3. WalkTypeOK'
    BY <1>t, <2>1, <2>2 DEF WalkInv, WalkTypeOK, Label
  <2>4. pc' \notin Begins \cup Inside \cup {"document_start", "document_end"}
    BY <2>1 DEF Begins, Inside, Expecting, Continues
  <2>5. PlaceInv'
    <3>1. read' <= doc'.n + 2
      BY <2>1 DEF WalkInv, PlaceInv
    <3> QED BY <2>4, <3>1 DEF PlaceInv, Inside
  <2>6. TapeInv'
    <3>1. doc.padding \notin Closing => next_tape <= next + 2 /\ next <= doc.n
      BY <1>11 DEF WalkInv, TapeInv, PlaceInv, DocumentEnd
    <3>2. doc'.padding \notin Closing => next_tape' <= doc'.n + 3
      BY <1>t, <2>1, <3>1 DEF WalkInv, WalkTypeOK
    <3> QED BY <2>4, <3>2 DEF TapeInv, Inside
  <2>7. StringInv'
    BY <2>1, <2>4 DEF WalkInv, StringInv, Inside
  <2> QED BY <2>3, <2>5, <2>6, <2>7 DEF WalkInv
<1>12. CASE UNCHANGED walk_vars
  <2>1. WalkTypeOK'
    BY <1>12 DEF walk_vars, WalkInv, WalkTypeOK
  <2>2. PlaceInv'
    BY <1>12 DEF walk_vars, WalkInv, PlaceInv
  <2>3. TapeInv' /\ StringInv'
    BY <1>12 DEF walk_vars, WalkInv, TapeInv, StringInv
  <2> QED BY <2>1, <2>2, <2>3 DEF WalkInv
<1> QED BY <1>1, <1>2, <1>3, <1>4, <1>5, <1>6, <1>7, <1>8, <1>9, <1>10, <1>11, <1>12 DEF WalkNext

\* All that follows rests on this.
LEMMA WalkInvariant == WalkSpec => []WalkInv
<1>1. WalkInit => WalkInv
  BY InitInv
<1>2. WalkInv /\ [WalkNext]_walk_vars => WalkInv'
  BY NextInv
<1> QED BY <1>1, <1>2, PTL DEF WalkSpec

\* Whatever the document and the depth allowed, the depth stays below the size
\* of open_containers and is_array, and the cursors keep their types
\* (simdjson.cpp:11111, 11159).
THEOREM WalkTypeCorrect == WalkSpec => []WalkTypeOK
<1>1. WalkInv => WalkTypeOK
  BY DEF WalkInv
<1> QED BY <1>1, WalkInvariant, PTL

\* Whatever byte follows the document, the walk reads no entry of
\* structural_indexes that stage 1 did not write (simdjson.cpp:10503).
THEOREM WalkReadsWhatStage1Wrote == WalkSpec => []ReadsWhatStage1Wrote
<1>1. WalkInv => ReadsWhatStage1Wrote
  BY DEF WalkInv, PlaceInv, ReadsWhatStage1Wrote
<1> QED BY <1>1, WalkInvariant, PTL

\* The tape that document::allocate gets has room for every word of every
\* document, as long as the padding closes nothing (simdjson.h:7897).
THEOREM WalkTapeFits == WalkSpec => []TapeFits
<1>1. WalkInv => TapeFits
  <2> SUFFICES ASSUME WalkInv, doc.padding \notin Closing
               PROVE  next_tape <= doc.at[doc.n] + 3
    BY DEF TapeFits, tape_capacity
  <2>1. next_tape <= doc.n + 3 /\ next_tape \in Nat /\ IsDocument(doc) /\ doc.n \in Nat \ {0}
    BY DEF WalkInv, TapeInv, WalkTypeOK, IsDocument
  <2>2. doc.n \in 0 .. doc.n
    BY <2>1
  <2>3. doc.n <= doc.at[doc.n] /\ doc.at[doc.n] \in Nat
    BY <2>1, <2>2, Room
  <2> QED BY <2>1, <2>3
<1> QED BY <1>1, WalkInvariant, PTL

\* The string buffer has room for every string of every document, its length
\* and its NUL, and for the vector stored at the end of it (simdjson.h:7899).
THEOREM WalkStringsFit == WalkSpec => []StringsFit
<1>1. ASSUME NEW s \in Nat, NEW l \in Nat, 3 * s <= 5 * l + 5
      PROVE  s + 31 <= (5 * l) \div 3 + 64
  BY <1>1
<1>2. WalkInv => StringsFit
  <2> SUFFICES ASSUME WalkInv
               PROVE  StringsFit
    OBVIOUS
  <2>1. string_loc \in Nat /\ IsDocument(doc) /\ doc.n \in Nat \ {0}
    BY DEF WalkInv, WalkTypeOK, IsDocument
  <2>2. doc.n \in 0 .. doc.n
    BY <2>1
  <2>3. doc.at[doc.n] \in Nat
    BY <2>1, <2>2, Room
  <2>4. 3 * string_loc <= 5 * doc.at[doc.n] + 5
    BY DEF WalkInv, StringInv
  <2>5. string_loc + 31 <= (5 * doc.at[doc.n]) \div 3 + 64
    BY <2>1, <2>3, <2>4, <1>1
  <2> QED BY <2>1, <2>5 DEF StringsFit, Vector, string_capacity
<1> QED BY <1>2, WalkInvariant, PTL

-----------------------------------------------------------------------------
(* What is on the tape.  Each word but the second one of a number, the     *)
(* roots and what is still unwritten leads an element; g says, of each,    *)
(* which character of the document it stands for, in which container it    *)
(* is, how many elements of that are before it, and whether it is an item  *)
(* of an array, a key or a value of an object, or the end.  The characters *)
(* between two elements that follow each other are what separates them.    *)

\* What a word is to its container: place is the character it stands for, scope
\* the word of its container, 0 for the document, ord the elements before it.
Role == {"item", "key", "value", "end"}
Info == [place : Nat, scope : Nat, ord : Nat, role : Role]

\* The words that lead an element, and those that are not a container still
\* open.
Heads(words, top) == {w \in 1 .. top - 1 : words[w].type # "data"}
Whole(words, top) == {w \in Heads(words, top) : words[w].type # "unwritten"}

\* The word behind an element, and the character an element ends with.
After(words, w) ==
  CASE words[w].type \in Opening  -> words[w].value
    [] words[w].type = "number"   -> w + 2
    [] OTHER                      -> w + 1

EndAt(words, g, w) ==
  IF words[w].type \in Opening THEN g[words[w].value - 1].place ELSE g[w].place

\* From an element to the one behind it.
Leads(d, last, role, ord, x) ==
  IF role = "key"
  THEN x.role = "value" /\ x.place = last + 2 /\ d.char[last + 1] = "colon" /\ x.ord = ord
  ELSE /\ x.ord = ord + 1
       /\ \/ x.role = "end" /\ x.place = last + 1
          \/ /\ x.role = IF role = "item" THEN "item" ELSE "key"
             /\ x.place = last + 2 /\ d.char[last + 1] = "comma"

Follows(d, words, g, w, x) == Leads(d, EndAt(words, g, w), g[w].role, g[w].ord, x)

\* the word is the one of the character at x.place
Spells(d, words, top, w, x) ==
  /\ x.place < d.n
  /\ d.char[x.place] \in Scalar \cup Opening \cup Closing
  /\ words[w].type \in {d.char[x.place], "unwritten"}
  /\ words[w].type = "unwritten" => d.char[x.place] \in Opening
  /\ words[w].type = "string" => words[w].value = Taken(d)[x.place]
  /\ words[w].type = "atom" => words[w].value = 0
  /\ words[w].type = "number" =>
       w + 1 < top /\ words[w + 1].type = "data" /\ words[w + 1].value = x.place

Opens(d, g, i) == d.char[g[i].place] \in Opening

\* may stand in its scope
Belongs(d, words, top, g, w, x) ==
  /\ x.scope < w
  /\ x.scope = 0 => w = 1 /\ x.place = 0 /\ x.ord = 0 /\ x.role = "item"
  /\ x.scope # 0 =>
       /\ x.scope \in Heads(words, top) /\ Opens(d, g, x.scope)
       /\ x.role \in IF d.char[g[x.scope].place] = "lbracket" THEN {"item", "end"}
                                                             ELSE {"key", "value", "end"}
  /\ x.role = "end" <=> d.char[x.place] \in Closing
  /\ x.role = "key" => d.char[x.place] = "string"

\* x is the first thing in the container at i.
FirstIn(g, i, x) ==
  x.scope = i /\ x.place = g[i].place + 1 /\ x.ord = 0 /\ x.role # "value"

\* x follows the element at w.
Behind(d, words, g, w, x) ==
  x.scope = g[w].scope /\ Follows(d, words, g, w, x)

\* A closed container points past its end, which is the last word in it.
Container(words, top, g, i) ==
  LET e == words[i].value - 1 IN
  /\ e \in i + 1 .. top - 1 /\ e \in Heads(words, top)
  /\ g[e].role = "end" /\ g[e].scope = i
  /\ words[i].count = saturated(g[e].ord)
  /\ \A v \in Heads(words, top) : g[v].scope = i => v <= e

\* g fits the tape up to top.
Layout(d, words, top, g) ==
  /\ \A w \in Heads(words, top) : Spells(d, words, top, w, g[w])
  /\ \A w \in Heads(words, top) : Belongs(d, words, top, g, w, g[w])
  /\ \A i \in Heads(words, top) : Opens(d, g, i) /\ i + 1 < top =>
       i + 1 \in Heads(words, top) /\ FirstIn(g, i, g[i + 1])
  /\ \A w \in Whole(words, top) : g[w].role # "end" =>
       /\ After(words, w) \in w + 1 .. top
       /\ After(words, w) < top =>
            After(words, w) \in Heads(words, top) /\ Behind(d, words, g, w, g[After(words, w)])
  /\ \A i \in Whole(words, top) : words[i].type \in Opening => Container(words, top, g, i)
  /\ \A e \in Heads(words, top) : g[e].role = "end" =>
       /\ g[e].scope \in Whole(words, top) /\ words[g[e].scope].value = e + 1

\* x may be put at top
Fits(d, words, top, g, x) ==
  /\ Belongs(d, words, top, g, top, x)
  /\ x.scope # 0 => words[x.scope].type = "unwritten"
  /\ \A i \in Heads(words, top) : Opens(d, g, i) /\ i + 1 = top => FirstIn(g, i, x)
  /\ \A w \in Whole(words, top) : g[w].role # "end" /\ After(words, w) = top =>
       Behind(d, words, g, w, x)

\* What ends at top is x.
Trail(d, words, top, g, x) ==
  /\ \A i \in Heads(words, top) : Opens(d, g, i) => i + 1 # top
  /\ \A w \in Whole(words, top) : g[w].role # "end" /\ After(words, w) = top =>
       /\ g[w].scope = x.scope /\ g[w].ord = x.ord /\ g[w].role = x.role
       /\ EndAt(words, g, w) = x.place

\* The containers that are open are those of open_containers, each in the one
\* below it, and know how many elements they have.
Stack(d, words, top, g, deep, open, array) ==
  /\ open[0].tape_index = 0
  /\ \A k \in 1 .. deep :
       /\ open[k].tape_index \in Heads(words, top) /\ words[open[k].tape_index].type = "unwritten"
       /\ g[open[k].tape_index].scope = open[k - 1].tape_index
       /\ d.char[g[open[k].tape_index].place] = IF array[k] THEN "lbracket" ELSE "lbrace"
       /\ k > 1 => g[open[k].tape_index].ord + 1 = open[k - 1].count
  /\ \A k, l \in 1 .. deep : k < l => open[k].tape_index < open[l].tape_index
  /\ \A w \in Heads(words, top) : words[w].type = "unwritten" =>
       \E k \in 1 .. deep : w = open[k].tape_index

Good(d, words, top, g, deep, open, array) ==
  /\ g \in [Nat -> Info] /\ Layout(d, words, top, g) /\ Stack(d, words, top, g, deep, open, array)

\* The tape without the root that ends it.
Top == IF pc = "done" THEN next_tape - 1 ELSE next_tape

RoleIn(deep, array) == IF deep = 0 \/ array[deep] THEN "item" ELSE "value"

\* What character k is to be in the innermost container.
ItemAt(deep, open, k, r) ==
  [place |-> k, scope |-> open[deep].tape_index,
   ord   |-> IF deep = 0 THEN 0 ELSE open[deep].count - 1, role |-> r]

DocumentIs(words, top) == 1 \in Whole(words, top) /\ After(words, 1) = top

Count == open_containers[depth].count
Here(k, r) == ItemAt(depth, open_containers, k, r)
ElementAt(k) == Here(k, RoleIn(depth, is_array))

\* What each label knows of the characters before next: at object_begin and
\* array_begin that the container may be put on the tape, where a value or a key
\* is expected that it may, behind one that it is the last thing there.
Spot(d, words, top, g) ==
  /\ pc = "document_start" => top = 1 /\ next = 0 /\ depth = 0
  /\ pc \in {"object_begin", "array_begin"} =>
       /\ next >= 1 /\ d.char[next - 1] = IF pc = "object_begin" THEN "lbrace" ELSE "lbracket"
       /\ depth > 0 => Count >= 1
       /\ Fits(d, words, top, g, ElementAt(next - 1))
  /\ pc = "first_key" =>
       /\ Count = 0 /\ ~is_array[depth]
       /\ d.char[next] = "string" => Fits(d, words, top, g, [Here(next, "key") EXCEPT !.ord = 0])
  /\ pc = "next_key" =>
       /\ Count >= 1 /\ ~is_array[depth]
       /\ d.char[next] = "string" => Fits(d, words, top, g, Here(next, "key"))
  /\ pc = "array_value" =>
       /\ Count >= 1 /\ is_array[depth]
       /\ d.char[next] \notin Closing => Fits(d, words, top, g, ElementAt(next))
  /\ pc = "object_field" =>
       /\ Count >= 1 /\ ~is_array[depth] /\ next >= 1
       /\ Trail(d, words, top, g, Here(next - 1, "key"))
  /\ pc \in {"object_continue", "array_continue"} =>
       /\ Count >= 1 /\ next >= 1 /\ (is_array[depth] <=> pc = "array_continue")
       /\ Trail(d, words, top, g, ElementAt(next - 1))
  /\ pc \in {"document_end", "done"} =>
       /\ depth = 0 /\ next >= 1
       /\ Trail(d, words, top, g, ElementAt(next - 1)) /\ DocumentIs(words, top)

LayoutOf(g) ==
  /\ Good(doc, tape, Top, g, depth, open_containers, is_array) /\ Spot(doc, tape, Top, g)
  /\ pc # "done" => string_loc = Taken(doc)[next]
  /\ pc = "done" => tape[0].type = "root" /\ tape[Top].type = "root" /\ next = doc.n

\* A walk past the end of the document is refused in the end, whatever it wrote.
LayoutInv == error = "none" /\ next <= doc.n => \E g : LayoutOf(g)

-----------------------------------------------------------------------------
LEMMA Ahead ==
  ASSUME NEW top \in Nat \ {0}, NEW n \in {top + 1, top + 2}, NEW w \in 1 .. n - 1
  PROVE  w \in 1 .. top - 1 \/ w = top \/ (w = top + 1 /\ n = top + 2)
OBVIOUS

SameHeads(more, words, S) == \A w \in S : more[w].type = "data" <=> words[w].type = "data"

Extended(words, more, top, n) ==
  /\ n \in {top + 1, top + 2} /\ SameHeads(more, words, 1 .. top - 1)
  /\ more[top].type # "data" /\ (n = top + 2 => more[top + 1].type = "data")

LEMMA HeadsGrow ==
  ASSUME NEW words, NEW more, NEW top \in Nat \ {0}, NEW n, Extended(words, more, top, n)
  PROVE  Heads(more, n) = Heads(words, top) \cup {top}
<1> n \in {top + 1, top + 2} /\ more[top].type # "data" /\ (n = top + 2 => more[top + 1].type = "data")
  BY DEF Extended
<1> SameHeads(more, words, 1 .. top - 1)
  BY DEF Extended
<1>0. n = top + 1 \/ n = top + 2
  OBVIOUS
<1>1. ASSUME NEW w \in 1 .. n - 1
      PROVE  w \in 1 .. top - 1 \/ w = top \/ (w = top + 1 /\ n = top + 2)
  BY <1>0, Ahead
<1>2. 1 .. top - 1 \subseteq 1 .. n - 1 /\ top \in 1 .. n - 1
  OBVIOUS
<1>3. ASSUME NEW w \in Heads(more, n) PROVE w \in Heads(words, top) \cup {top}
  BY <1>1 DEF Heads, SameHeads
<1>4. ASSUME NEW w \in Heads(words, top) PROVE w \in Heads(more, n)
  BY <1>2 DEF Heads, SameHeads
<1>5. top \in Heads(more, n)
  BY <1>2 DEF Heads
<1> QED BY <1>3, <1>4, <1>5

\* Words that stay lead where they did, and their elements end where they did.
Kept(words, more, top, g, h) ==
  \A w \in Whole(words, top) :
    /\ h[w] = g[w] /\ more[w] = words[w] /\ After(more, w) = After(words, w)
    /\ EndAt(more, h, w) = EndAt(words, g, w)
    /\ w \in Heads(words, top) /\ w \in 1 .. top - 1

Same(f, g, S) == \A w \in S : f[w] = g[w]

LEMMA SameEnds ==
  ASSUME NEW d, NEW words, NEW more, NEW top \in Nat \ {0}, NEW g, NEW h,
         Layout(d, words, top, g), Same(h, g, 1 .. top - 1), Same(more, words, Whole(words, top))
  PROVE  Kept(words, more, top, g, h)
<1> SUFFICES ASSUME NEW w \in Whole(words, top)
             PROVE  /\ h[w] = g[w] /\ more[w] = words[w] /\ After(more, w) = After(words, w)
                    /\ EndAt(more, h, w) = EndAt(words, g, w)
                    /\ w \in Heads(words, top) /\ w \in 1 .. top - 1
  BY DEF Kept
<1>1. w \in Heads(words, top) /\ w \in 1 .. top - 1
  BY DEF Whole, Heads
<1>2. h[w] = g[w] /\ more[w] = words[w]
  BY <1>1 DEF Same
<1>3. After(more, w) = After(words, w)
  BY <1>2 DEF After
<1>4. CASE words[w].type \in Opening
  <2>1. words[w].value - 1 \in 1 .. top - 1
    BY <1>1, <1>4 DEF Layout, Container, Heads
  <2>2. h[words[w].value - 1] = g[words[w].value - 1]
    BY <2>1 DEF Same
  <2> QED BY <1>1, <1>2, <1>3, <1>4, <2>2 DEF EndAt
<1>5. CASE words[w].type \notin Opening
  BY <1>1, <1>2, <1>3, <1>5 DEF EndAt
<1> QED BY <1>4, <1>5

\* An element put at the end of the tape, in the place where one belongs.
Added(d, words, more, top, n, g, h, whole) ==
  /\ Layout(d, more, n, h)
  /\ Heads(more, n) = Heads(words, top) \cup {top}
  /\ Whole(more, n) = Whole(words, top) \cup whole
  /\ Kept(words, more, top, g, h)

Grown(more, top) == IF more[top].type = "number" THEN top + 2 ELSE top + 1
Put(g, top, x)   == [g EXCEPT ![top] = x]

LEMMA AddHead ==
  ASSUME NEW d, NEW words, NEW more, NEW top \in Nat \ {0}, NEW n,
         n = Grown(more, top),
         NEW g \in [Nat -> Info], NEW x \in Info, NEW h, h = Put(g, top, x),
         Layout(d, words, top, g), Fits(d, words, top, g, x), x.role # "end",
         Same(more, words, 1 .. top - 1),
         Spells(d, more, n, top, x), more[top].type \in Scalar \cup {"unwritten"}
  PROVE  Added(d, words, more, top, n, g, h, IF more[top].type = "unwritten" THEN {} ELSE {top})
<1>0. n \in {top + 1, top + 2} /\ \A w \in 1 .. top - 1 : more[w] = words[w]
  BY DEF Same, Grown
<1>1. h \in [Nat -> Info] /\ h[top] = x /\ \A w \in 1 .. top - 1 : h[w] = g[w]
  BY DEF Put
<1>2. n = top + 2 => more[top].type = "number" /\ more[top + 1].type = "data"
  BY DEF Spells, Grown
<1>3. more[top].type # "data"
  BY DEF Scalar
<1>4. Heads(more, n) = Heads(words, top) \cup {top}
  <2>1. SameHeads(more, words, 1 .. top - 1)
    BY <1>0 DEF SameHeads
  <2>2. n = top + 2 => more[top + 1].type = "data"
    BY <1>2
  <2>3. n \in {top + 1, top + 2}
    BY <1>0
  <2>4. Extended(words, more, top, n)
    BY <1>3, <2>1, <2>2, <2>3 DEF Extended
  <2> QED BY <2>4, HeadsGrow
<1>5. Heads(words, top) \subseteq 1 .. top - 1 /\ top \notin Heads(words, top)
  BY DEF Heads
<1>6. \A w \in Whole(more, n) : w \in Whole(words, top) \/ w = top
  BY <1>0, <1>4, <1>5 DEF Whole
<1>7. \A w \in Whole(words, top) : w \in Whole(more, n)
  BY <1>0, <1>4, <1>5 DEF Whole
<1>8. ASSUME NEW w \in Whole(words, top)
      PROVE  /\ h[w] = g[w] /\ more[w] = words[w] /\ After(more, w) = After(words, w)
             /\ EndAt(more, h, w) = EndAt(words, g, w)
             /\ w \in Heads(words, top) /\ w \in 1 .. top - 1
  <2>1. Same(h, g, 1 .. top - 1)
    BY <1>1 DEF Same
  <2>2. Same(more, words, Whole(words, top))
    <3>1. \A v \in Heads(words, top) : more[v] = words[v]
      BY <1>0, <1>5
    <3> QED BY <3>1 DEF Same, Whole
  <2>3. Kept(words, more, top, g, h)
    BY <2>1, <2>2, SameEnds, Zenon
  <2> QED BY <2>3, Zenon DEF Kept
<1>9. top \in 1 .. n - 1 /\ n \in Nat /\ top < n
  BY <1>0
<1>10. \A w \in Heads(more, n) : Spells(d, more, n, w, h[w])
  <2>1. ASSUME NEW w \in Heads(words, top) PROVE Spells(d, more, n, w, h[w])
    <3>1. Spells(d, words, top, w, g[w]) /\ w \in 1 .. top - 1
      BY <1>5 DEF Layout
    <3>2. h[w] = g[w] /\ more[w] = words[w] /\ w + 1 < n
      BY <1>0, <1>1, <3>1, <1>9
    <3>3. w + 1 < top => more[w + 1] = words[w + 1]
      BY <1>0, <3>1
    <3> QED BY <3>1, <3>2, <3>3 DEF Spells
  <2> QED BY <2>1, <1>1, <1>4
<1>11. \A i \in Heads(words, top) : Opens(d, h, i) <=> Opens(d, g, i)
  BY <1>1, <1>5 DEF Opens
<1>12. \A w \in Heads(more, n) : Belongs(d, more, n, h, w, h[w])
  <2>1. ASSUME NEW w \in Heads(words, top) PROVE Belongs(d, more, n, h, w, h[w])
    <3>1. Belongs(d, words, top, g, w, g[w]) /\ h[w] = g[w]
      BY <1>1, <1>5 DEF Layout
    <3>2. g[w].scope \in Heads(words, top) =>
            h[g[w].scope] = g[g[w].scope] /\ (Opens(d, h, g[w].scope) <=> Opens(d, g, g[w].scope))
      BY <1>1, <1>5, <1>11
    <3> QED BY <3>1, <3>2, <1>4 DEF Belongs
  <2>2. Belongs(d, more, n, h, top, x)
    <3>1. Belongs(d, words, top, g, top, x)
      BY DEF Fits
    <3>2. x.scope \in Heads(words, top) =>
            h[x.scope] = g[x.scope] /\ (Opens(d, h, x.scope) <=> Opens(d, g, x.scope))
      BY <1>1, <1>5, <1>11
    <3> QED BY <3>1, <3>2, <1>4 DEF Belongs
  <2> QED BY <2>1, <2>2, <1>1, <1>4
<1>13. \A i \in Heads(more, n) : Opens(d, h, i) /\ i + 1 < n =>
         i + 1 \in Heads(more, n) /\ FirstIn(h, i, h[i + 1])
  <2>1. ASSUME NEW i \in Heads(words, top), Opens(d, h, i), i + 1 < n
        PROVE  i + 1 \in Heads(more, n) /\ FirstIn(h, i, h[i + 1])
    <3>1. i \in 1 .. top - 1 /\ h[i] = g[i] /\ Opens(d, g, i)
      BY <1>1, <1>5, <1>11, <2>1
    <3>2. CASE i + 1 < top
      <4>1. i + 1 \in Heads(words, top) /\ FirstIn(g, i, g[i + 1])
        BY <3>1, <3>2 DEF Layout
      <4>2. h[i + 1] = g[i + 1]
        BY <1>1, <1>5, <4>1
      <4> QED BY <4>1, <4>2, <3>1, <1>4 DEF FirstIn
    <3>3. CASE i + 1 = top
      <4>1. FirstIn(g, i, x)
        BY <3>1, <3>3 DEF Fits
      <4> QED BY <4>1, <3>1, <3>3, <1>1, <1>4 DEF FirstIn
    <3>4. i + 1 < top \/ i + 1 = top
      BY <3>1
    <3> QED BY <3>2, <3>3, <3>4
  <2>2. Opens(d, h, top) => ~(top + 1 < n)
    <3>1. n = top + 2 => d.char[x.place] = "number"
      BY <1>2 DEF Spells
    <3>2. n \in {top + 1, top + 2}
      BY <1>0
    <3> QED BY <3>1, <3>2, <1>1 DEF Opens, Opening
  <2> QED BY <2>1, <2>2, <1>4
<1>14. ASSUME NEW w \in Whole(more, n), h[w].role # "end"
       PROVE  /\ After(more, w) \in w + 1 .. n
              /\ After(more, w) < n =>
                   After(more, w) \in Heads(more, n) /\ Behind(d, more, h, w, h[After(more, w)])
  <2>1. CASE w \in Whole(words, top)
    <3>1. /\ h[w] = g[w] /\ After(more, w) = After(words, w)
          /\ EndAt(more, h, w) = EndAt(words, g, w) /\ w \in Heads(words, top) /\ w \in 1 .. top - 1
      BY <2>1, <1>8
    <3>2. /\ After(words, w) \in w + 1 .. top
          /\ After(words, w) < top =>
               After(words, w) \in Heads(words, top) /\ Behind(d, words, g, w, g[After(words, w)])
      BY <2>1, <3>1, <1>14 DEF Layout
    <3>3. After(words, w) = top => Behind(d, words, g, w, x)
      BY <2>1, <3>1, <1>14 DEF Fits
    <3>4. \A y : Behind(d, words, g, w, y) => Behind(d, more, h, w, y)
      BY <3>1 DEF Behind, Follows
    <3>5. After(words, w) < top => h[After(words, w)] = g[After(words, w)]
      BY <3>2, <1>1, <1>5
    <3> QED BY <3>1, <3>2, <3>3, <3>4, <3>5, <1>1, <1>4, <1>9
  <2>2. CASE w = top
    <3>1. After(more, w) = n
      BY <2>2, <1>14 DEF After, Scalar, Opening, Whole, Grown
    <3> QED BY <3>1, <2>2, <1>9
  <2> QED BY <2>1, <2>2, <1>6
<1>15. ASSUME NEW i \in Whole(more, n), more[i].type \in Opening
       PROVE  Container(more, n, h, i)
  <2>1. i # top
    BY <1>15 DEF Scalar, Opening
  <2>2. i \in Whole(words, top) /\ more[i] = words[i]
    BY <2>1, <1>6, <1>8
  <2>3. Container(words, top, g, i)
    BY <2>2, <1>15 DEF Layout
  <2>4. words[i].value - 1 \in Heads(words, top) /\ words[i].value - 1 \in i + 1 .. top - 1
    BY <2>3 DEF Container
  <2>5. h[words[i].value - 1] = g[words[i].value - 1] /\ words[i].value - 1 \in i + 1 .. n - 1
    BY <2>4, <1>1, <1>5, <1>9
  <2>6. x.scope # i
    <3>1. i # 0 /\ words[i].type # "unwritten"
      BY <2>2, <1>5 DEF Whole
    <3>2. x.scope # 0 => words[x.scope].type = "unwritten"
      BY DEF Fits
    <3> QED BY <3>1, <3>2
  <2>7. \A v \in Heads(more, n) : h[v].scope = i => v <= words[i].value - 1
    <3>1. \A v \in Heads(words, top) : g[v].scope = i => v <= words[i].value - 1
      BY <2>3 DEF Container
    <3> QED BY <3>1, <2>6, <1>1, <1>4, <1>5
  <2> QED BY <2>2, <2>3, <2>4, <2>5, <2>7, <1>4 DEF Container
<1>16. ASSUME NEW e \in Heads(more, n), h[e].role = "end"
       PROVE  h[e].scope \in Whole(more, n) /\ more[h[e].scope].value = e + 1
  <2>1. e \in Heads(words, top) /\ h[e] = g[e]
    BY <1>1, <1>4, <1>5, <1>16
  <2>2. g[e].scope \in Whole(words, top) /\ words[g[e].scope].value = e + 1
    BY <2>1, <1>16 DEF Layout
  <2> QED BY <2>1, <2>2, <1>7, <1>8
<1>17. Layout(d, more, n, h)
  BY <1>10, <1>12, <1>13, <1>14, <1>15, <1>16 DEF Layout
<1>18. Kept(words, more, top, g, h)
  BY <1>8, Zenon DEF Kept
<1>19. Whole(more, n) = Whole(words, top) \cup (IF more[top].type = "unwritten" THEN {} ELSE {top})
  BY <1>4, <1>6, <1>7 DEF Whole
<1> QED BY <1>4, <1>17, <1>18, <1>19, Zenon DEF Added

\* The end of the innermost container, and the word of that container.
LEMMA Close ==
  ASSUME NEW d, NEW words, NEW more, NEW top \in Nat \ {0},
         NEW g \in [Nat -> Info], NEW x \in Info, NEW h, h = Put(g, top, x),
         Layout(d, words, top, g), Fits(d, words, top, g, x), x.role = "end", x.scope # 0,
         Same(more, words, (1 .. top - 1) \ {x.scope}),
         more[x.scope] = Word(d.char[g[x.scope].place], top + 1, saturated(x.ord)),
         Spells(d, more, top + 1, top, x)
  PROVE  Added(d, words, more, top, top + 1, g, h, {x.scope, top})
<1> DEFINE t == x.scope
<1> DEFINE n == top + 1
<1>0. /\ t \in Heads(words, top) /\ words[t].type = "unwritten" /\ Opens(d, g, t)
      /\ d.char[x.place] \in Closing
  BY DEF Fits, Belongs
<1>1. h \in [Nat -> Info] /\ h[top] = x /\ \A w \in 1 .. top - 1 : h[w] = g[w]
  BY DEF Put
<1>2. more[top].type \in Closing
  BY <1>0 DEF Spells, Closing, Opening
<1>3. /\ more[t].type = d.char[g[t].place] /\ more[t].type \in Opening /\ more[t].value = n
      /\ more[t].count = saturated(x.ord)
  BY <1>0 DEF Word, Opens
<1>4. Heads(words, top) \subseteq 1 .. top - 1 /\ top \notin Heads(words, top) /\ n \in Nat
  BY DEF Heads
<1>5. \A w \in 1 .. top - 1 : w # t => more[w] = words[w]
  BY DEF Same
<1> HIDE DEF n
<1>6. top \in 1 .. n - 1 /\ n = top + 1
  BY DEF n
<1> HIDE DEF t
<1>7. Heads(more, n) = Heads(words, top) \cup {top}
  <2>1. SameHeads(more, words, 1 .. top - 1)
    <3>1. more[t].type # "data" /\ words[t].type # "data"
      BY <1>0, <1>3 DEF Opening
    <3> QED BY <3>1, <1>5 DEF SameHeads
  <2>2. more[top].type # "data"
    BY <1>2 DEF Closing
  <2>3. Extended(words, more, top, n)
    BY <2>1, <2>2, <1>6 DEF Extended
  <2> QED BY <2>3, HeadsGrow
<1>8. Whole(more, n) = Whole(words, top) \cup {t, top}
  <2>1. more[top].type # "unwritten" /\ more[t].type # "unwritten"
    BY <1>2, <1>3 DEF Opening, Closing
  <2>2. \A w \in Heads(words, top) : w # t => more[w] = words[w]
    BY <1>4, <1>5
  <2> QED BY <2>1, <2>2, <1>0, <1>7 DEF Whole
<1>9. t \notin Whole(words, top) /\ top \notin Whole(words, top)
  BY <1>0, <1>4 DEF Whole
<1>10. Kept(words, more, top, g, h)
  <2>1. Same(h, g, 1 .. top - 1)
    BY <1>1 DEF Same
  <2>2. Same(more, words, Whole(words, top))
    <3>1. \A w \in Whole(words, top) : w \in Heads(words, top) /\ w # t
      BY <1>9 DEF Whole
    <3> QED BY <3>1, <1>4, <1>5 DEF Same
  <2> QED BY <2>1, <2>2, SameEnds, Zenon
<1>11. ASSUME NEW w \in Whole(words, top)
       PROVE  /\ h[w] = g[w] /\ more[w] = words[w] /\ After(more, w) = After(words, w)
              /\ EndAt(more, h, w) = EndAt(words, g, w)
              /\ w \in Heads(words, top) /\ w \in 1 .. top - 1
  BY <1>10, Zenon DEF Kept
<1>12. \A w \in Heads(more, n) : Spells(d, more, n, w, h[w])
  <2>1. ASSUME NEW w \in Heads(words, top) PROVE Spells(d, more, n, w, h[w])
    <3>1. Spells(d, words, top, w, g[w]) /\ w \in 1 .. top - 1 /\ h[w] = g[w]
      BY <1>1, <1>4 DEF Layout
    <3>2. CASE w # t
      <4>1. more[w] = words[w] /\ w + 1 < n
        BY <1>5, <1>6, <3>1, <3>2
      <4>2. w + 1 < top /\ words[w + 1].type = "data" => more[w + 1] = words[w + 1]
        <5>1. w + 1 < top => w + 1 \in 1 .. top - 1
          BY <3>1
        <5>2. words[w + 1].type = "data" => w + 1 # t
          BY <1>0
        <5> QED BY <5>1, <5>2, <1>5
      <4> QED BY <3>1, <4>1, <4>2 DEF Spells
    <3>3. CASE w = t
      BY <3>1, <3>3, <1>3 DEF Spells, Opening
    <3> QED BY <3>2, <3>3
  <2>2. Spells(d, more, n, top, h[top])
    BY <1>1, <1>6
  <2> QED BY <2>1, <2>2, <1>7
<1>13. \A i \in Heads(words, top) : Opens(d, h, i) <=> Opens(d, g, i)
  BY <1>1, <1>4 DEF Opens
<1>14. \A w \in Heads(more, n) : Belongs(d, more, n, h, w, h[w])
  <2>1. ASSUME NEW w \in Heads(words, top) PROVE Belongs(d, more, n, h, w, h[w])
    <3>1. Belongs(d, words, top, g, w, g[w]) /\ h[w] = g[w]
      BY <1>1, <1>4 DEF Layout
    <3>2. g[w].scope \in Heads(words, top) =>
            h[g[w].scope] = g[g[w].scope] /\ (Opens(d, h, g[w].scope) <=> Opens(d, g, g[w].scope))
      BY <1>1, <1>4, <1>13
    <3> QED BY <3>1, <3>2, <1>7 DEF Belongs
  <2>2. Belongs(d, more, n, h, top, x)
    <3>1. Belongs(d, words, top, g, top, x)
      BY DEF Fits
    <3>2. x.scope \in Heads(words, top) =>
            h[x.scope] = g[x.scope] /\ (Opens(d, h, x.scope) <=> Opens(d, g, x.scope))
      BY <1>1, <1>4, <1>13
    <3> QED BY <3>1, <3>2, <1>7 DEF Belongs
  <2> QED BY <2>1, <2>2, <1>1, <1>7
<1>15. \A i \in Heads(more, n) : Opens(d, h, i) /\ i + 1 < n =>
         i + 1 \in Heads(more, n) /\ FirstIn(h, i, h[i + 1])
  <2>1. ASSUME NEW i \in Heads(words, top), Opens(d, h, i), i + 1 < n
        PROVE  i + 1 \in Heads(more, n) /\ FirstIn(h, i, h[i + 1])
    <3>1. i \in 1 .. top - 1 /\ h[i] = g[i] /\ Opens(d, g, i)
      BY <1>1, <1>4, <1>13, <2>1
    <3>2. CASE i + 1 < top
      <4>1. i + 1 \in Heads(words, top) /\ FirstIn(g, i, g[i + 1])
        BY <3>1, <3>2 DEF Layout
      <4>2. h[i + 1] = g[i + 1]
        BY <1>1, <1>4, <4>1
      <4> QED BY <4>1, <4>2, <3>1, <1>7 DEF FirstIn
    <3>3. CASE i + 1 = top
      <4>1. FirstIn(g, i, x)
        BY <3>1, <3>3 DEF Fits
      <4> QED BY <4>1, <3>1, <3>3, <1>1, <1>7 DEF FirstIn
    <3>4. i + 1 < top \/ i + 1 = top
      BY <3>1
    <3> QED BY <3>2, <3>3, <3>4
  <2>2. ~Opens(d, h, top)
    BY <1>0, <1>1 DEF Opens, Opening, Closing
  <2> QED BY <2>1, <2>2, <1>7
<1>16. ASSUME NEW w \in Whole(more, n), h[w].role # "end"
       PROVE  /\ After(more, w) \in w + 1 .. n
              /\ After(more, w) < n =>
                   After(more, w) \in Heads(more, n) /\ Behind(d, more, h, w, h[After(more, w)])
  <2>1. CASE w \in Whole(words, top)
    <3>1. /\ h[w] = g[w] /\ After(more, w) = After(words, w)
          /\ EndAt(more, h, w) = EndAt(words, g, w) /\ w \in Heads(words, top) /\ w \in 1 .. top - 1
      BY <2>1, <1>11
    <3>2. /\ After(words, w) \in w + 1 .. top
          /\ After(words, w) < top =>
               After(words, w) \in Heads(words, top) /\ Behind(d, words, g, w, g[After(words, w)])
      BY <2>1, <3>1, <1>16 DEF Layout
    <3>3. After(words, w) = top => Behind(d, words, g, w, x)
      BY <2>1, <3>1, <1>16 DEF Fits
    <3>4. \A y : Behind(d, words, g, w, y) => Behind(d, more, h, w, y)
      BY <3>1 DEF Behind, Follows
    <3>5. After(words, w) < top => h[After(words, w)] = g[After(words, w)]
      BY <3>2, <1>1, <1>4
    <3> QED BY <3>1, <3>2, <3>3, <3>4, <3>5, <1>1, <1>6, <1>7
  <2>2. CASE w = t
    <3>1. After(more, w) = n
      BY <2>2, <1>3 DEF After, Opening
    <3> QED BY <3>1, <2>2, <1>0, <1>4, <1>6
  <2> QED BY <2>1, <2>2, <1>1, <1>8, <1>16
<1>17. ASSUME NEW i \in Whole(more, n), more[i].type \in Opening
       PROVE  Container(more, n, h, i)
  <2>1. CASE i \in Whole(words, top)
    <3>1. more[i] = words[i]
      BY <2>1, <1>11
    <3>2. Container(words, top, g, i)
      BY <2>1, <3>1, <1>17 DEF Layout
    <3>3. words[i].value - 1 \in Heads(words, top) /\ words[i].value - 1 \in i + 1 .. top - 1
      BY <3>2 DEF Container
    <3>4. h[words[i].value - 1] = g[words[i].value - 1] /\ words[i].value - 1 \in i + 1 .. n - 1
      BY <3>3, <1>1, <1>4, <1>6
    <3>5. \A v \in Heads(more, n) : h[v].scope = i => v <= words[i].value - 1
      <4>1. \A v \in Heads(words, top) : g[v].scope = i => v <= words[i].value - 1
        BY <3>2 DEF Container
      <4>2. t # i
        BY <2>1, <1>9
      <4> QED BY <4>1, <4>2, <1>1, <1>4, <1>7 DEF t
    <3> QED BY <3>1, <3>2, <3>3, <3>4, <3>5, <1>7 DEF Container
  <2>2. CASE i = t
    <3>1. more[i].value - 1 = top
      BY <2>2, <1>3, <1>6
    <3>2. top \in i + 1 .. n - 1 /\ top \in Heads(more, n)
      BY <2>2, <1>0, <1>4, <1>6, <1>7
    <3>3. h[top].role = "end" /\ h[top].scope = i /\ more[i].count = saturated(h[top].ord)
      BY <2>2, <1>1, <1>3 DEF t
    <3>4. \A v \in Heads(more, n) : v <= top
      BY <1>6 DEF Heads
    <3> QED BY <3>1, <3>2, <3>3, <3>4 DEF Container
  <2>3. i # top
    BY <1>2, <1>17 DEF Opening, Closing
  <2> QED BY <2>1, <2>2, <2>3, <1>8
<1>18. ASSUME NEW e \in Heads(more, n), h[e].role = "end"
       PROVE  h[e].scope \in Whole(more, n) /\ more[h[e].scope].value = e + 1
  <2>1. CASE e \in Heads(words, top)
    <3>1. h[e] = g[e]
      BY <1>1, <1>4, <2>1
    <3>2. g[e].scope \in Whole(words, top) /\ words[g[e].scope].value = e + 1
      BY <2>1, <3>1, <1>18 DEF Layout
    <3> QED BY <3>1, <3>2, <1>8, <1>11
  <2>2. CASE e = top
    BY <2>2, <1>1, <1>3, <1>6, <1>8 DEF t
  <2> QED BY <2>1, <2>2, <1>7
<1>19. Layout(d, more, n, h)
  BY <1>12, <1>14, <1>15, <1>16, <1>17, <1>18 DEF Layout
<1>20. Added(d, words, more, top, n, g, h, {t, top})
  BY <1>7, <1>8, <1>10, <1>19, Zenon DEF Added
<1> QED BY <1>20 DEF n, t

-----------------------------------------------------------------------------
(* What may come next.                                                     *)

\* Nothing is put behind an element before the next one is.
LEMMA EndsBefore ==
  ASSUME NEW d, NEW words, NEW top \in Nat \ {0}, NEW g, Layout(d, words, top, g),
         NEW w \in Whole(words, top), g[w].role # "end"
  PROVE  After(words, w) \in w + 1 .. top
BY DEF Layout

\* Behind a scalar.
LEMMA ScalarTrail ==
  ASSUME NEW d, NEW words, NEW more, NEW top \in Nat \ {0}, NEW n \in Nat, n > top,
         NEW g, NEW h, Layout(d, words, top, g), Kept(words, more, top, g, h),
         Heads(more, n) = Heads(words, top) \cup {top},
         Whole(more, n) = Whole(words, top) \cup {top},
         ~Opens(d, h, top), more[top].type \notin Opening
  PROVE  Trail(d, more, n, h, h[top])
<1>1. ASSUME NEW i \in Heads(more, n), Opens(d, h, i) PROVE i + 1 # n
  BY <1>1 DEF Heads
<1>2. ASSUME NEW w \in Whole(more, n), h[w].role # "end", After(more, w) = n PROVE w = top
  <2>1. ASSUME w \in Whole(words, top) PROVE FALSE
    <3>1. h[w] = g[w] /\ After(more, w) = After(words, w)
      BY <2>1, Zenon DEF Kept
    <3>2. After(words, w) \in w + 1 .. top
      BY <3>1, <2>1, <1>2, EndsBefore
    <3> QED BY <3>1, <3>2, <1>2
  <2> QED BY <2>1
<1>3. EndAt(more, h, top) = h[top].place
  BY DEF EndAt
<1> QED BY <1>1, <1>2, <1>3, Zenon DEF Trail

\* Behind a container that was closed.
LEMMA CloseTrail ==
  ASSUME NEW d, NEW words, NEW more, NEW top \in Nat \ {0}, NEW t \in Heads(words, top),
         NEW g, NEW h, Layout(d, words, top, g), Kept(words, more, top, g, h),
         Heads(more, top + 1) = Heads(words, top) \cup {top},
         Whole(more, top + 1) = Whole(words, top) \cup {t, top},
         h[top].role = "end", ~Opens(d, h, top),
         more[t].type \in Opening, more[t].value = top + 1, h[t] = g[t]
  PROVE  Trail(d, more, top + 1, h, [place |-> h[top].place, scope |-> g[t].scope,
                                      ord |-> g[t].ord, role |-> g[t].role])
<1>0. top + 1 \in Nat
  OBVIOUS
<1>1. ASSUME NEW i \in Heads(more, top + 1), Opens(d, h, i) PROVE i + 1 # top + 1
  BY <1>1 DEF Heads
<1>2. ASSUME NEW w \in Whole(more, top + 1), h[w].role # "end", After(more, w) = top + 1
      PROVE  w = t
  <2>1. ASSUME w \in Whole(words, top) PROVE FALSE
    <3>1. h[w] = g[w] /\ After(more, w) = After(words, w)
      BY <2>1, Zenon DEF Kept
    <3>2. After(words, w) \in w + 1 .. top
      BY <3>1, <2>1, <1>2, EndsBefore
    <3> QED BY <3>1, <3>2, <1>2
  <2> QED BY <2>1, <1>2
<1>3. EndAt(more, h, t) = h[top].place
  <2>1. more[t].value - 1 = top
    BY <1>0
  <2> QED BY <2>1 DEF EndAt
<1> QED BY <1>1, <1>2, <1>3 DEF Trail

\* What may be the first element of a container whose own place is at.
Starts(d, x, i, at) ==
  /\ x.scope = i /\ x.place = at + 1 /\ x.ord = 0 /\ x.role # "value"
  /\ x.role = "end" <=> d.char[x.place] \in Closing
  /\ x.role = "key" => d.char[x.place] = "string"
  /\ x.role \in IF d.char[at] = "lbracket" THEN {"item", "end"} ELSE {"key", "value", "end"}

\* The first place in a container that was opened.
LEMMA FirstFits ==
  ASSUME NEW d, NEW words, NEW more, NEW top \in Nat \ {0}, NEW g, NEW h, NEW x,
         Layout(d, words, top, g), Added(d, words, more, top, top + 1, g, h, {}),
         Opens(d, h, top), more[top].type = "unwritten", Starts(d, x, top, h[top].place)
  PROVE  Fits(d, more, top + 1, h, x)
<1>0. /\ Heads(more, top + 1) = Heads(words, top) \cup {top}
      /\ Whole(more, top + 1) = Whole(words, top)
      /\ Kept(words, more, top, g, h)
  BY DEF Added
<1>1. Belongs(d, more, top + 1, h, top + 1, x)
  BY <1>0 DEF Belongs, Starts
<1>2. ASSUME NEW i \in Heads(more, top + 1), i + 1 = top + 1 PROVE FirstIn(h, i, x)
  <2>1. i = top
    BY <1>2 DEF Heads
  <2> QED BY <2>1 DEF FirstIn, Starts
<1>3. ASSUME NEW w \in Whole(words, top), h[w].role # "end" PROVE After(more, w) # top + 1
  <2>1. h[w] = g[w] /\ After(more, w) = After(words, w)
    BY <1>0, Zenon DEF Kept
  <2>2. After(words, w) \in w + 1 .. top
    BY <2>1, <1>3, EndsBefore
  <2> QED BY <2>1, <2>2
<1>4. \A w \in Whole(more, top + 1) : h[w].role # "end" => After(more, w) # top + 1
  BY <1>0, <1>3
<1>5. x.scope # 0 => more[x.scope].type = "unwritten"
  BY DEF Starts
<1> QED BY <1>1, <1>2, <1>4, <1>5 DEF Fits

\* The containers that are open stay so when others come and go.
LEMMA StackKept ==
  ASSUME NEW d, NEW words, NEW more, NEW top, NEW n, NEW g, NEW h,
         NEW deep \in Nat, NEW less \in Nat, less <= deep, NEW open, NEW others, NEW array,
         Stack(d, words, top, g, deep, open, array),
         \A k \in 0 .. less : others[k].tape_index = open[k].tape_index,
         \A k \in 1 .. less - 1 : others[k].count = open[k].count,
         \A k \in 1 .. less : /\ open[k].tape_index \in Heads(more, n)
                              /\ more[open[k].tape_index].type = "unwritten"
                              /\ h[open[k].tape_index] = g[open[k].tape_index],
         \A w \in Heads(more, n) : more[w].type = "unwritten" =>
           /\ w \in Heads(words, top) /\ words[w].type = "unwritten"
           /\ \A k \in less + 1 .. deep : w # open[k].tape_index
  PROVE  Stack(d, more, n, h, less, others, array)
<1>1. others[0].tape_index = 0
  BY DEF Stack
<1>2. ASSUME NEW k \in 1 .. less
      PROVE  /\ others[k].tape_index \in Heads(more, n) /\ more[others[k].tape_index].type = "unwritten"
             /\ h[others[k].tape_index].scope = others[k - 1].tape_index
             /\ d.char[h[others[k].tape_index].place] = IF array[k] THEN "lbracket" ELSE "lbrace"
             /\ k > 1 => h[others[k].tape_index].ord + 1 = others[k - 1].count
  <2>1. k \in 1 .. deep /\ k \in 0 .. less /\ k - 1 \in 0 .. less /\ (k > 1 => k - 1 \in 1 .. less - 1)
    OBVIOUS
  <2>2. /\ g[open[k].tape_index].scope = open[k - 1].tape_index
        /\ d.char[g[open[k].tape_index].place] = IF array[k] THEN "lbracket" ELSE "lbrace"
        /\ k > 1 => g[open[k].tape_index].ord + 1 = open[k - 1].count
    BY <2>1 DEF Stack
  <2>3. /\ others[k].tape_index = open[k].tape_index
        /\ others[k - 1].tape_index = open[k - 1].tape_index
        /\ k > 1 => others[k - 1].count = open[k - 1].count
    BY <2>1
  <2>4. /\ open[k].tape_index \in Heads(more, n) /\ more[open[k].tape_index].type = "unwritten"
        /\ h[open[k].tape_index] = g[open[k].tape_index]
    OBVIOUS
  <2> QED BY <2>2, <2>3, <2>4
<1>3. \A k, l \in 1 .. less : k < l => others[k].tape_index < others[l].tape_index
  <2>1. \A k \in 1 .. less : k \in 1 .. deep /\ others[k].tape_index = open[k].tape_index
    OBVIOUS
  <2> QED BY <2>1 DEF Stack
<1>4. ASSUME NEW w \in Heads(more, n), more[w].type = "unwritten"
      PROVE  \E k \in 1 .. less : w = others[k].tape_index
  <2>1. PICK k \in 1 .. deep : w = open[k].tape_index
    BY <1>4 DEF Stack
  <2>2. k \notin less + 1 .. deep
    BY <1>4, <2>1
  <2>3. k \in 1 .. less
    BY <2>2
  <2> QED BY <2>1, <2>3
<1> QED BY <1>1, <1>2, <1>3, <1>4 DEF Stack

Pushed(others, open, kinds, array, deep) ==
  /\ \A k \in 0 .. deep : others[k] = open[k]
  /\ \A k \in 1 .. deep : kinds[k] = array[k]

\* A container is opened.
LEMMA StackOpens ==
  ASSUME NEW d, NEW words, NEW more, NEW top \in Nat \ {0}, NEW g, NEW h,
         NEW deep \in Nat, NEW open, NEW others, NEW array, NEW kinds,
         Stack(d, words, top, g, deep, open, array),
         Same(h, g, 1 .. top - 1), Same(more, words, 1 .. top - 1),
         Heads(more, top + 1) = Heads(words, top) \cup {top}, more[top].type = "unwritten",
         Pushed(others, open, kinds, array, deep),
         others[deep + 1].tape_index = top, h[top].scope = open[deep].tape_index,
         d.char[h[top].place] = IF kinds[deep + 1] THEN "lbracket" ELSE "lbrace",
         deep > 0 => h[top].ord + 1 = open[deep].count
  PROVE  Stack(d, more, top + 1, h, deep + 1, others, kinds)
<1>0. /\ \A k \in 0 .. deep : others[k] = open[k]
      /\ \A k \in 1 .. deep : kinds[k] = array[k]
      /\ \A w \in Heads(words, top) : h[w] = g[w] /\ more[w] = words[w]
  BY DEF Pushed, Same, Heads
<1>1. others[0].tape_index = 0
  BY <1>0 DEF Stack
<1>2. \A k \in 1 .. deep + 1 : k \in 1 .. deep \/ k = deep + 1
  OBVIOUS
<1>3. ASSUME NEW k \in 1 .. deep + 1
      PROVE  /\ others[k].tape_index \in Heads(more, top + 1)
             /\ more[others[k].tape_index].type = "unwritten"
             /\ h[others[k].tape_index].scope = others[k - 1].tape_index
             /\ d.char[h[others[k].tape_index].place] = IF kinds[k] THEN "lbracket" ELSE "lbrace"
             /\ k > 1 => h[others[k].tape_index].ord + 1 = others[k - 1].count
  <2>1. CASE k \in 1 .. deep
    <3>1. /\ open[k].tape_index \in Heads(words, top)
          /\ words[open[k].tape_index].type = "unwritten"
          /\ g[open[k].tape_index].scope = open[k - 1].tape_index
          /\ d.char[g[open[k].tape_index].place] = IF array[k] THEN "lbracket" ELSE "lbrace"
          /\ k > 1 => g[open[k].tape_index].ord + 1 = open[k - 1].count
      BY <2>1 DEF Stack
    <3>2. others[k] = open[k] /\ others[k - 1] = open[k - 1] /\ kinds[k] = array[k]
      BY <1>0, <2>1
    <3>3. h[open[k].tape_index] = g[open[k].tape_index]
            /\ more[open[k].tape_index] = words[open[k].tape_index]
      BY <1>0, <3>1
    <3> QED BY <3>1, <3>2, <3>3
  <2>2. CASE k = deep + 1
    <3>1. others[k].tape_index = top /\ k - 1 = deep /\ others[k - 1] = open[deep] /\ (k > 1 <=> deep > 0)
      BY <1>0, <2>2
    <3>2. kinds[k] = kinds[deep + 1]
      BY <2>2
    <3> QED BY <3>1, <3>2
  <2> QED BY <2>1, <2>2, <1>2
<1>4. ASSUME NEW k \in 1 .. deep + 1, NEW l \in 1 .. deep + 1, k < l
      PROVE  others[k].tape_index < others[l].tape_index
  <2>1. k \in 1 .. deep /\ others[k] = open[k]
    BY <1>0, <1>4
  <2>2. CASE l \in 1 .. deep
    BY <1>0, <2>1, <2>2, <1>4 DEF Stack
  <2>3. CASE l = deep + 1
    <3>1. open[k].tape_index \in 1 .. top - 1
      BY <2>1 DEF Stack, Heads
    <3> QED BY <3>1, <2>1, <2>3
  <2> QED BY <2>2, <2>3, <1>2
<1>5. ASSUME NEW w \in Heads(more, top + 1), more[w].type = "unwritten"
      PROVE  \E k \in 1 .. deep + 1 : w = others[k].tape_index
  <2>1. CASE w = top
    <3>1. deep + 1 \in 1 .. deep + 1
      OBVIOUS
    <3> QED BY <3>1, <2>1
  <2>2. CASE w \in Heads(words, top)
    <3>0. words[w].type = "unwritten"
      BY <1>0, <1>5, <2>2
    <3>1. PICK k \in 1 .. deep : w = open[k].tape_index
      BY <2>2, <3>0 DEF Stack
    <3>2. k \in 1 .. deep + 1 /\ others[k] = open[k]
      BY <1>0
    <3> QED BY <3>1, <3>2
  <2> QED BY <2>1, <2>2
<1> QED BY <1>1, <1>3, <1>4, <1>5 DEF Stack

-----------------------------------------------------------------------------
(* What the walk appends.                                                  *)

\* The last element ends at place k.
Ended(d, words, n, h, deep, open, array, k, r) ==
  /\ Good(d, words, n, h, deep, open, array)
  /\ Trail(d, words, n, h, ItemAt(deep, open, k, r))
  /\ deep = 0 => DocumentIs(words, n)

SameStack(others, open, deep) ==
  /\ \A k \in 0 .. deep : others[k].tape_index = open[k].tape_index
  /\ \A k \in 1 .. deep - 1 : others[k].count = open[k].count

LEMMA ScalarAppended ==
  ASSUME NEW d, NEW words, NEW more, NEW top \in Nat \ {0}, NEW n, n = Grown(more, top),
         NEW g, NEW at, NEW r, NEW x \in Info, NEW deep \in Nat, NEW open, NEW others, NEW array,
         x = ItemAt(deep, others, at, r),
         Good(d, words, top, g, deep, open, array), Fits(d, words, top, g, x), x.role # "end",
         Same(more, words, 1 .. top - 1), SameStack(others, open, deep),
         Spells(d, more, n, top, x), more[top].type \in Scalar
  PROVE  \E h : Ended(d, more, n, h, deep, others, array, at, r)
<1>1. PICK h : h = Put(g, top, x)
  OBVIOUS
<1>2. g \in [Nat -> Info] /\ Layout(d, words, top, g) /\ Stack(d, words, top, g, deep, open, array)
  BY DEF Good
<1>3. /\ Layout(d, more, n, h)
      /\ Heads(more, n) = Heads(words, top) \cup {top}
      /\ Whole(more, n) = Whole(words, top) \cup (IF more[top].type = "unwritten" THEN {} ELSE {top})
      /\ Kept(words, more, top, g, h)
  <2>1. more[top].type \in Scalar \cup {"unwritten"}
    OBVIOUS
  <2>2. Added(d, words, more, top, n, g, h, IF more[top].type = "unwritten" THEN {} ELSE {top})
    BY <1>1, <1>2, <2>1, AddHead, Zenon
  <2> QED BY <2>2, Zenon DEF Added
<1>4. more[top].type # "unwritten" /\ more[top].type \notin Opening
  BY DEF Scalar, Opening
<1>5. Whole(more, n) = Whole(words, top) \cup {top}
  BY <1>3, <1>4
<1>6. h \in [Nat -> Info] /\ h[top] = x /\ \A w \in 1 .. top - 1 : h[w] = g[w]
  BY <1>1, <1>2 DEF Put
<1>7. ~Opens(d, h, top)
  BY <1>4, <1>6 DEF Opens, Spells
<1>8. n \in Nat /\ n > top /\ After(more, top) = n
  BY DEF Grown, After, Scalar, Opening
<1>9. Trail(d, more, n, h, x)
  <2>1. Trail(d, more, n, h, h[top])
    BY <1>2, <1>3, <1>4, <1>5, <1>7, <1>8, ScalarTrail
  <2> QED BY <2>1, <1>6
<1>10. Stack(d, more, n, h, deep, others, array)
  <2>1. \A w \in Heads(words, top) : more[w] = words[w] /\ h[w] = g[w] /\ w # top
    BY <1>6 DEF Heads, Same
  <2>2. ASSUME NEW k \in 1 .. deep
        PROVE  /\ open[k].tape_index \in Heads(more, n) /\ more[open[k].tape_index].type = "unwritten"
               /\ h[open[k].tape_index] = g[open[k].tape_index]
    <3>1. open[k].tape_index \in Heads(words, top) /\ words[open[k].tape_index].type = "unwritten"
      BY <1>2 DEF Stack
    <3> QED BY <3>1, <2>1, <1>3
  <2>3. ASSUME NEW w \in Heads(more, n), more[w].type = "unwritten"
        PROVE  /\ w \in Heads(words, top) /\ words[w].type = "unwritten"
               /\ \A k \in deep + 1 .. deep : w # open[k].tape_index
    BY <2>1, <2>3, <1>3, <1>4
  <2>4. /\ \A k \in 0 .. deep : others[k].tape_index = open[k].tape_index
        /\ \A k \in 1 .. deep - 1 : others[k].count = open[k].count
    BY DEF SameStack
  <2> QED BY <2>2, <2>3, <2>4, <1>2, StackKept
<1>11. deep = 0 => DocumentIs(more, n)
  <2>1. ASSUME deep = 0 PROVE top = 1
    <3>1. x.scope = 0
      BY <2>1, <1>2 DEF Stack, SameStack, ItemAt
    <3> QED BY <3>1 DEF Fits, Belongs
  <2> QED BY <2>1, <1>5, <1>8 DEF DocumentIs
<1>12. Good(d, more, n, h, deep, others, array)
  BY <1>3, <1>6, <1>10 DEF Good
<1> QED BY <1>9, <1>11, <1>12 DEF Ended

LEMMA OpeningAdded ==
  ASSUME NEW d, NEW words, NEW more, NEW top \in Nat \ {0},
         NEW g \in [Nat -> Info], NEW x \in Info, NEW h, h = Put(g, top, x),
         Layout(d, words, top, g), Fits(d, words, top, g, x), x.role # "end",
         Same(more, words, 1 .. top - 1),
         Spells(d, more, top + 1, top, x), more[top].type = "unwritten"
  PROVE  Added(d, words, more, top, top + 1, g, h, {})
<1>1. top + 1 = Grown(more, top) /\ more[top].type \in Scalar \cup {"unwritten"}
  BY DEF Grown
<1>2. PICK n : n = Grown(more, top)
  OBVIOUS
<1>3. Spells(d, more, n, top, x)
  BY <1>1, <1>2
<1>4. Added(d, words, more, top, n, g, h, IF more[top].type = "unwritten" THEN {} ELSE {top})
  BY <1>1, <1>2, <1>3, AddHead, Zenon
<1> QED BY <1>1, <1>2, <1>4

LEMMA Unclosed ==
  ASSUME NEW d, NEW words, NEW more, NEW top \in Nat \ {0},
         NEW g, NEW x \in Info, NEW deep \in Nat, NEW open, NEW others, NEW array, NEW kinds,
         Good(d, words, top, g, deep, open, array), Fits(d, words, top, g, x),
         Same(more, words, 1 .. top - 1), more[top].type = "unwritten",
         x.place < d.n, d.char[x.place] = IF kinds[deep + 1] THEN "lbracket" ELSE "lbrace",
         Pushed(others, open, kinds, array, deep),
         others[deep + 1].tape_index = top,
         x.scope = open[deep].tape_index, deep > 0 => x.ord + 1 = open[deep].count
  PROVE  \E h : /\ Good(d, more, top + 1, h, deep + 1, others, kinds) /\ h[top] = x
                /\ \A y : Starts(d, y, top, x.place) => Fits(d, more, top + 1, h, y)
<1>1. PICK h : h = Put(g, top, x)
  OBVIOUS
<1>2. g \in [Nat -> Info] /\ Layout(d, words, top, g) /\ Stack(d, words, top, g, deep, open, array)
  BY DEF Good
<1>3. more[top].type = "unwritten" /\ d.char[x.place] \in Opening
  BY DEF Opening
<1>4. Added(d, words, more, top, top + 1, g, h, {})
  <2>1. Spells(d, more, top + 1, top, x)
    BY <1>3 DEF Spells
  <2>2. x.role # "end"
    BY <1>3 DEF Fits, Belongs, Opening, Closing
  <2> QED BY <1>1, <1>2, <2>1, <2>2, OpeningAdded, Zenon
<1>5. /\ Layout(d, more, top + 1, h)
      /\ Heads(more, top + 1) = Heads(words, top) \cup {top}
      /\ Kept(words, more, top, g, h)
  BY <1>4, Zenon DEF Added
<1>6. h \in [Nat -> Info] /\ h[top] = x /\ \A w \in 1 .. top - 1 : h[w] = g[w]
  BY <1>1, <1>2 DEF Put
<1>7. ASSUME NEW y, Starts(d, y, top, x.place) PROVE Fits(d, more, top + 1, h, y)
  <2>1. Opens(d, h, top)
    BY <1>3, <1>6 DEF Opens
  <2>2. Starts(d, y, top, h[top].place)
    BY <1>6, <1>7
  <2> QED BY <2>1, <2>2, <1>2, <1>3, <1>4, FirstFits, Zenon
<1>8. Stack(d, more, top + 1, h, deep + 1, others, kinds)
  <2>1. Same(h, g, 1 .. top - 1)
    BY <1>6 DEF Same
  <2>2. /\ h[top].scope = open[deep].tape_index
        /\ d.char[h[top].place] = IF kinds[deep + 1] THEN "lbracket" ELSE "lbrace"
        /\ deep > 0 => h[top].ord + 1 = open[deep].count
    BY <1>6
  <2> QED BY <2>1, <2>2, <1>2, <1>3, <1>5, StackOpens
<1> QED BY <1>5, <1>6, <1>7, <1>8 DEF Good

LEMMA Closed ==
  ASSUME NEW d, NEW words, NEW more, NEW top \in Nat \ {0},
         NEW g, NEW x \in Info, NEW deep \in Nat \ {0}, NEW open, NEW array,
         Good(d, words, top, g, deep, open, array), Fits(d, words, top, g, x), x.role = "end",
         x.scope = open[deep].tape_index,
         Same(more, words, (1 .. top - 1) \ {x.scope}),
         more[x.scope] = Word(d.char[g[x.scope].place], top + 1, saturated(x.ord)),
         Spells(d, more, top + 1, top, x),
         deep > 1 => open[deep - 1].count \in Nat
  PROVE  \E h : Ended(d, more, top + 1, h, deep - 1, open, array, x.place, RoleIn(deep - 1, array))
<1> DEFINE t == x.scope
<1>1. PICK h : h = Put(g, top, x)
  OBVIOUS
<1>2. g \in [Nat -> Info] /\ Layout(d, words, top, g) /\ Stack(d, words, top, g, deep, open, array)
  BY DEF Good
<1>3. deep \in 1 .. deep /\ deep - 1 \in 0 .. deep /\ (deep > 1 => deep - 1 \in 1 .. deep)
  OBVIOUS
<1>4. /\ t \in Heads(words, top) /\ words[t].type = "unwritten"
      /\ g[t].scope = open[deep - 1].tape_index
      /\ d.char[g[t].place] = IF array[deep] THEN "lbracket" ELSE "lbrace"
      /\ deep > 1 => g[t].ord + 1 = open[deep - 1].count
  BY <1>2, <1>3 DEF Stack
<1>5. t \in 1 .. top - 1 /\ t # 0
  BY <1>4 DEF Heads
<1>6. /\ Layout(d, more, top + 1, h)
      /\ Heads(more, top + 1) = Heads(words, top) \cup {top}
      /\ Whole(more, top + 1) = Whole(words, top) \cup {t, top}
      /\ Kept(words, more, top, g, h)
  <2>1. Added(d, words, more, top, top + 1, g, h, {x.scope, top})
    BY <1>1, <1>2, <1>5, Close, Zenon
  <2> QED BY <2>1, Zenon DEF Added
<1>7. h \in [Nat -> Info] /\ h[top] = x /\ \A w \in 1 .. top - 1 : h[w] = g[w]
  BY <1>1, <1>2 DEF Put
<1> HIDE DEF t
<1>8. t = x.scope
  BY DEF t
<1>9. h[t] = g[t] /\ more[t].type = d.char[g[t].place] /\ more[t].type \in Opening /\ more[t].value = top + 1
  BY <1>4, <1>5, <1>7, <1>8 DEF Word, Opening
<1>10. ~Opens(d, h, top)
  <2>1. d.char[x.place] \in Closing
    BY DEF Fits, Belongs
  <2> QED BY <2>1, <1>7 DEF Opens, Opening, Closing
<1>11. Trail(d, more, top + 1, h,
         [place |-> x.place, scope |-> g[t].scope, ord |-> g[t].ord, role |-> g[t].role])
  <2>1. Trail(d, more, top + 1, h,
         [place |-> h[top].place, scope |-> g[t].scope, ord |-> g[t].ord, role |-> g[t].role])
    BY <1>2, <1>4, <1>6, <1>7, <1>9, <1>10, CloseTrail
  <2> QED BY <2>1, <1>7
<1>12. Belongs(d, words, top, g, t, g[t])
  BY <1>2, <1>4 DEF Layout
<1>13. g[t] \in Info /\ g[t].role \notin {"end", "key"}
  BY <1>2, <1>4, <1>5, <1>12 DEF Belongs, Closing
<1>14. /\ g[t].ord = IF deep = 1 THEN 0 ELSE open[deep - 1].count - 1
       /\ g[t].role = IF deep = 1 \/ array[deep - 1] THEN "item" ELSE "value"
       /\ deep = 1 => t = 1
  <2>1. CASE deep = 1
    <3>1. g[t].scope = 0
      BY <2>1, <1>2, <1>4 DEF Stack
    <3> QED BY <3>1, <2>1, <1>12 DEF Belongs
  <2>2. CASE deep > 1
    <3>1. g[t].ord = open[deep - 1].count - 1
      BY <2>2, <1>4, <1>13 DEF Info
    <3>2. /\ open[deep - 1].tape_index \in Heads(words, top)
          /\ d.char[g[open[deep - 1].tape_index].place] = IF array[deep - 1] THEN "lbracket" ELSE "lbrace"
      BY <2>2, <1>2, <1>3 DEF Stack
    <3>3. g[t].scope # 0
      BY <3>2, <1>4 DEF Heads
    <3>4. g[t].role \in IF d.char[g[g[t].scope].place] = "lbracket" THEN {"item", "end"} ELSE {"key", "value", "end"}
      BY <3>3, <1>12 DEF Belongs
    <3>5. g[t].role = IF array[deep - 1] THEN "item" ELSE "value"
      BY <3>2, <3>4, <1>4, <1>13
    <3> QED BY <3>1, <3>5, <2>2
  <2> QED BY <2>1, <2>2
<1>15. Stack(d, more, top + 1, h, deep - 1, open, array)
  <2>1. ASSUME NEW k \in 1 .. deep - 1
        PROVE  /\ open[k].tape_index \in Heads(more, top + 1)
               /\ more[open[k].tape_index].type = "unwritten"
               /\ h[open[k].tape_index] = g[open[k].tape_index]
    <3>1. k \in 1 .. deep /\ k < deep
      OBVIOUS
    <3>2. /\ open[k].tape_index \in Heads(words, top)
          /\ words[open[k].tape_index].type = "unwritten"
          /\ open[k].tape_index < t
      BY <3>1, <1>2, <1>3, <1>8 DEF Stack
    <3>3. open[k].tape_index \in (1 .. top - 1) \ {t}
      BY <3>2, <1>5 DEF Heads
    <3>4. more[open[k].tape_index] = words[open[k].tape_index]
      BY <3>3, <1>8 DEF Same
    <3> QED BY <3>2, <3>3, <3>4, <1>6, <1>7
  <2>2. ASSUME NEW w \in Heads(more, top + 1), more[w].type = "unwritten"
        PROVE  /\ w \in Heads(words, top) /\ words[w].type = "unwritten"
               /\ \A k \in (deep - 1) + 1 .. deep : w # open[k].tape_index
    <3>1. more[top].type # "unwritten"
      <4>1. top \in Whole(more, top + 1)
        BY <1>6
      <4> QED BY <4>1 DEF Whole
    <3>2. w # t /\ w \in Heads(words, top)
      BY <3>1, <2>2, <1>6, <1>9 DEF Opening
    <3>3. more[w] = words[w]
      <4>1. w \in (1 .. top - 1) \ {t}
        BY <3>2 DEF Heads
      <4> QED BY <4>1, <1>8 DEF Same
    <3>4. \A k \in (deep - 1) + 1 .. deep : k = deep
      OBVIOUS
    <3> QED BY <3>2, <3>3, <3>4, <2>2, <1>8
  <2>3. deep - 1 \in Nat /\ deep - 1 <= deep
    OBVIOUS
  <2> QED BY <2>1, <2>2, <2>3, <1>2, StackKept
<1>16. deep = 1 => 1 \in Whole(more, top + 1) /\ After(more, 1) = top + 1
  BY <1>6, <1>9, <1>14 DEF After, Opening
<1>17. ItemAt(deep - 1, open, x.place, RoleIn(deep - 1, array))
         = [place |-> x.place, scope |-> g[t].scope, ord |-> g[t].ord, role |-> g[t].role]
  <2>1. deep - 1 = 0 <=> deep = 1
    OBVIOUS
  <2> QED BY <2>1, <1>4, <1>14 DEF ItemAt, RoleIn
<1>18. Good(d, more, top + 1, h, deep - 1, open, array)
  BY <1>6, <1>7, <1>15 DEF Good
<1>19. deep - 1 = 0 => DocumentIs(more, top + 1)
  BY <1>16 DEF DocumentIs
<1> QED BY <1>11, <1>17, <1>18, <1>19 DEF Ended

\* An empty container is one that is opened and closed at once.
LEMMA EmptyAppended ==
  ASSUME NEW d, NEW words, NEW more, NEW top \in Nat \ {0},
         NEW g, NEW k \in Nat, NEW deep \in Nat, NEW open, NEW array, NEW c \in Opening,
         Good(d, words, top, g, deep, open, array), open[deep].tape_index \in Nat,
         deep > 0 => open[deep].count \in Nat \ {0},
         Fits(d, words, top, g, ItemAt(deep, open, k, RoleIn(deep, array))),
         Same(more, words, 1 .. top - 1),
         more[top] = Word(c, top + 2, 0), more[top + 1] = Word(Matching(c), top, 0),
         d.n \in Nat, k + 1 < d.n, d.char[k] = c, d.char[k + 1] = Matching(c)
  PROVE  \E h : Ended(d, more, top + 2, h, deep, open, array, k + 1, RoleIn(deep, array))
<1> DEFINE x == ItemAt(deep, open, k, RoleIn(deep, array))
<1> DEFINE others == [l \in 0 .. deep + 1 |-> IF l = deep + 1 THEN [tape_index |-> top, count |-> 0]
                                              ELSE open[l]]
<1> DEFINE kinds == [l \in 1 .. deep + 1 |-> IF l = deep + 1 THEN c = "lbracket" ELSE array[l]]
<1> DEFINE half == [w \in 1 .. top |-> IF w = top THEN Unwritten ELSE words[w]]
<1>1. x \in Info /\ x.place = k /\ x.scope = open[deep].tape_index
        /\ (deep > 0 => x.ord + 1 = open[deep].count)
  BY DEF Info, ItemAt, RoleIn, Role
<1>2. /\ Pushed(others, open, kinds, array, deep) /\ others[deep + 1].tape_index = top
      /\ kinds[deep + 1] <=> c = "lbracket"
      /\ Same(half, words, 1 .. top - 1) /\ half[top].type = "unwritten"
  <2>1. Pushed(others, open, kinds, array, deep)
    <3>1. \A l \in 0 .. deep : others[l] = open[l]
      OBVIOUS
    <3>2. \A l \in 1 .. deep : kinds[l] = array[l]
      OBVIOUS
    <3> HIDE DEF others, kinds
    <3> QED BY <3>1, <3>2 DEF Pushed
  <2>2. others[deep + 1].tape_index = top /\ (kinds[deep + 1] <=> c = "lbracket")
    <3>1. deep + 1 \in 0 .. deep + 1 /\ deep + 1 \in 1 .. deep + 1
      OBVIOUS
    <3>2. others[deep + 1] = [tape_index |-> top, count |-> 0]
      BY <3>1
    <3>3. kinds[deep + 1] <=> c = "lbracket"
      <4>1. \A l \in 1 .. deep + 1 : kinds[l] = IF l = deep + 1 THEN c = "lbracket" ELSE array[l]
        BY Zenon
      <4>2. kinds[deep + 1] = IF deep + 1 = deep + 1 THEN c = "lbracket" ELSE array[deep + 1]
        BY <3>1, <4>1, Zenon
      <4> HIDE DEF kinds
      <4> QED BY <4>2, Zenon
    <3> HIDE DEF others, kinds
    <3> QED BY <3>2, <3>3
  <2>3. Same(half, words, 1 .. top - 1)
    BY DEF Same
  <2>4. half[top].type = "unwritten"
    BY DEF Unwritten
  <2> HIDE DEF others, kinds, half
  <2> QED BY <2>1, <2>2, <2>3, <2>4
<1>3. \A l \in 0 .. deep : others[l] = open[l]
  OBVIOUS
<1>4. \A l \in 1 .. deep : kinds[l] = array[l]
  OBVIOUS
<1>5. \A w \in 1 .. top - 1 : more[w] = half[w]
  BY DEF Same
<1> HIDE DEF x, others, kinds, half
<1>6. d.char[x.place] = IF kinds[deep + 1] THEN "lbracket" ELSE "lbrace"
  BY <1>1, <1>2 DEF Opening
<1>7. PICK g1 : /\ Good(d, half, top + 1, g1, deep + 1, others, kinds) /\ g1[top] = x
                /\ \A y : Starts(d, y, top, x.place) => Fits(d, half, top + 1, g1, y)
  <2>1. x.place < d.n
    BY <1>1
  <2>2. Fits(d, words, top, g, x)
    BY DEF x
  <2> QED BY <2>1, <2>2, <1>1, <1>2, <1>6, Unclosed
<1>8. PICK y : y = [place |-> k + 1, scope |-> top, ord |-> 0, role |-> "end"]
  OBVIOUS
<1>9. y \in Info /\ y.place = k + 1 /\ y.scope = top /\ y.ord = 0 /\ y.role = "end"
  BY <1>8 DEF Info, Role
<1>10. Matching(c) \in Closing /\ Matching(c) # "string"
  BY DEF Matching, Closing
<1>11. Fits(d, half, top + 1, g1, y)
  <2>1. Starts(d, y, top, x.place)
    BY <1>1, <1>9, <1>10 DEF Starts
  <2> QED BY <2>1, <1>7
<1>12. PICK n : n = top + 1 /\ n \in Nat \ {0}
  OBVIOUS
<1>13. PICK D : D = deep + 1 /\ D \in Nat \ {0}
  OBVIOUS
<1>14. Same(more, half, (1 .. n - 1) \ {y.scope})
  BY <1>5, <1>9, <1>12 DEF Same
<1>15. more[y.scope] = Word(d.char[g1[y.scope].place], n + 1, saturated(y.ord))
  <2>1. saturated(y.ord) = 0
    BY <1>9, DepthAssumption DEF saturated
  <2>2. n + 1 = top + 2
    BY <1>12
  <2> QED BY <2>1, <2>2, <1>1, <1>7, <1>9
<1>16. Spells(d, more, n + 1, n, y)
  BY <1>9, <1>10, <1>12 DEF Spells, Word, Closing
<1>17. y.scope = others[D].tape_index /\ (D > 1 => others[D - 1].count \in Nat)
  BY <1>2, <1>3, <1>9, <1>13
<1>18. Good(d, half, n, g1, D, others, kinds) /\ Fits(d, half, n, g1, y)
  BY <1>7, <1>11, <1>12, <1>13
<1>19. PICK h : Ended(d, more, n + 1, h, D - 1, others, kinds, y.place, RoleIn(D - 1, kinds))
  BY <1>9, <1>12, <1>13, <1>14, <1>15, <1>16, <1>17, <1>18, Closed
<1>20. n + 1 = top + 2 /\ D - 1 = deep
  BY <1>12, <1>13
<1>21. Ended(d, more, top + 2, h, deep, others, kinds, k + 1, RoleIn(deep, kinds))
  BY <1>9, <1>19, <1>20
<1>22. RoleIn(deep, kinds) = RoleIn(deep, array) /\
         \A r : ItemAt(deep, others, k + 1, r) = ItemAt(deep, open, k + 1, r)
  BY <1>3, <1>4 DEF RoleIn, ItemAt
<1>23. Good(d, more, top + 2, h, deep, open, array)
  <2>1. Good(d, more, top + 2, h, deep, others, kinds)
    BY <1>21 DEF Ended
  <2>2. Stack(d, more, top + 2, h, deep, others, kinds)
    BY <2>1 DEF Good
  <2>3. Stack(d, more, top + 2, h, deep, open, array)
    <3>1. 0 \in 0 .. deep /\ \A l \in 1 .. deep : l \in 0 .. deep /\ l - 1 \in 0 .. deep
      OBVIOUS
    <3>2. open[0].tape_index = 0
      BY <2>2, <3>1, <1>3 DEF Stack
    <3>3. ASSUME NEW l \in 1 .. deep
          PROVE  /\ open[l].tape_index \in Heads(more, top + 2)
                 /\ more[open[l].tape_index].type = "unwritten"
                 /\ h[open[l].tape_index].scope = open[l - 1].tape_index
                 /\ d.char[h[open[l].tape_index].place] = IF array[l] THEN "lbracket" ELSE "lbrace"
                 /\ l > 1 => h[open[l].tape_index].ord + 1 = open[l - 1].count
      <4>1. others[l] = open[l] /\ others[l - 1] = open[l - 1] /\ kinds[l] = array[l]
        BY <3>1, <1>3, <1>4
      <4>2. /\ others[l].tape_index \in Heads(more, top + 2)
            /\ more[others[l].tape_index].type = "unwritten"
            /\ h[others[l].tape_index].scope = others[l - 1].tape_index
            /\ d.char[h[others[l].tape_index].place] = IF kinds[l] THEN "lbracket" ELSE "lbrace"
            /\ l > 1 => h[others[l].tape_index].ord + 1 = others[l - 1].count
        BY <2>2 DEF Stack
      <4> QED BY <4>1, <4>2
    <3>4. \A l \in 1 .. deep : others[l] = open[l]
      BY <1>3
    <3>5. \A j, l \in 1 .. deep : j < l => open[j].tape_index < open[l].tape_index
      BY <2>2, <3>4 DEF Stack
    <3>6. \A w \in Heads(more, top + 2) : more[w].type = "unwritten" =>
            \E l \in 1 .. deep : w = open[l].tape_index
      BY <2>2, <3>4 DEF Stack
    <3> QED BY <3>2, <3>3, <3>5, <3>6 DEF Stack
  <2> QED BY <2>1, <2>3 DEF Good
<1> QED BY <1>21, <1>22, <1>23 DEF Ended

-----------------------------------------------------------------------------
(* What may follow, and what the end of the document changes.              *)

LEMMA TrailFits ==
  ASSUME NEW d, NEW words, NEW top \in Nat \ {0}, NEW g, NEW deep \in Nat \ {0}, NEW open, NEW array,
         Good(d, words, top, g, deep, open, array), NEW x, NEW y,
         Trail(d, words, top, g, y), Leads(d, y.place, y.role, y.ord, x),
         x.scope = y.scope, y.scope = open[deep].tape_index,
         x.role \in IF array[deep] THEN {"item", "end"} ELSE {"key", "value", "end"},
         x.role = "end" <=> d.char[x.place] \in Closing,
         x.role = "key" => d.char[x.place] = "string"
  PROVE  Fits(d, words, top, g, x)
<1>1. /\ x.scope \in Heads(words, top) /\ words[x.scope].type = "unwritten"
      /\ d.char[g[x.scope].place] = IF array[deep] THEN "lbracket" ELSE "lbrace"
  <2>1. deep \in 1 .. deep
    OBVIOUS
  <2> QED BY <2>1 DEF Good, Stack
<1>2. x.scope < top /\ x.scope # 0
  BY <1>1 DEF Heads
<1>3. Belongs(d, words, top, g, top, x)
  BY <1>1, <1>2 DEF Belongs, Opens, Opening
<1>4. ASSUME NEW w \in Whole(words, top), g[w].role # "end", After(words, w) = top
      PROVE  Behind(d, words, g, w, x)
  <2>1. /\ g[w].scope = y.scope /\ g[w].ord = y.ord /\ g[w].role = y.role
        /\ EndAt(words, g, w) = y.place
    BY <1>4 DEF Trail
  <2> QED BY <2>1 DEF Behind, Follows
<1>5. \A i \in Heads(words, top) : Opens(d, g, i) => i + 1 # top
  BY DEF Trail
<1> QED BY <1>1, <1>3, <1>4, <1>5 DEF Fits

LEMMA LayoutSame ==
  ASSUME NEW d, NEW words, NEW more, NEW top \in Nat \ {0}, NEW g, Layout(d, words, top, g),
         Same(more, words, 1 .. top - 1)
  PROVE  /\ Layout(d, more, top, g) /\ Heads(more, top) = Heads(words, top)
         /\ Whole(more, top) = Whole(words, top) /\ Kept(words, more, top, g, g)
<1>1. \A w \in 1 .. top - 1 : more[w] = words[w]
  BY DEF Same
<1>2. Heads(more, top) = Heads(words, top)
  BY <1>1 DEF Heads
<1>3. \A w \in Heads(words, top) : w \in 1 .. top - 1 /\ more[w] = words[w]
  BY <1>1 DEF Heads
<1>4. Whole(more, top) = Whole(words, top)
  BY <1>2, <1>3 DEF Whole
<1>5. \A w \in Whole(words, top) : w \in Heads(words, top)
  BY DEF Whole
<1>6. Kept(words, more, top, g, g)
  <2>1. Same(g, g, 1 .. top - 1)
    BY DEF Same
  <2>2. Same(more, words, Whole(words, top))
    BY <1>3, <1>5 DEF Same
  <2> QED BY <2>1, <2>2, SameEnds, Zenon
<1>7. ASSUME NEW w \in Heads(words, top), Spells(d, words, top, w, g[w])
      PROVE  Spells(d, more, top, w, g[w])
  <2>1. w + 1 < top => more[w + 1] = words[w + 1]
    BY <1>1, <1>3
  <2> QED BY <2>1, <1>3, <1>7 DEF Spells
<1>8. ASSUME NEW w \in Heads(words, top), Belongs(d, words, top, g, w, g[w])
      PROVE  Belongs(d, more, top, g, w, g[w])
  BY <1>2, <1>8 DEF Belongs
<1>9. ASSUME NEW w \in Whole(words, top)
      PROVE  /\ After(more, w) = After(words, w)
             /\ \A x : Behind(d, words, g, w, x) <=> Behind(d, more, g, w, x)
  <2>1. After(more, w) = After(words, w) /\ EndAt(more, g, w) = EndAt(words, g, w)
    BY <1>6, Zenon DEF Kept
  <2> QED BY <2>1 DEF Behind, Follows
<1>10. ASSUME NEW i \in Whole(words, top), Container(words, top, g, i) PROVE Container(more, top, g, i)
  BY <1>2, <1>3, <1>5, <1>10 DEF Container
<1>11. /\ \A w \in Heads(words, top) : Spells(d, words, top, w, g[w])
       /\ \A w \in Heads(words, top) : Belongs(d, words, top, g, w, g[w])
       /\ \A i \in Heads(words, top) : Opens(d, g, i) /\ i + 1 < top =>
            i + 1 \in Heads(words, top) /\ FirstIn(g, i, g[i + 1])
       /\ \A w \in Whole(words, top) : g[w].role # "end" =>
            /\ After(words, w) \in w + 1 .. top
            /\ After(words, w) < top =>
                 After(words, w) \in Heads(words, top) /\ Behind(d, words, g, w, g[After(words, w)])
       /\ \A i \in Whole(words, top) : words[i].type \in Opening => Container(words, top, g, i)
       /\ \A e \in Heads(words, top) : g[e].role = "end" =>
            /\ g[e].scope \in Whole(words, top) /\ words[g[e].scope].value = e + 1
  BY Zenon DEF Layout
<1>12. \A w \in Heads(more, top) : Spells(d, more, top, w, g[w])
  BY <1>2, <1>7, <1>11
<1>13. \A w \in Heads(more, top) : Belongs(d, more, top, g, w, g[w])
  BY <1>2, <1>8, <1>11
<1>14. ASSUME NEW w \in Whole(more, top), g[w].role # "end"
       PROVE  /\ After(more, w) \in w + 1 .. top
              /\ After(more, w) < top =>
                   After(more, w) \in Heads(more, top) /\ Behind(d, more, g, w, g[After(more, w)])
  BY <1>2, <1>4, <1>9, <1>11, <1>14
<1>15. \A i \in Whole(more, top) : more[i].type \in Opening => Container(more, top, g, i)
  BY <1>3, <1>4, <1>5, <1>10, <1>11
<1>16. \A e \in Heads(more, top) : g[e].role = "end" =>
         /\ g[e].scope \in Whole(more, top) /\ more[g[e].scope].value = e + 1
  BY <1>2, <1>3, <1>4, <1>5, <1>11
<1>17. \A i \in Heads(more, top) : Opens(d, g, i) /\ i + 1 < top =>
         i + 1 \in Heads(more, top) /\ FirstIn(g, i, g[i + 1])
  BY <1>2, <1>11
<1>18. Layout(d, more, top, g)
  BY <1>12, <1>13, <1>14, <1>15, <1>16, <1>17 DEF Layout
<1> QED BY <1>2, <1>4, <1>6, <1>18

-----------------------------------------------------------------------------
(* What the operators write.                                               *)

\* A nonempty set of naturals has a least element.
LEMMA Least ==
  ASSUME NEW T, T \subseteq Nat, T # {}
  PROVE  \E m \in T : \A k \in T : m <= k
<1> DEFINE R == OpToRel(<, Nat)
<1>1. IsWellFoundedOn(R, Nat)
  BY NatLessThanWellFounded, Zenon
<1>2. \A m, k \in Nat : <<k, m>> \in R <=> k < m
  BY DEF OpToRel
<1> HIDE DEF R
<1>3. PICK m \in T : \A k \in T : ~(<<k, m>> \in R)
  BY <1>1, WFMin, Zenon
<1>4. ASSUME NEW k \in T PROVE m <= k
  <2>1. m \in Nat /\ k \in Nat /\ ~(<<k, m>> \in R)
    BY <1>3
  <2>2. ~(k < m)
    BY <1>2, <2>1
  <2> QED BY <2>1, <2>2
<1> QED BY <1>4

LEMMA Induction ==
  ASSUME NEW S, 0 \in S, \A n \in Nat : n \in S => n + 1 \in S
  PROVE  Nat \subseteq S
<1> SUFFICES ASSUME Nat \ S # {} PROVE FALSE
  OBVIOUS
<1>1. PICK m \in Nat \ S : \A k \in Nat \ S : m <= k
  BY Least
<1>2. m - 1 \in Nat /\ m - 1 \in S /\ (m - 1) + 1 = m
  BY <1>1
<1> QED BY <1>1, <1>2

Takes(d, k) == IF d.char[k] = "string" THEN 4 + d.size[k] + 1 ELSE 0

Sums(taken, d, n) ==
  taken = [k \in 0 .. n |-> IF k = 0 THEN 0 ELSE taken[k - 1] + Takes(d, k - 1)]

\* What a character takes is behind what those in front of it take.
LEMMA TakenRule ==
  ASSUME NEW d, d.n \in Nat
  PROVE  Taken(d)[0] = 0 /\ \A k \in 0 .. d.n - 1 : Taken(d)[k + 1] = Taken(d)[k] + Takes(d, k)
<1> DEFINE S == {m \in Nat : \E taken : Sums(taken, d, m)}
<1>1. 0 \in S
  <2> DEFINE one == [k \in 0 .. 0 |-> 0]
  <2>1. \A k \in 0 .. 0 : k = 0
    OBVIOUS
  <2>2. one = [k \in 0 .. 0 |-> IF k = 0 THEN 0 ELSE one[k - 1] + Takes(d, k - 1)]
    BY <2>1
  <2> QED BY <2>2 DEF Sums
<1>2. ASSUME NEW m \in Nat, m \in S PROVE m + 1 \in S
  <2>1. PICK f : Sums(f, d, m)
    BY <1>2
  <2> DEFINE h == [k \in 0 .. m + 1 |-> IF k = 0 THEN 0 ELSE f[k - 1] + Takes(d, k - 1)]
  <2>2. \A k \in 0 .. m : f[k] = IF k = 0 THEN 0 ELSE f[k - 1] + Takes(d, k - 1)
    BY <2>1, Zenon DEF Sums
  <2>3. \A k \in 0 .. m : h[k] = f[k]
    <3>1. \A k \in 0 .. m : k \in 0 .. m + 1
      OBVIOUS
    <3> QED BY <2>2, <3>1
  <2>4. \A k \in 0 .. m + 1 : k # 0 => k - 1 \in 0 .. m
    OBVIOUS
  <2>5. h = [k \in 0 .. m + 1 |-> IF k = 0 THEN 0 ELSE h[k - 1] + Takes(d, k - 1)]
    <3>1. ASSUME NEW k \in 0 .. m + 1
          PROVE  (IF k = 0 THEN 0 ELSE f[k - 1] + Takes(d, k - 1))
                   = (IF k = 0 THEN 0 ELSE h[k - 1] + Takes(d, k - 1))
      BY <2>3, <2>4
    <3> QED BY <3>1, Zenon
  <2>6. Sums(h, d, m + 1)
    BY <2>5 DEF Sums
  <2> QED BY <2>6
<1>3. \E taken : Sums(taken, d, d.n)
  <2>1. Nat \subseteq S
    BY <1>1, <1>2, Induction
  <2> QED BY <2>1
<1>4. Taken(d) = CHOOSE taken : Sums(taken, d, d.n)
  BY Zenon DEF Taken, Sums, Takes
<1>5. Sums(Taken(d), d, d.n)
  BY <1>3, <1>4
<1>6. \A k \in 0 .. d.n : Taken(d)[k] = IF k = 0 THEN 0 ELSE Taken(d)[k - 1] + Takes(d, k - 1)
  BY <1>5, Zenon DEF Sums
<1>7. \A k \in 0 .. d.n - 1 : k + 1 \in 0 .. d.n /\ k + 1 # 0 /\ (k + 1) - 1 = k
  OBVIOUS
<1> QED BY <1>6, <1>7

\* The words in front stay, and the new ones are behind them.
LEMMA AppendedOne ==
  ASSUME next_tape \in Nat \ {0}, NEW w, Append1(w)
  PROVE  next_tape' = next_tape + 1 /\ Same(tape', tape, 0 .. next_tape - 1) /\ tape'[next_tape] = w
<1>1. Cardinality({0}) = 1
  BY FS_Singleton
<1>2. DOMAIN [i \in {0} |-> w] = {0} /\ [i \in {0} |-> w][0] = w
  OBVIOUS
<1>3. /\ tape' = [i \in 0 .. next_tape |->
                    IF i < next_tape THEN tape[i] ELSE [j \in {0} |-> w][i - next_tape]]
      /\ next_tape' = next_tape + 1
  BY <1>1, <1>2 DEF Append1, Appended
<1>4. tape'[next_tape] = w
  BY <1>3
<1>5. ASSUME NEW i \in 0 .. next_tape - 1 PROVE tape'[i] = tape[i]
  BY <1>3
<1> QED BY <1>3, <1>4, <1>5 DEF Same

LEMMA AppendedTwo ==
  ASSUME next_tape \in Nat \ {0}, NEW w0, NEW w1, Append2(w0, w1)
  PROVE  /\ next_tape' = next_tape + 2 /\ Same(tape', tape, 0 .. next_tape - 1)
         /\ tape'[next_tape] = w0 /\ tape'[next_tape + 1] = w1
<1> DEFINE two == [i \in 0 .. 1 |-> IF i = 0 THEN w0 ELSE w1]
<1>1. Cardinality(0 .. 1) = 2
  <2>1. \A a, b \in Int : Cardinality(a .. b) = IF a > b THEN 0 ELSE b - a + 1
    BY FS_Interval, Zenon
  <2>2. 0 \in Int /\ 1 \in Int
    OBVIOUS
  <2>3. Cardinality(0 .. 1) = IF 0 > 1 THEN 0 ELSE 1 - 0 + 1
    BY <2>1, <2>2, Zenon
  <2> QED BY <2>3
<1>2. DOMAIN two = 0 .. 1 /\ two[0] = w0 /\ two[1] = w1
  OBVIOUS
<1>3. /\ tape' = [i \in 0 .. next_tape + Cardinality(DOMAIN two) - 1 |->
                    IF i < next_tape THEN tape[i] ELSE two[i - next_tape]]
      /\ next_tape' = next_tape + 2
  BY DEF Append2, Appended
<1> HIDE DEF two
<1>4. tape' = [i \in 0 .. next_tape + 1 |-> IF i < next_tape THEN tape[i] ELSE two[i - next_tape]]
  <2>1. next_tape + Cardinality(DOMAIN two) - 1 = next_tape + 1
    BY <1>1, <1>2
  <2> QED BY <1>3, <2>1
<1>5. tape'[next_tape] = two[0] /\ tape'[next_tape + 1] = two[1]
  <2>1. next_tape - next_tape = 0 /\ next_tape + 1 - next_tape = 1
    OBVIOUS
  <2>2. next_tape \in 0 .. next_tape + 1 /\ next_tape + 1 \in 0 .. next_tape + 1
    OBVIOUS
  <2>3. ~(next_tape < next_tape) /\ ~(next_tape + 1 < next_tape)
    OBVIOUS
  <2> QED BY <1>4, <2>1, <2>2, <2>3
<1>6. ASSUME NEW i \in 0 .. next_tape - 1 PROVE tape'[i] = tape[i]
  BY <1>4
<1> QED BY <1>2, <1>3, <1>5, <1>6 DEF Same

-----------------------------------------------------------------------------
(* The steps of the walk.                                                  *)

ContinueAt(deep, array) ==
  IF deep = 0 THEN "document_end" ELSE IF array[deep] THEN "array_continue" ELSE "object_continue"

\* Behind a whole value.
LEMMA EndedKeeps ==
  ASSUME NEW h, next' \in Nat \ {0}, next_tape' \in Nat,
         Ended(doc', tape', next_tape', h, depth', open_containers', is_array', next' - 1,
               RoleIn(depth', is_array')),
         pc' = ContinueAt(depth', is_array'),
         depth' > 0 => open_containers'[depth'].count \in Nat \ {0},
         depth' \in Nat, depth' > 0 => is_array'[depth'] \in BOOLEAN,
         string_loc' = Taken(doc')[next']
  PROVE  LayoutInv'
<1>1. /\ Good(doc', tape', next_tape', h, depth', open_containers', is_array')
      /\ Trail(doc', tape', next_tape', h, ElementAt(next - 1)')
      /\ depth' = 0 => DocumentIs(tape', next_tape')
  BY DEF Ended, ElementAt, Here
<1>2. pc' \in {"document_end", "array_continue", "object_continue"}
  BY DEF ContinueAt
<1>3. pc' # "done" /\ Top' = next_tape'
  BY <1>2 DEF Top
<1>4. pc' = "document_end" => depth' = 0
  BY DEF ContinueAt
<1>5. pc' # "document_end" => depth' > 0 /\ (is_array'[depth'] <=> pc' = "array_continue")
  BY DEF ContinueAt
<1>6. Spot(doc, tape, next_tape, h)'
  <2>1. CASE pc' = "document_end"
    BY <1>1, <1>4, <2>1 DEF Spot
  <2>2. CASE pc' \in {"object_continue", "array_continue"}
    BY <1>1, <1>5, <2>2 DEF Spot, Count
  <2> QED BY <1>2, <2>1, <2>2
<1> QED BY <1>1, <1>3, <1>6 DEF LayoutInv, LayoutOf

\* The places of the walk, and what it has of the innermost container.
LEMMA Places ==
  ASSUME WalkInv
  PROVE  /\ doc.n \in Nat \ {0} /\ next_tape \in Nat \ {0} /\ depth \in Nat /\ next \in Nat
         /\ open_containers[depth].tape_index \in Nat /\ open_containers[depth].count \in Nat
         /\ depth \in DOMAIN open_containers
         /\ is_array[depth] \in BOOLEAN
         /\ \A k \in 0 .. doc.n - 1 : Byte(k) = doc.char[k] /\ doc.char[k] \in Char
         /\ \A k \in 0 .. doc.n - 1 : Taken(doc)[k + 1] = Taken(doc)[k] + Takes(doc, k)
         /\ \A k \in 0 .. doc.n : Taken(doc)[k] \in Nat
<1>1. /\ doc.n \in Nat \ {0} /\ next_tape \in Nat \ {0} /\ depth \in 0 .. MaxDepth - 1 /\ next \in Nat
      /\ open_containers \in [0 .. MaxDepth - 1 -> [tape_index : Nat, count : Nat]]
      /\ is_array \in [0 .. MaxDepth - 1 -> BOOLEAN]
      /\ doc.char \in [0 .. doc.n - 1 -> Char] /\ doc.size \in [0 .. doc.n - 1 -> Nat]
  BY DEF WalkInv, WalkTypeOK, IsDocument
<1>2. depth \in Nat
  BY <1>1, DepthAssumption
<1>3. \A k \in 0 .. doc.n - 1 : Byte(k) = doc.char[k]
  BY <1>1 DEF Byte
<1>4. \A k \in 0 .. doc.n - 1 : Takes(doc, k) \in Nat
  BY <1>1 DEF Takes
<1>5. Taken(doc)[0] = 0 /\ \A k \in 0 .. doc.n - 1 : Taken(doc)[k + 1] = Taken(doc)[k] + Takes(doc, k)
  BY <1>1, TakenRule
<1>6. \A k \in 0 .. doc.n : Taken(doc)[k] \in Nat
  <2> DEFINE S == {k \in Nat : k <= doc.n => Taken(doc)[k] \in Nat}
  <2>1. 0 \in S
    BY <1>5
  <2>2. \A k \in Nat : k \in S => k + 1 \in S
    <3> SUFFICES ASSUME NEW k \in Nat, k \in S, k + 1 <= doc.n
                 PROVE  Taken(doc)[k + 1] \in Nat
      OBVIOUS
    <3>1. k \in 0 .. doc.n - 1 /\ Taken(doc)[k] \in Nat
      BY <1>1
    <3> QED BY <3>1, <1>4, <1>5
  <2>3. Nat \subseteq S
    <3> HIDE DEF S
    <3> QED BY <2>1, <2>2, Induction
  <2> QED BY <2>3, <1>1
<1> QED BY <1>1, <1>2, <1>3, <1>5, <1>6

\* A scalar is written as what it is.
LEMMA ScalarWritten ==
  ASSUME WalkInv, NEW k \in 0 .. doc.n - 1, visit_scalar(k), string_loc = Taken(doc)[k],
         NEW x, x.place = k
  PROVE  /\ Same(tape', tape, 1 .. next_tape - 1) /\ next_tape' = Grown(tape', next_tape)
         /\ Spells(doc, tape', next_tape', next_tape, x) /\ tape'[next_tape].type \in Scalar
         /\ string_loc' = Taken(doc)[k + 1]
<1>1. /\ doc.n \in Nat \ {0} /\ next_tape \in Nat \ {0} /\ Byte(k) = doc.char[k]
      /\ Taken(doc)[k + 1] = Taken(doc)[k] + Takes(doc, k) /\ Taken(doc)[k] \in Nat
  <2>1. k \in 0 .. doc.n
    BY Places
  <2> QED BY <2>1, Places
<1>2. k < doc.n /\ Size(k) = doc.size[k]
  BY <1>1 DEF Size
<1>3. ASSUME Same(tape', tape, 0 .. next_tape - 1) PROVE Same(tape', tape, 1 .. next_tape - 1)
  BY <1>1, <1>3 DEF Same
<1>4. CASE Byte(k) = "string" /\ visit_string(k)
  <2>1. /\ Append1(Word("string", string_loc, 0)) /\ string_loc' = string_loc + 4 + Size(k) + 1
    BY <1>4 DEF visit_string
  <2>2. /\ next_tape' = next_tape + 1 /\ Same(tape', tape, 0 .. next_tape - 1)
        /\ tape'[next_tape] = Word("string", string_loc, 0)
    BY <1>1, <2>1, AppendedOne
  <2>3. tape'[next_tape].type = "string" /\ tape'[next_tape].value = Taken(doc)[k]
    BY <2>2 DEF Word
  <2>4. Spells(doc, tape', next_tape', next_tape, x)
    BY <1>1, <1>2, <1>4, <2>3 DEF Spells, Scalar
  <2>5. string_loc' = Taken(doc)[k + 1]
    <3>1. Takes(doc, k) = 4 + doc.size[k] + 1
      BY <1>1, <1>4 DEF Takes
    <3>2. string_loc \in Nat /\ doc.size[k] \in Nat
      BY DEF WalkInv, WalkTypeOK, IsDocument
    <3> QED BY <1>1, <1>2, <2>1, <3>1, <3>2
  <2> QED BY <1>3, <2>2, <2>3, <2>4, <2>5 DEF Grown, Scalar
<1>5. CASE /\ Byte(k) = "number" /\ UNCHANGED string_loc
           /\ Append2(Word("number", 0, 0), Word("data", k, 0))
  <2>1. /\ next_tape' = next_tape + 2 /\ Same(tape', tape, 0 .. next_tape - 1)
        /\ tape'[next_tape] = Word("number", 0, 0) /\ tape'[next_tape + 1] = Word("data", k, 0)
    BY <1>1, <1>5, AppendedTwo
  <2>2. /\ tape'[next_tape].type = "number" /\ tape'[next_tape + 1].type = "data"
        /\ tape'[next_tape + 1].value = k
    BY <2>1 DEF Word
  <2>3. next_tape + 1 < next_tape'
    BY <1>1, <2>1
  <2>4. Spells(doc, tape', next_tape', next_tape, x)
    BY <1>1, <1>2, <1>5, <2>2, <2>3 DEF Spells, Scalar
  <2>5. string_loc' = Taken(doc)[k + 1]
    BY <1>1, <1>5 DEF Takes
  <2> QED BY <1>3, <2>1, <2>2, <2>4, <2>5 DEF Grown, Scalar
<1>6. CASE Byte(k) = "atom" /\ Append1(Word("atom", 0, 0)) /\ UNCHANGED string_loc
  <2>1. /\ next_tape' = next_tape + 1 /\ Same(tape', tape, 0 .. next_tape - 1)
        /\ tape'[next_tape] = Word("atom", 0, 0)
    BY <1>1, <1>6, AppendedOne
  <2>2. tape'[next_tape].type = "atom" /\ tape'[next_tape].value = 0
    BY <2>1 DEF Word
  <2>3. Spells(doc, tape', next_tape', next_tape, x)
    BY <1>1, <1>2, <1>6, <2>2 DEF Spells, Scalar
  <2>4. string_loc' = Taken(doc)[k + 1]
    BY <1>1, <1>6 DEF Takes
  <2> QED BY <1>3, <2>1, <2>2, <2>3, <2>4 DEF Grown, Scalar
<1> QED BY <1>4, <1>5, <1>6 DEF visit_scalar

\* A value at k, in its place.
LEMMA ValueKeeps ==
  ASSUME WalkInv, NEW g, NEW k \in Nat, NEW after, Value(k, after), after = ContinueAt(depth, is_array),
         Good(doc, tape, next_tape, g, depth, open_containers, is_array),
         Fits(doc, tape, next_tape, g, ElementAt(k)), string_loc = Taken(doc)[k],
         depth > 0 => Count >= 1,
         error' = "none", next' <= doc.n
  PROVE  LayoutInv'
<1>0. /\ doc.n \in Nat \ {0} /\ next_tape \in Nat \ {0} /\ depth \in Nat /\ next \in Nat
      /\ open_containers[depth].tape_index \in Nat /\ is_array[depth] \in BOOLEAN
      /\ depth > 0 => open_containers[depth].count \in Nat \ {0}
  BY Places DEF Count
<1>1. CASE /\ Byte(k) \in Opening /\ Byte(k + 1) = Matching(Byte(k))
           /\ empty_container(Byte(k), Matching(Byte(k)))
           /\ next' = k + 2 /\ pc' = after
           /\ Frame /\ UNCHANGED <<open_containers, string_loc>>
  <2>1. k \in 0 .. doc.n - 1 /\ k + 1 \in 0 .. doc.n - 1 /\ k + 1 < doc.n
    BY <1>0, <1>1
  <2>2. Byte(k) = doc.char[k] /\ doc.char[k + 1] = Matching(doc.char[k])
    BY <1>1, <2>1, Places
  <2>3. /\ next_tape' = next_tape + 2 /\ Same(tape', tape, 0 .. next_tape - 1)
        /\ tape'[next_tape] = Word(doc.char[k], next_tape + 2, 0)
        /\ tape'[next_tape + 1] = Word(Matching(doc.char[k]), next_tape, 0)
    BY <1>0, <1>1, <2>2, AppendedTwo DEF empty_container
  <2>4. Same(tape', tape, 1 .. next_tape - 1)
    BY <1>0, <2>3 DEF Same
  <2>5. Fits(doc, tape, next_tape, g, ItemAt(depth, open_containers, k, RoleIn(depth, is_array)))
    BY DEF ElementAt, Here
  <2>6. PICK h : Ended(doc, tape', next_tape + 2, h, depth, open_containers, is_array, k + 1,
                       RoleIn(depth, is_array))
    BY <1>0, <1>1, <2>1, <2>2, <2>3, <2>4, <2>5, EmptyAppended
  <2>7. string_loc' = Taken(doc)[next']
    <3>1. Takes(doc, k) = 0 /\ Takes(doc, k + 1) = 0
      BY <1>1, <2>2 DEF Takes, Opening, Matching
    <3>2. Taken(doc)[k + 1] = Taken(doc)[k] + 0 /\ Taken(doc)[(k + 1) + 1] = Taken(doc)[k + 1] + 0
      BY <2>1, <3>1, Places
    <3>3. k \in 0 .. doc.n /\ Taken(doc)[k] \in Nat /\ (k + 1) + 1 = k + 2
      BY <2>1, Places
    <3> QED BY <1>1, <3>2, <3>3
  <2>8. /\ doc' = doc /\ depth' = depth /\ is_array' = is_array /\ open_containers' = open_containers
        /\ next' - 1 = k + 1 /\ next' \in Nat \ {0} /\ next_tape' \in Nat
    BY <1>0, <1>1, <2>3 DEF Frame
  <2>9. Ended(doc', tape', next_tape', h, depth', open_containers', is_array', next' - 1,
              RoleIn(depth', is_array'))
    BY <2>3, <2>6, <2>8
  <2>10. pc' = ContinueAt(depth', is_array') /\ string_loc' = Taken(doc')[next']
    BY <1>1, <2>7, <2>8
  <2>11. (depth' > 0 => open_containers'[depth'].count \in Nat \ {0}) /\ depth' \in Nat
          /\ is_array'[depth'] \in BOOLEAN
    BY <1>0, <2>8
  <2> QED BY <2>8, <2>9, <2>10, <2>11, EndedKeeps
<1>2. CASE /\ Byte(k) \in Opening
           /\ next' = k + 1 /\ pc' = IF Byte(k) = "lbrace" THEN "object_begin" ELSE "array_begin"
           /\ Frame /\ UNCHANGED <<open_containers, tape, next_tape, string_loc>>
  <2>1. k \in 0 .. doc.n - 1 /\ k \in 0 .. doc.n
    BY <1>0, <1>2
  <2>2. Byte(k) = doc.char[k]
    BY <2>1, Places
  <2>3. /\ doc' = doc /\ depth' = depth /\ is_array' = is_array /\ open_containers' = open_containers
        /\ tape' = tape /\ next_tape' = next_tape /\ next' - 1 = k /\ next' >= 1
        /\ string_loc' = string_loc
    BY <1>2 DEF Frame
  <2>4. pc' \in {"object_begin", "array_begin"}
          /\ doc.char[k] = IF pc' = "object_begin" THEN "lbrace" ELSE "lbracket"
    BY <1>2, <2>2 DEF Opening
  <2>5. Top' = next_tape
    BY <2>3, <2>4 DEF Top
  <2>6. Fits(doc', tape', Top', g, ElementAt(next - 1)') /\ (depth' > 0 => Count' >= 1)
    BY <2>3, <2>5 DEF ElementAt, Here, Count
  <2>7. Spot(doc, tape, Top, g)'
    BY <2>3, <2>4, <2>6 DEF Spot
  <2>8. string_loc' = Taken(doc')[next']
    <3>1. Takes(doc, k) = 0
      BY <1>2, <2>2 DEF Takes, Opening
    <3>2. Taken(doc)[k + 1] = Taken(doc)[k] + 0 /\ Taken(doc)[k] \in Nat
      BY <2>1, <3>1, Places
    <3> QED BY <1>2, <2>3, <3>2
  <2>9. Good(doc', tape', Top', g, depth', open_containers', is_array')
    BY <2>3, <2>5
  <2> QED BY <2>4, <2>7, <2>8, <2>9 DEF LayoutInv, LayoutOf
<1>3. CASE visit_scalar(k) /\ Advanced(k, after) /\ Frame /\ UNCHANGED open_containers
  <2>1. /\ doc' = doc /\ depth' = depth /\ is_array' = is_array /\ open_containers' = open_containers
        /\ next' = k + 1 /\ next' - 1 = k /\ next' \in Nat \ {0} /\ pc' = after
    BY <1>3 DEF Frame, Advanced
  <2>2. k \in 0 .. doc.n - 1
    BY <1>0, <2>1
  <2>3. PICK x : x = ItemAt(depth, open_containers, k, RoleIn(depth, is_array))
    OBVIOUS
  <2>4. x \in Info /\ x.place = k /\ x.role # "end"
    BY <1>0, <2>3 DEF ItemAt, Info, Role, RoleIn
  <2>5. /\ Same(tape', tape, 1 .. next_tape - 1) /\ next_tape' = Grown(tape', next_tape)
        /\ Spells(doc, tape', next_tape', next_tape, x) /\ tape'[next_tape].type \in Scalar
        /\ string_loc' = Taken(doc)[k + 1]
    BY <1>3, <2>2, <2>4, ScalarWritten
  <2>6. Fits(doc, tape, next_tape, g, x)
    BY <2>3 DEF ElementAt, Here
  <2>7. SameStack(open_containers, open_containers, depth)
    BY DEF SameStack
  <2>8. PICK h : Ended(doc, tape', next_tape', h, depth, open_containers, is_array, k,
                       RoleIn(depth, is_array))
    BY <1>0, <2>3, <2>4, <2>5, <2>6, <2>7, ScalarAppended
  <2>9. Ended(doc', tape', next_tape', h, depth', open_containers', is_array', next' - 1,
              RoleIn(depth', is_array'))
    BY <2>1, <2>8
  <2>10. pc' = ContinueAt(depth', is_array') /\ string_loc' = Taken(doc')[next']
    BY <2>1, <2>5
  <2>11. (depth' > 0 => open_containers'[depth'].count \in Nat \ {0}) /\ depth' \in Nat
          /\ is_array'[depth'] \in BOOLEAN /\ next_tape' \in Nat
    BY <1>0, <2>1, <2>5 DEF Grown
  <2> QED BY <2>1, <2>9, <2>10, <2>11, EndedKeeps
<1>4. ~refuse_scalar(k) /\ ~Fail(k, "TAPE_ERROR")
  BY DEF refuse_scalar, Fail
<1> QED BY <1>1, <1>2, <1>3, <1>4 DEF Value

\* A walk that has not failed has not ended, or at the end of the document.
\* The walk returns with an error, or after all of the document.
Running ==
  /\ pc # "done" => error = "none"
  /\ pc = "done" /\ error = "none" => next = doc.n

LEMMA Began ==
  ASSUME WalkInv, Running, LayoutInv, pc # "done", next <= doc.n
  PROVE  /\ \E g : /\ Good(doc, tape, next_tape, g, depth, open_containers, is_array)
                   /\ Spot(doc, tape, next_tape, g)
         /\ string_loc = Taken(doc)[next]
BY DEF Running, LayoutInv, LayoutOf, Top

\* Nothing has been written yet.
LEMMA FirstValueKeeps ==
  ASSUME WalkInv, Running, LayoutInv, FirstValue, error' = "none", next' <= doc.n
  PROVE  LayoutInv'
<1>1. pc = "document_start" /\ Value(0, "document_end")
  BY DEF FirstValue
<1>2. next = 0 /\ doc.n \in Nat \ {0} /\ depth \in Nat
  BY <1>1, Places DEF WalkInv, PlaceInv
<1>3. string_loc = Taken(doc)[0]
  BY <1>1, <1>2, Began
<1>4. PICK g : /\ Good(doc, tape, next_tape, g, depth, open_containers, is_array)
               /\ Spot(doc, tape, next_tape, g)
  BY <1>1, <1>2, Began
<1>5. depth = 0 /\ next_tape = 1
  BY <1>1, <1>4 DEF Spot
<1>6. PICK x : x = ElementAt(0)
  OBVIOUS
<1>7. open_containers[0].tape_index = 0
  BY <1>4 DEF Good, Stack
<1>8. x.place = 0 /\ x.scope = 0 /\ x.ord = 0 /\ x.role = "item"
  BY <1>5, <1>6, <1>7 DEF ElementAt, Here, ItemAt, RoleIn
<1>9. doc.char[0] \notin Closing
  <2>1. 0 \in 0 .. doc.n - 1
    BY <1>2
  <2>2. Byte(0) = doc.char[0]
    BY <2>1, Places
  <2>3. Byte(0) \in Scalar \cup Opening
    BY <1>1 DEF Value, Fail
  <2> QED BY <2>2, <2>3 DEF Scalar, Opening, Closing
<1>10. Heads(tape, next_tape) = {} /\ Whole(tape, next_tape) = {}
  BY <1>5 DEF Heads, Whole
<1>11. Fits(doc, tape, next_tape, g, x)
  BY <1>5, <1>8, <1>9, <1>10 DEF Fits, Belongs
<1>12. "document_end" = ContinueAt(depth, is_array) /\ ~(depth > 0)
  BY <1>5 DEF ContinueAt
<1> QED BY <1>1, <1>3, <1>4, <1>6, <1>11, <1>12, ValueKeeps

Enters(array, n) ==
  /\ depth' = depth + 1 /\ is_array' = [is_array EXCEPT ![depth + 1] = array]
  /\ start_container(depth + 1, n) /\ UNCHANGED <<doc, next>>

\* An opening brace or bracket is written, and its first place is open.
LEMMA BeginKeeps ==
  ASSUME WalkInv, NEW array, NEW n, depth + 1 < MaxDepth, Enters(array, n),
         NEW g, Good(doc, tape, next_tape, g, depth, open_containers, is_array),
         Fits(doc, tape, next_tape, g, ElementAt(next - 1)), depth > 0 => Count >= 1,
         next >= 1, next <= doc.n, doc.char[next - 1] = IF array THEN "lbracket" ELSE "lbrace"
  PROVE  \E h :
           /\ Good(doc', tape', next_tape', h, depth', open_containers', is_array')
           /\ \A y : Starts(doc, y, next_tape, next - 1) => Fits(doc', tape', next_tape', h, y)
<1>0. /\ doc.n \in Nat \ {0} /\ next_tape \in Nat \ {0} /\ depth \in Nat /\ next \in Nat
      /\ open_containers[depth].tape_index \in Nat /\ open_containers[depth].count \in Nat
  BY Places
<1>2. PICK x : x = ElementAt(next - 1)
  OBVIOUS
<1>3. /\ x \in Info /\ x.place = next - 1 /\ x.place < doc.n
      /\ x.scope = open_containers[depth].tape_index
      /\ depth > 0 => x.ord + 1 = open_containers[depth].count
  BY <1>0, <1>2 DEF ElementAt, Here, ItemAt, RoleIn, Info, Role, Count
<1>4. depth + 1 \in 0 .. MaxDepth - 1
  BY <1>0, DepthAssumption
<1>5. /\ is_array \in [0 .. MaxDepth - 1 -> BOOLEAN]
      /\ open_containers \in [0 .. MaxDepth - 1 -> [tape_index : Nat, count : Nat]]
  BY DEF WalkInv, WalkTypeOK
<1>6. /\ Append1(Unwritten)
      /\ open_containers' = [open_containers EXCEPT ![depth + 1] = [tape_index |-> next_tape, count |-> n]]
  BY DEF Enters, start_container
<1>7. /\ next_tape' = next_tape + 1 /\ Same(tape', tape, 0 .. next_tape - 1)
      /\ tape'[next_tape].type = "unwritten"
  BY <1>0, <1>6, AppendedOne DEF Unwritten
<1>8. Same(tape', tape, 1 .. next_tape - 1)
  BY <1>0, <1>7 DEF Same
<1>9. \A k \in 0 .. depth : k \in 0 .. MaxDepth - 1 /\ k # depth + 1
  BY <1>0, <1>4, DepthAssumption
<1>10. open_containers'[depth + 1].tape_index = next_tape
  BY <1>4, <1>5, <1>6
<1>11. \A k \in 0 .. depth : open_containers'[k] = open_containers[k]
  BY <1>5, <1>6, <1>9
<1>12. is_array'[depth + 1] = array /\ \A k \in 0 .. depth : is_array'[k] = is_array[k]
  BY <1>4, <1>5, <1>9 DEF Enters
<1>13. \A k \in 1 .. depth : k \in 0 .. depth
  OBVIOUS
<1>14. Pushed(open_containers', open_containers, is_array', is_array, depth)
  BY <1>11, <1>12, <1>13 DEF Pushed
<1>15. doc.char[x.place] = IF is_array'[depth + 1] THEN "lbracket" ELSE "lbrace"
  BY <1>3, <1>12
<1>16. Fits(doc, tape, next_tape, g, x)
  BY <1>2
<1>17. PICK h : /\ Good(doc, tape', next_tape + 1, h, depth + 1, open_containers', is_array')
                /\ h[next_tape] = x
                /\ \A y : Starts(doc, y, next_tape, x.place) => Fits(doc, tape', next_tape + 1, h, y)
  BY <1>0, <1>3, <1>7, <1>8, <1>10, <1>14, <1>15, <1>16, Unclosed, SMTT(20)
<1>18. doc' = doc /\ depth' = depth + 1
  BY DEF Enters
<1> QED BY <1>3, <1>7, <1>17, <1>18

LEMMA ObjectBeginKeeps ==
  ASSUME WalkInv, Running, LayoutInv, ObjectBegin, error' = "none", next' <= doc.n
  PROVE  LayoutInv'
<1>1. /\ pc = "object_begin" /\ depth + 1 < MaxDepth /\ depth' = depth + 1
      /\ is_array' = [is_array EXCEPT ![depth + 1] = FALSE]
      /\ start_container(depth + 1, 0) /\ pc' = "first_key"
      /\ UNCHANGED <<doc, next, string_loc>>
  BY DEF ObjectBegin, Fail
<1>2. next <= doc.n /\ pc # "done"
  BY <1>1
<1>3. string_loc = Taken(doc)[next]
  BY <1>2, Began
<1>4. PICK g : /\ Good(doc, tape, next_tape, g, depth, open_containers, is_array)
               /\ Spot(doc, tape, next_tape, g)
  BY <1>2, Began
<1>5. PICK h : /\ Good(doc', tape', next_tape', h, depth', open_containers', is_array')
               /\ \A y : Starts(doc, y, next_tape, next - 1) => Fits(doc', tape', next_tape', h, y)
  <2>1. Enters(FALSE, 0)
    BY <1>1 DEF Enters
  <2>2. /\ next >= 1 /\ doc.char[next - 1] = IF FALSE THEN "lbracket" ELSE "lbrace"
        /\ depth > 0 => Count >= 1
        /\ Fits(doc, tape, next_tape, g, ElementAt(next - 1))
    BY <1>1, <1>4 DEF Spot
  <2> QED BY <1>1, <1>2, <1>4, <2>1, <2>2, BeginKeeps
<1>6. /\ open_containers'[depth'] = [tape_index |-> next_tape, count |-> 0] /\ is_array'[depth'] = FALSE
      /\ depth' # 0 /\ next \in Nat /\ next >= 1 /\ doc.char[next - 1] = "lbrace"
  <2>1. depth + 1 \in 0 .. MaxDepth - 1 /\ depth \in Nat /\ next \in Nat
    BY <1>1, Places, DepthAssumption
  <2>2. /\ is_array \in [0 .. MaxDepth - 1 -> BOOLEAN]
        /\ open_containers \in [0 .. MaxDepth - 1 -> [tape_index : Nat, count : Nat]]
    BY DEF WalkInv, WalkTypeOK
  <2>3. next >= 1 /\ doc.char[next - 1] = "lbrace"
    BY <1>1, <1>4 DEF Spot
  <2> QED BY <1>1, <2>1, <2>2, <2>3 DEF start_container
<1>7. PICK y : y = [Here(next, "key")' EXCEPT !.ord = 0]
  OBVIOUS
<1>8. y.scope = next_tape /\ y.place = next /\ y.ord = 0 /\ y.role = "key"
  BY <1>1, <1>6, <1>7 DEF Here, ItemAt
<1>9. doc.char[next] = "string" => Fits(doc', tape', next_tape', h, y)
  <2>1. (next - 1) + 1 = next
    BY <1>6
  <2>2. doc.char[next] = "string" => Starts(doc, y, next_tape, next - 1)
    BY <1>6, <1>8, <2>1 DEF Starts, Closing
  <2> QED BY <1>5, <2>2
<1>10. Top' = next_tape'
  BY <1>1 DEF Top
<1>11. Spot(doc, tape, Top, h)'
  BY <1>1, <1>6, <1>7, <1>9, <1>10 DEF Spot, Count
<1> QED BY <1>1, <1>3, <1>5, <1>10, <1>11 DEF LayoutInv, LayoutOf

LEMMA ArrayBeginKeeps ==
  ASSUME WalkInv, Running, LayoutInv, ArrayBegin, error' = "none", next' <= doc.n
  PROVE  LayoutInv'
<1>1. /\ pc = "array_begin" /\ depth + 1 < MaxDepth /\ depth' = depth + 1
      /\ is_array' = [is_array EXCEPT ![depth + 1] = TRUE]
      /\ start_container(depth + 1, 1) /\ pc' = "array_value"
      /\ UNCHANGED <<doc, next, string_loc>>
  BY DEF ArrayBegin, Fail
<1>2. next <= doc.n /\ pc # "done"
  BY <1>1
<1>3. string_loc = Taken(doc)[next]
  BY <1>2, Began
<1>4. PICK g : /\ Good(doc, tape, next_tape, g, depth, open_containers, is_array)
               /\ Spot(doc, tape, next_tape, g)
  BY <1>2, Began
<1>5. PICK h : /\ Good(doc', tape', next_tape', h, depth', open_containers', is_array')
               /\ \A y : Starts(doc, y, next_tape, next - 1) => Fits(doc', tape', next_tape', h, y)
  <2>1. Enters(TRUE, 1)
    BY <1>1 DEF Enters
  <2>2. /\ next >= 1 /\ doc.char[next - 1] = IF TRUE THEN "lbracket" ELSE "lbrace"
        /\ depth > 0 => Count >= 1
        /\ Fits(doc, tape, next_tape, g, ElementAt(next - 1))
    BY <1>1, <1>4 DEF Spot
  <2> QED BY <1>1, <1>2, <1>4, <2>1, <2>2, BeginKeeps
<1>6. /\ open_containers'[depth'] = [tape_index |-> next_tape, count |-> 1] /\ is_array'[depth'] = TRUE
      /\ depth' # 0 /\ next \in Nat /\ next >= 1 /\ doc.char[next - 1] = "lbracket"
  <2>1. depth + 1 \in 0 .. MaxDepth - 1 /\ depth \in Nat /\ next \in Nat
    BY <1>1, Places, DepthAssumption
  <2>2. /\ is_array \in [0 .. MaxDepth - 1 -> BOOLEAN]
        /\ open_containers \in [0 .. MaxDepth - 1 -> [tape_index : Nat, count : Nat]]
    BY DEF WalkInv, WalkTypeOK
  <2>3. next >= 1 /\ doc.char[next - 1] = "lbracket"
    BY <1>1, <1>4 DEF Spot
  <2> QED BY <1>1, <2>1, <2>2, <2>3 DEF start_container
<1>7. PICK y : y = ElementAt(next)'
  OBVIOUS
<1>8. y.scope = next_tape /\ y.place = next /\ y.ord = 0 /\ y.role = "item"
  BY <1>1, <1>6, <1>7 DEF ElementAt, Here, ItemAt, RoleIn
<1>9. doc.char[next] \notin Closing => Fits(doc', tape', next_tape', h, y)
  <2>1. (next - 1) + 1 = next
    BY <1>6
  <2>2. doc.char[next] \notin Closing => Starts(doc, y, next_tape, next - 1)
    BY <1>6, <1>8, <2>1 DEF Starts
  <2> QED BY <1>5, <2>2
<1>10. Top' = next_tape'
  BY <1>1 DEF Top
<1>11. Spot(doc, tape, Top, h)'
  BY <1>1, <1>6, <1>7, <1>9, <1>10 DEF Spot, Count
<1> QED BY <1>1, <1>3, <1>5, <1>10, <1>11 DEF LayoutInv, LayoutOf


\* A key, the counts being those of others by then.
LEMMA KeyKeeps ==
  ASSUME WalkInv, NEW g, Good(doc, tape, next_tape, g, depth, open_containers, is_array),
         depth > 0, ~is_array[depth], Byte(next) = "string", Key, error' = "none", next' <= doc.n,
         SameStack(open_containers', open_containers, depth),
         open_containers'[depth].count \in Nat \ {0},
         open_containers'[depth].tape_index = open_containers[depth].tape_index,
         string_loc = Taken(doc)[next],
         NEW x, x = ItemAt(depth, open_containers', next, "key"), Fits(doc, tape, next_tape, g, x)
  PROVE  LayoutInv'
<1>0. /\ doc.n \in Nat \ {0} /\ next_tape \in Nat \ {0} /\ depth \in Nat /\ next \in Nat
      /\ open_containers[depth].tape_index \in Nat
  BY Places
<1>1. visit_string(next) /\ Advanced(next, "object_field") /\ Frame
  BY DEF Key, refuse_scalar
<1>2. /\ doc' = doc /\ depth' = depth /\ is_array' = is_array
      /\ next' = next + 1 /\ next' - 1 = next /\ next' >= 1 /\ pc' = "object_field"
  BY <1>0, <1>1 DEF Frame, Advanced
<1>3. next \in 0 .. doc.n - 1 /\ visit_scalar(next)
  BY <1>0, <1>1, <1>2 DEF visit_scalar
<1>4. x \in Info /\ x.place = next /\ x.role # "end"
  BY <1>0 DEF ItemAt, Info, Role
<1>5. /\ Same(tape', tape, 1 .. next_tape - 1) /\ next_tape' = Grown(tape', next_tape)
      /\ Spells(doc, tape', next_tape', next_tape, x) /\ tape'[next_tape].type \in Scalar
      /\ string_loc' = Taken(doc)[next + 1]
  BY <1>3, <1>4, ScalarWritten
<1>6. PICK h : Ended(doc, tape', next_tape', h, depth, open_containers', is_array, next, "key")
  BY <1>0, <1>4, <1>5, ScalarAppended
<1>7. /\ Good(doc', tape', next_tape', h, depth', open_containers', is_array')
      /\ Trail(doc', tape', next_tape', h, Here(next - 1, "key")')
  BY <1>2, <1>6 DEF Ended, Here
<1>8. Top' = next_tape'
  BY <1>2 DEF Top
<1>9. Count' >= 1 /\ ~is_array'[depth']
  BY <1>2 DEF Count
<1>10. Spot(doc, tape, Top, h)'
  BY <1>2, <1>7, <1>8, <1>9 DEF Spot
<1>11. string_loc' = Taken(doc')[next']
  BY <1>2, <1>5
<1> QED BY <1>2, <1>7, <1>8, <1>10, <1>11 DEF LayoutInv, LayoutOf

LEMMA FirstKeyKeeps ==
  ASSUME WalkInv, Running, LayoutInv, FirstKey, error' = "none", next' <= doc.n
  PROVE  LayoutInv'
<1>1. pc = "first_key" /\ Byte(next) = "string" /\ increment_count /\ Key
  BY DEF FirstKey, Fail
<1>2. visit_string(next) /\ Advanced(next, "object_field")
  BY <1>1 DEF Key, refuse_scalar
<1>3. /\ doc.n \in Nat \ {0} /\ depth \in Nat /\ next \in Nat /\ next \in 0 .. doc.n - 1
      /\ pc # "done" /\ next <= doc.n /\ depth > 0
  BY <1>1, <1>2, Places DEF Advanced, WalkInv, PlaceInv, Inside
<1>4. string_loc = Taken(doc)[next]
  BY <1>3, Began
<1>5. PICK g : /\ Good(doc, tape, next_tape, g, depth, open_containers, is_array)
               /\ Spot(doc, tape, next_tape, g)
  BY <1>3, Began
<1>6. Count = 0 /\ ~is_array[depth]
        /\ (doc.char[next] = "string" => Fits(doc, tape, next_tape, g, [Here(next, "key") EXCEPT !.ord = 0]))
  BY <1>1, <1>5 DEF Spot
<1>7. doc.char[next] = "string"
  BY <1>1, <1>3, Places
<1>8. /\ open_containers'[depth].count = 1
      /\ \A k \in 0 .. depth : open_containers'[k].tape_index = open_containers[k].tape_index
      /\ \A k \in 1 .. depth - 1 : open_containers'[k].count = open_containers[k].count
  <2>1. /\ open_containers \in [0 .. MaxDepth - 1 -> [tape_index : Nat, count : Nat]]
        /\ depth \in 0 .. MaxDepth - 1
    BY DEF WalkInv, WalkTypeOK
  <2>2. open_containers' = [open_containers EXCEPT ![depth].count = @ + 1]
    BY <1>1 DEF increment_count
  <2>3. \A k \in 0 .. depth : k \in 0 .. MaxDepth - 1
    BY <2>1, DepthAssumption
  <2>4. \A k \in 1 .. depth - 1 : k \in 0 .. MaxDepth - 1 /\ k # depth
    BY <2>1, DepthAssumption
  <2>5. open_containers'[depth].count = 1
    BY <1>6, <2>1, <2>2 DEF Count
  <2>6. \A k \in 0 .. depth : open_containers'[k].tape_index = open_containers[k].tape_index
    BY <2>1, <2>2, <2>3
  <2> QED BY <2>1, <2>2, <2>4, <2>5, <2>6
<1>9. SameStack(open_containers', open_containers, depth)
        /\ open_containers'[depth].tape_index = open_containers[depth].tape_index
  <2>1. depth \in 0 .. depth
    BY <1>3
  <2> QED BY <2>1, <1>8 DEF SameStack
<1>10. PICK x : x = ItemAt(depth, open_containers', next, "key")
  OBVIOUS
<1>11. x = [Here(next, "key") EXCEPT !.ord = 0]
  BY <1>3, <1>8, <1>9, <1>10 DEF Here, ItemAt
<1>12. Fits(doc, tape, next_tape, g, x)
  BY <1>6, <1>7, <1>11
<1>13. open_containers'[depth].count \in Nat \ {0}
  BY <1>8
<1> QED BY <1>1, <1>3, <1>4, <1>5, <1>6, <1>9, <1>10, <1>12, <1>13, KeyKeeps

LEMMA NextKeyKeeps ==
  ASSUME WalkInv, Running, LayoutInv, NextKey, error' = "none", next' <= doc.n
  PROVE  LayoutInv'
<1>1. pc = "next_key" /\ Byte(next) = "string" /\ Key /\ open_containers' = open_containers
  BY DEF NextKey, Fail
<1>2. visit_string(next) /\ Advanced(next, "object_field")
  BY <1>1 DEF Key, refuse_scalar
<1>3. /\ doc.n \in Nat \ {0} /\ depth \in Nat /\ next \in Nat /\ next \in 0 .. doc.n - 1
      /\ pc # "done" /\ next <= doc.n /\ depth > 0
  BY <1>1, <1>2, Places DEF Advanced, WalkInv, PlaceInv, Inside, Expecting
<1>4. string_loc = Taken(doc)[next]
  BY <1>3, Began
<1>5. PICK g : /\ Good(doc, tape, next_tape, g, depth, open_containers, is_array)
               /\ Spot(doc, tape, next_tape, g)
  BY <1>3, Began
<1>6. Count >= 1 /\ ~is_array[depth]
        /\ (doc.char[next] = "string" => Fits(doc, tape, next_tape, g, Here(next, "key")))
  BY <1>1, <1>5 DEF Spot
<1>7. doc.char[next] = "string"
  BY <1>1, <1>3, Places
<1>8. SameStack(open_containers', open_containers, depth)
        /\ open_containers'[depth].tape_index = open_containers[depth].tape_index
        /\ open_containers'[depth].count \in Nat \ {0}
  BY <1>1, <1>6, Places DEF SameStack, Count
<1>9. PICK x : x = ItemAt(depth, open_containers', next, "key")
  OBVIOUS
<1>10. Fits(doc, tape, next_tape, g, x)
  BY <1>1, <1>6, <1>7, <1>9 DEF Here
<1> QED BY <1>1, <1>3, <1>4, <1>5, <1>6, <1>8, <1>9, <1>10, KeyKeeps

\* A colon, and the value behind it.
LEMMA ObjectFieldKeeps ==
  ASSUME WalkInv, Running, LayoutInv, ObjectField, error' = "none", next' <= doc.n
  PROVE  LayoutInv'
<1>1. pc = "object_field" /\ Byte(next) = "colon" /\ Value(next + 1, "object_continue")
  BY DEF ObjectField, Fail
<1>2. /\ doc.n \in Nat \ {0} /\ depth \in Nat \ {0} /\ next \in 1 .. doc.n - 1 /\ next + 1 \in Nat
      /\ next_tape \in Nat \ {0} /\ pc # "done" /\ next <= doc.n
  BY <1>1, Places DEF WalkInv, PlaceInv, Inside
<1>3. string_loc = Taken(doc)[next]
  BY <1>2, Began
<1>4. PICK g : /\ Good(doc, tape, next_tape, g, depth, open_containers, is_array)
               /\ Spot(doc, tape, next_tape, g)
  BY <1>2, Began
<1>5. Count >= 1 /\ ~is_array[depth] /\ Trail(doc, tape, next_tape, g, Here(next - 1, "key"))
  BY <1>1, <1>4 DEF Spot
<1>6. Byte(next + 1) \in Scalar \cup Opening /\ next + 1 < next'
  BY <1>1, <1>2 DEF Value, Fail, refuse_scalar, Advanced
<1>7. next + 1 \in 0 .. doc.n - 1 /\ next \in 0 .. doc.n - 1
  <2>1. next' \in Nat
    BY <1>1, <1>2 DEF Value, Fail, refuse_scalar, Advanced
  <2> QED BY <1>2, <1>6, <2>1
<1>8. doc.char[next] = "colon" /\ doc.char[next + 1] \notin Closing
  BY <1>1, <1>6, <1>7, Places DEF Scalar, Opening, Closing
<1>9. PICK x : x = ElementAt(next + 1)
  OBVIOUS
<1>10. PICK y : y = Here(next - 1, "key")
  OBVIOUS
<1>11. /\ y.place = next - 1 /\ y.role = "key" /\ y.scope = open_containers[depth].tape_index
       /\ x.place = next + 1 /\ x.role = "value" /\ x.scope = open_containers[depth].tape_index
       /\ x.ord = y.ord
  BY <1>2, <1>5, <1>9, <1>10 DEF ElementAt, Here, ItemAt, RoleIn
<1>12. Leads(doc, y.place, y.role, y.ord, x)
  <2>1. x.place = y.place + 2 /\ y.place + 1 = next
    BY <1>2, <1>11
  <2> QED BY <1>8, <1>11, <2>1 DEF Leads
<1>13. Trail(doc, tape, next_tape, g, y)
  BY <1>5, <1>10
<1>14. Fits(doc, tape, next_tape, g, x)
  BY <1>2, <1>4, <1>5, <1>8, <1>11, <1>12, <1>13, TrailFits
<1>15. string_loc = Taken(doc)[next + 1]
  <2>1. Takes(doc, next) = 0
    BY <1>8 DEF Takes
  <2>2. next \in 0 .. doc.n
    BY <1>2
  <2>3. Taken(doc)[next + 1] = Taken(doc)[next] + 0 /\ Taken(doc)[next] \in Nat
    BY <1>7, <2>1, <2>2, Places
  <2> QED BY <1>3, <2>3
<1>16. "object_continue" = ContinueAt(depth, is_array)
  BY <1>2, <1>5 DEF ContinueAt
<1>17. Fits(doc, tape, next_tape, g, ElementAt(next + 1)) /\ (depth > 0 => Count >= 1)
  BY <1>5, <1>9, <1>14
<1> QED BY <1>1, <1>2, <1>4, <1>15, <1>16, <1>17, ValueKeeps

LEMMA ArrayValueKeeps ==
  ASSUME WalkInv, Running, LayoutInv, ArrayValue, error' = "none", next' <= doc.n
  PROVE  LayoutInv'
<1>1. pc = "array_value" /\ Value(next, "array_continue")
  BY DEF ArrayValue
<1>2. doc.n \in Nat \ {0} /\ depth \in Nat \ {0} /\ next \in Nat /\ pc # "done"
  BY <1>1, Places DEF WalkInv, PlaceInv, Inside, Expecting
<1>3. Byte(next) \in Scalar \cup Opening /\ next < next' /\ next' \in Nat
  BY <1>1, <1>2 DEF Value, Fail, refuse_scalar, Advanced
<1>4. next \in 0 .. doc.n - 1 /\ next <= doc.n
  BY <1>2, <1>3
<1>5. doc.char[next] \notin Closing
  BY <1>3, <1>4, Places DEF Scalar, Opening, Closing
<1>6. string_loc = Taken(doc)[next]
  BY <1>2, <1>4, Began
<1>7. PICK g : /\ Good(doc, tape, next_tape, g, depth, open_containers, is_array)
               /\ Spot(doc, tape, next_tape, g)
  BY <1>2, <1>4, Began
<1>8. Count >= 1 /\ is_array[depth] /\ Fits(doc, tape, next_tape, g, ElementAt(next))
  BY <1>1, <1>5, <1>7 DEF Spot
<1>9. "array_continue" = ContinueAt(depth, is_array)
  BY <1>2, <1>8 DEF ContinueAt
<1> QED BY <1>1, <1>2, <1>6, <1>7, <1>8, <1>9, ValueKeeps

\* What may follow the element in front of next.
LEMMA NextFits ==
  ASSUME WalkInv, NEW g, Good(doc, tape, next_tape, g, depth, open_containers, is_array),
         depth \in Nat \ {0}, next \in 1 .. doc.n, Count >= 1,
         Trail(doc, tape, next_tape, g, ElementAt(next - 1)),
         NEW x, x.scope = open_containers[depth].tape_index, x.ord = Count,
         \/ x.role = "end" /\ x.place = next /\ doc.char[next] \in Closing
         \/ /\ x.role = (IF is_array[depth] THEN "item" ELSE "key")
            /\ x.place = next + 1 /\ doc.char[next] = "comma"
            /\ doc.char[next + 1] \notin Closing
            /\ (~is_array[depth] => doc.char[next + 1] = "string")
  PROVE  Fits(doc, tape, next_tape, g, x)
<1>0. next_tape \in Nat \ {0} /\ Count \in Nat /\ doc.n \in Nat
  BY Places DEF Count
<1>1. PICK y : y = ElementAt(next - 1)
  OBVIOUS
<1>2. /\ y.place = next - 1 /\ y.scope = open_containers[depth].tape_index
      /\ y.ord = Count - 1 /\ y.role = IF is_array[depth] THEN "item" ELSE "value"
  BY <1>1 DEF ElementAt, Here, ItemAt, RoleIn, Count
<1>3. y.place + 1 = next /\ y.place + 2 = next + 1 /\ x.ord = y.ord + 1
  BY <1>0, <1>2
<1>4. Leads(doc, y.place, y.role, y.ord, x)
  BY <1>2, <1>3 DEF Leads
<1>5. x.role \in IF is_array[depth] THEN {"item", "end"} ELSE {"key", "value", "end"}
  OBVIOUS
<1>6. x.role = "end" <=> doc.char[x.place] \in Closing
  OBVIOUS
<1>7. x.role = "key" => doc.char[x.place] = "string"
  OBVIOUS
<1>8. Trail(doc, tape, next_tape, g, y) /\ x.scope = y.scope /\ y.scope = open_containers[depth].tape_index
  BY <1>1, <1>2
<1> QED BY <1>0, <1>4, <1>5, <1>6, <1>7, <1>8, TrailFits

\* A comma is counted, and the place of what follows it is open.
LEMMA CommaKeeps ==
  ASSUME WalkInv, Running, LayoutInv, pc \in {"object_continue", "array_continue"},
         Byte(next) = "comma", increment_count,
         Advanced(next, IF pc = "array_continue" THEN "array_value" ELSE "next_key"), Frame,
         UNCHANGED <<tape, next_tape, string_loc>>, error' = "none", next' <= doc.n
  PROVE  LayoutInv'
<1>1. /\ doc' = doc /\ depth' = depth /\ is_array' = is_array /\ tape' = tape /\ next_tape' = next_tape
      /\ string_loc' = string_loc /\ next' = next + 1
      /\ pc' = IF pc = "array_continue" THEN "array_value" ELSE "next_key"
  BY DEF Frame, Advanced
<1>2. /\ doc.n \in Nat \ {0} /\ depth \in Nat \ {0} /\ next \in Nat
      /\ next_tape \in Nat \ {0} /\ pc # "done" /\ Count \in Nat
  BY Places DEF WalkInv, PlaceInv, Inside, Continues, Count
<1>3. next <= doc.n /\ next \in 0 .. doc.n - 1 /\ next \in 0 .. doc.n
  BY <1>1, <1>2
<1>4. string_loc = Taken(doc)[next]
  BY <1>2, <1>3, Began
<1>5. PICK g : /\ Good(doc, tape, next_tape, g, depth, open_containers, is_array)
               /\ Spot(doc, tape, next_tape, g)
  BY <1>2, <1>3, Began
<1>6. /\ Count >= 1 /\ next >= 1 /\ (is_array[depth] <=> pc = "array_continue")
      /\ Trail(doc, tape, next_tape, g, ElementAt(next - 1))
  BY <1>5 DEF Spot
<1>7. doc.char[next] = "comma"
  BY <1>3, Places
<1>8. /\ open_containers'[depth].count = Count + 1
      /\ \A k \in 0 .. depth : open_containers'[k].tape_index = open_containers[k].tape_index
      /\ \A k \in 1 .. depth - 1 : open_containers'[k].count = open_containers[k].count
  <2>1. /\ open_containers \in [0 .. MaxDepth - 1 -> [tape_index : Nat, count : Nat]]
        /\ depth \in 0 .. MaxDepth - 1
    BY DEF WalkInv, WalkTypeOK
  <2>2. open_containers' = [open_containers EXCEPT ![depth].count = @ + 1]
    BY DEF increment_count
  <2>3. \A k \in 0 .. depth : k \in 0 .. MaxDepth - 1
    BY <2>1, DepthAssumption
  <2>4. \A k \in 1 .. depth - 1 : k \in 0 .. MaxDepth - 1 /\ k # depth
    BY <2>1, DepthAssumption
  <2>5. open_containers'[depth].count = Count + 1
    BY <2>1, <2>2 DEF Count
  <2>6. \A k \in 0 .. depth : open_containers'[k].tape_index = open_containers[k].tape_index
    BY <2>1, <2>2, <2>3
  <2> QED BY <2>1, <2>2, <2>4, <2>5, <2>6
<1>9. open_containers'[depth].tape_index = open_containers[depth].tape_index
  <2>1. depth \in 0 .. depth
    BY <1>2
  <2> QED BY <2>1, <1>8
<1>10. Good(doc, tape, next_tape, g, depth, open_containers', is_array)
  <2>1. /\ g \in [Nat -> Info] /\ Layout(doc, tape, next_tape, g)
        /\ Stack(doc, tape, next_tape, g, depth, open_containers, is_array)
    BY <1>5 DEF Good
  <2>2. /\ \A k \in 1 .. depth : /\ open_containers[k].tape_index \in Heads(tape, next_tape)
                                 /\ tape[open_containers[k].tape_index].type = "unwritten"
        /\ \A k \in depth + 1 .. depth : FALSE
    BY <1>2, <2>1 DEF Stack
  <2>3. Stack(doc, tape, next_tape, g, depth, open_containers', is_array)
    BY <1>2, <1>8, <2>1, <2>2, StackKept
  <2> QED BY <2>1, <2>3 DEF Good
<1>11. Good(doc', tape', next_tape', g, depth', open_containers', is_array')
  BY <1>1, <1>10
<1>12. Top' = next_tape /\ next' >= 1 /\ Count' = Count + 1
  BY <1>1, <1>2, <1>8 DEF Top, Count
<1>13. string_loc' = Taken(doc')[next']
  <2>1. Takes(doc, next) = 0
    BY <1>7 DEF Takes
  <2>2. Taken(doc)[next + 1] = Taken(doc)[next] + 0 /\ Taken(doc)[next] \in Nat
    BY <1>3, <2>1, Places
  <2> QED BY <1>1, <1>4, <2>2
<1>14. PICK r : r = IF pc = "array_continue" THEN "item" ELSE "key"
  OBVIOUS
<1>15. PICK x : x = Here(next, r)'
  OBVIOUS
<1>16. /\ x.scope = open_containers[depth].tape_index /\ x.ord = Count /\ x.place = next + 1
       /\ x.role = IF is_array[depth] THEN "item" ELSE "key"
  BY <1>1, <1>2, <1>6, <1>8, <1>9, <1>14, <1>15 DEF Here, ItemAt
<1>17. doc.char[next + 1] \notin Closing /\ (~is_array[depth] => doc.char[next + 1] = "string") =>
         Fits(doc, tape, next_tape, g, x)
  <2>1. next \in 1 .. doc.n
    BY <1>3, <1>6
  <2> QED BY <1>2, <1>5, <1>6, <1>7, <1>16, <2>1, NextFits
<1>18. CASE pc = "array_continue"
  <2>1. pc' = "array_value" /\ is_array[depth]
    BY <1>1, <1>6, <1>18
  <2>2. x = ElementAt(next)'
    BY <1>1, <1>2, <1>14, <1>15, <1>18, <2>1 DEF ElementAt, Here, RoleIn
  <2>3. doc'.char[next'] \notin Closing => Fits(doc', tape', Top', g, ElementAt(next)')
    BY <1>1, <1>12, <1>17, <2>1, <2>2
  <2>4. Count' >= 1 /\ is_array'[depth']
    BY <1>1, <1>2, <1>12, <2>1
  <2>5. Spot(doc, tape, Top, g)'
    BY <2>1, <2>3, <2>4 DEF Spot
  <2> QED BY <1>1, <1>11, <1>12, <1>13, <2>1, <2>5 DEF LayoutInv, LayoutOf
<1>19. CASE pc = "object_continue"
  <2>1. pc' = "next_key" /\ ~is_array[depth]
    BY <1>1, <1>6, <1>19
  <2>2. x = Here(next, "key")'
    BY <1>14, <1>15, <1>19
  <2>3. doc'.char[next'] = "string" => Fits(doc', tape', Top', g, Here(next, "key")')
    BY <1>1, <1>12, <1>17, <2>2 DEF Closing
  <2>4. Count' >= 1 /\ ~is_array'[depth']
    BY <1>1, <1>2, <1>12, <2>1
  <2>5. Spot(doc, tape, Top, g)'
    BY <2>1, <2>3, <2>4 DEF Spot
  <2> QED BY <1>1, <1>11, <1>12, <1>13, <2>1, <2>5 DEF LayoutInv, LayoutOf
<1> QED BY <1>18, <1>19

\* The container that ends is an element of the one around it.
LEMMA ScopeEndKeeps ==
  ASSUME WalkInv, Running, LayoutInv, pc \in {"object_continue", "array_continue"},
         NEW start, start = (IF pc = "array_continue" THEN "lbracket" ELSE "lbrace"),
         Byte(next) = Matching(start), ScopeEnd(start), error' = "none", next' <= doc.n
  PROVE  LayoutInv'
<1>1. /\ doc' = doc /\ depth' = depth - 1 /\ is_array' = is_array /\ open_containers' = open_containers
      /\ string_loc' = string_loc /\ next' = next + 1 /\ end_container(start, Byte(next))
      /\ pc' = IF depth - 1 = 0 THEN "document_end"
               ELSE IF is_array[depth - 1] THEN "array_continue" ELSE "object_continue"
  BY DEF ScopeEnd, Advanced
<1>2. /\ doc.n \in Nat \ {0} /\ depth \in Nat \ {0} /\ next \in Nat
      /\ next_tape \in Nat \ {0} /\ pc # "done" /\ Count \in Nat
      /\ open_containers[depth].tape_index \in Nat
  BY Places DEF WalkInv, PlaceInv, Inside, Continues, Count
<1>3. next <= doc.n /\ next \in 0 .. doc.n - 1 /\ next \in 0 .. doc.n /\ next < doc.n
  BY <1>1, <1>2
<1>4. string_loc = Taken(doc)[next]
  BY <1>2, <1>3, Began
<1>5. PICK g : /\ Good(doc, tape, next_tape, g, depth, open_containers, is_array)
               /\ Spot(doc, tape, next_tape, g)
  BY <1>2, <1>3, Began
<1>6. /\ Count >= 1 /\ next >= 1 /\ (is_array[depth] <=> pc = "array_continue")
      /\ Trail(doc, tape, next_tape, g, ElementAt(next - 1))
  BY <1>5 DEF Spot
<1>7. doc.char[next] = Byte(next) /\ Byte(next) \in Closing
  BY <1>3, Places DEF Matching, Closing
<1>8. PICK x : x = [place |-> next, scope |-> open_containers[depth].tape_index, ord |-> Count, role |-> "end"]
  OBVIOUS
<1>9. /\ x \in Info /\ x.role = "end" /\ x.place = next /\ x.ord = Count
      /\ x.scope = open_containers[depth].tape_index
  BY <1>2, <1>8 DEF Info, Role
<1>10. Fits(doc, tape, next_tape, g, x)
  <2>1. next \in 1 .. doc.n
    BY <1>3, <1>6
  <2> QED BY <1>2, <1>5, <1>6, <1>7, <1>9, <2>1, NextFits
<1>11. x.scope \in 1 .. next_tape - 1 /\ doc.char[g[x.scope].place] = start
  <2>1. depth \in 1 .. depth
    BY <1>2
  <2>2. /\ x.scope \in Heads(tape, next_tape)
        /\ doc.char[g[x.scope].place] = IF is_array[depth] THEN "lbracket" ELSE "lbrace"
    BY <1>5, <1>9, <2>1 DEF Good, Stack
  <2> QED BY <1>6, <2>2 DEF Heads
<1>12. /\ next_tape' = next_tape + 1
       /\ \A i \in (0 .. next_tape - 1) \ {x.scope} : tape'[i] = tape[i]
       /\ tape'[x.scope] = Word(start, next_tape + 1, saturated(Count))
       /\ tape'[next_tape].type = Byte(next)
  <2>1. Cardinality({0}) = 1
    BY FS_Singleton
  <2> DEFINE last == [i \in {0} |-> Word(Byte(next), x.scope, 0)]
  <2>2. DOMAIN last = {0} /\ last[0].type = Byte(next)
    BY DEF Word
  <2>3. /\ tape' = [Appended(last) EXCEPT ![x.scope] = Word(start, next_tape + 1, saturated(Count))]
        /\ next_tape' = next_tape + 1
    BY <1>1, <1>9 DEF end_container, Count
  <2>4. Appended(last) = [i \in 0 .. next_tape |-> IF i < next_tape THEN tape[i] ELSE last[i - next_tape]]
    <3>1. next_tape + 1 - 1 = next_tape
      BY <1>2
    <3> HIDE DEF last
    <3> QED BY <1>2, <2>1, <2>2, <3>1 DEF Appended
  <2> HIDE DEF last
  <2>5. tape'[next_tape].type = Byte(next)
    <3>1. next_tape # x.scope /\ next_tape \in 0 .. next_tape /\ next_tape - next_tape = 0
            /\ ~(next_tape < next_tape)
      BY <1>2, <1>11
    <3> QED BY <2>2, <2>3, <2>4, <3>1
  <2>6. tape'[x.scope] = Word(start, next_tape + 1, saturated(Count))
    <3>1. x.scope \in 0 .. next_tape
      BY <1>2, <1>11
    <3> QED BY <2>3, <2>4, <3>1
  <2>7. ASSUME NEW i \in (0 .. next_tape - 1) \ {x.scope} PROVE tape'[i] = tape[i]
    <3>1. i \in 0 .. next_tape /\ i < next_tape /\ i # x.scope
      BY <1>2
    <3> QED BY <2>3, <2>4, <3>1
  <2> QED BY <2>3, <2>5, <2>6, <2>7
<1>13. Same(tape', tape, (1 .. next_tape - 1) \ {x.scope})
  BY <1>2, <1>12 DEF Same
<1>14. tape'[x.scope] = Word(doc.char[g[x.scope].place], next_tape + 1, saturated(x.ord))
  BY <1>9, <1>11, <1>12
<1>15. Spells(doc, tape', next_tape + 1, next_tape, x)
  BY <1>3, <1>7, <1>9, <1>12 DEF Spells, Closing
<1>16. depth > 1 => depth - 1 \in 1 .. depth /\ open_containers[depth - 1].count \in Nat \ {0}
  <2> SUFFICES ASSUME depth > 1
               PROVE  depth - 1 \in 1 .. depth /\ open_containers[depth - 1].count \in Nat \ {0}
    OBVIOUS
  <2>1. depth \in 1 .. depth /\ depth - 1 \in 1 .. depth
    BY <1>2
  <2>2. /\ g \in [Nat -> Info] /\ open_containers[depth].tape_index \in Nat
        /\ g[open_containers[depth].tape_index].ord + 1 = open_containers[depth - 1].count
    BY <1>2, <1>5, <2>1 DEF Good, Stack
  <2>3. g[open_containers[depth].tape_index].ord \in Nat
    BY <2>2 DEF Info
  <2> QED BY <2>1, <2>2, <2>3
<1>17. PICK h : Ended(doc, tape', next_tape + 1, h, depth - 1, open_containers, is_array, x.place,
                      RoleIn(depth - 1, is_array))
  BY <1>2, <1>5, <1>9, <1>10, <1>13, <1>14, <1>15, <1>16, Closed
<1>18. next' - 1 = next /\ next' \in Nat \ {0} /\ next_tape' \in Nat /\ depth' \in Nat
  BY <1>1, <1>2, <1>12
<1>19. Ended(doc', tape', next_tape', h, depth', open_containers', is_array', next' - 1,
              RoleIn(depth', is_array'))
  BY <1>1, <1>9, <1>12, <1>17, <1>18
<1>20. string_loc' = Taken(doc')[next']
  <2>1. Takes(doc, next) = 0
    BY <1>7 DEF Takes, Closing
  <2>2. Taken(doc)[next + 1] = Taken(doc)[next] + 0 /\ Taken(doc)[next] \in Nat
    BY <1>3, <2>1, Places
  <2> QED BY <1>1, <1>4, <2>2
<1>21. pc' = ContinueAt(depth', is_array')
  BY <1>1 DEF ContinueAt
<1>22. depth' > 0 => /\ open_containers'[depth'].count \in Nat \ {0} /\ is_array'[depth'] \in BOOLEAN
  <2>1. is_array \in [0 .. MaxDepth - 1 -> BOOLEAN] /\ depth \in 0 .. MaxDepth - 1
    BY DEF WalkInv, WalkTypeOK
  <2>2. depth - 1 \in 0 .. MaxDepth - 1
    BY <1>2, <2>1, DepthAssumption
  <2> QED BY <1>1, <1>2, <1>16, <2>1, <2>2
<1> QED BY <1>18, <1>19, <1>20, <1>21, <1>22, EndedKeeps

LEMMA ContinueKeeps ==
  ASSUME WalkInv, Running, LayoutInv, ObjectContinue \/ ArrayContinue, error' = "none", next' <= doc.n
  PROVE  LayoutInv'
<1>1. CASE ObjectContinue
  <2>1. pc = "object_continue" /\ ~Fail(next, "TAPE_ERROR")
    BY <1>1 DEF ObjectContinue, Fail
  <2>2. CASE /\ Byte(next) = "comma" /\ increment_count /\ Advanced(next, "next_key") /\ Frame
             /\ UNCHANGED <<tape, next_tape, string_loc>>
    BY <2>1, <2>2, CommaKeeps
  <2>3. CASE Byte(next) = "rbrace" /\ ScopeEnd("lbrace")
    BY <2>1, <2>3, ScopeEndKeeps DEF Matching
  <2> QED BY <1>1, <2>1, <2>2, <2>3 DEF ObjectContinue
<1>2. CASE ArrayContinue
  <2>1. pc = "array_continue" /\ ~Fail(next, "TAPE_ERROR")
    BY <1>2 DEF ArrayContinue, Fail
  <2>2. CASE /\ Byte(next) = "comma" /\ increment_count /\ Advanced(next, "array_value") /\ Frame
             /\ UNCHANGED <<tape, next_tape, string_loc>>
    BY <2>1, <2>2, CommaKeeps
  <2>3. CASE Byte(next) = "rbracket" /\ ScopeEnd("lbracket")
    BY <2>1, <2>3, ScopeEndKeeps DEF Matching
  <2> QED BY <1>2, <2>1, <2>2, <2>3 DEF ArrayContinue
<1> QED BY <1>1, <1>2

LEMMA DocumentEndKeeps ==
  ASSUME WalkInv, Running, LayoutInv, DocumentEnd, error' = "none", next' <= doc.n
  PROVE  LayoutInv'
<1>1. /\ pc = "document_end" /\ pc' = "done" /\ next = doc.n /\ next_tape' = next_tape + 1
      /\ UNCHANGED <<doc, depth, is_array, next, open_containers, string_loc>>
      /\ tape' = [Appended([i \in {0} |-> Word("root", 0, 0)]) EXCEPT ![0] = Word("root", next_tape + 1, 0)]
  BY DEF DocumentEnd, Frame
<1>2. doc.n \in Nat \ {0} /\ next_tape \in Nat \ {0} /\ next <= doc.n /\ pc # "done"
  BY <1>1, Places
<1>3. PICK g : /\ Good(doc, tape, next_tape, g, depth, open_containers, is_array)
               /\ Spot(doc, tape, next_tape, g)
  BY <1>2, Began
<1>4. /\ depth = 0 /\ next >= 1
      /\ Trail(doc, tape, next_tape, g, ElementAt(next - 1)) /\ DocumentIs(tape, next_tape)
  BY <1>1, <1>3 DEF Spot
<1>5. /\ \A i \in 1 .. next_tape - 1 : tape'[i] = tape[i]
      /\ tape'[0].type = "root" /\ tape'[next_tape].type = "root"
  <2>1. Cardinality({0}) = 1
    BY FS_Singleton
  <2> DEFINE last == [i \in {0} |-> Word("root", 0, 0)]
  <2>2. DOMAIN last = {0} /\ last[0].type = "root"
    BY DEF Word
  <2>3. tape' = [Appended(last) EXCEPT ![0] = Word("root", next_tape + 1, 0)]
    BY <1>1
  <2>4. Appended(last) = [i \in 0 .. next_tape |-> IF i < next_tape THEN tape[i] ELSE last[i - next_tape]]
    <3>1. next_tape + 1 - 1 = next_tape
      BY <1>2
    <3> HIDE DEF last
    <3> QED BY <1>2, <2>1, <2>2, <3>1 DEF Appended
  <2> HIDE DEF last
  <2>5. tape'[next_tape].type = "root"
    <3>1. next_tape # 0 /\ next_tape \in 0 .. next_tape /\ next_tape - next_tape = 0
            /\ ~(next_tape < next_tape)
      BY <1>2
    <3> QED BY <2>2, <2>3, <2>4, <3>1
  <2>6. tape'[0].type = "root"
    <3>1. 0 \in 0 .. next_tape
      BY <1>2
    <3> QED BY <2>3, <2>4, <3>1 DEF Word
  <2>7. ASSUME NEW i \in 1 .. next_tape - 1 PROVE tape'[i] = tape[i]
    <3>1. i \in 0 .. next_tape /\ i < next_tape /\ i # 0
      BY <1>2
    <3> QED BY <2>3, <2>4, <3>1
  <2> QED BY <2>5, <2>6, <2>7
<1>6. /\ Layout(doc, tape', next_tape, g) /\ Heads(tape', next_tape) = Heads(tape, next_tape)
      /\ Whole(tape', next_tape) = Whole(tape, next_tape) /\ Kept(tape, tape', next_tape, g, g)
  <2>1. Same(tape', tape, 1 .. next_tape - 1) /\ Layout(doc, tape, next_tape, g)
    BY <1>3, <1>5 DEF Same, Good
  <2> QED BY <1>2, <2>1, LayoutSame
<1>7. Top' = next_tape
  BY <1>1, <1>2 DEF Top
<1>8. \A w \in Heads(tape, next_tape) : tape'[w] = tape[w]
  BY <1>5 DEF Heads
<1>9. Good(doc', tape', Top', g, depth', open_containers', is_array')
  <2>1. Stack(doc, tape, next_tape, g, depth, open_containers, is_array)
    BY <1>3 DEF Good
  <2>2. /\ open_containers[0].tape_index = 0
        /\ \A w \in Heads(tape, next_tape) : tape[w].type # "unwritten"
    BY <1>4, <2>1 DEF Stack
  <2>3. Stack(doc, tape', next_tape, g, 0, open_containers, is_array)
    BY <1>6, <1>8, <2>2 DEF Stack
  <2> QED BY <1>1, <1>3, <1>4, <1>6, <1>7, <2>3 DEF Good
<1>10. Trail(doc, tape', next_tape, g, ElementAt(next - 1))
  BY <1>4, <1>6 DEF Trail, Kept
<1>11. DocumentIs(tape', next_tape)
  BY <1>4, <1>6 DEF DocumentIs, Kept
<1>12. ElementAt(next - 1)' = ElementAt(next - 1)
  BY <1>1 DEF ElementAt, Here, RoleIn
<1>13. Spot(doc, tape, Top, g)'
  BY <1>1, <1>4, <1>7, <1>10, <1>11, <1>12 DEF Spot
<1> QED BY <1>1, <1>5, <1>7, <1>9, <1>13 DEF LayoutInv, LayoutOf

LEMMA RunningInit == WalkInit => Running
BY DEF WalkInit, Running

LEMMA RunningNext == Running /\ [WalkNext]_walk_vars => Running'
<1> SUFFICES ASSUME Running, [WalkNext]_walk_vars
             PROVE  \/ pc' = "done" /\ error' # "none"
                    \/ pc' # "done" /\ error' = "none"
                    \/ pc' = "done" /\ next' = doc'.n
                    \/ UNCHANGED walk_vars
  BY DEF Running, walk_vars
<1> DEFINE Stops == pc' = "done" /\ error' # "none"
           Goes(after) == error' = error /\ pc' \in {after, "object_begin", "array_begin"}
<1>1. ASSUME NEW k, NEW after, Value(k, after) PROVE Stops \/ Goes(after)
  BY <1>1 DEF Value, Fail, refuse_scalar, Advanced
<1>2. ASSUME Key PROVE Stops \/ Goes("object_field")
  BY <1>2 DEF Key, refuse_scalar, Advanced
<1>3. ASSUME NEW start, ScopeEnd(start)
      PROVE  error' = error /\ pc' \in {"document_end", "array_continue", "object_continue"}
  BY <1>3 DEF ScopeEnd, Advanced
<1>4. CASE UnclosedDocument
  BY <1>4 DEF UnclosedDocument, Fail
<1>5. CASE FirstValue
  <2>1. pc = "document_start" /\ (Stops \/ Goes("document_end"))
    BY <1>1, <1>5 DEF FirstValue
  <2> QED BY <2>1 DEF Running
<1>6. CASE ObjectBegin \/ ArrayBegin
  BY <1>6 DEF ObjectBegin, ArrayBegin, Fail, Running
<1>7. CASE FirstKey \/ NextKey
  <2>1. pc \in {"first_key", "next_key"} /\ (Stops \/ Goes("object_field"))
    BY <1>2, <1>7 DEF FirstKey, NextKey, Fail
  <2> QED BY <2>1 DEF Running
<1>8. CASE ObjectField \/ ArrayValue
  <2>1. pc \in {"object_field", "array_value"} /\ (Stops \/ Goes("object_continue") \/ Goes("array_continue"))
    BY <1>1, <1>8 DEF ObjectField, ArrayValue, Fail
  <2> QED BY <2>1 DEF Running
<1>9. CASE ObjectContinue
  BY <1>3, <1>9 DEF ObjectContinue, Advanced, Fail, Running
<1>10. CASE ArrayContinue
  BY <1>3, <1>10 DEF ArrayContinue, Advanced, Fail, Running
<1>11. CASE DocumentEnd
  BY <1>11 DEF DocumentEnd, Frame
<1>12. CASE UNCHANGED walk_vars
  BY <1>12
<1> QED BY <1>4, <1>5, <1>6, <1>7, <1>8, <1>9, <1>10, <1>11, <1>12 DEF WalkNext

LEMMA LayoutInit == WalkInit => LayoutInv
<1> SUFFICES ASSUME WalkInit PROVE LayoutInv
  OBVIOUS
<1> DEFINE g == [w \in Nat |-> [place |-> 0, scope |-> 0, ord |-> 0, role |-> "item"]]
<1>1. /\ pc = "document_start" /\ next = 0 /\ depth = 0 /\ next_tape = 1 /\ string_loc = 0
      /\ open_containers[0].tape_index = 0 /\ doc.n \in Nat
  BY DocumentsAssumption, DepthAssumption DEF WalkInit, IsDocument
<1>2. g \in [Nat -> Info]
  BY DEF Info, Role
<1> HIDE DEF g
<1>3. Top = 1 /\ Heads(tape, 1) = {} /\ Whole(tape, 1) = {}
  BY <1>1 DEF Top, Heads, Whole
<1>4. Good(doc, tape, Top, g, depth, open_containers, is_array)
  BY <1>1, <1>2, <1>3 DEF Good, Layout, Stack
<1>5. Spot(doc, tape, Top, g)
  BY <1>1, <1>3 DEF Spot
<1>6. Taken(doc)[0] = 0
  BY <1>1, TakenRule
<1> QED BY <1>1, <1>4, <1>5, <1>6 DEF LayoutInv, LayoutOf

LEMMA LayoutNext ==
  WalkInv /\ Running /\ LayoutInv /\ [WalkNext]_walk_vars => LayoutInv'
<1> SUFFICES ASSUME WalkInv, Running, LayoutInv, [WalkNext]_walk_vars PROVE LayoutInv'
  OBVIOUS
<1>1. CASE UNCHANGED walk_vars
  <2>1. \A h : LayoutOf(h)' <=> LayoutOf(h)
    BY <1>1 DEF walk_vars, LayoutOf, Top, Spot, Here, ElementAt, Count
  <2> QED BY <1>1, <2>1 DEF walk_vars, LayoutInv
<1>2. CASE WalkNext
  <2>1. CASE ~(error' = "none" /\ next' <= doc'.n)
    BY <2>1 DEF LayoutInv
  <2>2. doc' = doc
    BY <1>2 DEF WalkNext, UnclosedDocument, FirstValue, Value, Fail, Frame, refuse_scalar,
                ObjectBegin, ArrayBegin, FirstKey, NextKey, Key, ObjectField, ArrayValue,
                ObjectContinue, ArrayContinue, ScopeEnd, DocumentEnd
  <2>3. CASE error' = "none" /\ next' <= doc.n
    <3>1. CASE UnclosedDocument
      BY <2>3, <3>1 DEF UnclosedDocument, Fail
    <3> QED BY <1>2, <2>3, <3>1, FirstValueKeeps, ObjectBeginKeeps, ArrayBeginKeeps, FirstKeyKeeps,
               NextKeyKeeps, ObjectFieldKeeps, ArrayValueKeeps, ContinueKeeps, DocumentEndKeeps
            DEF WalkNext
  <2> QED BY <2>1, <2>2, <2>3
<1> QED BY <1>1, <1>2

LEMMA LayoutInvariant == WalkSpec => [](WalkInv /\ Running /\ LayoutInv)
<1>1. WalkInit => WalkInv /\ Running /\ LayoutInv
  BY InitInv, RunningInit, LayoutInit
<1>2. (WalkInv /\ Running /\ LayoutInv) /\ [WalkNext]_walk_vars => (WalkInv /\ Running /\ LayoutInv)'
  BY NextInv, RunningNext, LayoutNext
<1> QED BY <1>1, <1>2, PTL DEF WalkSpec

-----------------------------------------------------------------------------
(* What is read of a document that was parsed.                             *)

\* Met, with f for what it is of later places.
Meets(f, i, j) ==
  LET v    == ValueAt(i, j)
      rest == f[[of |-> i, at |-> after_element(v)]]
  IN IF j = end(i)      THEN [size |-> 0, text |-> Mark(tape[j].type)]
     ELSE IF Lost(i, j) THEN [size |-> 0, text |-> Mark("lost")]
     ELSE [size |-> rest.size + 1,
           text |-> Lead(i, j) \o Element(v, f[[of |-> v, at |-> begin(v)]].text) \o rest.text]

\* A tape of 0 .. T, whose elements end at numbers.
Ends(T) == T \in Nat /\ DOMAIN tape = 0 .. T /\ \A i \in 0 .. T : after_element(i) \in Nat

Agree(f, h, i, j) == ~Lost(i, j) => \A s \in Readings : s.at > j => f[s] = h[s]

\* It looks at later places only.
LEMMA MeetsLocal ==
  ASSUME NEW T, Ends(T), NEW i \in 0 .. T, NEW j \in Nat, NEW f, NEW h, Agree(f, h, i, j)
  PROVE  Meets(f, i, j) = Meets(h, i, j)
<1> USE DEF Ends
<1>1. CASE j = end(i) \/ Lost(i, j)
  BY <1>1 DEF Meets
<1>2. CASE j # end(i) /\ ~Lost(i, j)
  <2>1. PICK v : v = ValueAt(i, j)
    OBVIOUS
  <2>2. v \in {j, j + 1} /\ v \in 0 .. T /\ after_element(v) \in j + 1 .. end(i)
    BY <1>2, <2>1 DEF Lost, ValueAt
  <2>3. end(i) \in Int
    BY DEF end
  <2>4. after_element(v) \in Nat /\ after_element(v) > j
    BY <2>2, <2>3
  <2>5. begin(v) \in Nat /\ begin(v) > j
    BY <2>2 DEF begin
  <2>6. PICK s : s = [of |-> i, at |-> after_element(v)]
    OBVIOUS
  <2>7. PICK t : t = [of |-> v, at |-> begin(v)]
    OBVIOUS
  <2>8. s \in Readings /\ s.at > j /\ t \in Readings /\ t.at > j
    BY <2>2, <2>4, <2>5, <2>6, <2>7 DEF Readings
  <2>9. f[s] = h[s] /\ f[t] = h[t]
    BY <1>2, <2>8 DEF Agree
  <2>10. /\ f[[of |-> i, at |-> after_element(v)]] = h[[of |-> i, at |-> after_element(v)]]
         /\ f[[of |-> v, at |-> begin(v)]] = h[[of |-> v, at |-> begin(v)]]
    BY <2>6, <2>7, <2>9, Zenon
  <2> QED BY <1>2, <2>1, <2>10, Zenon DEF Meets
<1> QED BY <1>1, <1>2

\* So there is what it says.
LEMMA MetRule ==
  ASSUME NEW T, Ends(T), NEW i \in 0 .. T, NEW j \in Nat
  PROVE  Met[[of |-> i, at |-> j]] = Meets(Met, i, j)
<1> DEFINE Turns(f, m) == \A s \in Readings : s.at + m > T => f[s] = Meets(f, s.of, s.at)
           S == {m \in Nat : \E f : f = [s \in Readings |-> f[s]] /\ Turns(f, m)}
<1>t. T \in Nat /\ DOMAIN tape = 0 .. T
  BY DEF Ends
<1>0. \A s \in Readings : s.of \in 0 .. T /\ s.at \in Nat
  BY <1>t DEF Readings
<1>1. 0 \in S
  <2> DEFINE none == [s \in Readings |-> [size |-> 0, text |-> <<>>]]
             h == [s \in Readings |-> Meets(none, s.of, s.at)]
  <2>1. ASSUME NEW s \in Readings, s.at + 0 > T PROVE h[s] = Meets(h, s.of, s.at)
    <3>1. s.of \in 0 .. T /\ s.at \in Nat
      BY <1>0
    <3>2. Lost(s.of, s.at)
      <4>1. s.at \notin 0 .. T
        BY <1>t, <2>1, <3>1
      <4> QED BY <1>t, <4>1 DEF Lost
    <3>3. h[s] = Meets(none, s.of, s.at)
      BY Zenon
    <3> HIDE DEF h, none
    <3>4. Agree(none, h, s.of, s.at)
      BY <3>2 DEF Agree
    <3>5. Meets(none, s.of, s.at) = Meets(h, s.of, s.at)
      BY <3>1, <3>4, MeetsLocal
    <3> QED BY <3>3, <3>5
  <2>2. h = [s \in Readings |-> h[s]]
    OBVIOUS
  <2> HIDE DEF h
  <2>3. Turns(h, 0)
    BY <2>1
  <2> QED BY <2>2, <2>3
<1>2. ASSUME NEW m \in Nat, m \in S PROVE m + 1 \in S
  <2>1. PICK f : f = [s \in Readings |-> f[s]] /\ Turns(f, m)
    BY <1>2
  <2> DEFINE h == [s \in Readings |-> Meets(f, s.of, s.at)]
  <2>2. ASSUME NEW s \in Readings, s.at + (m + 1) > T PROVE h[s] = Meets(h, s.of, s.at)
    <3>1. s.of \in 0 .. T /\ s.at \in Nat
      BY <1>0
    <3>2. ASSUME NEW t \in Readings, t.at > s.at PROVE f[t] = h[t]
      <4>1. t.at \in Nat
        BY <1>0
      <4>2. t.at + m > T
        BY <1>t, <2>2, <3>1, <3>2, <4>1
      <4>3. f[t] = Meets(f, t.of, t.at)
        BY <2>1, <4>2
      <4>4. h[t] = Meets(f, t.of, t.at)
        BY Zenon
      <4> QED BY <4>3, <4>4
    <3>3. h[s] = Meets(f, s.of, s.at)
      BY Zenon
    <3> HIDE DEF h
    <3>4. Agree(f, h, s.of, s.at)
      BY <3>2 DEF Agree
    <3>5. Meets(f, s.of, s.at) = Meets(h, s.of, s.at)
      BY <3>1, <3>4, MeetsLocal
    <3> QED BY <3>3, <3>5
  <2>3. h = [s \in Readings |-> h[s]]
    OBVIOUS
  <2> HIDE DEF h
  <2>4. Turns(h, m + 1)
    BY <2>2
  <2> QED BY <2>3, <2>4
<1>3. PICK f : f = [s \in Readings |-> f[s]] /\ Turns(f, T + 1)
  <2> HIDE DEF S
  <2>1. Nat \subseteq S
    BY <1>1, <1>2, Induction
  <2>2. T + 1 \in S
    BY <1>t, <2>1
  <2> QED BY <2>2 DEF S
<1>4. f = [s \in Readings |-> Meets(f, s.of, s.at)]
  <2>1. \A s \in Readings : s.at + (T + 1) > T
    BY <1>t, <1>0
  <2>2. \A s \in Readings : f[s] = Meets(f, s.of, s.at)
    BY <1>3, <2>1
  <2> QED BY <1>3, <2>2, Zenon
<1>5. Met = CHOOSE h : h = [s \in Readings |-> Meets(h, s.of, s.at)]
  BY Zenon DEF Met, Meets, Readings
<1>6. Met = [s \in Readings |-> Meets(Met, s.of, s.at)]
  BY <1>4, <1>5, Zenon
<1>7. PICK s : s = [of |-> i, at |-> j]
  OBVIOUS
<1>8. s \in Readings /\ s.of = i /\ s.at = j
  BY <1>t, <1>7 DEF Readings
<1>9. Met[s] = Meets(Met, s.of, s.at)
  BY <1>6, <1>8, Zenon
<1> QED BY <1>7, <1>8, <1>9

\* The characters from a to b, b not among them.
Slice(d, a, b) == [k \in 1 .. b - a |-> Text(d)[a + k]]

LEMMA Joins ==
  ASSUME NEW d, NEW a \in Nat, NEW b \in Nat, NEW c \in Nat, a <= b, b <= c
  PROVE  Slice(d, a, b) \o Slice(d, b, c) = Slice(d, a, c)
<1> DEFINE s == Slice(d, a, b)
           t == Slice(d, b, c)
<1>1. s \in Seq({Text(d)[k] : k \in Int}) /\ Len(s) = b - a
  BY DEF Slice
<1>2. t \in Seq({Text(d)[k] : k \in Int}) /\ Len(t) = c - b
  BY DEF Slice
<1>3. Slice(d, a, c) \in Seq({Text(d)[k] : k \in Int}) /\ Len(Slice(d, a, c)) = c - a
  BY DEF Slice
<1>4. ASSUME NEW k \in 1 .. c - a PROVE (s \o t)[k] = Slice(d, a, c)[k]
  <2>1. CASE k <= b - a
    <3>1. (s \o t)[k] = s[k] /\ k \in 1 .. b - a
      BY <1>1, <1>2, <2>1
    <3> QED BY <3>1 DEF Slice
  <2>2. CASE k > b - a
    <3>1. (s \o t)[k] = t[k - (b - a)] /\ k - (b - a) \in 1 .. c - b
      <4>1. k \in 1 .. Len(s) + Len(t) /\ k > Len(s) /\ k - Len(s) = k - (b - a)
        BY <1>1, <1>2, <2>2
      <4>2. k - (b - a) \in 1 .. c - b
        BY <2>2
      <4> HIDE DEF s, t
      <4> QED BY <1>1, <1>2, <4>1, <4>2
    <3>2. PICK m : m = k - (b - a)
      OBVIOUS
    <3>3. m \in 1 .. c - b /\ b + m = a + k
      BY <3>1, <3>2
    <3>4. t[m] = Text(d)[b + m]
      BY <3>3 DEF Slice
    <3>5. Slice(d, a, c)[k] = Text(d)[a + k]
      BY DEF Slice
    <3>6. t[m] = Slice(d, a, c)[k]
      BY <3>3, <3>4, <3>5
    <3>7. (s \o t)[k] = t[m]
      BY <3>1, <3>2
    <3> QED BY <3>6, <3>7
  <2>3. k <= b - a \/ k > b - a
    OBVIOUS
  <2> HIDE DEF s, t
  <2> QED BY <2>1, <2>2, <2>3, Zenon
<1>5. s \o t \in Seq({Text(d)[k] : k \in Int}) /\ Len(s \o t) = c - a
  <2> HIDE DEF s, t
  <2> QED BY <1>1, <1>2
<1> HIDE DEF s, t
<1>6. s \o t = Slice(d, a, c)
  BY <1>3, <1>4, <1>5, SeqEqual
<1> QED BY <1>6 DEF s, t

LEMMA OneCharacter ==
  ASSUME NEW d, NEW a \in Nat
  PROVE  Slice(d, a, a) = <<>> /\ Slice(d, a, a + 1) = <<Text(d)[a + 1]>>
BY DEF Slice

\* A parsed document: every word is whole, and the root closes the tape.
Laid(g, T) ==
  /\ T \in Nat /\ doc.n \in Nat \ {0} /\ DOMAIN tape = 0 .. T
  /\ tape[0].type = "root" /\ tape[T].type = "root"
  /\ g \in [Nat -> Info] /\ Layout(doc, tape, T, g)
  /\ \A w \in Heads(tape, T) : tape[w].type # "unwritten"
  /\ \A i \in Heads(tape, T) : Opens(doc, g, i) => i + 1 # T
  /\ \A w \in Heads(tape, T) : g[w].role # "end" /\ After(tape, w) = T =>
       g[w].scope = 0 /\ EndAt(tape, g, w) = doc.n - 1
  /\ 1 \in Heads(tape, T) /\ After(tape, 1) = T

\* What a word says of its element.
LEMMA HeadIs ==
  ASSUME NEW T, NEW g, Laid(g, T), NEW j \in Heads(tape, T)
  PROVE  /\ j \in 1 .. T - 1 /\ g[j] \in Info /\ j \in Whole(tape, T)
         /\ g[j].place \in Nat /\ g[j].scope \in Nat /\ g[j].ord \in Nat
         /\ g[j].place < doc.n /\ tape[j].type = doc.char[g[j].place]
         /\ tape[j].type \in Scalar \cup Opening \cup Closing
         /\ Opens(doc, g, j) <=> tape[j].type \in Opening
         /\ g[j].role = "end" <=> tape[j].type \in Closing
         /\ after_element(j) = After(tape, j)
         /\ tape[j].type = "string" => tape[j].value = Taken(doc)[g[j].place]
         /\ tape[j].type = "atom" => tape[j].value = 0
         /\ tape[j].type = "number" => tape[j + 1].value = g[j].place
<1>1. j \in 1 .. T - 1
  BY DEF Heads
<1>2. g[j] \in Info
  BY <1>1 DEF Laid
<1>3. g[j].place \in Nat /\ g[j].scope \in Nat /\ g[j].ord \in Nat
  BY <1>2 DEF Info
<1>4. Spells(doc, tape, T, j, g[j]) /\ Belongs(doc, tape, T, g, j, g[j]) /\ tape[j].type # "unwritten"
  BY DEF Laid, Layout
<1>5. /\ g[j].place < doc.n /\ tape[j].type = doc.char[g[j].place]
      /\ tape[j].type \in Scalar \cup Opening \cup Closing
      /\ tape[j].type = "string" => tape[j].value = Taken(doc)[g[j].place]
      /\ tape[j].type = "atom" => tape[j].value = 0
      /\ tape[j].type = "number" => tape[j + 1].value = g[j].place
  BY <1>4 DEF Spells
<1>6. g[j].role = "end" <=> tape[j].type \in Closing
  BY <1>4, <1>5 DEF Belongs
<1>7. after_element(j) = After(tape, j)
  BY DEF after_element, After
<1> QED BY <1>1, <1>2, <1>3, <1>4, <1>5, <1>6, <1>7 DEF Whole, Opens

\* The tape ends at numbers.
LEMMA LaidEnds ==
  ASSUME NEW T, NEW g, Laid(g, T)
  PROVE  Ends(T)
<1>1. ASSUME NEW i \in 0 .. T PROVE after_element(i) \in Nat
  <2>1. CASE i \in Heads(tape, T)
    <3>1. CASE tape[i].type \in Opening
      <4>1. tape[i].value - 1 \in i + 1 .. T - 1 /\ tape[i].value = After(tape, i)
        <5>1. Layout(doc, tape, T, g) /\ i \in Whole(tape, T)
          BY <2>1, HeadIs DEF Laid
        <5>2. Container(tape, T, g, i)
          BY <3>1, <5>1 DEF Layout
        <5>3. tape[i].value = After(tape, i)
          BY <3>1 DEF After, Opening
        <5> QED BY <5>2, <5>3 DEF Container
      <4>2. i \in 1 .. T - 1 /\ g[i].role # "end"
        BY <2>1, <3>1, HeadIs DEF Opening, Closing
      <4>3. After(tape, i) \in i + 1 .. T
        BY <2>1, <4>2, HeadIs DEF Laid, Layout
      <4> QED BY <2>1, <4>2, <4>3, HeadIs
    <3>2. CASE tape[i].type \notin Opening
      BY <3>2 DEF after_element
    <3> QED BY <3>1, <3>2
  <2>2. CASE i \notin Heads(tape, T)
    <3>1. tape[i].type \in {"root", "data"}
      BY <2>2 DEF Heads, Laid
    <3> QED BY <3>1 DEF after_element, Opening
  <2> QED BY <2>1, <2>2
<1> QED BY <1>1 DEF Ends, Laid

\* A scalar is the character that it was.
LEMMA ScalarReads ==
  ASSUME NEW T, NEW g, Laid(g, T), NEW j \in Heads(tape, T), tape[j].type \in Scalar
  PROVE  Scalars(j) = Slice(doc, g[j].place, g[j].place + 1)
<1>1. PICK k : k = g[j].place
  OBVIOUS
<1>2. /\ k \in Nat /\ k < doc.n /\ tape[j].type = doc.char[k]
      /\ tape[j].type = "string" => tape[j].value = Taken(doc)[k]
      /\ tape[j].type = "atom" => tape[j].value = 0
      /\ tape[j].type = "number" => tape[j + 1].value = k
  BY <1>1, HeadIs
<1>3. k + 1 \in 1 .. doc.n /\ (k + 1) - 1 = k
  BY <1>2 DEF Laid
<1>4. Text(doc)[k + 1] =
        [char |-> doc.char[k],
         value |-> CASE doc.char[k] = "string" -> Taken(doc)[k] [] doc.char[k] = "number" -> k [] OTHER -> 0]
  BY <1>3 DEF Text
<1>5. Text(doc)[k + 1] =
        [char |-> tape[j].type,
         value |-> IF tape[j].type = "number" THEN tape[j + 1].value ELSE tape[j].value]
  <2>1. CASE tape[j].type = "string"
    BY <1>2, <1>4, <2>1
  <2>2. CASE tape[j].type = "number"
    BY <1>2, <1>4, <2>2
  <2>3. CASE tape[j].type = "atom"
    BY <1>2, <1>4, <2>3
  <2> QED BY <2>1, <2>2, <2>3 DEF Scalar
<1>6. Slice(doc, k, k + 1) = <<Text(doc)[k + 1]>>
  BY <1>2, OneCharacter
<1> QED BY <1>1, <1>5, <1>6 DEF Scalars

\* So is any other character.
LEMMA MarkReads ==
  ASSUME doc.n \in Nat, NEW k \in 0 .. doc.n - 1, doc.char[k] \notin {"string", "number"}
  PROVE  Mark(doc.char[k]) = Slice(doc, k, k + 1)
<1>1. k + 1 \in 1 .. doc.n /\ (k + 1) - 1 = k
  OBVIOUS
<1>2. Text(doc)[k + 1] = [char |-> doc.char[k], value |-> 0]
  BY <1>1 DEF Text
<1> QED BY <1>2, OneCharacter DEF Mark

\* An element is in a container that is closed behind it.
Closes(T, g, i, e) ==
  /\ i \in Heads(tape, T) /\ e \in Heads(tape, T) /\ e = end(i) /\ i < e
  /\ tape[i].type \in Opening /\ g[e].role = "end" /\ g[e].scope = i
  /\ tape[i].count = saturated(g[e].ord) /\ EndAt(tape, g, i) = g[e].place
  /\ i + 1 \in Heads(tape, T) /\ FirstIn(g, i, g[i + 1])

LEMMA Scoped ==
  ASSUME NEW T, NEW g, Laid(g, T), NEW i \in Heads(tape, T), tape[i].type \in Opening
  PROVE  /\ Closes(T, g, i, end(i)) /\ end(i) \in Nat
         /\ \A v \in Heads(tape, T) : g[v].scope = i => v <= end(i)
<1>1. /\ Layout(doc, tape, T, g) /\ i \in Whole(tape, T) /\ Opens(doc, g, i) /\ i \in 1 .. T - 1
      /\ i + 1 # T /\ T \in Nat
  BY HeadIs DEF Laid
<1>2. Container(tape, T, g, i)
  BY <1>1 DEF Layout
<1>3. end(i) = tape[i].value - 1
  BY DEF end, after_element, Opening
<1>4. i + 1 < T
  BY <1>1
<1>5. i + 1 \in Heads(tape, T) /\ FirstIn(g, i, g[i + 1])
  BY <1>1, <1>4 DEF Layout
<1>6. EndAt(tape, g, i) = g[end(i)].place
  BY <1>3 DEF EndAt
<1>7. /\ end(i) \in i + 1 .. T - 1 /\ end(i) \in Heads(tape, T)
      /\ g[end(i)].role = "end" /\ g[end(i)].scope = i
      /\ tape[i].count = saturated(g[end(i)].ord)
      /\ \A v \in Heads(tape, T) : g[v].scope = i => v <= end(i)
  BY <1>2, <1>3 DEF Container
<1>8. i < end(i) /\ end(i) \in Nat
  BY <1>1, <1>7
<1> QED BY <1>5, <1>6, <1>7, <1>8 DEF Closes

LEMMA InScope ==
  ASSUME NEW T, NEW g, Laid(g, T), NEW j \in Heads(tape, T), NEW i, i = g[j].scope, i # 0
  PROVE  /\ i \in Heads(tape, T) /\ i < j /\ i \in Nat /\ tape[i].type \in Opening
         /\ j <= end(i) /\ (g[j].role = "end" <=> j = end(i))
         /\ g[j].role \in IF IsArray(i) THEN {"item", "end"} ELSE {"key", "value", "end"}
<1>1. Layout(doc, tape, T, g) /\ g[j] \in Info /\ i \in Nat
  BY HeadIs DEF Laid
<1>2. Belongs(doc, tape, T, g, j, g[j])
  BY <1>1 DEF Layout
<1>3. /\ i < j /\ i \in Heads(tape, T) /\ Opens(doc, g, i)
      /\ g[j].role \in IF doc.char[g[i].place] = "lbracket" THEN {"item", "end"} ELSE {"key", "value", "end"}
  BY <1>2 DEF Belongs
<1>4. tape[i].type \in Opening /\ tape[i].type = doc.char[g[i].place]
  BY <1>3, HeadIs
<1>5. Closes(T, g, i, end(i)) /\ j <= end(i)
  BY <1>3, <1>4, Scoped
<1>6. g[j].role = "end" => j = end(i)
  <2> SUFFICES ASSUME g[j].role = "end" PROVE j = end(i)
    OBVIOUS
  <2>1. tape[i].value = j + 1
    BY <1>1 DEF Layout
  <2>2. end(i) = tape[i].value - 1
    BY <1>4 DEF end, after_element, Opening
  <2>3. j \in 1 .. T - 1
    BY HeadIs
  <2> QED BY <2>1, <2>2, <2>3
<1>7. j = end(i) => g[j].role = "end"
  BY <1>5 DEF Closes
<1>8. g[j].role \in IF IsArray(i) THEN {"item", "end"} ELSE {"key", "value", "end"}
  BY <1>3, <1>4 DEF IsArray
<1> QED BY <1>1, <1>3, <1>4, <1>5, <1>6, <1>7, <1>8

\* Behind an element of a container there is another, or the end.
LEMMA NextIn ==
  ASSUME NEW T, NEW g, Laid(g, T), NEW j \in Heads(tape, T), g[j].role # "end",
         NEW i, i = g[j].scope, i # 0, NEW l, l = after_element(j)
  PROVE  /\ l \in Heads(tape, T) /\ l > j /\ l <= end(i) /\ g[l].scope = i
         /\ Leads(doc, EndAt(tape, g, j), g[j].role, g[j].ord, g[l])
<1>1. /\ Layout(doc, tape, T, g) /\ j \in Whole(tape, T) /\ l = After(tape, j) /\ j \in 1 .. T - 1 /\ T \in Nat
  BY HeadIs DEF Laid
<1>2. l \in j + 1 .. T
  BY <1>1 DEF Layout
<1>3. l # T
  BY <1>1 DEF Laid
<1>4. l < T
  BY <1>1, <1>2, <1>3
<1>5. l \in Heads(tape, T) /\ Behind(doc, tape, g, j, g[l])
  BY <1>1, <1>4 DEF Layout
<1>6. g[l].scope = i /\ Leads(doc, EndAt(tape, g, j), g[j].role, g[j].ord, g[l])
  BY <1>5 DEF Behind, Follows
<1>7. l <= end(i)
  BY <1>5, <1>6, InScope
<1> QED BY <1>1, <1>2, <1>5, <1>6, <1>7

\* The element at j is read as the characters it was.
ElementReads(g, j) ==
  LET e == EndAt(tape, g, j) IN
  /\ e \in Nat /\ g[j].place <= e /\ e < doc.n
  /\ Element(j, Met[[of |-> j, at |-> begin(j)]].text) = Slice(doc, g[j].place, e + 1)

\* Behind the opening character or a comma, and where the comma is.
Led(g, j) ==
  \/ j = begin(g[j].scope) \/ g[j].role = "end"
  \/ g[j].place >= 1 /\ doc.char[g[j].place - 1] = "comma"

From(g, j) == IF j = begin(g[j].scope) \/ g[j].role = "end" THEN g[j].place ELSE g[j].place - 1

\* So are the elements of a container from j on.
RestReads(g, j) ==
  LET i == g[j].scope
      e == end(i)
      m == Met[[of |-> i, at |-> j]]
  IN /\ g[j].place <= g[e].place
     /\ m.size = g[e].ord - g[j].ord
     /\ m.text = Slice(doc, From(g, j), g[e].place + 1)

Reads(g, j) ==
  /\ g[j].role # "end" => ElementReads(g, j)
  /\ g[j].scope # 0 /\ g[j].role # "value" /\ Led(g, j) => RestReads(g, j)

LEMMA ElementStep ==
  ASSUME NEW T, NEW g, Laid(g, T), NEW j \in Heads(tape, T), g[j].role # "end",
         \A l \in Heads(tape, T) : l > j => Reads(g, l)
  PROVE  ElementReads(g, j)
<1>1. PICK k : k = g[j].place
  OBVIOUS
<1>2. /\ j \in 1 .. T - 1 /\ T \in Nat /\ k \in Nat /\ k < doc.n /\ tape[j].type = doc.char[k]
      /\ tape[j].type \in Scalar \cup Opening /\ doc.n \in Nat \ {0} /\ k \in 0 .. doc.n - 1
  BY <1>1, HeadIs DEF Laid
<1>3. CASE tape[j].type \in Scalar
  <2>1. tape[j].type \notin Opening
    BY <1>3 DEF Scalar, Opening
  <2>2. EndAt(tape, g, j) = k
    BY <1>1, <2>1 DEF EndAt
  <2>3. Element(j, Met[[of |-> j, at |-> begin(j)]].text) = Slice(doc, k, k + 1)
    BY <1>1, <1>3, <2>1, ScalarReads DEF Element
  <2> QED BY <1>1, <1>2, <2>2, <2>3 DEF ElementReads
<1>4. CASE tape[j].type \in Opening
  <2>1. PICK e : e = end(j)
    OBVIOUS
  <2>2. Closes(T, g, j, e)
    BY <1>4, <2>1, Scoped
  <2>3. PICK c : c = g[e].place
    OBVIOUS
  <2>4. /\ EndAt(tape, g, j) = c /\ c \in Nat /\ c < doc.n
        /\ j + 1 \in Heads(tape, T) /\ FirstIn(g, j, g[j + 1])
    BY <2>2, <2>3, HeadIs DEF Closes
  <2>5. g[j + 1].scope = j /\ g[j + 1].place = k + 1 /\ g[j + 1].role # "value"
    BY <1>1, <2>4 DEF FirstIn
  <2>6. j + 1 = begin(g[j + 1].scope) /\ begin(j) = j + 1
    BY <2>5 DEF begin
  <2>7. Led(g, j + 1) /\ From(g, j + 1) = k + 1
    BY <2>5, <2>6 DEF Led, From
  <2>8. RestReads(g, j + 1)
    <3>1. Reads(g, j + 1)
      BY <1>2, <2>4
    <3> QED BY <1>2, <2>5, <2>7, <3>1 DEF Reads
  <2>9. k + 1 <= c /\ Met[[of |-> j, at |-> begin(j)]].text = Slice(doc, k + 1, c + 1)
    BY <2>1, <2>3, <2>5, <2>6, <2>7, <2>8 DEF RestReads
  <2>10. Mark(tape[j].type) = Slice(doc, k, k + 1)
    BY <1>2, <1>4, MarkReads DEF Opening
  <2>11. Slice(doc, k, k + 1) \o Slice(doc, k + 1, c + 1) = Slice(doc, k, c + 1)
    <3>1. k + 1 \in Nat /\ c + 1 \in Nat /\ k <= k + 1 /\ k + 1 <= c + 1
      BY <1>2, <2>4, <2>9
    <3> QED BY <1>2, <3>1, Joins
  <2>12. Element(j, Met[[of |-> j, at |-> begin(j)]].text) = Slice(doc, k, c + 1)
    BY <1>4, <2>9, <2>10, <2>11 DEF Element
  <2>13. k <= c
    BY <1>2, <2>4, <2>9
  <2> QED BY <1>1, <2>4, <2>12, <2>13 DEF ElementReads
<1> QED BY <1>2, <1>3, <1>4

\* The value of the element at j, and what is in front of it.
ValueIs(T, g, j, i, v) ==
  /\ v \in Heads(tape, T) /\ v >= j /\ v \in {j, j + 1} /\ g[v].role # "end" /\ g[v].scope = i
  /\ g[v].ord = g[j].ord /\ g[v].role = IF IsArray(i) THEN "item" ELSE "value"
  /\ g[j].place <= g[v].place
  /\ (IF IsArray(i) THEN <<>> ELSE Scalars(j) \o Mark("colon")) = Slice(doc, g[j].place, g[v].place)

LEMMA ValueIn ==
  ASSUME NEW T, NEW g, Laid(g, T), NEW j \in Heads(tape, T), NEW i, i = g[j].scope, i # 0,
         g[j].role \notin {"value", "end"}, NEW v, v = ValueAt(i, j)
  PROVE  ValueIs(T, g, j, i, v)
<1>1. /\ g[j].role = IF IsArray(i) THEN "item" ELSE "key"
  BY InScope
<1>2. j \in Nat /\ g[j].place \in Nat
  BY HeadIs
<1>3. CASE IsArray(i)
  <2>1. v = j
    BY <1>3 DEF ValueAt
  <2>2. <<>> = Slice(doc, g[j].place, g[j].place)
    BY <1>2, OneCharacter
  <2> QED BY <1>1, <1>2, <1>3, <2>1, <2>2 DEF ValueIs
<1>4. CASE ~IsArray(i)
  <2>1. g[j].role = "key" /\ g[j].role # "end"
    BY <1>1, <1>4
  <2>2. tape[j].type = "string"
    <3>1. Belongs(doc, tape, T, g, j, g[j])
      BY DEF Laid, Layout
    <3> QED BY <2>1, <3>1, HeadIs DEF Belongs
  <2>3. v = j + 1 /\ after_element(j) = j + 1
    BY <1>4, <2>2 DEF ValueAt, after_element, Opening
  <2>4. /\ v \in Heads(tape, T) /\ v > j /\ g[v].scope = i
        /\ Leads(doc, EndAt(tape, g, j), g[j].role, g[j].ord, g[v])
    BY <2>1, <2>3, NextIn
  <2>5. EndAt(tape, g, j) = g[j].place
    BY <2>2 DEF EndAt, Opening
  <2>6. /\ g[v].role = "value" /\ g[v].place = g[j].place + 2 /\ doc.char[g[j].place + 1] = "colon"
        /\ g[v].ord = g[j].ord
    BY <2>1, <2>4, <2>5 DEF Leads
  <2>7. PICK k : k = g[j].place
    OBVIOUS
  <2>8. k \in Nat /\ k + 1 \in 0 .. doc.n - 1 /\ doc.n \in Nat
    <3>1. g[v].place < doc.n /\ doc.n \in Nat
      BY <2>4, HeadIs DEF Laid
    <3> QED BY <1>2, <2>6, <2>7, <3>1
  <2>9. Scalars(j) = Slice(doc, k, k + 1)
    BY <2>2, <2>7, ScalarReads DEF Scalar
  <2>10. Mark("colon") = Slice(doc, k + 1, k + 2)
    <3>1. doc.char[k + 1] = "colon" /\ (k + 1) + 1 = k + 2
      BY <2>6, <2>7, <2>8
    <3> QED BY <2>8, <3>1, MarkReads
  <2>11. Slice(doc, k, k + 1) \o Slice(doc, k + 1, k + 2) = Slice(doc, k, k + 2)
    <3>1. k + 1 \in Nat /\ k + 2 \in Nat /\ k <= k + 1 /\ k + 1 <= k + 2
      BY <2>8
    <3> QED BY <2>8, <3>1, Joins
  <2>12. Scalars(j) \o Mark("colon") = Slice(doc, g[j].place, g[v].place)
    BY <2>6, <2>7, <2>9, <2>10, <2>11
  <2>13. g[j].place <= g[v].place
    BY <2>6, <2>7, <2>8
  <2> QED BY <1>2, <1>4, <2>3, <2>4, <2>6, <2>12, <2>13 DEF ValueIs
<1> QED BY <1>3, <1>4

\* What is in front of the element at j.
LEMMA CommaReads ==
  ASSUME NEW T, NEW g, Laid(g, T), NEW j \in Heads(tape, T), Led(g, j), g[j].role # "end",
         NEW i, i = g[j].scope
  PROVE  /\ From(g, j) \in Nat /\ From(g, j) <= g[j].place
         /\ (IF j = begin(i) THEN <<>> ELSE Mark("comma")) = Slice(doc, From(g, j), g[j].place)
<1>1. PICK k : k = g[j].place
  OBVIOUS
<1>2. k \in Nat /\ k < doc.n /\ doc.n \in Nat
  BY <1>1, HeadIs DEF Laid
<1>3. CASE j = begin(i)
  <2>1. From(g, j) = k /\ <<>> = Slice(doc, k, k)
    BY <1>1, <1>2, <1>3, OneCharacter DEF From
  <2>2. (IF j = begin(i) THEN <<>> ELSE Mark("comma")) = Slice(doc, From(g, j), g[j].place)
    BY <1>1, <1>3, <2>1, Zenon
  <2>3. From(g, j) \in Nat /\ From(g, j) <= g[j].place
    BY <1>1, <1>2, <2>1
  <2> QED BY <2>2, <2>3
<1>4. CASE j # begin(i)
  <2>1. From(g, j) = k - 1 /\ k >= 1 /\ doc.char[k - 1] = "comma"
    BY <1>1, <1>4 DEF From, Led
  <2>2. k - 1 \in 0 .. doc.n - 1 /\ (k - 1) + 1 = k /\ k - 1 \in Nat /\ k - 1 <= k
    BY <1>2, <2>1
  <2>3. Mark("comma") = Slice(doc, k - 1, k)
    BY <1>2, <2>1, <2>2, MarkReads
  <2>4. (IF j = begin(i) THEN <<>> ELSE Mark("comma")) = Slice(doc, From(g, j), g[j].place)
    BY <1>1, <1>4, <2>1, <2>3, Zenon
  <2>5. From(g, j) \in Nat /\ From(g, j) <= g[j].place
    BY <1>1, <2>1, <2>2
  <2> QED BY <2>4, <2>5
<1> QED BY <1>3, <1>4

\* What is behind j is read, and the element at j.
LaterReads(T, g, j) ==
  /\ \A l \in Heads(tape, T) : l > j => Reads(g, l)
  /\ g[j].role # "end" => ElementReads(g, j)

LEMMA RestStep ==
  ASSUME NEW T, NEW g, Laid(g, T), NEW j \in Heads(tape, T), LaterReads(T, g, j),
         g[j].scope # 0, g[j].role # "value", Led(g, j)
  PROVE  RestReads(g, j)
<1>1. PICK i : i = g[j].scope
  OBVIOUS
<1>2. PICK e : e = end(i)
  OBVIOUS
<1>3. /\ i \in Heads(tape, T) /\ i < j /\ i \in Nat /\ tape[i].type \in Opening
      /\ j <= e /\ (g[j].role = "end" <=> j = e)
  BY <1>1, <1>2, InScope
<1>4. Closes(T, g, i, e) /\ e \in Nat
  BY <1>2, <1>3, Scoped
<1>5. /\ T \in Nat /\ DOMAIN tape = 0 .. T /\ j \in 1 .. T - 1 /\ i \in 0 .. T /\ j \in Nat
      /\ doc.n \in Nat \ {0}
  <2>1. T \in Nat /\ DOMAIN tape = 0 .. T /\ doc.n \in Nat \ {0}
    BY DEF Laid
  <2>2. j \in 1 .. T - 1
    BY HeadIs
  <2> QED BY <1>3, <2>1, <2>2
<1>6. Met[[of |-> i, at |-> j]] = Meets(Met, i, j)
  BY <1>5, LaidEnds, MetRule
<1>7. PICK k : k = g[j].place
  OBVIOUS
<1>8. k \in Nat /\ k < doc.n /\ g[j].ord \in Nat /\ g[e].ord \in Nat /\ g[e].place \in Nat
      /\ g[e].place < doc.n
  BY <1>4, <1>7, HeadIs DEF Closes
<1>9. CASE g[j].role = "end"
  <2>1. j = e
    BY <1>3, <1>9
  <2>2. Met[[of |-> i, at |-> j]] = [size |-> 0, text |-> Mark(tape[j].type)]
    BY <1>2, <1>6, <2>1 DEF Meets
  <2>3. tape[j].type = doc.char[k] /\ tape[j].type \in Closing
    BY <1>7, <1>9, HeadIs
  <2>4. Mark(tape[j].type) = Slice(doc, k, k + 1)
    <3>1. k \in 0 .. doc.n - 1 /\ doc.char[k] \notin {"string", "number"}
      BY <1>5, <1>8, <2>3 DEF Closing
    <3> QED BY <1>5, <2>3, <3>1, MarkReads
  <2>5. From(g, j) = k
    BY <1>7, <1>9 DEF From
  <2>6. g[e].ord - g[j].ord = 0 /\ g[j].place <= g[e].place
    BY <1>8, <2>1
  <2>7. PICK m : m = Met[[of |-> i, at |-> j]]
    OBVIOUS
  <2>8. m.size = g[e].ord - g[j].ord
    BY <2>2, <2>6, <2>7
  <2>9. m.text = Slice(doc, From(g, j), g[e].place + 1)
    <3>1. m.text = Slice(doc, k, k + 1) /\ g[e].place = k
      BY <1>7, <2>1, <2>2, <2>4, <2>7
    <3> QED BY <2>5, <3>1
  <2> QED BY <1>1, <1>2, <2>6, <2>7, <2>8, <2>9 DEF RestReads
<1>10. CASE g[j].role # "end"
  <2>1. PICK v : v = ValueAt(i, j)
    OBVIOUS
  <2>0. ValueIs(T, g, j, i, v)
    BY <1>1, <1>10, <2>1, ValueIn
  <2>2. /\ v \in Heads(tape, T) /\ v >= j /\ v \in {j, j + 1} /\ g[v].role # "end" /\ g[v].scope = i
        /\ g[v].ord = g[j].ord /\ g[v].role # "key" /\ g[v].role # "end"
        /\ g[j].place <= g[v].place
    BY <2>0 DEF ValueIs
  <2>3. PICK l : l = after_element(v)
    OBVIOUS
  <2>4. /\ l \in Heads(tape, T) /\ l > v /\ l <= e /\ g[l].scope = i
        /\ Leads(doc, EndAt(tape, g, v), g[v].role, g[v].ord, g[l])
    BY <1>1, <1>2, <2>2, <2>3, NextIn
  <2>5. l > j /\ l \in Nat /\ v \in Nat
    BY <1>5, <2>2, <2>4, HeadIs
  <2>6. ElementReads(g, v)
    <3>1. CASE v = j
      BY <1>10, <3>1 DEF LaterReads
    <3>2. CASE v > j
      BY <2>2, <3>2 DEF Reads, LaterReads
    <3> QED BY <1>5, <2>2, <2>5, <3>1, <3>2
  <2>7. PICK a : a = g[v].place
    OBVIOUS
  <2>8. PICK b : b = EndAt(tape, g, v) + 1
    OBVIOUS
  <2>9. /\ a \in Nat /\ b \in Nat /\ a <= b /\ k <= a /\ k < b
        /\ Element(v, Met[[of |-> v, at |-> begin(v)]].text) = Slice(doc, a, b)
    <3>1. EndAt(tape, g, v) \in Nat /\ a <= EndAt(tape, g, v) /\ a \in Nat
      BY <2>2, <2>6, <2>7, HeadIs DEF ElementReads
    <3>2. Element(v, Met[[of |-> v, at |-> begin(v)]].text) = Slice(doc, a, b)
      BY <2>6, <2>7, <2>8 DEF ElementReads
    <3>3. k <= a
      BY <1>7, <2>2, <2>7
    <3> QED BY <1>8, <2>8, <3>1, <3>2, <3>3
  <2>10. /\ g[l].ord = g[j].ord + 1 /\ g[l].role # "value"
         /\ \/ g[l].role = "end" /\ g[l].place = b
            \/ g[l].role # "end" /\ g[l].place = b + 1 /\ doc.char[b] = "comma"
    <3>1. EndAt(tape, g, v) + 2 = b + 1
      BY <2>6, <2>8 DEF ElementReads
    <3>2. g[v].role \in {"item", "value"} /\ g[v].ord = g[j].ord
      BY <2>0 DEF ValueIs
    <3> QED BY <2>4, <2>8, <3>1, <3>2 DEF Leads
  <2>11. l # begin(i)
    <3>1. j >= i + 1
      BY <1>3, <1>5
    <3>2. l # i + 1
      BY <1>3, <1>5, <2>5, <3>1
    <3> QED BY <3>2 DEF begin
  <2>12. Led(g, l) /\ From(g, l) = b
    <3>1. CASE g[l].role = "end"
      BY <2>10, <3>1 DEF Led, From
    <3>2. CASE g[l].role # "end"
      <4>1. g[l].place >= 1 /\ g[l].place - 1 = b /\ doc.char[b] = "comma"
        BY <2>9, <2>10, <3>2
      <4> QED BY <2>4, <2>11, <3>2, <4>1 DEF Led, From
    <3> QED BY <3>1, <3>2
  <2>13. PICK c : c = g[e].place + 1
    OBVIOUS
  <2>14. PICK rest : rest = Met[[of |-> i, at |-> l]]
    OBVIOUS
  <2>15. g[l].place <= g[e].place /\ rest.size = g[e].ord - g[l].ord /\ rest.text = Slice(doc, b, c)
    <3>1. RestReads(g, l)
      BY <1>1, <2>4, <2>5, <2>10, <2>12 DEF Reads, LaterReads
    <3> QED BY <1>2, <2>4, <2>12, <2>13, <2>14, <3>1 DEF RestReads
  <2>16. c \in Nat /\ b <= c /\ rest.size + 1 = g[e].ord - g[j].ord /\ g[j].place <= g[e].place
    <3>1. b <= g[l].place /\ g[l].place \in Nat
      BY <2>4, <2>9, <2>10, HeadIs
    <3> QED BY <1>7, <1>8, <2>9, <2>10, <2>13, <2>15, <3>1
  <2>17. ~Lost(i, j)
    <3>1. l \in j + 1 .. e /\ {j, j + 1} \subseteq 0 .. T
      BY <1>4, <1>5, <2>4, <2>5
    <3> QED BY <1>2, <1>5, <2>1, <2>3, <3>1 DEF Lost
  <2>18. j # e
    BY <1>3, <1>10
  <2>19. Met[[of |-> i, at |-> j]] =
           [size |-> rest.size + 1,
            text |-> Lead(i, j) \o Element(v, Met[[of |-> v, at |-> begin(v)]].text) \o rest.text]
    BY <1>2, <1>6, <2>1, <2>3, <2>14, <2>17, <2>18, Zenon DEF Meets
  <2>20. PICK f : f = From(g, j)
    OBVIOUS
  <2>21. /\ f \in Nat /\ f <= k
         /\ (IF j = begin(i) THEN <<>> ELSE Mark("comma")) = Slice(doc, f, k)
    BY <1>1, <1>7, <1>10, <2>20, CommaReads
  <2>22. Lead(i, j) = Slice(doc, f, a)
    <3>1. Slice(doc, f, k) \o Slice(doc, k, a) = Slice(doc, f, a)
      <4>1. f \in Nat /\ k \in Nat /\ a \in Nat /\ f <= k /\ k <= a
        BY <1>8, <2>9, <2>21
      <4> QED BY <4>1, Joins
    <3>2. (IF IsArray(i) THEN <<>> ELSE Scalars(j) \o Mark("colon")) = Slice(doc, k, a)
      BY <1>7, <2>0, <2>7, Zenon DEF ValueIs
    <3> QED BY <2>21, <3>1, <3>2, Zenon DEF Lead
  <2>23. Slice(doc, f, a) \o Slice(doc, a, b) = Slice(doc, f, b)
    <3>1. f <= a
      BY <1>8, <2>9, <2>21
    <3> QED BY <2>9, <2>21, <3>1, Joins
  <2>24. Slice(doc, f, b) \o Slice(doc, b, c) = Slice(doc, f, c)
    <3>1. f <= b
      BY <1>8, <2>9, <2>21
    <3> QED BY <2>9, <2>16, <2>21, <3>1, Joins
  <2>25. Lead(i, j) \o Element(v, Met[[of |-> v, at |-> begin(v)]].text) \o rest.text = Slice(doc, f, c)
    BY <2>9, <2>15, <2>22, <2>23, <2>24, Zenon
  <2>26. /\ Met[[of |-> i, at |-> j]].size = g[e].ord - g[j].ord
         /\ Met[[of |-> i, at |-> j]].text = Slice(doc, f, c)
    BY <2>16, <2>19, <2>25
  <2> QED BY <1>1, <1>2, <2>13, <2>16, <2>20, <2>26 DEF RestReads
<1> QED BY <1>9, <1>10

\* By induction from the end of the tape.
LEMMA EveryHeadReads ==
  ASSUME NEW T, NEW g, Laid(g, T)
  PROVE  \A j \in Heads(tape, T) : Reads(g, j)
<1> DEFINE S == {m \in Nat : \A j \in Heads(tape, T) : j + m >= T => Reads(g, j)}
<1>1. T \in Nat /\ \A j \in Heads(tape, T) : j \in 1 .. T - 1
  BY HeadIs DEF Laid
<1>2. 0 \in S
  BY <1>1
<1>3. ASSUME NEW m \in Nat, m \in S PROVE m + 1 \in S
  <2> SUFFICES ASSUME NEW j \in Heads(tape, T), j + (m + 1) >= T PROVE Reads(g, j)
    BY <1>3
  <2>1. \A l \in Heads(tape, T) : l > j => Reads(g, l)
    <3> SUFFICES ASSUME NEW l \in Heads(tape, T), l > j PROVE Reads(g, l)
      OBVIOUS
    <3>1. l + m >= T
      BY <1>1
    <3> QED BY <1>3, <3>1
  <2>2. g[j].role # "end" => ElementReads(g, j)
    BY <2>1, ElementStep
  <2>3. LaterReads(T, g, j)
    BY <2>1, <2>2 DEF LaterReads
  <2>4. g[j].scope # 0 /\ g[j].role # "value" /\ Led(g, j) => RestReads(g, j)
    BY <2>3, RestStep
  <2> QED BY <2>2, <2>4 DEF Reads
<1> HIDE DEF S
<1>4. Nat \subseteq S
  BY <1>2, <1>3, Induction
<1>5. T \in S
  BY <1>1, <1>4
<1> QED BY <1>1, <1>5 DEF S

\* A document that was parsed is laid out, and read from its first element.
LEMMA ParsedIsLaid ==
  ASSUME WalkInv, Running, LayoutInv, Parsed
  PROVE  \E g : Laid(g, Top) /\ EndAt(tape, g, 1) = doc.n - 1 /\ g[1].place = 0 /\ g[1].role = "item"
<1>1. /\ pc = "done" /\ error = "none" /\ next = doc.n /\ Top = next_tape - 1
      /\ WalkTypeOK
  BY DEF Parsed, Running, Top, WalkInv
<1>2. /\ doc.n \in Nat \ {0} /\ next_tape \in Nat \ {0} /\ DOMAIN tape = 0 .. next_tape - 1
  BY <1>1 DEF WalkTypeOK, IsDocument
<1>3. PICK T : T = Top
  OBVIOUS
<1>4. T \in Nat /\ DOMAIN tape = 0 .. T
  BY <1>1, <1>2, <1>3
<1>5. next <= doc.n
  BY <1>1, <1>2
<1>6. PICK g : LayoutOf(g)
  BY <1>1, <1>5 DEF LayoutInv
<1>7. /\ Good(doc, tape, T, g, depth, open_containers, is_array) /\ Spot(doc, tape, T, g)
      /\ tape[0].type = "root" /\ tape[T].type = "root"
  BY <1>1, <1>3, <1>6 DEF LayoutOf
<1>8. depth = 0 /\ Trail(doc, tape, T, g, ElementAt(next - 1)) /\ DocumentIs(tape, T)
  BY <1>1, <1>7 DEF Spot
<1>9. /\ g \in [Nat -> Info] /\ Layout(doc, tape, T, g)
      /\ Stack(doc, tape, T, g, depth, open_containers, is_array)
  BY <1>7 DEF Good
<1>10. \A w \in Heads(tape, T) : tape[w].type # "unwritten"
  <2>1. 1 .. depth = {}
    BY <1>8
  <2> QED BY <1>9, <2>1 DEF Stack
<1>11. Whole(tape, T) = Heads(tape, T)
  BY <1>10 DEF Whole
<1>12. ElementAt(next - 1).scope = 0 /\ ElementAt(next - 1).place = doc.n - 1
  BY <1>1, <1>8, <1>9 DEF ElementAt, Here, ItemAt, Stack
<1>13. \A w \in Heads(tape, T) : g[w].role # "end" /\ After(tape, w) = T =>
         g[w].scope = 0 /\ EndAt(tape, g, w) = doc.n - 1
  BY <1>8, <1>11, <1>12 DEF Trail
<1>14. 1 \in Heads(tape, T) /\ After(tape, 1) = T
  BY <1>8, <1>11 DEF DocumentIs
<1>15. \A i \in Heads(tape, T) : Opens(doc, g, i) => i + 1 # T
  BY <1>8 DEF Trail
<1>16. Laid(g, T)
  BY <1>2, <1>4, <1>7, <1>9, <1>10, <1>13, <1>14, <1>15 DEF Laid
<1>17. g[1].scope = 0 /\ g[1].place = 0 /\ g[1].role = "item"
  <2>1. Belongs(doc, tape, T, g, 1, g[1])
    BY <1>9, <1>14 DEF Layout
  <2>2. g[1].scope \in Nat
    BY <1>14, <1>16, HeadIs
  <2> QED BY <2>1, <2>2 DEF Belongs
<1>18. EndAt(tape, g, 1) = doc.n - 1
  BY <1>13, <1>14, <1>17
<1> QED BY <1>3, <1>16, <1>17, <1>18

\* Read(1) is what was between the ends of the file.
LEMMA ParsedReadsBack ==
  ASSUME WalkInv, Running, LayoutInv
  PROVE  ReadsBack
<1> SUFFICES ASSUME Parsed PROVE Read(1) = Text(doc)
  BY DEF ReadsBack
<1>1. PICK g : /\ Laid(g, Top) /\ EndAt(tape, g, 1) = doc.n - 1
               /\ g[1].place = 0 /\ g[1].role = "item"
  BY ParsedIsLaid
<1>2. 1 \in Heads(tape, Top) /\ doc.n \in Nat
  BY <1>1 DEF Laid
<1>3. Reads(g, 1)
  BY <1>1, <1>2, EveryHeadReads
<1>4. ElementReads(g, 1)
  BY <1>1, <1>3 DEF Reads
<1>5. Read(1) = Slice(doc, 0, doc.n - 1 + 1)
  BY <1>1, <1>4, Zenon DEF ElementReads, Read, Children
<1>6. Slice(doc, 0, doc.n) = Text(doc)
  <2>1. \A k \in 1 .. doc.n : 0 + k = k
    BY <1>2
  <2>2. doc.n - 0 = doc.n
    BY <1>2
  <2>3. Slice(doc, 0, doc.n) = [k \in 1 .. doc.n |-> Text(doc)[k]]
    BY <2>1, <2>2 DEF Slice
  <2> QED BY <2>3 DEF Text
<1>7. doc.n - 1 + 1 = doc.n
  BY <1>2
<1> QED BY <1>5, <1>6, <1>7

\* The end of a container knows its ord, which is what the iterators count.
LEMMA ParsedSizes ==
  ASSUME WalkInv, Running, LayoutInv
  PROVE  SizesAreThoseOfTheFile
<1> SUFFICES ASSUME Parsed, NEW i \in DOMAIN tape, tape[i].type \in Opening
             PROVE  LET n == Children(i).size IN
                    scope_count(i) = IF n < CountMax THEN n ELSE CountMax
  BY DEF SizesAreThoseOfTheFile
<1>1. PICK g : Laid(g, Top)
  BY ParsedIsLaid
<1>2. PICK T : T = Top
  OBVIOUS
<1>3. Laid(g, T)
  BY <1>1, <1>2
<1>4. i \in Heads(tape, T)
  <2>1. T \in Nat /\ i \in 0 .. T /\ i # 0 /\ i # T
    BY <1>3 DEF Laid, Opening
  <2>2. i \in 1 .. T - 1
    BY <2>1
  <2> QED BY <2>2 DEF Heads, Opening
<1>5. PICK e : e = end(i)
  OBVIOUS
<1>6. Closes(T, g, i, e)
  BY <1>3, <1>4, <1>5, Scoped
<1>7. /\ i + 1 \in Heads(tape, T) /\ g[i + 1].scope = i /\ g[i + 1].ord = 0 /\ g[i + 1].role # "value"
  BY <1>6 DEF Closes, FirstIn
<1>8. i + 1 = begin(g[i + 1].scope) /\ i # 0
  BY <1>3, <1>4, <1>7, HeadIs DEF begin
<1>9. RestReads(g, i + 1)
  <2>1. Reads(g, i + 1)
    BY <1>3, <1>7, EveryHeadReads
  <2> QED BY <1>7, <1>8, <2>1 DEF Reads, Led
<1>10. Children(i).size = g[e].ord
  <2>1. Children(i).size = g[e].ord - 0
    BY <1>5, <1>7, <1>8, <1>9 DEF RestReads, Children
  <2>2. g[e].ord \in Nat
    BY <1>3, <1>6, HeadIs DEF Closes
  <2> QED BY <2>1, <2>2
<1>11. PICK n : n = Children(i).size
  OBVIOUS
<1>12. n \in Nat /\ scope_count(i) = saturated(n)
  BY <1>3, <1>6, <1>10, <1>11, HeadIs DEF Closes, scope_count
<1>13. scope_count(i) = IF n < CountMax THEN n ELSE CountMax
  BY <1>12, DepthAssumption DEF saturated
<1> QED BY <1>11, <1>13

\* Whatever document is parsed, the iterators of arrays and objects that
\* parse_json_filename uses meet all of its structural characters, in their
\* order, each string and number where the walk put it, and nothing else
\* (simdjson.h:7036, 8194, 9048).
THEOREM WalkReadsBack == WalkSpec => []ReadsBack
<1>1. WalkInv /\ Running /\ LayoutInv => ReadsBack
  BY ParsedReadsBack
<1> QED BY <1>1, LayoutInvariant, PTL

\* The count end_container writes into the first word of a container is the
\* number of elements the iterators meet in it, or the largest one the tape can
\* hold (simdjson.cpp:11640).
THEOREM WalkSizes == WalkSpec => []SizesAreThoseOfTheFile
<1>1. WalkInv /\ Running /\ LayoutInv => SizesAreThoseOfTheFile
  BY ParsedSizes
<1> QED BY <1>1, LayoutInvariant, PTL

-----------------------------------------------------------------------------
(* What JSON is, from each place on.                                       *)

\* A rule looks at later places only.
LEMMA LevelLocal ==
  ASSUME NEW d, d.n \in Nat, NEW a \in 0 .. d.n, NEW f, NEW h,
         \A b \in 0 .. d.n : b > a => f[b] = h[b]
  PROVE  Level(d, f, a) = Level(d, h, a)
<1>1. Values(d, f, a) = Values(d, h, a)
  <2>1. a < d.n => f[a + 1] = h[a + 1]
    OBVIOUS
  <2>2. ASSUME NEW b \in a + 1 .. d.n PROVE f[a + 1] = h[a + 1]
    BY <2>1, <2>2
  <2> QED BY <2>2 DEF Values
<1>2. Members(d, f, a) = Members(d, h, a)
  <2>1. ASSUME NEW b \in a + 3 .. d.n PROVE f[a + 2] = h[a + 2]
    OBVIOUS
  <2> QED BY <2>1 DEF Members
<1>3. ASSUME NEW b \in a + 1 .. d.n, NEW c, c < b, c \in Values(d, h, a) \/ c \in Members(d, h, a)
      PROVE  f[c + 1] = h[c + 1]
  <2>1. c \in a + 1 .. d.n
    BY <1>3 DEF Values, Members
  <2> QED BY <1>3, <2>1
<1>4. PICK v : v = Values(d, h, a)
  OBVIOUS
<1>5. PICK m : m = Members(d, h, a)
  OBVIOUS
<1>6. \A b \in a + 1 .. d.n, c \in v :
        (c < b /\ d.char[c] = "comma" /\ b \in f[c + 1].elements)
          <=> (c < b /\ d.char[c] = "comma" /\ b \in h[c + 1].elements)
  BY <1>3, <1>4
<1>7. \A b \in a + 1 .. d.n, c \in m :
        (c < b /\ d.char[c] = "comma" /\ b \in f[c + 1].members)
          <=> (c < b /\ d.char[c] = "comma" /\ b \in h[c + 1].members)
  BY <1>3, <1>5
<1>8. {b \in a + 1 .. d.n : b \in v \/ \E c \in v :
         c < b /\ d.char[c] = "comma" /\ b \in f[c + 1].elements}
      = {b \in a + 1 .. d.n : b \in v \/ \E c \in v :
           c < b /\ d.char[c] = "comma" /\ b \in h[c + 1].elements}
  BY <1>6, Zenon
<1>9. {b \in a + 1 .. d.n : b \in m \/ \E c \in m :
         c < b /\ d.char[c] = "comma" /\ b \in f[c + 1].members}
      = {b \in a + 1 .. d.n : b \in m \/ \E c \in m :
           c < b /\ d.char[c] = "comma" /\ b \in h[c + 1].members}
  BY <1>7, Zenon
<1> QED BY <1>1, <1>2, <1>4, <1>5, <1>8, <1>9, Zenon DEF Level

\* So there is a grammar.
LEMMA GrammarRule ==
  ASSUME NEW d, d.n \in Nat
  PROVE  \A a \in 0 .. d.n : Grammar(d)[a] = Level(d, Grammar(d), a)
<1> DEFINE Turns(f, m) == \A a \in 0 .. d.n : a + m > d.n => f[a] = Level(d, f, a)
           S == {m \in Nat : \E f : f = [a \in 0 .. d.n |-> f[a]] /\ Turns(f, m)}
<1>1. 0 \in S
  <2> DEFINE h == [a \in 0 .. d.n |-> 0]
  <2>1. h = [a \in 0 .. d.n |-> h[a]] /\ Turns(h, 0)
    OBVIOUS
  <2> QED BY <2>1
<1>2. ASSUME NEW m \in Nat, m \in S PROVE m + 1 \in S
  <2>1. PICK f : f = [a \in 0 .. d.n |-> f[a]] /\ Turns(f, m)
    BY <1>2
  <2> DEFINE h == [a \in 0 .. d.n |-> Level(d, f, a)]
  <2>2. ASSUME NEW a \in 0 .. d.n, a + (m + 1) > d.n PROVE h[a] = Level(d, h, a)
    <3>1. ASSUME NEW b \in 0 .. d.n, b > a PROVE f[b] = h[b]
      <4>1. b + m > d.n
        BY <2>2, <3>1
      <4>2. f[b] = Level(d, f, b)
        BY <2>1, <4>1
      <4>3. h[b] = Level(d, f, b)
        BY Zenon
      <4> QED BY <4>2, <4>3
    <3>2. h[a] = Level(d, f, a)
      BY Zenon
    <3> HIDE DEF h
    <3>3. Level(d, f, a) = Level(d, h, a)
      BY <3>1, LevelLocal
    <3> QED BY <3>2, <3>3
  <2>3. h = [a \in 0 .. d.n |-> h[a]]
    OBVIOUS
  <2> HIDE DEF h
  <2>4. Turns(h, m + 1)
    BY <2>2
  <2> QED BY <2>3, <2>4
<1>3. PICK f : f = [a \in 0 .. d.n |-> f[a]] /\ Turns(f, d.n + 1)
  <2> HIDE DEF S
  <2>1. Nat \subseteq S
    BY <1>1, <1>2, Induction
  <2>2. d.n + 1 \in S
    BY <2>1
  <2> QED BY <2>2 DEF S
<1>4. f = [a \in 0 .. d.n |-> Level(d, f, a)]
  <2>1. \A a \in 0 .. d.n : f[a] = Level(d, f, a)
    BY <1>3
  <2> QED BY <1>3, <2>1, Zenon
<1>5. Grammar(d) = CHOOSE h : h = [a \in 0 .. d.n |-> Level(d, h, a)]
  BY Zenon DEF Grammar
<1>6. Grammar(d) = [a \in 0 .. d.n |-> Level(d, Grammar(d), a)]
  BY <1>4, <1>5, Zenon
<1> QED BY <1>6, Zenon

\* What the places of a rule are.
LEMMA GrammarPlaces ==
  ASSUME NEW d, d.n \in Nat, NEW a \in 0 .. d.n, NEW G, G = Grammar(d)
  PROVE  /\ G[a].value = Values(d, G, a)
         /\ \A e : e \in G[a].elements <=>
              /\ e \in a + 1 .. d.n
              /\ \E c \in G[a].value :
                   c = e \/ (c < e /\ d.char[c] = "comma" /\ e \in G[c + 1].elements)
         /\ \A e : e \in G[a].members <=>
              /\ e \in a + 1 .. d.n
              /\ \E c \in Members(d, G, a) :
                   c = e \/ (c < e /\ d.char[c] = "comma" /\ e \in G[c + 1].members)
<1>1. G[a] = Level(d, G, a)
  BY GrammarRule
<1>2. G[a].value = Values(d, G, a)
  BY <1>1 DEF Level
<1>3. G[a].elements = {b \in a + 1 .. d.n : b \in Values(d, G, a) \/ \E c \in Values(d, G, a) :
        c < b /\ d.char[c] = "comma" /\ b \in G[c + 1].elements}
  BY <1>1 DEF Level
<1>4. G[a].members = {b \in a + 1 .. d.n : b \in Members(d, G, a) \/ \E c \in Members(d, G, a) :
        c < b /\ d.char[c] = "comma" /\ b \in G[c + 1].members}
  BY <1>1 DEF Level
<1>5. ASSUME NEW e PROVE e \in G[a].elements <=>
        /\ e \in a + 1 .. d.n
        /\ \E c \in G[a].value :
             c = e \/ (c < e /\ d.char[c] = "comma" /\ e \in G[c + 1].elements)
  BY <1>2, <1>3
<1>6. ASSUME NEW e PROVE e \in G[a].members <=>
        /\ e \in a + 1 .. d.n
        /\ \E c \in Members(d, G, a) :
             c = e \/ (c < e /\ d.char[c] = "comma" /\ e \in G[c + 1].members)
  BY <1>4
<1> QED BY <1>2, <1>5, <1>6

\* A value starts with a scalar or an opening character, a member with a string.
LEMMA FirstOf ==
  ASSUME NEW d, d.n \in Nat, NEW a \in 0 .. d.n - 1, NEW G, G = Grammar(d)
  PROVE  /\ G[a].value \subseteq a + 1 .. d.n
         /\ d.char[a] \notin Scalar \cup Opening => G[a].value = {} /\ G[a].elements = {}
         /\ d.char[a] # "string" => G[a].members = {}
<1>1. a \in 0 .. d.n
  OBVIOUS
<1>2. G[a].value = Values(d, G, a)
  BY <1>1, GrammarPlaces
<1>3. G[a].value \subseteq a + 1 .. d.n
  BY <1>2 DEF Values
<1>4. ASSUME d.char[a] \notin Scalar \cup Opening PROVE G[a].value = {} /\ G[a].elements = {}
  <2>1. G[a].value = {}
    BY <1>2, <1>4 DEF Values
  <2>2. \A e : e \notin G[a].elements
    BY <1>1, <2>1, GrammarPlaces
  <2> QED BY <2>1, <2>2
<1>5. ASSUME d.char[a] # "string" PROVE G[a].members = {}
  <2>1. Members(d, G, a) = {}
    BY <1>5 DEF Members
  <2>2. \A e : e \notin G[a].members
    BY <1>1, <2>1, GrammarPlaces
  <2> QED BY <2>2
<1> QED BY <1>3, <1>4, <1>5

LEMMA ScalarEnds ==
  ASSUME NEW d, d.n \in Nat, NEW a \in 0 .. d.n - 1, d.char[a] \in Scalar
  PROVE  Grammar(d)[a].value = {a + 1}
<1>1. Grammar(d)[a].value = Values(d, Grammar(d), a)
  BY GrammarPlaces
<1>2. d.char[a] \notin Opening
  BY DEF Scalar, Opening
<1>3. \A b : b \in Values(d, Grammar(d), a) <=> b = a + 1
  BY <1>2 DEF Values
<1> QED BY <1>1, <1>3

LEMMA EmptyEnds ==
  ASSUME NEW d, d.n \in Nat, NEW a \in 0 .. d.n - 2, d.char[a] \in Opening,
         d.char[a + 1] = Matching(d.char[a])
  PROVE  Grammar(d)[a].value = {a + 2}
<1>1. PICK G : G = Grammar(d)
  OBVIOUS
<1>2. G[a].value = Values(d, G, a)
  BY <1>1, GrammarPlaces
<1>3. d.char[a] \notin Scalar /\ d.char[a + 1] \notin Scalar \cup Opening
  BY DEF Scalar, Opening, Matching
<1>4. a + 1 \in 0 .. d.n - 1 /\ d.char[a + 1] # "string"
  BY <1>3 DEF Scalar
<1>5. G[a + 1].elements = {} /\ G[a + 1].members = {}
  BY <1>1, <1>3, <1>4, FirstOf
<1>6. \A b : b \in Values(d, G, a) <=> b = a + 2
  <2>1. a + 2 \in a + 1 .. d.n /\ (a + 2) - 1 = a + 1
    OBVIOUS
  <2> QED BY <1>3, <1>5, <2>1 DEF Values
<1> QED BY <1>1, <1>2, <1>6

\* A container that is not empty ends behind the character that matches, where
\* what is inside does.
LEMMA FullEnds ==
  ASSUME NEW d, d.n \in Nat, NEW a \in 0 .. d.n - 2, d.char[a] \in Opening,
         d.char[a + 1] # Matching(d.char[a]), NEW G, G = Grammar(d)
  PROVE  \A b : b \in G[a].value <=>
           /\ b \in a + 1 .. d.n /\ d.char[b - 1] = Matching(d.char[a])
           /\ b - 1 \in (IF d.char[a] = "lbracket" THEN G[a + 1].elements ELSE G[a + 1].members)
<1>1. G[a].value = Values(d, G, a)
  BY GrammarPlaces
<1>2. d.char[a] \notin Scalar /\ d.char[a] \in {"lbracket", "lbrace"}
  BY DEF Scalar, Opening
<1>3. ASSUME NEW b \in a + 1 .. d.n, d.char[b - 1] = Matching(d.char[a]) PROVE b # a + 2
  <2>1. (a + 2) - 1 = a + 1
    OBVIOUS
  <2> QED BY <1>3, <2>1
<1>4. \A b : b \in Values(d, G, a) <=>
        /\ b \in a + 1 .. d.n /\ d.char[b - 1] = Matching(d.char[a])
        /\ b - 1 \in (IF d.char[a] = "lbracket" THEN G[a + 1].elements ELSE G[a + 1].members)
  BY <1>2, <1>3 DEF Values
<1> QED BY <1>1, <1>4

-----------------------------------------------------------------------------
(* What may still come in deep containers, of which array says what they   *)
(* are, when the k-th of them is closed at closer[k].                      *)

Closer(array, k) == IF array[k] THEN "rbracket" ELSE "rbrace"

\* What a container lists, from a on, ends at e.
Lists(d, array, k, a, e) ==
  e \in IF array[k] THEN Grammar(d)[a].elements ELSE Grammar(d)[a].members

\* A whole value of the k-th container ends at q.
GoesOn(d, array, closer, k, q) ==
  IF k = 0 THEN q = d.n
  ELSE \/ q = closer[k]
       \/ q < closer[k] /\ d.char[q] = "comma" /\ Lists(d, array, k, q + 1, closer[k])

ClosedAt(d, array, k, closer) ==
  /\ closer[k] \in 0 .. d.n - 1 /\ d.char[closer[k]] = Closer(array, k)
  /\ GoesOn(d, array, closer, k - 1, closer[k] + 1)

\* The document may go on at q behind a value, at a with what is in the innermost
\* container, with a value, or with a field of it.
BehindIs(d, array, deep, q) ==
  \E closer : /\ \A k \in 1 .. deep : ClosedAt(d, array, k, closer)
              /\ GoesOn(d, array, closer, deep, q)

ListIs(d, array, deep, a) ==
  \E closer : /\ \A k \in 1 .. deep : ClosedAt(d, array, k, closer)
              /\ a < d.n /\ Lists(d, array, deep, a, closer[deep])

ValueFits(d, array, deep, a) ==
  a < d.n /\ \E b \in Grammar(d)[a].value : BehindIs(d, array, deep, b)

FieldIs(d, array, deep, a) ==
  a < d.n /\ d.char[a] = "colon" /\ ValueFits(d, array, deep, a + 1)

LEMMA DocumentFits ==
  ASSUME NEW d, d.n \in Nat \ {0}, NEW array
  PROVE  /\ \A q : BehindIs(d, array, 0, q) <=> q = d.n
         /\ ValueFits(d, array, 0, 0) <=> IsJSON(d)
<1>1. ASSUME NEW q PROVE BehindIs(d, array, 0, q) <=> q = d.n
  <2>1. \A closer : \A k \in 1 .. 0 : ClosedAt(d, array, k, closer)
    OBVIOUS
  <2> QED BY <2>1 DEF BehindIs, GoesOn
<1> QED BY <1>1 DEF ValueFits, IsJSON

\* A value of one character, an empty container, and what starts no value.
LEMMA ShortValueFits ==
  ASSUME NEW d, d.n \in Nat, NEW array, NEW deep, NEW a \in 0 .. d.n - 1
  PROVE  /\ d.char[a] \in Scalar => (ValueFits(d, array, deep, a) <=> BehindIs(d, array, deep, a + 1))
         /\ d.char[a] \in Opening /\ a < d.n - 1 /\ d.char[a + 1] = Matching(d.char[a]) =>
              (ValueFits(d, array, deep, a) <=> BehindIs(d, array, deep, a + 2))
         /\ d.char[a] \notin Scalar \cup Opening => ~ValueFits(d, array, deep, a)
<1>1. CASE d.char[a] \in Scalar
  <2>1. Grammar(d)[a].value = {a + 1} /\ d.char[a] \notin Opening
    BY <1>1, ScalarEnds DEF Scalar, Opening
  <2> QED BY <1>1, <2>1 DEF ValueFits
<1>2. CASE d.char[a] \in Opening
  <2>1. d.char[a] \notin Scalar
    BY <1>2 DEF Scalar, Opening
  <2>2. ASSUME a < d.n - 1, d.char[a + 1] = Matching(d.char[a])
        PROVE  ValueFits(d, array, deep, a) <=> BehindIs(d, array, deep, a + 2)
    <3>1. a \in 0 .. d.n - 2
      BY <2>2
    <3>2. Grammar(d)[a].value = {a + 2}
      BY <1>2, <2>2, <3>1, EmptyEnds
    <3> QED BY <3>2 DEF ValueFits
  <2> QED BY <1>2, <2>1, <2>2
<1>3. CASE d.char[a] \notin Scalar \cup Opening
  <2>1. Grammar(d)[a].value = {}
    BY <1>3, FirstOf
  <2> QED BY <1>3, <2>1 DEF ValueFits
<1> QED BY <1>1, <1>2, <1>3

\* What is behind a value depends on the open containers only.
LEMMA GoesOnSame ==
  ASSUME NEW d, NEW deep \in Nat, NEW array, NEW kinds, NEW closer, NEW ends,
         \A k \in 1 .. deep : array[k] = kinds[k] /\ closer[k] = ends[k],
         NEW k \in 0 .. deep, NEW q
  PROVE  /\ GoesOn(d, array, closer, k, q) <=> GoesOn(d, kinds, ends, k, q)
         /\ k > 0 => (ClosedAt(d, array, k, closer) <=> ClosedAt(d, kinds, k, ends))
<1>1. ASSUME NEW l \in 0 .. deep, NEW p
      PROVE  GoesOn(d, array, closer, l, p) <=> GoesOn(d, kinds, ends, l, p)
  <2>1. CASE l = 0
    BY <2>1 DEF GoesOn
  <2>2. CASE l # 0
    <3>1. l \in 1 .. deep
      BY <2>2
    <3>2. array[l] = kinds[l] /\ closer[l] = ends[l]
      BY <3>1
    <3> QED BY <2>2, <3>2 DEF GoesOn, Lists
  <2> QED BY <2>1, <2>2
<1>2. ASSUME k > 0 PROVE ClosedAt(d, array, k, closer) <=> ClosedAt(d, kinds, k, ends)
  <2>1. k \in 1 .. deep /\ k - 1 \in 0 .. deep
    BY <1>2
  <2>2. array[k] = kinds[k] /\ closer[k] = ends[k]
    BY <2>1
  <2>3. GoesOn(d, array, closer, k - 1, closer[k] + 1) <=> GoesOn(d, kinds, ends, k - 1, closer[k] + 1)
    BY <1>1, <2>1
  <2> QED BY <2>2, <2>3, Zenon DEF ClosedAt, Closer
<1> QED BY <1>1, <1>2

\* What is listed from a on ends behind a.
LEMMA ListsBehind ==
  ASSUME NEW d, d.n \in Nat, NEW array, NEW k, NEW a \in 0 .. d.n, NEW e, Lists(d, array, k, a, e)
  PROVE  e \in a + 1 .. d.n
<1>1. PICK G : G = Grammar(d)
  OBVIOUS
<1>2. e \in G[a].elements \/ e \in G[a].members
  BY <1>1 DEF Lists
<1> QED BY <1>1, <1>2, GrammarPlaces

\* A container with something in it fits where what it lists does.
LEMMA ContainerFits ==
  ASSUME NEW d, d.n \in Nat, NEW deep \in Nat, NEW array, NEW kinds,
         \A k \in 1 .. deep : array[k] = kinds[k],
         NEW a \in 0 .. d.n - 2, d.char[a] \in Opening, d.char[a + 1] # Matching(d.char[a]),
         kinds[deep + 1] = (d.char[a] = "lbracket")
  PROVE  ValueFits(d, array, deep, a) <=> ListIs(d, kinds, deep + 1, a + 1)
<1>1. PICK G : G = Grammar(d)
  OBVIOUS
<1>2. Matching(d.char[a]) = Closer(kinds, deep + 1)
  BY DEF Opening, Matching, Closer
<1>3. \A b : b \in G[a].value <=>
        /\ b \in a + 1 .. d.n /\ d.char[b - 1] = Closer(kinds, deep + 1)
        /\ Lists(d, kinds, deep + 1, a + 1, b - 1)
  <2>1. \A b : b \in G[a].value <=>
          /\ b \in a + 1 .. d.n /\ d.char[b - 1] = Matching(d.char[a])
          /\ b - 1 \in (IF d.char[a] = "lbracket" THEN G[a + 1].elements ELSE G[a + 1].members)
    BY <1>1, FullEnds
  <2> QED BY <1>1, <1>2, <2>1 DEF Lists
<1>4. a < d.n /\ a + 1 < d.n /\ a + 1 \in 0 .. d.n
  OBVIOUS
<1>5. ASSUME ValueFits(d, array, deep, a) PROVE ListIs(d, kinds, deep + 1, a + 1)
  <2>1. PICK b \in G[a].value : BehindIs(d, array, deep, b)
    BY <1>1, <1>5 DEF ValueFits
  <2>2. PICK closer : /\ \A k \in 1 .. deep : ClosedAt(d, array, k, closer)
                      /\ GoesOn(d, array, closer, deep, b)
    BY <2>1 DEF BehindIs
  <2>3. PICK ends : ends = [k \in 1 .. deep + 1 |-> IF k = deep + 1 THEN b - 1 ELSE closer[k]]
    OBVIOUS
  <2>4. ends[deep + 1] = b - 1 /\ \A k \in 1 .. deep : array[k] = kinds[k] /\ closer[k] = ends[k]
    BY <2>3
  <2>5. ASSUME NEW k \in 1 .. deep PROVE ClosedAt(d, kinds, k, ends)
    <3>1. k \in 0 .. deep /\ k > 0
      OBVIOUS
    <3> QED BY <2>2, <2>4, <3>1, GoesOnSame
  <2>6. /\ b \in a + 1 .. d.n /\ d.char[b - 1] = Closer(kinds, deep + 1)
        /\ Lists(d, kinds, deep + 1, a + 1, b - 1)
    BY <1>3
  <2>7. GoesOn(d, kinds, ends, deep, b)
    <3>1. deep \in 0 .. deep
      OBVIOUS
    <3> QED BY <2>2, <2>4, <3>1, GoesOnSame
  <2>8. ClosedAt(d, kinds, deep + 1, ends)
    <3>1. (deep + 1) - 1 = deep /\ (b - 1) + 1 = b /\ b - 1 \in 0 .. d.n - 1
      BY <2>6
    <3> QED BY <2>4, <2>6, <2>7, <3>1 DEF ClosedAt
  <2>9. \A k \in 1 .. deep + 1 : ClosedAt(d, kinds, k, ends)
    BY <2>5, <2>8
  <2> QED BY <1>4, <2>4, <2>6, <2>9 DEF ListIs
<1>6. ASSUME ListIs(d, kinds, deep + 1, a + 1) PROVE ValueFits(d, array, deep, a)
  <2>1. PICK ends : /\ \A k \in 1 .. deep + 1 : ClosedAt(d, kinds, k, ends)
                    /\ Lists(d, kinds, deep + 1, a + 1, ends[deep + 1])
    BY <1>6 DEF ListIs
  <2>2. PICK e : e = ends[deep + 1]
    OBVIOUS
  <2>3. /\ e \in 0 .. d.n - 1 /\ d.char[e] = Closer(kinds, deep + 1)
        /\ GoesOn(d, kinds, ends, deep, e + 1)
    <3>1. ClosedAt(d, kinds, deep + 1, ends) /\ (deep + 1) - 1 = deep
      BY <2>1
    <3> QED BY <2>2, <3>1 DEF ClosedAt
  <2>4. Lists(d, kinds, deep + 1, a + 1, e)
    BY <2>1, <2>2
  <2>5. e \in (a + 1) + 1 .. d.n
    BY <1>4, <2>4, ListsBehind
  <2>6. (e + 1) - 1 = e /\ e + 1 \in a + 1 .. d.n
    BY <2>3, <2>5
  <2>7. e + 1 \in G[a].value
    BY <1>3, <2>3, <2>4, <2>6
  <2>8. \A k \in 1 .. deep : array[k] = kinds[k] /\ ends[k] = ends[k]
    OBVIOUS
  <2>9. ASSUME NEW k \in 1 .. deep PROVE ClosedAt(d, array, k, ends)
    <3>1. k \in 0 .. deep /\ k > 0 /\ k \in 1 .. deep + 1
      OBVIOUS
    <3>2. ClosedAt(d, kinds, k, ends)
      BY <2>1, <3>1
    <3> QED BY <2>8, <3>1, <3>2, GoesOnSame
  <2>10. GoesOn(d, array, ends, deep, e + 1)
    <3>1. deep \in 0 .. deep
      OBVIOUS
    <3> QED BY <2>3, <2>8, <3>1, GoesOnSame
  <2>11. BehindIs(d, array, deep, e + 1)
    BY <2>9, <2>10 DEF BehindIs
  <2> QED BY <1>1, <1>4, <2>7, <2>11 DEF ValueFits
<1> QED BY <1>5, <1>6

\* Past the end nothing may come in a container.
LEMMA NothingBehind ==
  ASSUME NEW d, d.n \in Nat, NEW array, NEW deep \in Nat \ {0}, NEW q \in Nat, q >= d.n
  PROVE  ~BehindIs(d, array, deep, q) /\ ~ListIs(d, array, deep, q) /\ ~FieldIs(d, array, deep, q)
<1>1. ASSUME BehindIs(d, array, deep, q) PROVE FALSE
  <2>1. PICK closer : ClosedAt(d, array, deep, closer) /\ GoesOn(d, array, closer, deep, q)
    BY <1>1 DEF BehindIs
  <2> QED BY <2>1 DEF ClosedAt, GoesOn
<1> QED BY <1>1 DEF ListIs, FieldIs

\* What an array lists starts with a value.
LEMMA ElementsFit ==
  ASSUME NEW d, d.n \in Nat, NEW array, NEW deep \in Nat \ {0}, array[deep], NEW a \in 0 .. d.n - 1
  PROVE  ListIs(d, array, deep, a) <=> ValueFits(d, array, deep, a)
<1>1. PICK G : G = Grammar(d)
  OBVIOUS
<1>2. a \in 0 .. d.n /\ a < d.n /\ deep \in 1 .. deep /\ deep # 0
  OBVIOUS
<1>3. \A e : Lists(d, array, deep, a, e) <=>
        e \in a + 1 .. d.n /\ \E c \in G[a].value :
          c = e \/ (c < e /\ d.char[c] = "comma" /\ Lists(d, array, deep, c + 1, e))
  <2>1. \A e : e \in G[a].elements <=>
          /\ e \in a + 1 .. d.n
          /\ \E c \in G[a].value :
               c = e \/ (c < e /\ d.char[c] = "comma" /\ e \in G[c + 1].elements)
    BY <1>1, <1>2, GrammarPlaces
  <2> QED BY <1>1, <2>1 DEF Lists
<1>4. G[a].value \subseteq a + 1 .. d.n
  BY <1>1, FirstOf
<1>5. ASSUME NEW closer, closer[deep] \in 0 .. d.n - 1
      PROVE  Lists(d, array, deep, a, closer[deep]) <=>
               \E c \in G[a].value : GoesOn(d, array, closer, deep, c)
  <2>1. \A c \in G[a].value : GoesOn(d, array, closer, deep, c) => closer[deep] \in a + 1 .. d.n
    BY <1>2, <1>4, <1>5 DEF GoesOn
  <2>2. \A c \in G[a].value : GoesOn(d, array, closer, deep, c) <=>
          \/ c = closer[deep]
          \/ c < closer[deep] /\ d.char[c] = "comma" /\ Lists(d, array, deep, c + 1, closer[deep])
    BY <1>2 DEF GoesOn
  <2> QED BY <1>3, <2>1, <2>2
<1>6. ASSUME NEW closer PROVE ClosedAt(d, array, deep, closer) => closer[deep] \in 0 .. d.n - 1
  BY DEF ClosedAt
<1>7. \A closer : (\A k \in 1 .. deep : ClosedAt(d, array, k, closer)) => closer[deep] \in 0 .. d.n - 1
  BY <1>2, <1>6
<1> QED BY <1>1, <1>2, <1>5, <1>7 DEF ListIs, ValueFits, BehindIs

\* What an object lists starts with a key, and a field behind it.
LEMMA MembersFit ==
  ASSUME NEW d, d.n \in Nat, NEW array, NEW deep \in Nat \ {0}, ~array[deep], NEW a \in 0 .. d.n - 1
  PROVE  ListIs(d, array, deep, a) <=> d.char[a] = "string" /\ FieldIs(d, array, deep, a + 1)
<1>1. PICK G : G = Grammar(d)
  OBVIOUS
<1>2. a \in 0 .. d.n /\ a < d.n /\ deep \in 1 .. deep /\ deep # 0 /\ (a + 1) + 1 = a + 2
  OBVIOUS
<1>3. \A e : Lists(d, array, deep, a, e) <=>
        e \in a + 1 .. d.n /\ \E c \in Members(d, G, a) :
          c = e \/ (c < e /\ d.char[c] = "comma" /\ Lists(d, array, deep, c + 1, e))
  <2>1. \A e : e \in G[a].members <=>
          /\ e \in a + 1 .. d.n
          /\ \E c \in Members(d, G, a) :
               c = e \/ (c < e /\ d.char[c] = "comma" /\ e \in G[c + 1].members)
    BY <1>1, <1>2, GrammarPlaces
  <2> QED BY <1>1, <2>1 DEF Lists
<1>4. ASSUME NEW closer, closer[deep] \in 0 .. d.n - 1
      PROVE  Lists(d, array, deep, a, closer[deep]) <=>
               \E c \in Members(d, G, a) : GoesOn(d, array, closer, deep, c)
  <2>0. Members(d, G, a) \subseteq a + 3 .. d.n
    BY DEF Members
  <2>1. \A c \in Members(d, G, a) : GoesOn(d, array, closer, deep, c) => closer[deep] \in a + 1 .. d.n
    BY <1>2, <1>4, <2>0 DEF GoesOn
  <2>2. \A c \in Members(d, G, a) : GoesOn(d, array, closer, deep, c) <=>
          \/ c = closer[deep]
          \/ c < closer[deep] /\ d.char[c] = "comma" /\ Lists(d, array, deep, c + 1, closer[deep])
    BY <1>2 DEF GoesOn
  <2> QED BY <1>3, <2>1, <2>2
<1>5. ASSUME NEW closer PROVE ClosedAt(d, array, deep, closer) => closer[deep] \in 0 .. d.n - 1
  BY DEF ClosedAt
<1>6. \A closer : (\A k \in 1 .. deep : ClosedAt(d, array, k, closer)) => closer[deep] \in 0 .. d.n - 1
  BY <1>2, <1>5
<1>7. ListIs(d, array, deep, a) <=> \E c \in Members(d, G, a) : BehindIs(d, array, deep, c)
  BY <1>2, <1>4, <1>6 DEF ListIs, BehindIs
<1>8. CASE d.char[a] = "string" /\ d.char[a + 1] = "colon" /\ a + 2 < d.n
  <2>1. a + 2 \in 0 .. d.n - 1
    BY <1>8
  <2>2. G[a + 2].value \subseteq (a + 2) + 1 .. d.n
    BY <1>1, <2>1, FirstOf
  <2>3. Members(d, G, a) = G[a + 2].value
    BY <1>8, <2>2 DEF Members
  <2>4. a + 1 < d.n
    BY <1>8
  <2> QED BY <1>1, <1>2, <1>7, <1>8, <2>3, <2>4 DEF FieldIs, ValueFits
<1>9. CASE ~(d.char[a] = "string" /\ d.char[a + 1] = "colon" /\ a + 2 < d.n)
  <2>1. ASSUME NEW b \in Members(d, G, a) PROVE FALSE
    <3>1. b \in a + 3 .. d.n /\ d.char[a] = "string" /\ d.char[a + 1] = "colon"
      BY <2>1 DEF Members
    <3> QED BY <1>9, <3>1
  <2>2. Members(d, G, a) = {}
    BY <2>1
  <2> QED BY <1>2, <1>7, <1>9, <2>2 DEF FieldIs, ValueFits
<1> QED BY <1>8, <1>9

\* Behind a value in a container comes a comma, with more of the list behind it,
\* or what closes the container.
LEMMA BehindFits ==
  ASSUME NEW d, d.n \in Nat, NEW array, NEW deep \in Nat \ {0}, NEW q \in 0 .. d.n - 1
  PROVE  /\ d.char[q] = "comma" => (BehindIs(d, array, deep, q) <=> ListIs(d, array, deep, q + 1))
         /\ d.char[q] = Closer(array, deep) =>
              (BehindIs(d, array, deep, q) <=> BehindIs(d, array, deep - 1, q + 1))
         /\ BehindIs(d, array, deep, q) => d.char[q] \in {"comma", Closer(array, deep)}
<1>1. deep \in 1 .. deep /\ deep # 0 /\ deep - 1 \in Nat /\ Closer(array, deep) # "comma"
  BY DEF Closer
<1>2. ASSUME NEW closer, \A k \in 1 .. deep : ClosedAt(d, array, k, closer)
      PROVE  closer[deep] \in 0 .. d.n - 1 /\ d.char[closer[deep]] = Closer(array, deep)
             /\ GoesOn(d, array, closer, deep - 1, closer[deep] + 1)
  BY <1>1, <1>2 DEF ClosedAt
<1>3. ASSUME d.char[q] = "comma"
      PROVE  BehindIs(d, array, deep, q) <=> ListIs(d, array, deep, q + 1)
  <2>1. ASSUME NEW closer, \A k \in 1 .. deep : ClosedAt(d, array, k, closer)
        PROVE  GoesOn(d, array, closer, deep, q) <=>
                 q + 1 < d.n /\ Lists(d, array, deep, q + 1, closer[deep])
    <3>1. closer[deep] \in 0 .. d.n - 1 /\ q # closer[deep]
      BY <1>1, <1>2, <1>3, <2>1
    <3>2. GoesOn(d, array, closer, deep, q) <=>
            q < closer[deep] /\ Lists(d, array, deep, q + 1, closer[deep])
      BY <1>1, <1>3, <3>1 DEF GoesOn
    <3>3. Lists(d, array, deep, q + 1, closer[deep]) => closer[deep] \in (q + 1) + 1 .. d.n
      BY ListsBehind
    <3> QED BY <3>1, <3>2, <3>3
  <2> QED BY <2>1 DEF BehindIs, ListIs
<1>4. ASSUME BehindIs(d, array, deep, q) PROVE d.char[q] \in {"comma", Closer(array, deep)}
  BY <1>1, <1>2, <1>4 DEF BehindIs, GoesOn
<1>5. ASSUME d.char[q] = Closer(array, deep), BehindIs(d, array, deep, q)
      PROVE  BehindIs(d, array, deep - 1, q + 1)
  <2>1. PICK closer : /\ \A k \in 1 .. deep : ClosedAt(d, array, k, closer)
                      /\ GoesOn(d, array, closer, deep, q)
    BY <1>5 DEF BehindIs
  <2>2. q = closer[deep]
    BY <1>1, <1>5, <2>1 DEF GoesOn
  <2>3. GoesOn(d, array, closer, deep - 1, q + 1)
    BY <1>2, <2>1, <2>2
  <2>4. \A k \in 1 .. deep - 1 : ClosedAt(d, array, k, closer)
    BY <2>1
  <2> QED BY <2>3, <2>4 DEF BehindIs
<1>6. ASSUME d.char[q] = Closer(array, deep), BehindIs(d, array, deep - 1, q + 1)
      PROVE  BehindIs(d, array, deep, q)
  <2>1. PICK closer : /\ \A k \in 1 .. deep - 1 : ClosedAt(d, array, k, closer)
                      /\ GoesOn(d, array, closer, deep - 1, q + 1)
    BY <1>6 DEF BehindIs
  <2>2. PICK ends : ends = [k \in 1 .. deep |-> IF k = deep THEN q ELSE closer[k]]
    OBVIOUS
  <2>3. ends[deep] = q /\ \A k \in 1 .. deep - 1 : array[k] = array[k] /\ closer[k] = ends[k]
    BY <2>2
  <2>4. ASSUME NEW k \in 1 .. deep - 1 PROVE ClosedAt(d, array, k, ends)
    <3>1. k \in 0 .. deep - 1 /\ k > 0
      OBVIOUS
    <3> QED BY <1>1, <2>1, <2>3, <3>1, GoesOnSame
  <2>5. GoesOn(d, array, ends, deep - 1, q + 1)
    <3>1. PICK m : m = deep - 1
      OBVIOUS
    <3>2. m \in Nat /\ m \in 0 .. m /\ GoesOn(d, array, closer, m, q + 1)
      BY <1>1, <2>1, <3>1
    <3>3. \A k \in 1 .. m : array[k] = array[k] /\ closer[k] = ends[k]
      BY <2>3, <3>1
    <3>4. GoesOn(d, array, ends, m, q + 1)
      BY <3>2, <3>3, GoesOnSame
    <3> QED BY <3>1, <3>4
  <2>6. ClosedAt(d, array, deep, ends)
    BY <1>6, <2>3, <2>5 DEF ClosedAt
  <2>7. \A k \in 1 .. deep : ClosedAt(d, array, k, ends)
    BY <2>4, <2>6
  <2>8. GoesOn(d, array, ends, deep, q)
    BY <1>1, <2>3 DEF GoesOn
  <2> QED BY <2>7, <2>8 DEF BehindIs
<1> QED BY <1>3, <1>4, <1>5, <1>6

-----------------------------------------------------------------------------
(* What the walk takes.                                                    *)

\* The document is JSON when, from next on, there is what the label expects in
\* the containers that are open.
JsonInv ==
  /\ pc = "document_start" => depth = 0
  /\ pc \in Begins =>
       /\ doc.char[next - 1] = IF pc = "object_begin" THEN "lbrace" ELSE "lbracket"
       /\ doc.char[next] # Matching(doc.char[next - 1])
       /\ IsJSON(doc) <=> ValueFits(doc, is_array, depth, next - 1)
  /\ pc \in {"first_key", "next_key"} =>
       ~is_array[depth] /\ (IsJSON(doc) <=> ListIs(doc, is_array, depth, next))
  /\ pc = "array_value" =>
       is_array[depth] /\ (IsJSON(doc) <=> ListIs(doc, is_array, depth, next))
  /\ pc = "object_field" =>
       ~is_array[depth] /\ (IsJSON(doc) <=> FieldIs(doc, is_array, depth, next))
  /\ pc \in Continues =>
       /\ is_array[depth] <=> pc = "array_continue"
       /\ IsJSON(doc) <=> BehindIs(doc, is_array, depth, next)
  /\ pc = "document_end" => depth = 0 /\ (IsJSON(doc) <=> next = doc.n)
  /\ pc = "done" =>
       (error = "none" => IsJSON(doc)) /\ (error = "TAPE_ERROR" => ~IsJSON(doc))

\* Behind a whole value.
LEMMA BehindJson ==
  ASSUME doc'.n \in Nat \ {0}, depth' \in Nat, is_array'[depth'] \in BOOLEAN,
         pc' = ContinueAt(depth', is_array'),
         IsJSON(doc') <=> BehindIs(doc', is_array', depth', next')
  PROVE  JsonInv'
<1>1. CASE depth' = 0
  <2>1. pc' = "document_end"
    BY <1>1 DEF ContinueAt
  <2>2. PICK d : d = doc'
    OBVIOUS
  <2>3. PICK array : array = is_array'
    OBVIOUS
  <2>4. BehindIs(d, array, 0, next') <=> next' = d.n
    BY <2>2, DocumentFits
  <2> QED BY <1>1, <2>1, <2>2, <2>3, <2>4 DEF JsonInv, Begins, Continues
<1>2. CASE depth' # 0
  <2>1. /\ pc' \in Continues /\ (is_array'[depth'] <=> pc' = "array_continue")
    BY <1>2 DEF ContinueAt, Continues
  <2> QED BY <2>1 DEF JsonInv, Begins, Continues
<1> QED BY <1>1, <1>2

\* What is refused for its form.
LEMMA RefusedJson ==
  ASSUME pc' = "done", error' # "none", doc' = doc, error' = "TAPE_ERROR" => ~IsJSON(doc)
  PROVE  JsonInv'
BY DEF JsonInv, Begins, Continues

LEMMA ValueJson ==
  ASSUME WalkInv, NEW k \in 0 .. doc.n - 1, NEW after, Value(k, after),
         after = ContinueAt(depth, is_array),
         doc.char[k] \in Opening => k < doc.n - 1,
         IsJSON(doc) <=> ValueFits(doc, is_array, depth, k)
  PROVE  JsonInv'
<1>1. /\ doc.n \in Nat \ {0} /\ doc.n \in Nat /\ depth \in Nat /\ is_array[depth] \in BOOLEAN /\ Byte(k) = doc.char[k]
  BY Places
<1>2. doc.char[k] \in Opening => k + 1 \in 0 .. doc.n - 1 /\ Byte(k + 1) = doc.char[k + 1]
  <2>1. doc.char[k] \in Opening => k + 1 \in 0 .. doc.n - 1
    BY <1>1
  <2> QED BY <2>1, Places
<1>3. CASE /\ Byte(k) \in Opening /\ Byte(k + 1) = Matching(Byte(k))
           /\ next' = k + 2 /\ pc' = after /\ Frame
  <2>1. doc' = doc /\ depth' = depth /\ is_array' = is_array
    BY <1>3 DEF Frame
  <2>2. ValueFits(doc, is_array, depth, k) <=> BehindIs(doc, is_array, depth, k + 2)
    BY <1>1, <1>2, <1>3, ShortValueFits
  <2> QED BY <1>1, <1>3, <2>1, <2>2, BehindJson
<1>4. CASE /\ Byte(k) \in Opening /\ Byte(k + 1) # Matching(Byte(k))
           /\ next' = k + 1 /\ Frame
           /\ pc' = IF Byte(k) = "lbrace" THEN "object_begin" ELSE "array_begin"
  <2>1. doc' = doc /\ depth' = depth /\ is_array' = is_array /\ next' - 1 = k /\ next' = k + 1
    BY <1>4 DEF Frame
  <2>2. /\ pc' \in Begins /\ doc.char[k + 1] # Matching(doc.char[k])
        /\ doc.char[k] = IF pc' = "object_begin" THEN "lbrace" ELSE "lbracket"
    BY <1>1, <1>2, <1>4 DEF Begins, Opening
  <2> QED BY <2>1, <2>2 DEF JsonInv, Begins, Continues
<1>5. CASE Byte(k) \in Scalar /\ Advanced(k, after) /\ Frame
  <2>1. doc' = doc /\ depth' = depth /\ is_array' = is_array /\ next' = k + 1 /\ pc' = after
    BY <1>5 DEF Frame, Advanced
  <2>2. ValueFits(doc, is_array, depth, k) <=> BehindIs(doc, is_array, depth, k + 1)
    BY <1>1, <1>5, ShortValueFits
  <2> QED BY <1>1, <2>1, <2>2, BehindJson
<1>6. CASE refuse_scalar(k)
  BY <1>6, RefusedJson DEF refuse_scalar
<1>7. CASE Byte(k) \notin Scalar \cup Opening /\ Fail(k, "TAPE_ERROR")
  <2>1. ~ValueFits(doc, is_array, depth, k)
    BY <1>1, <1>7, ShortValueFits
  <2> QED BY <1>7, <2>1, RefusedJson DEF Fail
<1> QED BY <1>3, <1>4, <1>5, <1>6, <1>7 DEF Value

LEMMA StartJson ==
  ASSUME WalkInv, JsonInv, UnclosedDocument \/ FirstValue
  PROVE  JsonInv'
<1>1. /\ doc.n \in Nat \ {0} /\ doc.n \in Nat /\ 0 \in 0 .. doc.n - 1 /\ doc.n - 1 \in 0 .. doc.n - 1
  BY Places
<1>2. Byte(0) = doc.char[0] /\ Byte(doc.n - 1) = doc.char[doc.n - 1]
  BY <1>1, Places
<1>3. depth = 0
  BY DEF JsonInv, UnclosedDocument, FirstValue
<1>4. CASE UnclosedDocument
  <2>1. doc.char[0] \in Opening /\ doc.char[doc.n - 1] # Matching(doc.char[0])
    BY <1>2, <1>4 DEF UnclosedDocument, ClosedAtTheEnd
  <2>2. doc.char[0] \notin Scalar
    BY <2>1 DEF Opening, Scalar
  <2>3. Grammar(doc)[0].value = Values(doc, Grammar(doc), 0)
    BY <1>1, GrammarPlaces
  <2>4. ~IsJSON(doc)
    BY <2>1, <2>2, <2>3 DEF IsJSON, Values
  <2> QED BY <1>4, <2>4, RefusedJson DEF UnclosedDocument, Fail
<1>5. CASE FirstValue
  <2>1. "document_end" = ContinueAt(depth, is_array)
    BY <1>3 DEF ContinueAt
  <2>2. doc.char[0] \in Opening => 0 < doc.n - 1
    <3>1. doc.char[0] \in Opening => doc.char[doc.n - 1] # doc.char[0]
      BY <1>2, <1>5 DEF FirstValue, ClosedAtTheEnd, Opening, Matching
    <3> QED BY <1>1, <3>1
  <2>3. IsJSON(doc) <=> ValueFits(doc, is_array, depth, 0)
    BY <1>1, <1>3, DocumentFits
  <2> QED BY <1>1, <1>5, <2>1, <2>2, <2>3, ValueJson DEF FirstValue
<1> QED BY <1>4, <1>5

LEMMA BeginJson ==
  ASSUME WalkInv, JsonInv, ObjectBegin \/ ArrayBegin
  PROVE  JsonInv'
<1>1. /\ doc.n \in Nat /\ depth \in Nat /\ next \in 1 .. doc.n - 1
  BY Places DEF WalkInv, PlaceInv, Begins, ObjectBegin, ArrayBegin
<1>2. CASE Fail(read, "DEPTH_ERROR")
  BY <1>2, RefusedJson DEF Fail
<1>3. CASE ~Fail(read, "DEPTH_ERROR")
  <2>1. PICK array : array = (pc = "array_begin")
    OBVIOUS
  <2>2. /\ depth + 1 < MaxDepth /\ depth' = depth + 1 /\ doc' = doc /\ next' = next
        /\ is_array' = [is_array EXCEPT ![depth + 1] = array]
        /\ pc' = IF array THEN "array_value" ELSE "first_key"
        /\ pc \in Begins
    BY <1>3, <2>1 DEF ObjectBegin, ArrayBegin, Begins
  <2>3. is_array \in [0 .. MaxDepth - 1 -> BOOLEAN]
    BY DEF WalkInv, WalkTypeOK
  <2>4. \A k \in 1 .. depth : is_array[k] = is_array'[k]
    BY <1>1, <2>2, <2>3, DepthAssumption
  <2>5. is_array'[depth + 1] = array
    BY <1>1, <2>2, <2>3, DepthAssumption
  <2>6. PICK a : a = next - 1
    OBVIOUS
  <2>7. a \in 0 .. doc.n - 2 /\ a + 1 = next
    BY <1>1, <2>6
  <2>8. /\ doc.char[a] = IF array THEN "lbracket" ELSE "lbrace"
        /\ doc.char[a + 1] # Matching(doc.char[a])
        /\ IsJSON(doc) <=> ValueFits(doc, is_array, depth, a)
    BY <2>1, <2>2, <2>6, <2>7 DEF JsonInv, Begins
  <2>9. doc.char[a] \in Opening /\ array = (doc.char[a] = "lbracket")
    BY <2>1, <2>8 DEF Opening
  <2>10. PICK kinds : kinds = is_array'
    OBVIOUS
  <2>11. ValueFits(doc, is_array, depth, a) <=> ListIs(doc, kinds, depth + 1, a + 1)
    BY <1>1, <2>4, <2>5, <2>7, <2>8, <2>9, <2>10, ContainerFits
  <2>12. /\ IsJSON(doc') <=> ListIs(doc', is_array', depth', next')
         /\ is_array'[depth'] = array /\ array \in BOOLEAN
    BY <2>1, <2>2, <2>5, <2>7, <2>8, <2>10, <2>11
  <2> QED BY <2>2, <2>12 DEF JsonInv, Begins, Continues
<1> QED BY <1>2, <1>3

LEMMA KeyJson ==
  ASSUME WalkInv, JsonInv, FirstKey \/ NextKey
  PROVE  JsonInv'
<1>1. /\ doc.n \in Nat /\ depth \in Nat \ {0} /\ next \in Nat
  BY Places DEF WalkInv, PlaceInv, Inside, Expecting, FirstKey, NextKey
<1>2. ~is_array[depth] /\ (IsJSON(doc) <=> ListIs(doc, is_array, depth, next))
  BY DEF JsonInv, FirstKey, NextKey
<1>3. IsJSON(doc) <=> Byte(next) = "string" /\ FieldIs(doc, is_array, depth, next + 1)
  <2>1. CASE next < doc.n
    <3>1. next \in 0 .. doc.n - 1
      BY <1>1, <2>1
    <3>2. Byte(next) = doc.char[next]
      BY <3>1, Places
    <3> QED BY <1>1, <1>2, <3>1, <3>2, MembersFit
  <2>2. CASE next >= doc.n
    <3>1. next + 1 \in Nat /\ next + 1 >= doc.n
      BY <1>1, <2>2
    <3> QED BY <1>1, <1>2, <2>2, <3>1, NothingBehind
  <2> QED BY <1>1, <2>1, <2>2
<1>4. CASE Byte(next) = "string" /\ Advanced(next, "object_field") /\ Frame
  <2>1. doc' = doc /\ depth' = depth /\ is_array' = is_array /\ next' = next + 1 /\ pc' = "object_field"
    BY <1>4 DEF Frame, Advanced
  <2> QED BY <1>2, <1>3, <1>4, <2>1 DEF JsonInv, Begins, Continues
<1>5. CASE refuse_scalar(next)
  BY <1>5, RefusedJson DEF refuse_scalar
<1>6. CASE Byte(next) # "string" /\ Fail(next, "TAPE_ERROR")
  BY <1>3, <1>6, RefusedJson DEF Fail
<1> QED BY <1>4, <1>5, <1>6 DEF FirstKey, NextKey, Key

LEMMA FieldJson ==
  ASSUME WalkInv, JsonInv, ObjectField
  PROVE  JsonInv'
<1>1. /\ doc.n \in Nat /\ depth \in Nat \ {0} /\ next \in 1 .. doc.n - 1
      /\ doc.char[doc.n - 1] \in Closing
  BY Places DEF WalkInv, PlaceInv, Inside, ObjectField
<1>2. ~is_array[depth] /\ (IsJSON(doc) <=> FieldIs(doc, is_array, depth, next))
  BY DEF JsonInv, ObjectField
<1>3. Byte(next) = doc.char[next] /\ next < doc.n
  <2>1. next \in 0 .. doc.n - 1
    BY <1>1
  <2> QED BY <2>1, Places
<1>4. CASE Byte(next) = "colon" /\ Value(next + 1, "object_continue")
  <2>1. next # doc.n - 1
    BY <1>1, <1>3, <1>4 DEF Closing
  <2>2. next + 1 \in 0 .. doc.n - 1
    BY <1>1, <2>1
  <2>3. doc.char[next + 1] \in Opening => next + 1 # doc.n - 1
    BY <1>1 DEF Opening, Closing
  <2>4. IsJSON(doc) <=> ValueFits(doc, is_array, depth, next + 1)
    BY <1>2, <1>3, <1>4 DEF FieldIs
  <2>5. "object_continue" = ContinueAt(depth, is_array)
    BY <1>1, <1>2 DEF ContinueAt
  <2>6. doc.char[next + 1] \in Opening => next + 1 < doc.n - 1
    BY <1>1, <2>2, <2>3
  <2> QED BY <1>4, <2>2, <2>4, <2>5, <2>6, ValueJson
<1>5. CASE Byte(next) # "colon" /\ Fail(next, "TAPE_ERROR")
  <2>1. ~IsJSON(doc)
    BY <1>2, <1>3, <1>5 DEF FieldIs
  <2> QED BY <1>5, <2>1, RefusedJson DEF Fail
<1> QED BY <1>4, <1>5 DEF ObjectField

LEMMA ElementJson ==
  ASSUME WalkInv, JsonInv, ArrayValue
  PROVE  JsonInv'
<1>1. /\ doc.n \in Nat /\ depth \in Nat \ {0} /\ next \in Nat /\ doc.char[doc.n - 1] \in Closing
      /\ next \in 1 .. doc.n - 1 \/ (next = doc.n + 1 /\ doc.padding = "comma")
  BY Places DEF WalkInv, PlaceInv, Inside, Expecting, ArrayValue
<1>2. is_array[depth] /\ (IsJSON(doc) <=> ListIs(doc, is_array, depth, next))
  BY DEF JsonInv, ArrayValue
<1>3. Value(next, "array_continue")
  BY DEF ArrayValue
<1>4. CASE next \in 1 .. doc.n - 1
  <2>1. next \in 0 .. doc.n - 1
    BY <1>4
  <2>2. IsJSON(doc) <=> ValueFits(doc, is_array, depth, next)
    BY <1>1, <1>2, <2>1, ElementsFit
  <2>3. doc.char[next] \in Opening => next # doc.n - 1
    BY <1>1 DEF Opening, Closing
  <2>4. doc.char[next] \in Opening => next < doc.n - 1
    BY <1>1, <2>1, <2>3
  <2>5. "array_continue" = ContinueAt(depth, is_array)
    BY <1>1, <1>2 DEF ContinueAt
  <2> QED BY <1>3, <2>1, <2>2, <2>4, <2>5, ValueJson
<1>5. CASE next = doc.n + 1 /\ doc.padding = "comma"
  <2>1. Byte(next) = "comma"
    BY <1>1, <1>5 DEF Byte
  <2>2. Fail(next, "TAPE_ERROR")
    BY <1>3, <2>1 DEF Value, Scalar, Opening
  <2>3. ~ListIs(doc, is_array, depth, next)
    BY <1>1, <1>5, NothingBehind
  <2> QED BY <1>2, <2>2, <2>3, RefusedJson DEF Fail
<1> QED BY <1>1, <1>4, <1>5

LEMMA ContinueJson ==
  ASSUME WalkInv, JsonInv, ObjectContinue \/ ArrayContinue
  PROVE  JsonInv'
<1>1. /\ doc.n \in Nat /\ doc.n \in Nat \ {0} /\ depth \in Nat \ {0} /\ next \in Nat
      /\ is_array[depth] \in BOOLEAN
  BY Places DEF WalkInv, PlaceInv, Inside, Continues, ObjectContinue, ArrayContinue
<1>2. /\ is_array[depth] <=> pc = "array_continue"
      /\ IsJSON(doc) <=> BehindIs(doc, is_array, depth, next)
  BY DEF JsonInv, Continues, ObjectContinue, ArrayContinue
<1>3. PICK c : c = Closer(is_array, depth)
  OBVIOUS
<1>4. c = (IF pc = "array_continue" THEN "rbracket" ELSE "rbrace") /\ c # "comma"
  BY <1>2, <1>3 DEF Closer
<1>5. /\ Byte(next) = "comma" => (IsJSON(doc) <=> ListIs(doc, is_array, depth, next + 1))
      /\ Byte(next) = c => (IsJSON(doc) <=> BehindIs(doc, is_array, depth - 1, next + 1))
      /\ Byte(next) \notin {"comma", c} => ~IsJSON(doc)
  <2>1. CASE next < doc.n
    <3>1. next \in 0 .. doc.n - 1
      BY <1>1, <2>1
    <3>2. Byte(next) = doc.char[next]
      BY <3>1, Places
    <3> QED BY <1>1, <1>2, <1>3, <3>1, <3>2, BehindFits
  <2>2. CASE next >= doc.n
    <3>1. ~IsJSON(doc)
      BY <1>1, <1>2, <2>2, NothingBehind
    <3>2. PICK q : q = next + 1
      OBVIOUS
    <3>3. q \in Nat /\ q >= doc.n /\ q # doc.n
      BY <1>1, <2>2, <3>2
    <3>4. ~ListIs(doc, is_array, depth, q)
      BY <1>1, <3>3, NothingBehind
    <3>5. ~BehindIs(doc, is_array, depth - 1, q)
      <4>1. CASE depth - 1 = 0
        BY <1>1, <3>3, <4>1, DocumentFits
      <4>2. CASE depth - 1 # 0
        <5>1. PICK deep : deep = depth - 1
          OBVIOUS
        <5>2. deep \in Nat \ {0}
          BY <1>1, <4>2, <5>1
        <5> QED BY <1>1, <3>3, <5>1, <5>2, NothingBehind
      <4> QED BY <4>1, <4>2
    <3> QED BY <3>1, <3>2, <3>4, <3>5
  <2> QED BY <1>1, <2>1, <2>2
<1>6. CASE /\ Byte(next) = "comma" /\ Frame
           /\ Advanced(next, IF pc = "array_continue" THEN "array_value" ELSE "next_key")
  <2>1. /\ doc' = doc /\ depth' = depth /\ is_array' = is_array /\ next' = next + 1
        /\ pc' = IF pc = "array_continue" THEN "array_value" ELSE "next_key"
    BY <1>6 DEF Frame, Advanced
  <2>2. IsJSON(doc') <=> ListIs(doc', is_array', depth', next')
    BY <1>5, <1>6, <2>1
  <2> QED BY <1>2, <2>1, <2>2 DEF JsonInv, Begins, Continues
<1>7. CASE Byte(next) = c /\ \E start : ScopeEnd(start)
  <2>1. /\ doc' = doc /\ depth' = depth - 1 /\ is_array' = is_array /\ next' = next + 1
        /\ pc' = ContinueAt(depth', is_array')
    BY <1>7 DEF ScopeEnd, Advanced, ContinueAt
  <2>2. IsJSON(doc') <=> BehindIs(doc', is_array', depth', next')
    BY <1>5, <1>7, <2>1
  <2>3. depth' \in Nat /\ is_array'[depth'] \in BOOLEAN
    <3>1. is_array \in [0 .. MaxDepth - 1 -> BOOLEAN] /\ depth \in 0 .. MaxDepth - 1
      BY DEF WalkInv, WalkTypeOK
    <3>2. depth - 1 \in 0 .. MaxDepth - 1
      BY <1>1, <3>1, DepthAssumption
    <3> QED BY <1>1, <2>1, <3>1, <3>2
  <2> QED BY <1>1, <2>1, <2>2, <2>3, BehindJson
<1>8. CASE Byte(next) \notin {"comma", c} /\ Fail(next, "TAPE_ERROR")
  BY <1>5, <1>8, RefusedJson DEF Fail
<1>9. CASE ObjectContinue
  <2>1. pc # "array_continue" /\ c = "rbrace"
    BY <1>4, <1>9 DEF ObjectContinue
  <2> QED BY <1>6, <1>7, <1>8, <1>9, <2>1 DEF ObjectContinue
<1>10. CASE ArrayContinue
  <2>1. pc = "array_continue" /\ c = "rbracket"
    BY <1>4, <1>10 DEF ArrayContinue
  <2> QED BY <1>6, <1>7, <1>8, <1>10, <2>1 DEF ArrayContinue
<1> QED BY <1>9, <1>10

LEMMA JsonInit == WalkInit => JsonInv
BY DEF WalkInit, JsonInv, Begins, Continues

LEMMA JsonNext == WalkInv /\ JsonInv /\ [WalkNext]_walk_vars => JsonInv'
<1> SUFFICES ASSUME WalkInv, JsonInv, [WalkNext]_walk_vars PROVE JsonInv'
  OBVIOUS
<1>1. CASE UNCHANGED walk_vars
  BY <1>1 DEF walk_vars, JsonInv
<1>2. CASE DocumentEnd
  <2>1. /\ doc' = doc /\ pc' = "done" /\ (IsJSON(doc) <=> next = doc.n)
        /\ error' = IF next = doc.n THEN "none" ELSE "TAPE_ERROR"
    BY <1>2 DEF DocumentEnd, Frame, JsonInv
  <2> QED BY <2>1 DEF JsonInv, Begins, Continues
<1> QED BY <1>1, <1>2, StartJson, BeginJson, KeyJson, FieldJson, ElementJson, ContinueJson DEF WalkNext

-----------------------------------------------------------------------------
(* How deep the walk is.                                                   *)

\* One more of a kind is counted, or not.
LEMMA CountedUpTo ==
  ASSUME NEW A, NEW k \in Nat
  PROVE  /\ Cardinality({j \in 0 .. k - 1 : j \in A}) \in Nat
         /\ k \in A => Cardinality({j \in 0 .. k : j \in A}) = Cardinality({j \in 0 .. k - 1 : j \in A}) + 1
         /\ k \notin A => Cardinality({j \in 0 .. k : j \in A}) = Cardinality({j \in 0 .. k - 1 : j \in A})
<1>1. PICK S : S = {j \in 0 .. k - 1 : j \in A}
  OBVIOUS
<1>2. IsFiniteSet(0 .. k - 1) /\ S \subseteq 0 .. k - 1
  BY <1>1, FS_Interval
<1>3. IsFiniteSet(S)
  BY <1>2, FS_Subset
<1>4. Cardinality(S) \in Nat
  BY <1>3, FS_CardinalityType
<1>5. k \notin S
  BY <1>2
<1>6. CASE k \in A
  <2>1. {j \in 0 .. k : j \in A} = S \cup {k}
    BY <1>1, <1>6
  <2>2. Cardinality(S \cup {k}) = Cardinality(S) + 1
    BY <1>3, <1>5, FS_AddElement
  <2> QED BY <1>1, <1>4, <1>6, <2>1, <2>2
<1>7. CASE k \notin A
  <2>1. {j \in 0 .. k : j \in A} = S
    BY <1>1, <1>7
  <2> QED BY <1>1, <1>4, <1>7, <2>1
<1> QED BY <1>6, <1>7

LEMMA OpenRule ==
  ASSUME NEW d, NEW k \in Nat
  PROVE  /\ Open(d, -1) = 0 /\ Open(d, k - 1) \in Int
         /\ Open(d, k) = Open(d, k - 1) + (IF Deepens(d, k) THEN 1 ELSE 0)
                                        - (IF Rises(d, k) THEN 1 ELSE 0)
<1> DEFINE D == {j \in Nat : Deepens(d, j)}
           R == {j \in Nat : Rises(d, j)}
           U(A, l) == Cardinality({j \in 0 .. l : j \in A})
<1>1. ASSUME NEW l \in Int PROVE Open(d, l) = U(D, l) - U(R, l)
  <2>1. {j \in 0 .. l : Deepens(d, j)} = {j \in 0 .. l : j \in D}
    OBVIOUS
  <2>2. {j \in 0 .. l : Rises(d, j)} = {j \in 0 .. l : j \in R}
    OBVIOUS
  <2> QED BY <2>1, <2>2 DEF Open
<1>2. Open(d, -1) = 0
  <2>1. 0 .. -1 = {}
    OBVIOUS
  <2>2. U(D, -1) = Cardinality({}) /\ U(R, -1) = Cardinality({})
    BY <2>1
  <2>3. U(D, -1) = 0 /\ U(R, -1) = 0
    BY <2>2, FS_EmptySet
  <2> QED BY <1>1, <2>3
<1>3. ASSUME NEW A
      PROVE  /\ U(A, k - 1) \in Nat
             /\ k \in A => U(A, k) = U(A, k - 1) + 1
             /\ k \notin A => U(A, k) = U(A, k - 1)
  BY CountedUpTo
<1>4. (k \in D <=> Deepens(d, k)) /\ (k \in R <=> Rises(d, k))
  OBVIOUS
<1>5. Open(d, k) = U(D, k) - U(R, k) /\ Open(d, k - 1) = U(D, k - 1) - U(R, k - 1)
  BY <1>1
<1> HIDE DEF D, R, U
<1>6. /\ U(D, k - 1) \in Nat /\ U(D, k) = U(D, k - 1) + IF Deepens(d, k) THEN 1 ELSE 0
      /\ U(R, k - 1) \in Nat /\ U(R, k) = U(R, k - 1) + IF Rises(d, k) THEN 1 ELSE 0
  BY <1>3, <1>4
<1> QED BY <1>2, <1>5, <1>6

\* What a character does to the containers that are open.
LEMMA OpenBehind ==
  ASSUME NEW d, d.n \in Nat, NEW k \in 0 .. d.n - 1
  PROVE  /\ Open(d, k - 1) \in Int
         /\ d.char[k] \notin Opening \cup Closing => Open(d, k) = Open(d, k - 1)
         /\ (d.char[k] \in Closing /\ (k > 0 => d.char[k - 1] \notin Opening)) =>
              Open(d, k) = Open(d, k - 1) - 1
         /\ (d.char[k] \in Opening /\ k < d.n - 1 /\ d.char[k + 1] # Matching(d.char[k])) =>
              Open(d, k) = Open(d, k - 1) + 1
         /\ (d.char[k] \in Opening /\ k < d.n - 1 /\ d.char[k + 1] = Matching(d.char[k])) =>
              Open(d, k + 1) = Open(d, k - 1)
<1>1. /\ Open(d, k - 1) \in Int
      /\ Open(d, k) = Open(d, k - 1) + (IF Deepens(d, k) THEN 1 ELSE 0)
                                     - (IF Rises(d, k) THEN 1 ELSE 0)
  BY OpenRule
<1>2. d.char[k] \notin Opening \/ d.char[k] \notin Closing
  BY DEF Opening, Closing
<1>3. CASE d.char[k] \notin Opening \cup Closing
  <2>1. ~Deepens(d, k) /\ ~Rises(d, k)
    BY <1>3 DEF Deepens, Rises
  <2> QED BY <1>1, <1>3, <2>1
<1>4. CASE d.char[k] \in Closing
  <2>1. ~Deepens(d, k) /\ ((k > 0 => d.char[k - 1] \notin Opening) => Rises(d, k))
    BY <1>2, <1>4 DEF Deepens, Rises
  <2> QED BY <1>1, <1>2, <1>4, <2>1
<1>5. CASE d.char[k] \in Opening
  <2>1. ~Rises(d, k)
    BY <1>2, <1>5 DEF Rises
  <2>2. ASSUME k < d.n - 1, d.char[k + 1] # Matching(d.char[k])
        PROVE  Open(d, k) = Open(d, k - 1) + 1
    <3>1. Deepens(d, k)
      BY <1>5, <2>2 DEF Deepens
    <3> QED BY <1>1, <2>1, <3>1
  <2>3. ASSUME k < d.n - 1, d.char[k + 1] = Matching(d.char[k])
        PROVE  Open(d, k + 1) = Open(d, k - 1)
    <3>1. ~Deepens(d, k)
      BY <2>3 DEF Deepens
    <3>2. PICK l : l = k + 1
      OBVIOUS
    <3>3. l \in Nat /\ l - 1 = k /\ l > 0
      BY <3>2
    <3>4. d.char[l] \in Closing /\ d.char[l] \notin Opening
      BY <2>3, <3>2 DEF Matching, Closing, Opening
    <3>5. ~Deepens(d, l) /\ ~Rises(d, l)
      BY <1>5, <2>3, <3>2, <3>3, <3>4 DEF Deepens, Rises
    <3>6. Open(d, l) = Open(d, l - 1) + (IF Deepens(d, l) THEN 1 ELSE 0)
                                      - (IF Rises(d, l) THEN 1 ELSE 0)
      BY <3>3, OpenRule
    <3>7. Open(d, l) = Open(d, k)
      BY <1>1, <2>1, <3>1, <3>3, <3>5, <3>6
    <3> QED BY <1>1, <2>1, <3>1, <3>2, <3>7
  <2> QED BY <1>1, <1>2, <1>5, <2>2, <2>3
<1> QED BY <1>3, <1>4, <1>5

\* The depth counts what is open, with the container that is about to begin.
DepthInv ==
  /\ pc \in Begins => Open(doc, next - 1) = depth + 1
  /\ pc \notin Begins \cup {"done"} /\ next <= doc.n => Open(doc, next - 1) = depth
  /\ pc \in Continues /\ next <= doc.n => doc.char[next - 1] \notin Opening
  /\ pc = "done" /\ error = "DEPTH_ERROR" => \E k \in 0 .. doc.n - 1 : Open(doc, k) >= MaxDepth

LEMMA RefusedDepth ==
  ASSUME pc' = "done", error' # "DEPTH_ERROR"
  PROVE  DepthInv'
BY DEF DepthInv, Begins, Continues

LEMMA WentOnDepth ==
  ASSUME doc' = doc, pc' \in Label \ (Begins \cup {"done"}),
         next' <= doc.n => Open(doc, next' - 1) = depth',
         pc' \in Continues /\ next' <= doc.n => doc.char[next' - 1] \notin Opening
  PROVE  DepthInv'
BY DEF DepthInv

LEMMA ValueDepth ==
  ASSUME WalkInv, NEW k \in 0 .. doc.n - 1, NEW after, Value(k, after),
         after \in Continues \cup {"document_end"},
         doc.char[k] \in Opening => k < doc.n - 1,
         Open(doc, k - 1) = depth
  PROVE  DepthInv'
<1>1. /\ doc.n \in Nat /\ depth \in Nat /\ Byte(k) = doc.char[k]
  BY Places
<1>2. doc.char[k] \in Opening => k + 1 \in 0 .. doc.n - 1 /\ Byte(k + 1) = doc.char[k + 1]
  <2>1. doc.char[k] \in Opening => k + 1 \in 0 .. doc.n - 1
    BY <1>1
  <2> QED BY <2>1, Places
<1>3. after \in Label \ (Begins \cup {"done"})
  BY DEF Label, Begins, Continues
<1>4. CASE /\ Byte(k) \in Opening /\ Byte(k + 1) = Matching(Byte(k))
           /\ next' = k + 2 /\ pc' = after /\ Frame
  <2>1. doc' = doc /\ depth' = depth /\ next' - 1 = k + 1
    BY <1>4 DEF Frame
  <2>2. doc.char[k + 1] \notin Opening
    BY <1>1, <1>2, <1>4 DEF Opening, Matching
  <2>3. Open(doc, k + 1) = depth
    BY <1>1, <1>2, <1>4, OpenBehind
  <2> QED BY <1>3, <1>4, <2>1, <2>2, <2>3, WentOnDepth
<1>5. CASE /\ Byte(k) \in Opening /\ Byte(k + 1) # Matching(Byte(k))
           /\ next' = k + 1 /\ Frame
           /\ pc' = IF Byte(k) = "lbrace" THEN "object_begin" ELSE "array_begin"
  <2>1. doc' = doc /\ depth' = depth /\ next' - 1 = k /\ pc' \in Begins
    BY <1>5 DEF Frame, Begins
  <2>2. Open(doc, k) = depth + 1
    BY <1>1, <1>2, <1>5, OpenBehind
  <2> QED BY <2>1, <2>2 DEF DepthInv, Begins, Continues
<1>6. CASE Byte(k) \in Scalar /\ Advanced(k, after) /\ Frame
  <2>1. doc' = doc /\ depth' = depth /\ next' - 1 = k /\ pc' = after
    BY <1>6 DEF Frame, Advanced
  <2>2. doc.char[k] \notin Opening \cup Closing
    BY <1>1, <1>6 DEF Scalar, Opening, Closing
  <2>3. Open(doc, k) = depth
    BY <1>1, <2>2, OpenBehind
  <2> QED BY <1>3, <2>1, <2>2, <2>3, WentOnDepth
<1>7. CASE refuse_scalar(k)
  BY <1>7, RefusedDepth DEF refuse_scalar
<1>8. CASE Fail(k, "TAPE_ERROR")
  BY <1>8, RefusedDepth DEF Fail
<1> QED BY <1>4, <1>5, <1>6, <1>7, <1>8 DEF Value

LEMMA StartDepth ==
  ASSUME WalkInv, JsonInv, UnclosedDocument \/ FirstValue
  PROVE  DepthInv'
<1>1. CASE UnclosedDocument
  BY <1>1, RefusedDepth DEF UnclosedDocument, Fail
<1>2. CASE FirstValue
  <2>1. /\ doc.n \in Nat \ {0} /\ 0 \in 0 .. doc.n - 1 /\ doc.n - 1 \in 0 .. doc.n - 1 /\ 0 - 1 = -1
    BY Places
  <2>2. depth = 0
    BY <1>2 DEF JsonInv, FirstValue
  <2>3. doc.char[0] \in Opening => 0 < doc.n - 1
    <3>1. Byte(0) = doc.char[0] /\ Byte(doc.n - 1) = doc.char[doc.n - 1]
      BY <2>1, Places
    <3>2. doc.char[0] \in Opening => doc.char[doc.n - 1] # doc.char[0]
      BY <1>2, <3>1 DEF FirstValue, ClosedAtTheEnd, Opening, Matching
    <3> QED BY <2>1, <3>2
  <2>4. Open(doc, 0 - 1) = depth
    <3>1. 0 \in Nat
      OBVIOUS
    <3>2. Open(doc, -1) = 0
      BY <3>1, OpenRule
    <3> QED BY <2>1, <2>2, <3>2
  <2> QED BY <1>2, <2>1, <2>3, <2>4, ValueDepth DEF FirstValue
<1> QED BY <1>1, <1>2

LEMMA BeginDepth ==
  ASSUME WalkInv, DepthInv, ObjectBegin \/ ArrayBegin
  PROVE  DepthInv'
<1>1. /\ doc.n \in Nat /\ depth \in Nat /\ next \in 1 .. doc.n - 1
  BY Places DEF WalkInv, PlaceInv, Begins, ObjectBegin, ArrayBegin
<1>2. Open(doc, next - 1) = depth + 1
  BY DEF DepthInv, Begins, ObjectBegin, ArrayBegin
<1>3. CASE depth + 1 >= MaxDepth /\ Fail(read, "DEPTH_ERROR")
  <2>1. next - 1 \in 0 .. doc.n - 1 /\ Open(doc, next - 1) >= MaxDepth
    BY <1>1, <1>2, <1>3
  <2> QED BY <1>3, <2>1 DEF DepthInv, Begins, Continues, Fail
<1>4. CASE ~(depth + 1 >= MaxDepth)
  <2>1. doc' = doc /\ next' = next /\ depth' = depth + 1 /\ pc' \in {"first_key", "array_value"}
    BY <1>4 DEF ObjectBegin, ArrayBegin
  <2>2. pc' \in Label \ (Begins \cup {"done"}) /\ pc' \notin Continues
    BY <2>1 DEF Label, Begins, Continues
  <2> QED BY <1>2, <2>1, <2>2, WentOnDepth
<1> QED BY <1>1, <1>3, <1>4, DepthAssumption DEF ObjectBegin, ArrayBegin

LEMMA KeyDepth ==
  ASSUME WalkInv, DepthInv, FirstKey \/ NextKey
  PROVE  DepthInv'
<1>1. /\ doc.n \in Nat /\ depth \in Nat \ {0} /\ next \in Nat
  BY Places DEF WalkInv, PlaceInv, Inside, Expecting, FirstKey, NextKey
<1>2. next <= doc.n => Open(doc, next - 1) = depth
  BY DEF DepthInv, Begins, FirstKey, NextKey
<1>3. CASE Byte(next) = "string" /\ Advanced(next, "object_field") /\ Frame
  <2>1. doc' = doc /\ depth' = depth /\ next' = next + 1 /\ pc' = "object_field"
    BY <1>3 DEF Frame, Advanced
  <2>2. ASSUME next' <= doc.n PROVE Open(doc, next' - 1) = depth'
    <3>1. next \in 0 .. doc.n - 1 /\ next' - 1 = next
      BY <1>1, <2>1, <2>2
    <3>2. doc.char[next] \notin Opening \cup Closing
      BY <1>3, <3>1, Places DEF Opening, Closing
    <3>3. Open(doc, next) = Open(doc, next - 1)
      BY <1>1, <3>1, <3>2, OpenBehind
    <3> QED BY <1>1, <1>2, <2>1, <3>1, <3>3
  <2>3. pc' \in Label \ (Begins \cup {"done"}) /\ pc' \notin Continues
    BY <2>1 DEF Label, Begins, Continues
  <2> QED BY <2>1, <2>2, <2>3, WentOnDepth
<1>4. CASE refuse_scalar(next)
  BY <1>4, RefusedDepth DEF refuse_scalar
<1>5. CASE Fail(next, "TAPE_ERROR")
  BY <1>5, RefusedDepth DEF Fail
<1> QED BY <1>3, <1>4, <1>5 DEF FirstKey, NextKey, Key

LEMMA FieldDepth ==
  ASSUME WalkInv, DepthInv, ObjectField
  PROVE  DepthInv'
<1>1. /\ doc.n \in Nat /\ depth \in Nat \ {0} /\ next \in 1 .. doc.n - 1
      /\ doc.char[doc.n - 1] \in Closing
  BY Places DEF WalkInv, PlaceInv, Inside, ObjectField
<1>2. Open(doc, next - 1) = depth
  <2>1. next <= doc.n
    BY <1>1
  <2> QED BY <2>1 DEF DepthInv, Begins, ObjectField
<1>3. next \in 0 .. doc.n - 1 /\ Byte(next) = doc.char[next]
  <2>1. next \in 0 .. doc.n - 1
    BY <1>1
  <2> QED BY <2>1, Places
<1>4. CASE Byte(next) = "colon" /\ Value(next + 1, "object_continue")
  <2>1. doc.char[next] \notin Opening \cup Closing
    BY <1>3, <1>4 DEF Opening, Closing
  <2>2. (next + 1) - 1 = next /\ Open(doc, next) = depth
    BY <1>1, <1>2, <1>3, <2>1, OpenBehind
  <2>3. next # doc.n - 1
    BY <1>1, <2>1
  <2>4. next + 1 \in 0 .. doc.n - 1
    BY <1>1, <2>3
  <2>5. doc.char[next + 1] \in Opening => next + 1 # doc.n - 1
    BY <1>1 DEF Opening, Closing
  <2>6. doc.char[next + 1] \in Opening => next + 1 < doc.n - 1
    BY <1>1, <2>4, <2>5
  <2>7. "object_continue" \in Continues \cup {"document_end"}
    BY DEF Continues
  <2> QED BY <1>4, <2>2, <2>4, <2>6, <2>7, ValueDepth
<1>5. CASE Fail(next, "TAPE_ERROR")
  BY <1>5, RefusedDepth DEF Fail
<1> QED BY <1>4, <1>5 DEF ObjectField

LEMMA ElementDepth ==
  ASSUME WalkInv, DepthInv, ArrayValue
  PROVE  DepthInv'
<1>1. /\ doc.n \in Nat /\ depth \in Nat \ {0} /\ next \in Nat /\ doc.char[doc.n - 1] \in Closing
      /\ next \in 1 .. doc.n - 1 \/ (next = doc.n + 1 /\ doc.padding = "comma")
  BY Places DEF WalkInv, PlaceInv, Inside, Expecting, ArrayValue
<1>2. Value(next, "array_continue")
  BY DEF ArrayValue
<1>3. CASE next \in 1 .. doc.n - 1
  <2>1. next \in 0 .. doc.n - 1 /\ next <= doc.n
    BY <1>1, <1>3
  <2>2. Open(doc, next - 1) = depth
    BY <2>1 DEF DepthInv, Begins, ArrayValue
  <2>3. doc.char[next] \in Opening => next # doc.n - 1
    BY <1>1 DEF Opening, Closing
  <2>4. doc.char[next] \in Opening => next < doc.n - 1
    BY <1>1, <2>1, <2>3
  <2>5. "array_continue" \in Continues \cup {"document_end"}
    BY DEF Continues
  <2> QED BY <1>2, <2>1, <2>2, <2>4, <2>5, ValueDepth
<1>4. CASE next = doc.n + 1 /\ doc.padding = "comma"
  <2>1. Byte(next) = "comma"
    BY <1>1, <1>4 DEF Byte
  <2>2. Fail(next, "TAPE_ERROR")
    BY <1>2, <2>1 DEF Value, Scalar, Opening
  <2> QED BY <2>2, RefusedDepth DEF Fail
<1> QED BY <1>1, <1>3, <1>4

LEMMA ContinueDepth ==
  ASSUME WalkInv, DepthInv, ObjectContinue \/ ArrayContinue
  PROVE  DepthInv'
<1>1. /\ doc.n \in Nat /\ depth \in Nat \ {0} /\ next \in Nat \ {0} /\ pc \in Continues
      /\ pc \notin Begins \cup {"done"}
  BY Places DEF WalkInv, PlaceInv, Inside, Begins, Continues, ObjectContinue, ArrayContinue
<1>2. next <= doc.n => Open(doc, next - 1) = depth /\ doc.char[next - 1] \notin Opening
  BY <1>1 DEF DepthInv
<1>3. next < doc.n => next \in 0 .. doc.n - 1 /\ Byte(next) = doc.char[next]
  <2>1. next < doc.n => next \in 0 .. doc.n - 1
    BY <1>1
  <2> QED BY <2>1, Places
<1>4. CASE /\ Byte(next) = "comma" /\ Frame
           /\ \E label \in {"next_key", "array_value"} : Advanced(next, label)
  <2>1. /\ doc' = doc /\ depth' = depth /\ next' = next + 1
        /\ pc' \in {"next_key", "array_value"}
    BY <1>4 DEF Frame, Advanced
  <2>2. ASSUME next' <= doc.n PROVE Open(doc, next' - 1) = depth'
    <3>1. next < doc.n /\ next' - 1 = next /\ next <= doc.n
      BY <1>1, <2>1, <2>2
    <3>2. doc.char[next] \notin Opening \cup Closing
      BY <1>3, <1>4, <3>1 DEF Opening, Closing
    <3>3. Open(doc, next) = Open(doc, next - 1)
      BY <1>1, <1>3, <3>1, <3>2, OpenBehind
    <3> QED BY <1>2, <2>1, <3>1, <3>3
  <2>3. pc' \in Label \ (Begins \cup {"done"}) /\ pc' \notin Continues
    BY <2>1 DEF Label, Begins, Continues
  <2> QED BY <2>1, <2>2, <2>3, WentOnDepth
<1>5. CASE Byte(next) \in Closing /\ \E start : ScopeEnd(start)
  <2>1. /\ doc' = doc /\ depth' = depth - 1 /\ next' = next + 1
        /\ pc' \in {"document_end", "array_continue", "object_continue"}
    BY <1>5 DEF ScopeEnd, Advanced
  <2>2. ASSUME next' <= doc.n
        PROVE  Open(doc, next' - 1) = depth' /\ doc.char[next' - 1] \notin Opening
    <3>1. next < doc.n /\ next' - 1 = next /\ next <= doc.n
      BY <1>1, <2>1, <2>2
    <3>2. doc.char[next] \in Closing /\ doc.char[next] \notin Opening
      BY <1>3, <1>5, <3>1 DEF Opening, Closing
    <3>3. Open(doc, next) = Open(doc, next - 1) - 1
      BY <1>1, <1>2, <1>3, <3>1, <3>2, OpenBehind
    <3> QED BY <1>2, <2>1, <3>1, <3>2, <3>3
  <2>3. pc' \in Label \ (Begins \cup {"done"})
    BY <2>1 DEF Label, Begins
  <2> QED BY <2>1, <2>2, <2>3, WentOnDepth
<1>6. CASE Fail(next, "TAPE_ERROR")
  BY <1>6, RefusedDepth DEF Fail
<1>7. CASE ObjectContinue
  BY <1>4, <1>5, <1>6, <1>7 DEF ObjectContinue, Closing
<1>8. CASE ArrayContinue
  BY <1>4, <1>5, <1>6, <1>8 DEF ArrayContinue, Closing
<1> QED BY <1>7, <1>8

LEMMA DepthInit == WalkInit => DepthInv
<1> SUFFICES ASSUME WalkInit PROVE DepthInv
  OBVIOUS
<1>1. pc = "document_start" /\ next - 1 = -1 /\ depth = 0
  BY DEF WalkInit
<1>2. Open(doc, -1) = 0
  <2>1. 0 \in Nat
    OBVIOUS
  <2> QED BY <2>1, OpenRule
<1> QED BY <1>1, <1>2 DEF DepthInv, Begins, Continues

LEMMA DepthNext == WalkInv /\ JsonInv /\ DepthInv /\ [WalkNext]_walk_vars => DepthInv'
<1> SUFFICES ASSUME WalkInv, JsonInv, DepthInv, [WalkNext]_walk_vars PROVE DepthInv'
  OBVIOUS
<1>1. CASE UNCHANGED walk_vars
  BY <1>1 DEF walk_vars, DepthInv
<1>2. CASE DocumentEnd
  <2>1. pc' = "done" /\ error' # "DEPTH_ERROR"
    BY <1>2 DEF DocumentEnd
  <2> QED BY <2>1, RefusedDepth
<1> QED BY <1>1, <1>2, StartDepth, BeginDepth, KeyDepth, FieldDepth, ElementDepth, ContinueDepth
        DEF WalkNext

\* What the walk takes is JSON, whatever follows it in memory, what it refuses
\* for its form is not, and what it refuses as too deep has as many containers
\* open as open_containers has entries (simdjson.cpp:11188, 11111, 11159).
THEOREM WalkTakesJSON == WalkSpec => []TakesJSON
<1>1. WalkInit => WalkInv /\ JsonInv /\ DepthInv
  BY InitInv, JsonInit, DepthInit
<1>2. (WalkInv /\ JsonInv /\ DepthInv) /\ [WalkNext]_walk_vars => (WalkInv /\ JsonInv /\ DepthInv)'
  BY NextInv, JsonNext, DepthNext
<1>3. JsonInv /\ DepthInv => TakesJSON
  BY DEF JsonInv, DepthInv, TakesJSON
<1> QED BY <1>1, <1>2, <1>3, PTL DEF WalkSpec

-----------------------------------------------------------------------------
(* That the walk ends.                                                     *)

\* How far the walk is: it looks at a character and goes on behind it, or, at
\* the begin of a container, goes into that.
Passed ==
  CASE pc = "done"         -> 2 * doc.n + 7
    [] pc = "document_end" -> 2 * doc.n + 6
    [] pc \in Begins       -> 2 * next
    [] OTHER               -> 2 * next + 1

LEMMA PassedIs ==
  ASSUME WalkInv
  PROVE  /\ Passed \in 0 .. 2 * doc.n + 7 /\ doc.n \in Nat /\ next \in Nat
         /\ pc = "done" => Passed = 2 * doc.n + 7
         /\ pc = "document_end" => Passed = 2 * doc.n + 6
         /\ pc \in Begins => Passed = 2 * next
         /\ pc \notin Begins \cup {"document_end", "done"} => Passed = 2 * next + 1
         /\ pc # "done" => Passed < 2 * doc.n + 7
         /\ pc \notin {"document_end", "done"} => Passed < 2 * doc.n + 6
<1>1. doc.n \in Nat \ {0} /\ doc.n \in Nat /\ next \in Nat /\ pc \in Label
  BY Places DEF WalkInv, WalkTypeOK
<1>2. pc \in Begins \cup Inside => next \in 0 .. doc.n + 2
  BY NextRead
<1>3. pc = "document_start" => next = 0
  BY DEF WalkInv, PlaceInv
<1>4. pc \notin {"document_end", "done"} => next \in 0 .. doc.n + 2
  BY <1>1, <1>2, <1>3 DEF Label, Inside, Begins, Expecting, Continues
<1>5. CASE pc \in {"document_end", "done"}
  BY <1>1, <1>5 DEF Passed, Begins
<1>6. CASE pc \in Begins
  <2>1. Passed = 2 * next /\ pc \notin {"document_end", "done"}
    BY <1>6 DEF Passed, Begins
  <2> QED BY <1>1, <1>4, <1>6, <2>1
<1>7. CASE pc \notin Begins \cup {"document_end", "done"}
  <2>1. Passed = 2 * next + 1
    BY <1>7 DEF Passed
  <2> QED BY <1>1, <1>4, <1>7, <2>1
<1> QED BY <1>5, <1>6, <1>7

\* Behind the next place is further, whatever the label.
LEMMA Further ==
  ASSUME NEW a \in Nat, NEW b \in Nat, NEW p \in Int, NEW q \in Int,
         b >= a + 1, p <= 2 * a + 1, q >= 2 * b
  PROVE  q > p
OBVIOUS

\* Each step goes on.
LEMMA StepPasses == WalkInv /\ WalkInv' /\ WalkNext => Passed' > Passed
<1> SUFFICES ASSUME WalkInv, WalkInv', WalkNext PROVE Passed' > Passed
  OBVIOUS
<1> DEFINE Goes(k) == doc' = doc /\ (pc' \in {"document_end", "done"} \/ next' > k)
<1>1. /\ doc.n \in Nat /\ next \in Nat /\ next' \in Nat /\ pc \in Label
      /\ pc = "document_start" => next = 0
  BY Places DEF WalkInv, WalkTypeOK, PlaceInv
<1>2. /\ Passed \in Nat
      /\ pc \in Begins => Passed = 2 * next
      /\ pc \notin Begins \cup {"document_end", "done"} => Passed = 2 * next + 1
      /\ pc # "done" => Passed < 2 * doc.n + 7
      /\ pc \notin {"document_end", "done"} => Passed < 2 * doc.n + 6
  BY PassedIs
<1>3. /\ pc' = "done" => Passed' = 2 * doc'.n + 7
      /\ pc' = "document_end" => Passed' = 2 * doc'.n + 6
      /\ pc' \in Begins => Passed' = 2 * next'
      /\ pc' \notin Begins \cup {"document_end", "done"} => Passed' = 2 * next' + 1
  BY <1>1 DEF Passed, Begins
<1>4. ASSUME pc \notin {"document_end", "done"}, Goes(next)
      PROVE  Passed' > Passed
  <2>1. Passed <= 2 * next + 1
    BY <1>1, <1>2, <1>4
  <2>2. CASE pc' \in {"document_end", "done"}
    <3>1. Passed < 2 * doc.n + 6 /\ doc' = doc
      BY <1>2, <1>4
    <3>2. Passed' >= 2 * doc.n + 6
      BY <1>1, <1>3, <2>2, <3>1
    <3>3. Passed' \in Int
      BY <1>1, <1>3, <2>2, <3>1
    <3> QED BY <1>1, <1>2, <3>1, <3>2, <3>3
  <2>3. CASE pc' \notin {"document_end", "done"}
    <3>1. PICK p \in Int : p = Passed /\ p <= 2 * next + 1
      BY <1>1, <1>2, <2>1
    <3>0. Passed' >= 2 * next' /\ Passed' \in Int
      BY <1>1, <1>3, <2>3
    <3>2. PICK q \in Int : q = Passed' /\ q >= 2 * next'
      BY <3>0
    <3>3. PICK a \in Nat : a = next
      BY <1>1
    <3>4. PICK b \in Nat : b = next' /\ b >= a + 1
      BY <1>1, <1>4, <2>3, <3>3
    <3>5. p <= 2 * a + 1 /\ q >= 2 * b
      BY <3>1, <3>2, <3>3, <3>4
    <3>6. q > p
      BY <3>4, <3>5, Further
    <3> QED BY <3>1, <3>2, <3>6
  <2> QED BY <2>2, <2>3
<1>5. ASSUME NEW k \in Nat, NEW after, Value(k, after) PROVE Goes(k)
  BY <1>5 DEF Value, Fail, refuse_scalar, Advanced, Frame
<1>6. ASSUME NEW k, NEW e, Fail(k, e) PROVE Goes(next)
  BY <1>6 DEF Fail
<1>7. CASE UnclosedDocument \/ FirstValue
  <2>1. pc = "document_start" /\ next = 0
    BY <1>1, <1>7 DEF UnclosedDocument, FirstValue
  <2>2. Goes(next)
    <3>1. CASE UnclosedDocument
      BY <1>6, <3>1 DEF UnclosedDocument
    <3>2. CASE FirstValue
      BY <1>5, <2>1, <3>2 DEF FirstValue
    <3> QED BY <1>7, <3>1, <3>2
  <2> QED BY <1>4, <2>1, <2>2
<1>8. CASE ObjectBegin \/ ArrayBegin
  <2>1. pc \in Begins
    BY <1>8 DEF ObjectBegin, ArrayBegin, Begins
  <2>2. CASE Fail(read, "DEPTH_ERROR")
    BY <1>4, <1>6, <2>1, <2>2 DEF Begins
  <2>3. CASE next' = next /\ pc' \in {"first_key", "array_value"}
    BY <1>1, <1>2, <1>3, <2>1, <2>3 DEF Begins
  <2> QED BY <1>8, <2>2, <2>3 DEF ObjectBegin, ArrayBegin
<1>9. CASE FirstKey \/ NextKey
  <2>1. Goes(next)
    BY <1>1, <1>6, <1>9 DEF FirstKey, NextKey, Key, refuse_scalar, Advanced, Frame
  <2> QED BY <1>4, <1>9, <2>1 DEF FirstKey, NextKey
<1>10. CASE ObjectField
  <2>1. Goes(next)
    <3>1. CASE Value(next + 1, "object_continue")
      <4>1. Goes(next + 1)
        BY <1>1, <1>5, <3>1
      <4> QED BY <1>1, <4>1
    <3>2. CASE Fail(next, "TAPE_ERROR")
      BY <1>6, <3>2
    <3> QED BY <1>10, <3>1, <3>2 DEF ObjectField
  <2> QED BY <1>4, <1>10, <2>1 DEF ObjectField
<1>11. CASE ArrayValue
  BY <1>1, <1>4, <1>5, <1>11 DEF ArrayValue
<1>12. CASE ObjectContinue \/ ArrayContinue
  <2>1. Goes(next)
    BY <1>1, <1>6, <1>12 DEF ObjectContinue, ArrayContinue, ScopeEnd, Advanced, Frame
  <2> QED BY <1>4, <1>12, <2>1 DEF ObjectContinue, ArrayContinue
<1>13. CASE DocumentEnd
  <2>1. pc = "document_end" /\ pc' = "done" /\ doc' = doc
    BY <1>13 DEF DocumentEnd, Frame
  <2> QED BY <1>1, <1>2, <1>3, <2>1
<1> QED BY <1>7, <1>8, <1>9, <1>10, <1>11, <1>12, <1>13 DEF WalkNext

\* The walk never looks twice at the same place from the same label: each of its
\* steps goes on, and there are no more than 2 * n + 7 of them, whatever n
\* characters a document has and whatever is behind them (simdjson.cpp:11072).
THEOREM WalkGoesOn == WalkSpec => [](Passed \in 0 .. 2 * doc.n + 7) /\ [][Passed' > Passed]_walk_vars
<1>1. WalkInv => Passed \in 0 .. 2 * doc.n + 7
  BY PassedIs
<1>2. WalkInv /\ WalkInv' /\ [WalkNext]_walk_vars => [Passed' > Passed]_walk_vars
  BY StepPasses
<1>3. WalkInv /\ [WalkNext]_walk_vars => WalkInv'
  BY NextInv
<1> QED BY <1>1, <1>2, <1>3, InitInv, PTL DEF WalkSpec
=============================================================================

---------------------------- MODULE ParserProofs ----------------------------
(***************************************************************************)
(* Proofs about Parser.tla, for all files, blocks and widths: what         *)
(* parse_json_filename returns can be freed, whatever allocations failed   *)
(* on the way, and is what the file says.                                  *)
(*                                                                         *)
(* The argument is about ownership.  The places where a pointer has been   *)
(* written grow by one with each step, and at any time they hold all the   *)
(* blocks of the heap, each once, and otherwise null pointers.             *)
(***************************************************************************)
EXTENDS Parser, FiniteSetTheorems, TLAPS

Pointer == Block \cup {NULL}
Fields  == {"self", "attributes", "compiler_version", "data"}

program_t ==
  [self : Pointer, length : Nat \cup {Unset}, attributes : Pointer \cup {Unset},
   compiler_version : Pointer \cup {Unset}, data : Pointer \cup {Unset}]

\* What FilesAssumption says of a document; the client's documents have no more
\* than the three members.
IsDocument(d) ==
  /\ d.attributes = Wrong \/ d.attributes \in Seq(Text \cup {Wrong})
  /\ d.compiler_version = Wrong \/ d.compiler_version \in Text
  /\ d.data = Wrong \/ d.data \in Seq(constant_t \cup {Wrong})

-----------------------------------------------------------------------------
(* Ownership.                                                              *)

\* The blocks of D are held, each once, by the places that at is defined on.
Owns(D, at_) ==
  /\ \A f \in DOMAIN at_ : at_[f] \in D \cup {NULL}
  /\ \A f, g \in DOMAIN at_ : at_[f] = at_[g] => f = g \/ at_[f] = NULL
  /\ \A b \in D : \E f \in DOMAIN at_ : at_[f] = b

PlacesOf(fields, n) == (fields \X {0}) \cup ({"element"} \X (1 .. n))

\* What is in some of the fields and the first n elements of the attributes.
Element(k) == heap[program.attributes].cells[k]
Contents(fields, n) ==
  [f \in PlacesOf(fields, n) |-> IF f[1] = "element" THEN Element(f[2]) ELSE program[f[1]]]

Owned(fields, n) == Owns(DOMAIN heap, Contents(fields, n))

\* One more place has the null pointer, or a block that was not there before.
LEMMA OneMorePlace ==
  ASSUME NEW D, NEW at1, Owns(D, at1), NULL \notin D,
         NEW at2, NEW p, p \notin DOMAIN at1,
         DOMAIN at2 = DOMAIN at1 \cup {p},
         \A f \in DOMAIN at1 : at2[f] = at1[f],
         NEW D2, \/ at2[p] = NULL /\ D2 = D
                 \/ at2[p] # NULL /\ at2[p] \notin D /\ D2 = D \cup {at2[p]}
  PROVE  Owns(D2, at2)
<1>1. \A f \in DOMAIN at2 : at2[f] \in D2 \cup {NULL}
  BY DEF Owns
<1>2. ASSUME NEW f \in DOMAIN at2, NEW g \in DOMAIN at2, at2[f] = at2[g], f # g
      PROVE  at2[f] = NULL
  <2>1. CASE f # p /\ g # p
    BY <1>2, <2>1 DEF Owns
  <2>2. CASE f = p
    BY <1>2, <2>2 DEF Owns
  <2>3. CASE g = p
    BY <1>2, <2>3 DEF Owns
  <2> QED BY <2>1, <2>2, <2>3
<1>3. ASSUME NEW b \in D2 PROVE \E f \in DOMAIN at2 : at2[f] = b
  <2>1. CASE b \in D
    BY <2>1 DEF Owns
  <2>2. CASE b \notin D
    BY <1>3, <2>2
  <2> QED BY <2>1, <2>2
<1> QED BY <1>1, <1>2, <1>3 DEF Owns

LEMMA PlaceOf ==
  ASSUME NEW fields \in SUBSET Fields, NEW n \in Nat
  PROVE  /\ \A f \in fields : <<f, 0>> \in PlacesOf(fields, n)
         /\ \A k \in 1 .. n : <<"element", k>> \in PlacesOf(fields, n)
         /\ \A p \in PlacesOf(fields, n) :
              \/ \E f \in fields : p = <<f, 0>>
              \/ \E k \in 1 .. n : p = <<"element", k>>
         /\ "element" \notin fields
<1>1. "element" \notin fields
  BY DEF Fields
<1>2. \A f \in fields : <<f, 0>> \in fields \X {0}
  OBVIOUS
<1>3. \A k \in 1 .. n : <<"element", k>> \in {"element"} \X (1 .. n)
  OBVIOUS
<1>4. \A p \in fields \X {0} : p[1] \in fields /\ p = <<p[1], 0>>
  OBVIOUS
<1>5. \A p \in {"element"} \X (1 .. n) : p[2] \in 1 .. n /\ p = <<"element", p[2]>>
  OBVIOUS
<1> QED BY <1>1, <1>2, <1>3, <1>4, <1>5, Zenon DEF PlacesOf

LEMMA ContentsAt ==
  ASSUME NEW fields \in SUBSET Fields, NEW n \in Nat
  PROVE  /\ DOMAIN Contents(fields, n) = PlacesOf(fields, n)
         /\ \A f \in fields : Contents(fields, n)[<<f, 0>>] = program[f]
         /\ \A k \in 1 .. n : Contents(fields, n)[<<"element", k>>] = Element(k)
<1>1. \A f \in fields : <<f, 0>>[1] = f /\ f # "element"
  BY PlaceOf
<1>2. \A k \in 1 .. n : <<"element", k>>[1] = "element" /\ <<"element", k>>[2] = k
  OBVIOUS
<1>3. DOMAIN Contents(fields, n) = PlacesOf(fields, n)
  BY DEF Contents
<1>4. ASSUME NEW f \in fields PROVE Contents(fields, n)[<<f, 0>>] = program[f]
  <2>1. <<f, 0>> \in PlacesOf(fields, n)
    BY PlaceOf
  <2>2. Contents(fields, n)[<<f, 0>>] =
          IF <<f, 0>>[1] = "element" THEN Element(<<f, 0>>[2]) ELSE program[<<f, 0>>[1]]
    BY <2>1 DEF Contents
  <2> QED BY <1>1, <2>2
<1>5. ASSUME NEW k \in 1 .. n PROVE Contents(fields, n)[<<"element", k>>] = Element(k)
  <2>1. <<"element", k>> \in PlacesOf(fields, n)
    BY PlaceOf
  <2>2. Contents(fields, n)[<<"element", k>>] =
          IF <<"element", k>>[1] = "element" THEN Element(<<"element", k>>[2])
                                             ELSE program[<<"element", k>>[1]]
    BY <2>1 DEF Contents
  <2> QED BY <1>2, <2>2
<1> QED BY <1>3, <1>4, <1>5

\* A step that writes none of the places.
LEMMA NothingMoves ==
  ASSUME NEW fields \in SUBSET Fields, NEW n \in Nat, Owned(fields, n),
         DOMAIN heap' = DOMAIN heap,
         \A f \in fields : program'[f] = program[f],
         \A k \in 1 .. n : Element(k)' = Element(k)
  PROVE  Owned(fields, n)'
<1>1. ASSUME NEW p \in PlacesOf(fields, n)
      PROVE  Contents(fields, n)'[p] = Contents(fields, n)[p]
  BY PlaceOf, ContentsAt DEF Contents
<1>2. Contents(fields, n)' = Contents(fields, n)
  BY <1>1 DEF Contents
<1> QED BY <1>2 DEF Owned

\* What a step puts into the place it writes.
Fills(v) == \/ v = NULL /\ DOMAIN heap' = DOMAIN heap
            \/ v \in Block /\ v \notin DOMAIN heap /\ DOMAIN heap' = DOMAIN heap \cup {v}

\* A step that writes one of the fields.
LEMMA FieldAdded ==
  ASSUME NEW fields \in SUBSET Fields, NEW n \in Nat, NEW g \in Fields \ fields,
         Owned(fields, n), DOMAIN heap \subseteq Block, Fills(program'[g]),
         \A f \in fields : program'[f] = program[f],
         \A k \in 1 .. n : Element(k)' = Element(k)
  PROVE  Owned(fields \cup {g}, n)'
<1> DEFINE at1 == Contents(fields, n)
           at2 == Contents(fields \cup {g}, n)'
           p   == <<g, 0>>
<1>1. fields \cup {g} \in SUBSET Fields /\ g # "element"
  BY DEF Fields
<1>2. PlacesOf(fields \cup {g}, n) = PlacesOf(fields, n) \cup {p}
  BY DEF PlacesOf
<1>3. p \notin PlacesOf(fields, n)
  BY <1>1 DEF PlacesOf
<1>4. DOMAIN at2 = PlacesOf(fields \cup {g}, n)
  BY DEF Contents
<1>5. DOMAIN at1 = PlacesOf(fields, n)
  BY DEF Contents
<1>6. at2[p] = program'[g]
  <2>1. p \in PlacesOf(fields \cup {g}, n) /\ p[1] = g
    BY <1>2
  <2>2. at2[p] = IF p[1] = "element" THEN Element(p[2])' ELSE program'[p[1]]
    BY <2>1 DEF Contents
  <2> QED BY <1>1, <2>1, <2>2
<1>7. ASSUME NEW f \in PlacesOf(fields, n) PROVE at2[f] = at1[f]
  <2>1. /\ at2[f] = IF f[1] = "element" THEN Element(f[2])' ELSE program'[f[1]]
        /\ at1[f] = IF f[1] = "element" THEN Element(f[2]) ELSE program[f[1]]
    BY <1>2 DEF Contents
  <2>2. CASE \E a \in fields : f = <<a, 0>>
    <3>1. PICK a \in fields : f = <<a, 0>>
      BY <2>2
    <3>2. a # "element" /\ f[1] = a
      BY <3>1, PlaceOf
    <3> QED BY <2>1, <3>2
  <2>3. CASE \E k \in 1 .. n : f = <<"element", k>>
    BY <2>1, <2>3
  <2>4. \/ \E a \in fields : f = <<a, 0>>
        \/ \E k \in 1 .. n : f = <<"element", k>>
    BY PlaceOf
  <2> QED BY <2>2, <2>3, <2>4, Zenon
<1>8. NULL \notin DOMAIN heap /\ NULL \notin Block
  BY PointerAssumption
<1> HIDE DEF at1, at2, p
<1>9. Owns(DOMAIN heap', at2)
  <2>1. \/ at2[p] = NULL /\ DOMAIN heap' = DOMAIN heap
        \/ /\ at2[p] # NULL /\ at2[p] \notin DOMAIN heap
           /\ DOMAIN heap' = DOMAIN heap \cup {at2[p]}
    BY <1>6, <1>8 DEF Fills
  <2>2. /\ p \notin DOMAIN at1 /\ DOMAIN at2 = DOMAIN at1 \cup {p}
        /\ \A f \in DOMAIN at1 : at2[f] = at1[f]
    BY <1>2, <1>3, <1>4, <1>5, <1>7
  <2>3. Owns(DOMAIN heap, at1)
    BY DEF Owned, at1
  <2> QED BY <1>8, <2>1, <2>2, <2>3, OneMorePlace
<1> QED BY <1>9 DEF Owned, at2

\* A step that writes the next element of the attributes.
LEMMA ElementAdded ==
  ASSUME NEW fields \in SUBSET Fields, NEW n \in Nat,
         Owned(fields, n), DOMAIN heap \subseteq Block, Fills(Element(n + 1)'),
         \A f \in fields : program'[f] = program[f],
         \A k \in 1 .. n : Element(k)' = Element(k)
  PROVE  Owned(fields, n + 1)'
<1> DEFINE at1 == Contents(fields, n)
           at2 == Contents(fields, n + 1)'
           p   == <<"element", n + 1>>
<1>1. 1 .. n + 1 = (1 .. n) \cup {n + 1}
  OBVIOUS
<1>2. PlacesOf(fields, n + 1) = PlacesOf(fields, n) \cup {p}
  BY <1>1 DEF PlacesOf
<1>3. p \notin PlacesOf(fields, n)
  BY DEF PlacesOf, Fields
<1>4. DOMAIN at2 = PlacesOf(fields, n + 1)
  BY DEF Contents
<1>5. DOMAIN at1 = PlacesOf(fields, n)
  BY DEF Contents
<1>6. at2[p] = Element(n + 1)'
  BY <1>2 DEF Contents
<1>7. ASSUME NEW f \in PlacesOf(fields, n) PROVE at2[f] = at1[f]
  <2>1. /\ at2[f] = IF f[1] = "element" THEN Element(f[2])' ELSE program'[f[1]]
        /\ at1[f] = IF f[1] = "element" THEN Element(f[2]) ELSE program[f[1]]
    BY <1>2 DEF Contents
  <2>2. CASE \E a \in fields : f = <<a, 0>>
    <3>1. PICK a \in fields : f = <<a, 0>>
      BY <2>2
    <3>2. a # "element" /\ f[1] = a
      BY <3>1, PlaceOf
    <3> QED BY <2>1, <3>2
  <2>3. CASE \E k \in 1 .. n : f = <<"element", k>>
    BY <2>1, <2>3
  <2>4. \/ \E a \in fields : f = <<a, 0>>
        \/ \E k \in 1 .. n : f = <<"element", k>>
    BY PlaceOf
  <2> QED BY <2>2, <2>3, <2>4, Zenon
<1>8. NULL \notin DOMAIN heap /\ NULL \notin Block
  BY PointerAssumption
<1> HIDE DEF at1, at2, p
<1>9. Owns(DOMAIN heap', at2)
  <2>1. \/ at2[p] = NULL /\ DOMAIN heap' = DOMAIN heap
        \/ /\ at2[p] # NULL /\ at2[p] \notin DOMAIN heap
           /\ DOMAIN heap' = DOMAIN heap \cup {at2[p]}
    BY <1>6, <1>8 DEF Fills
  <2>2. /\ p \notin DOMAIN at1 /\ DOMAIN at2 = DOMAIN at1 \cup {p}
        /\ \A f \in DOMAIN at1 : at2[f] = at1[f]
    BY <1>2, <1>3, <1>4, <1>5, <1>7
  <2>3. Owns(DOMAIN heap, at1)
    BY DEF Owned, at1
  <2> QED BY <1>8, <2>1, <2>2, <2>3, OneMorePlace
<1> QED BY <1>9 DEF Owned, at2

-----------------------------------------------------------------------------
(* Texts.                                                                  *)

\* What strcpy writes ends with the NUL and is no longer than its source.
LEMMA CopyFits ==
  ASSUME NEW s \in Text
  PROVE  /\ strlen(s) \in 0 .. Len(s)
         /\ CString(s) \in Seq(Char) /\ Len(CString(s)) = strlen(s)
         /\ \E m \in Nat : DOMAIN Append(CString(s), NUL) = 1 .. m /\ m = strlen(s) + 1
<1>1. Len(s) \in Nat /\ s \in Seq(Char)
  BY DEF Text
<1>2. strlen(s) \in 0 .. Len(s)
  <2> DEFINE before == {n \in 1 .. Len(s) : \A m \in 1 .. n : s[m] # NUL}
  <2>1. IsFiniteSet(1 .. Len(s)) /\ Cardinality(1 .. Len(s)) = Len(s)
    BY <1>1, FS_Interval
  <2>2. before \subseteq 1 .. Len(s)
    OBVIOUS
  <2> HIDE DEF before
  <2>3. IsFiniteSet(before) /\ Cardinality(before) <= Len(s)
    BY <2>1, <2>2, FS_Subset
  <2>4. Cardinality(before) \in Nat
    BY <2>3, FS_CardinalityType
  <2> QED BY <1>1, <2>3, <2>4 DEF strlen, before
<1> DEFINE n == strlen(s)
<1> HIDE DEF n
<1>3. SubSeq(s, 1, n) \in Seq(Char) /\ Len(SubSeq(s, 1, n)) = n
  BY <1>1, <1>2 DEF n
<1>4. \A c \in Seq(Char) : DOMAIN Append(c, NUL) = 1 .. Len(c) + 1
  OBVIOUS
<1> QED BY <1>2, <1>3, <1>4 DEF CString, n

-----------------------------------------------------------------------------
(* The invariant.                                                          *)

Building == {"load", "attributes", "attribute", "version", "data", "constant"}

\* A pointer to the text s, as strcpy left it, or none.
PointsTo(p, s) == p = NULL \/ (p \in DOMAIN heap /\ heap[p].cells = Append(CString(s), NUL))

\* Some of the fields and n elements are written, and own all there is.
Built(fields, n) ==
  /\ Owned(fields, n)
  /\ \A k \in 1 .. n : PointsTo(Element(k), file.attributes[k])
  /\ "compiler_version" \in fields => PointsTo(program.compiler_version, file.compiler_version)

TypeInv ==
  /\ program \in program_t
  /\ DOMAIN heap \subseteq Block
  /\ IsDocument(file)
  /\ i \in Nat \ {0}
  /\ pc \in Building \cup Stopped \cup {"ready"}
  /\ pc \in Building => program.self # NULL

\* A block of so many cells, of which the first have been written.
IsBlock(b) == /\ b = [size |-> b.size, cells |-> b.cells] /\ b.size \in Nat
              /\ \E m \in 0 .. b.size : DOMAIN b.cells = 1 .. m

BlocksInv == \A b \in DOMAIN heap : IsBlock(heap[b])

BuiltInv ==
  /\ pc = "ready" /\ program.self = NULL => DOMAIN heap = {}
  /\ pc \in {"load", "attributes"} => Built({"self"}, 0)
  /\ pc = "attribute" => Built({"self", "attributes"}, i - 1)
  /\ pc = "version" => Built({"self", "attributes"}, program.length)
  /\ pc = "data" => Built({"self", "attributes", "compiler_version"}, program.length)
  /\ pc = "constant" \/ Returned => Built(Fields, program.length)

\* The attributes are as many as the length says.
LengthInv ==
  /\ pc \in {"attribute", "version", "data", "constant"} \/ Returned =>
       /\ file.attributes \in Seq(Text \cup {Wrong})
       /\ program.length \in Nat /\ program.length \in {0, size(file.attributes)}
       /\ program.length # 0 => /\ program.attributes \in DOMAIN heap
                                /\ DOMAIN heap[program.attributes].cells = 1 .. program.length
  /\ pc = "attribute" => program.length # 0 /\ i \in 1 .. program.length + 1

\* The first n constants of the file are in the data.
Read(n) ==
  LET block == heap[program.data] IN
  /\ program.data \in DOMAIN heap
  /\ file.data \in Seq(constant_t \cup {Wrong})
  /\ block.size = size(file.data) /\ DOMAIN block.cells = 1 .. block.size
  /\ \A k \in 1 .. n : file.data[k] # Wrong /\ block.cells[k] = hex_string_to_uint64(file.data[k])

DataInv ==
  /\ pc = "constant" => Read(i - 1) /\ i \in 1 .. heap[program.data].size + 1
  /\ Returned /\ program.data # NULL => Read(heap[program.data].size)

ParserInv == TypeInv /\ BlocksInv /\ BuiltInv /\ LengthInv /\ DataInv

-----------------------------------------------------------------------------
(* What the steps do to the heap.                                          *)

LEMMA FreshIsBlock ==
  ASSUME NEW n \in Nat
  PROVE  IsBlock(Fresh(n)) /\ Fresh(n).size = n /\ DOMAIN Fresh(n).cells = 1 .. n
BY DEF Fresh, IsBlock

LEMMA CopyIsBlock ==
  ASSUME NEW s \in Text, NEW n \in Nat, strlen(s) + 1 <= n
  PROVE  IsBlock(Copied(n, s)) /\ Copied(n, s).cells = Append(CString(s), NUL)
<1> DEFINE cells == Append(CString(s), NUL)
<1>1. PICK m \in Nat : DOMAIN cells = 1 .. m /\ m = strlen(s) + 1
  BY CopyFits
<1> HIDE DEF cells
<1>2. Copied(n, s) = [size |-> n, cells |-> cells]
  BY DEF Copied, cells
<1>3. m \in 0 .. n
  BY <1>1, CopyFits
<1> QED BY <1>1, <1>2, <1>3 DEF IsBlock, cells

\* malloc.
LEMMA NewBlock ==
  ASSUME TypeInv, BlocksInv, NEW b \in Free, NEW block, IsBlock(block),
         DOMAIN heap' = DOMAIN heap \cup {b}, heap'[b] = block,
         \A x \in DOMAIN heap : IsBlock(heap'[x])
  PROVE  /\ b \in Block /\ b \notin DOMAIN heap /\ b # NULL
         /\ DOMAIN heap' \subseteq Block /\ BlocksInv'
BY PointerAssumption DEF Free, TypeInv, BlocksInv

LEMMA Held ==
  ASSUME NEW b, NEW block, heap' = Holding(b, block)
  PROVE  /\ DOMAIN heap' = DOMAIN heap \cup {b} /\ heap'[b] = block
         /\ \A x \in DOMAIN heap : x # b => heap'[x] = heap[x]
BY DEF Holding

\* A cell of a block is written.
LEMMA CellWritten ==
  ASSUME NEW block, IsBlock(block), NEW k \in DOMAIN block.cells, NEW v
  PROVE  LET new == [size |-> block.size, cells |-> [block.cells EXCEPT ![k] = v]] IN
         /\ [block EXCEPT !.cells[k] = v] = new
         /\ IsBlock(new) /\ new.size = block.size /\ DOMAIN new.cells = DOMAIN block.cells
         /\ new.cells[k] = v
         /\ \A j \in DOMAIN block.cells : j # k => new.cells[j] = block.cells[j]
BY DEF IsBlock

\* What the places point to is as it was, when the only block written to is one
\* that a place other than a text owns.
LEMMA TextsStay ==
  ASSUME NEW fields \in SUBSET Fields, NEW n \in Nat, Built(fields, n), NULL \notin DOMAIN heap,
         NEW x, \/ x \notin DOMAIN heap
                \/ \E h \in fields \ {"compiler_version"} : program[h] = x,
         \A b \in DOMAIN heap : b # x => heap'[b] = heap[b],
         DOMAIN heap \subseteq DOMAIN heap',
         \A f \in fields : program'[f] = program[f],
         \A k \in 1 .. n : Element(k)' = Element(k),
         file' = file
  PROVE  /\ \A k \in 1 .. n : PointsTo(Element(k), file.attributes[k])'
         /\ "compiler_version" \in fields =>
              PointsTo(program.compiler_version, file.compiler_version)'
<1>1. \A p, q \in PlacesOf(fields, n) :
        Contents(fields, n)[p] = Contents(fields, n)[q] => p = q \/ Contents(fields, n)[p] = NULL
  BY ContentsAt DEF Built, Owned, Owns
<1>2. ASSUME NEW k \in 1 .. n PROVE PointsTo(Element(k), file.attributes[k])'
  <2>1. PointsTo(Element(k), file.attributes[k])
    BY DEF Built
  <2>2. ASSUME NEW h \in fields, program[h] = Element(k) PROVE Element(k) = NULL
    <3>1. <<h, 0>> # <<"element", k>>
      BY DEF Fields
    <3>2. <<h, 0>> \in PlacesOf(fields, n) /\ Contents(fields, n)[<<h, 0>>] = program[h]
      BY PlaceOf, ContentsAt
    <3>3. /\ <<"element", k>> \in PlacesOf(fields, n)
          /\ Contents(fields, n)[<<"element", k>>] = Element(k)
      BY PlaceOf, ContentsAt
    <3> QED BY <1>1, <2>2, <3>1, <3>2, <3>3, Zenon
  <2>3. Element(k) # NULL => Element(k) # x
    BY <2>1, <2>2 DEF PointsTo
  <2> QED BY <2>1, <2>3 DEF PointsTo
<1>3. ASSUME "compiler_version" \in fields
      PROVE  PointsTo(program.compiler_version, file.compiler_version)'
  <2> DEFINE v == program.compiler_version
  <2>1. PointsTo(v, file.compiler_version) /\ program'.compiler_version = v
    BY <1>3 DEF Built
  <2>2. ASSUME NEW h \in fields \ {"compiler_version"}, program[h] = v PROVE v = NULL
    <3>1. <<h, 0>> # <<"compiler_version", 0>>
      BY <2>2
    <3>2. /\ <<h, 0>> \in PlacesOf(fields, n)
          /\ <<"compiler_version", 0>> \in PlacesOf(fields, n)
      BY <1>3, PlaceOf
    <3>3. Contents(fields, n)[<<h, 0>>] = program[h]
      BY ContentsAt
    <3>4. Contents(fields, n)[<<"compiler_version", 0>>] = v
      BY <1>3, ContentsAt
    <3> HIDE DEF v
    <3> QED BY <1>1, <2>2, <3>1, <3>2, <3>3, <3>4
  <2>3. v # NULL => v # x
    BY <2>1, <2>2 DEF PointsTo
  <2> HIDE DEF v
  <2> QED BY <2>1, <2>3 DEF PointsTo, v
<1> QED BY <1>2, <1>3

\* It is said of the heap, the program and the file alone.
LEMMA BuiltUnchanged ==
  ASSUME NEW fields, NEW n, UNCHANGED <<heap, program, file>>, Built(fields, n)
  PROVE  Built(fields, n)'
<1>1. \A k : Element(k)' = Element(k)
  BY DEF Element
<1>2. Contents(fields, n)' = Contents(fields, n)
  BY <1>1 DEF Contents
<1>3. Owned(fields, n)'
  BY <1>2 DEF Built, Owned
<1>4. ASSUME NEW p, NEW s, PointsTo(p, s)
      PROVE  p = NULL \/ (p \in DOMAIN heap' /\ heap'[p].cells = Append(CString(s), NUL))
  BY <1>4 DEF PointsTo
<1>5. \A k \in 1 .. n : PointsTo(Element(k), file.attributes[k])'
  BY <1>1, <1>4 DEF Built, PointsTo
<1>6. "compiler_version" \in fields => PointsTo(program.compiler_version, file.compiler_version)'
  BY <1>4 DEF Built, PointsTo
<1> QED BY <1>3, <1>5, <1>6 DEF Built

\* A step that writes none of the places.
LEMMA BuiltStays ==
  ASSUME NEW fields \in SUBSET Fields, NEW n \in Nat, Built(fields, n), NULL \notin DOMAIN heap,
         NEW x, \/ x \notin DOMAIN heap
                \/ \E h \in fields \ {"compiler_version"} : program[h] = x,
         \A b \in DOMAIN heap : b # x => heap'[b] = heap[b],
         DOMAIN heap' = DOMAIN heap,
         \A f \in fields : program'[f] = program[f],
         \A k \in 1 .. n : Element(k)' = Element(k),
         file' = file
  PROVE  Built(fields, n)'
<1>1. Owned(fields, n)'
  BY NothingMoves DEF Built
<1>2. /\ \A k \in 1 .. n : PointsTo(Element(k), file.attributes[k])'
      /\ "compiler_version" \in fields => PointsTo(program.compiler_version, file.compiler_version)'
  BY TextsStay
<1> QED BY <1>1, <1>2 DEF Built

\* A step that writes the field g, and no block but a new one.
LEMMA FieldBuilt ==
  ASSUME NEW fields \in SUBSET Fields, NEW n \in Nat, NEW g \in Fields \ fields,
         Built(fields, n), DOMAIN heap \subseteq Block, Fills(program'[g]),
         \A b \in DOMAIN heap : heap'[b] = heap[b],
         \A f \in fields : program'[f] = program[f],
         \A k \in 1 .. n : Element(k)' = Element(k),
         file' = file,
         g = "compiler_version" => PointsTo(program.compiler_version, file.compiler_version)'
  PROVE  Built(fields \cup {g}, n)'
<1>1. Owned(fields \cup {g}, n)'
  BY FieldAdded DEF Built
<1>2. NULL \notin DOMAIN heap /\ DOMAIN heap \subseteq DOMAIN heap'
  BY PointerAssumption DEF Fills
<1>3. /\ \A k \in 1 .. n : PointsTo(Element(k), file.attributes[k])'
      /\ "compiler_version" \in fields => PointsTo(program.compiler_version, file.compiler_version)'
  BY <1>2, TextsStay
<1> QED BY <1>1, <1>3 DEF Built

\* A step that writes the next element, in the block of the attributes.
LEMMA ElementBuilt ==
  ASSUME NEW n \in Nat, Built({"self", "attributes"}, n), DOMAIN heap \subseteq Block,
         Fills(Element(n + 1)'),
         \A b \in DOMAIN heap : b # program.attributes => heap'[b] = heap[b],
         program' = program, file' = file,
         \A k \in 1 .. n : Element(k)' = Element(k),
         PointsTo(Element(n + 1), file.attributes[n + 1])'
  PROVE  Built({"self", "attributes"}, n + 1)'
<1> DEFINE fields == {"self", "attributes"}
<1>1. fields \in SUBSET Fields /\ "attributes" \in fields \ {"compiler_version"}
      /\ "compiler_version" \notin fields
  BY DEF Fields
<1>2. NULL \notin DOMAIN heap /\ DOMAIN heap \subseteq DOMAIN heap'
  BY PointerAssumption DEF Fills
<1>3. Built(fields, n) /\ \A f \in fields : program'[f] = program[f]
  OBVIOUS
<1> HIDE DEF fields
<1>4. Owned(fields, n + 1)'
  BY <1>1, <1>3, ElementAdded DEF Built
<1>5. \A k \in 1 .. n : PointsTo(Element(k), file.attributes[k])'
  BY <1>1, <1>2, <1>3, TextsStay
<1>6. \A k \in 1 .. n + 1 : PointsTo(Element(k), file.attributes[k])'
  <2>1. \A k \in 1 .. n + 1 : k \in 1 .. n \/ k = n + 1
    OBVIOUS
  <2> QED BY <1>5, <2>1
<1>7. Built(fields, n + 1)'
  BY <1>1, <1>4, <1>6 DEF Built
<1> QED BY <1>7 DEF fields

-----------------------------------------------------------------------------
(* The steps.                                                              *)

LEMMA InitEstablishes == ParserInit => ParserInv
<1> SUFFICES ASSUME ParserInit PROVE ParserInv
  OBVIOUS
<1> USE DEF ParserInit
<1>1. program = [self |-> NULL, length |-> 0, attributes |-> Unset,
                 compiler_version |-> Unset, data |-> Unset]
  BY DEF NoProgram, UnsetProgram
<1>2. DOMAIN heap = {}
  OBVIOUS
<1>3. TypeInv
  BY <1>1, <1>2 DEF TypeInv, program_t, Pointer, IsDocument, NoFile, Building, Stopped
<1>4. ~Returned /\ pc \notin Building
  BY <1>1 DEF Returned, Building
<1> QED BY <1>2, <1>3, <1>4 DEF ParserInv, BlocksInv, BuiltInv, LengthInv, DataInv, Building

\* The process ends.
LEMMA StopPreserves ==
  ASSUME ParserInv, pc' \in Stopped, UNCHANGED <<heap, program, i>>, IsDocument(file')
  PROVE  ParserInv'
<1>1. ~Returned' /\ pc' \notin Building /\ pc' # "ready"
  BY DEF Returned, Building, Stopped
<1>2. TypeInv' /\ BlocksInv'
  BY <1>1 DEF ParserInv, TypeInv, BlocksInv, IsDocument
<1> QED BY <1>1, <1>2 DEF ParserInv, BuiltInv, LengthInv, DataInv, Building

LEMMA ThrowPreserves ==
  ASSUME ParserInv, Throw PROVE ParserInv'
<1>1. pc' \in Stopped /\ IsDocument(file')
  BY DEF Throw, Goto, Stopped, ParserInv, TypeInv, IsDocument
<1> QED BY <1>1, StopPreserves DEF Throw

LEMMA AllocatePreserves ==
  ASSUME ParserInv, NEW document \in Files, AllocateProgram(document)
  PROVE  ParserInv'
<1>1. IsDocument(document) /\ file' = document /\ i' = i
  BY FilesAssumption DEF AllocateProgram, IsDocument
<1>2. CASE Goto("exited") /\ UNCHANGED <<heap, program>>
  BY <1>1, <1>2, StopPreserves DEF Goto, Stopped
<1>3. ASSUME NEW b \in Free, heap' = Holding(b, [size |-> 1, cells |-> << >>]),
             program' = UnsetProgram(b), pc' = "load"
      PROVE  ParserInv'
  <2> DEFINE block == [size |-> 1, cells |-> << >>]
  <2>1. DOMAIN heap = {}
    BY DEF AllocateProgram, ParserInv, BuiltInv
  <2>2. IsBlock(block)
    BY DEF IsBlock
  <2> HIDE DEF block
  <2>3. DOMAIN heap' = {b} /\ heap'[b] = block
    BY <1>3, <2>1, Held DEF block
  <2>4. b \in Block /\ b # NULL /\ BlocksInv'
    BY <2>1, <2>2, <2>3, PointerAssumption DEF Free, BlocksInv
  <2>5. /\ program' \in program_t /\ program'.self = b
    BY <1>3, <2>4 DEF UnsetProgram, program_t, Pointer
  <2>6. TypeInv'
    BY <1>1, <1>3, <2>3, <2>4, <2>5 DEF ParserInv, TypeInv, Building, IsDocument
  <2>7. Built({"self"}, 0)'
    <3>1. PlacesOf({"self"}, 0) = {<<"self", 0>>}
      BY DEF PlacesOf
    <3>2. Contents({"self"}, 0)' = [f \in {<<"self", 0>>} |-> b]
      BY <2>5, <3>1 DEF Contents
    <3>3. Owned({"self"}, 0)'
      BY <2>3, <3>2 DEF Owned, Owns
    <3> QED BY <3>3 DEF Built
  <2> QED BY <1>3, <2>4, <2>6, <2>7 DEF ParserInv, BuiltInv, LengthInv, DataInv, Returned
<1> QED BY <1>2, <1>3 DEF AllocateProgram, Goto

LEMMA LoadPreserves ==
  ASSUME ParserInv, Load PROVE ParserInv'
<1>1. CASE Throw
  BY <1>1, ThrowPreserves
<1>2. CASE Goto("attributes") /\ UNCHANGED <<heap, program, file, i>>
  <2>1. pc = "load" /\ pc' = "attributes" /\ UNCHANGED <<heap, program, file, i>>
    BY <1>2 DEF Load, Goto
  <2>2. TypeInv' /\ BlocksInv'
    BY <2>1 DEF ParserInv, TypeInv, BlocksInv, Building, IsDocument
  <2>3. Built({"self"}, 0)'
    <3>1. Built({"self"}, 0)
      BY <2>1 DEF ParserInv, BuiltInv
    <3> QED BY <2>1, <3>1, BuiltUnchanged
  <2> QED BY <2>1, <2>2, <2>3 DEF ParserInv, BuiltInv, LengthInv, DataInv, Returned
<1> QED BY <1>1, <1>2 DEF Load

\* dom::array::size.
LEMMA SizeType ==
  ASSUME NEW S, NEW a \in Seq(S)
  PROVE  size(a) \in Nat /\ size(a) <= Len(a) /\ size(a) <= CountMax
BY SizesAssumption DEF size

LEMMA AttributesPreserves ==
  ASSUME ParserInv, ParseAttributes PROVE ParserInv'
<1> DEFINE elements == size(file.attributes)
<1>1. CASE Throw
  BY <1>1, ThrowPreserves
<1> SUFFICES ASSUME ~Throw PROVE ParserInv'
  BY <1>1
<1>2. /\ pc = "attributes" /\ file.attributes # Wrong /\ file' = file
      /\ file.attributes \in Seq(Text \cup {Wrong}) /\ elements \in Nat
      /\ program \in program_t /\ DOMAIN heap \subseteq Block
  BY SizeType DEF ParseAttributes, ParserInv, TypeInv, IsDocument
<1>3. Built({"self"}, 0)
  BY <1>2 DEF ParserInv, BuiltInv
<1>4. {"self"} \in SUBSET Fields /\ "attributes" \in Fields \ {"self"}
      /\ {"self"} \cup {"attributes"} = {"self", "attributes"}
  BY DEF Fields
<1> HIDE DEF elements
<1>5. CASE program' = [program EXCEPT !.length = 0, !.attributes = NULL]
             /\ pc' = "version" /\ UNCHANGED <<heap, i>>
  <2>1. program' = [self |-> program.self, length |-> 0, attributes |-> NULL,
                    compiler_version |-> program.compiler_version, data |-> program.data]
    BY <1>2, <1>5 DEF program_t
  <2>2. program' \in program_t /\ program'.self = program.self /\ program'.length = 0
        /\ program'["self"] = program["self"] /\ program'["attributes"] = NULL
    BY <1>2, <2>1 DEF program_t, Pointer
  <2>3. TypeInv' /\ BlocksInv'
    BY <1>2, <1>5, <2>2 DEF ParserInv, TypeInv, BlocksInv, Building, IsDocument
  <2>4. Built({"self", "attributes"}, 0)'
    <3>1. Fills(program'["attributes"])
      BY <1>5, <2>2 DEF Fills
    <3>2. /\ \A b \in DOMAIN heap : heap'[b] = heap[b]
          /\ \A f \in {"self"} : program'[f] = program[f]
          /\ \A k \in 1 .. 0 : Element(k)' = Element(k)
      BY <1>5, <2>2
    <3>3. Built({"self"} \cup {"attributes"}, 0)'
      BY <1>2, <1>3, <1>4, <3>1, <3>2, FieldBuilt
    <3> QED BY <1>4, <3>3
  <2> QED BY <1>2, <1>5, <2>2, <2>3, <2>4
          DEF ParserInv, BuiltInv, LengthInv, DataInv, Returned
<1>6. ASSUME NEW b \in Free, elements # 0, heap' = Holding(b, Fresh(elements)),
             program' = [program EXCEPT !.length = elements, !.attributes = b],
             i' = 1, pc' = "attribute"
      PROVE  ParserInv'
  <2>1. IsBlock(Fresh(elements)) /\ DOMAIN Fresh(elements).cells = 1 .. elements
    BY <1>2, FreshIsBlock
  <2>2. /\ b \in Block /\ b \notin DOMAIN heap /\ b # NULL
        /\ DOMAIN heap' = DOMAIN heap \cup {b} /\ heap'[b] = Fresh(elements)
        /\ \A x \in DOMAIN heap : heap'[x] = heap[x]
        /\ DOMAIN heap' \subseteq Block /\ BlocksInv'
    <3>1. b \notin DOMAIN heap
      BY DEF Free
    <3>2. /\ DOMAIN heap' = DOMAIN heap \cup {b} /\ heap'[b] = Fresh(elements)
          /\ \A x \in DOMAIN heap : heap'[x] = heap[x]
      BY <1>6, <3>1, Held
    <3>3. \A x \in DOMAIN heap : IsBlock(heap'[x])
      BY <3>2 DEF ParserInv, BlocksInv
    <3> QED BY <2>1, <3>2, <3>3, NewBlock DEF ParserInv
  <2>3. program' = [self |-> program.self, length |-> elements, attributes |-> b,
                    compiler_version |-> program.compiler_version, data |-> program.data]
    BY <1>2, <1>6 DEF program_t
  <2>4. program' \in program_t /\ program'.self = program.self /\ program'.length = elements
        /\ program'["self"] = program["self"] /\ program'["attributes"] = b
        /\ program'.attributes = b
    BY <1>2, <2>2, <2>3 DEF program_t, Pointer
  <2>5. TypeInv'
    BY <1>2, <1>6, <2>2, <2>4 DEF ParserInv, TypeInv, Building, IsDocument
  <2>6. Built({"self", "attributes"}, 0)'
    <3>1. Fills(program'["attributes"])
      BY <2>2, <2>4 DEF Fills
    <3>2. /\ \A x \in DOMAIN heap : heap'[x] = heap[x]
          /\ \A f \in {"self"} : program'[f] = program[f]
          /\ \A k \in 1 .. 0 : Element(k)' = Element(k)
      BY <2>2, <2>4
    <3>3. Built({"self"} \cup {"attributes"}, 0)'
      BY <1>2, <1>3, <1>4, <3>1, <3>2, FieldBuilt
    <3> QED BY <1>4, <3>3
  <2>7. LengthInv'
    BY <1>2, <1>6, <2>1, <2>2, <2>4 DEF LengthInv, elements, size
  <2> QED BY <1>6, <2>2, <2>5, <2>6, <2>7 DEF ParserInv, BuiltInv, DataInv, Returned
<1> QED BY <1>2, <1>5, <1>6 DEF ParseAttributes, Goto, elements

\* The next element is written, with the copy of a text or a null pointer.
LEMMA ElementWritten ==
  ASSUME ParserInv, pc = "attribute", i <= program.length,
         i' = i + 1, UNCHANGED <<pc, program, file>>,
         NEW v, Fills(v),
         heap'[program.attributes] = [heap[program.attributes] EXCEPT !.cells[i] = v],
         \A b \in DOMAIN heap : b # program.attributes => heap'[b] = heap[b],
         v # NULL => IsBlock(heap'[v]) /\ heap'[v].cells = Append(CString(file.attributes[i]), NUL)
  PROVE  ParserInv'
<1> DEFINE a == program.attributes
<1>1. /\ a \in DOMAIN heap /\ IsBlock(heap[a]) /\ DOMAIN heap[a].cells = 1 .. program.length
      /\ program.length \in Nat /\ i \in Nat \ {0} /\ i \in DOMAIN heap[a].cells
      /\ file.attributes \in Seq(Text \cup {Wrong}) /\ program.length \in {0, size(file.attributes)}
      /\ program.length # 0 /\ DOMAIN heap \subseteq Block
  BY DEF ParserInv, LengthInv, TypeInv, BlocksInv
<1>2. PICK n \in Nat : i = n + 1
  <2>1. i - 1 \in Nat /\ i = (i - 1) + 1
    BY <1>1
  <2> QED BY <2>1
<1>b. Built({"self", "attributes"}, n)
  <2>1. i - 1 = n
    BY <1>2
  <2> QED BY <2>1 DEF ParserInv, BuiltInv
<1> HIDE DEF a
<1>3. /\ IsBlock(heap'[a]) /\ DOMAIN heap'[a].cells = DOMAIN heap[a].cells
      /\ heap'[a].cells[i] = v
      /\ \A j \in DOMAIN heap[a].cells : j # i => heap'[a].cells[j] = heap[a].cells[j]
  <2> DEFINE block == heap[a]
             new   == [size |-> block.size, cells |-> [block.cells EXCEPT ![i] = v]]
  <2>1. /\ [block EXCEPT !.cells[i] = v] = new
        /\ IsBlock(new) /\ DOMAIN new.cells = DOMAIN block.cells /\ new.cells[i] = v
        /\ \A j \in DOMAIN block.cells : j # i => new.cells[j] = block.cells[j]
    <3> HIDE DEF block
    <3>1. IsBlock(block) /\ i \in DOMAIN block.cells
      BY <1>1 DEF block
    <3> QED BY <3>1, CellWritten
  <2>2. heap'[a] = [block EXCEPT !.cells[i] = v]
    BY DEF a
  <2> QED BY <2>1, <2>2
<1>4. Element(n + 1)' = v
  <2>1. heap'[a].cells[n + 1] = v
    BY <1>2, <1>3
  <2>2. program'.attributes = a
    BY DEF a
  <2> QED BY <2>1, <2>2 DEF Element
<1>5. \A k \in 1 .. n : Element(k)' = Element(k)
  <2>1. \A k \in 1 .. n : k \in DOMAIN heap[a].cells /\ k # i
    BY <1>1, <1>2
  <2> QED BY <1>3, <2>1 DEF Element, a
<1>6. DOMAIN heap' = DOMAIN heap \cup (IF v = NULL THEN {} ELSE {v}) /\ DOMAIN heap' \subseteq Block
  BY <1>1, PointerAssumption DEF Fills
<1>7. TypeInv'
  BY <1>1, <1>6 DEF ParserInv, TypeInv, IsDocument
<1>8. BlocksInv'
  BY <1>1, <1>3, <1>6 DEF ParserInv, BlocksInv, a
<1>9. LengthInv'
  <2>1. i' \in 1 .. program'.length + 1
    BY <1>1
  <2>2. program'.attributes \in DOMAIN heap' /\ DOMAIN heap'[program'.attributes].cells = 1 .. program'.length
    BY <1>1, <1>3, <1>6 DEF a
  <2> QED BY <1>1, <2>1, <2>2 DEF LengthInv
<1>10. Built({"self", "attributes"}, n + 1)'
  <2>1. PointsTo(Element(n + 1), file.attributes[n + 1])'
    BY <1>2, <1>4, <1>6 DEF PointsTo
  <2>2. Fills(Element(n + 1)')
    BY <1>4
  <2> QED BY <1>1, <1>b, <1>5, <2>1, <2>2, ElementBuilt
<1>11. Built({"self", "attributes"}, i - 1)'
  <2>1. i' - 1 = n + 1
    BY <1>2
  <2> QED BY <1>10, <2>1
<1> QED BY <1>1, <1>7, <1>8, <1>9, <1>11 DEF ParserInv, BuiltInv, DataInv, Returned

LEMMA AttributePreserves ==
  ASSUME ParserInv, ParseAttribute PROVE ParserInv'
<1> DEFINE a    == program.attributes
           text == file.attributes[i]
<1>1. CASE Throw
  BY <1>1, ThrowPreserves
<1> SUFFICES ASSUME ~Throw PROVE ParserInv'
  BY <1>1
<1>2. /\ pc = "attribute" /\ program.length \in Nat /\ i \in Nat \ {0}
      /\ program.length # 0 /\ i \in 1 .. program.length + 1
      /\ program.length = size(file.attributes) /\ a \in DOMAIN heap
      /\ file.attributes \in Seq(Text \cup {Wrong})
  BY DEF ParseAttribute, ParserInv, LengthInv, TypeInv
<1>3. CASE i > program.length
  <2>1. pc' = "version" /\ UNCHANGED <<heap, program, file, i>> /\ i - 1 = program.length
    BY <1>2, <1>3 DEF ParseAttribute, Goto
  <2>2. TypeInv' /\ BlocksInv'
    BY <1>2, <2>1 DEF ParserInv, TypeInv, BlocksInv, Building, IsDocument
  <2>3. Built({"self", "attributes"}, program.length)'
    <3>1. Built({"self", "attributes"}, program.length)
      BY <1>2, <2>1 DEF ParserInv, BuiltInv
    <3>2. PICK n : n = program.length
      OBVIOUS
    <3>3. Built({"self", "attributes"}, n)'
      BY <2>1, <3>1, <3>2, BuiltUnchanged
    <3> QED BY <2>1, <3>2, <3>3
  <2>4. LengthInv'
    BY <1>2, <2>1 DEF ParserInv, LengthInv
  <2> QED BY <2>1, <2>2, <2>3, <2>4 DEF ParserInv, BuiltInv, DataInv, Returned
<1>4. CASE i <= program.length
  <2>0. ~(i > program.length)
    BY <1>2, <1>4
  <2>1. /\ i' = i + 1 /\ UNCHANGED <<pc, program, file>> /\ text # Wrong
        /\ \/ heap' = Holding(a, [heap[a] EXCEPT !.cells[i] = NULL])
           \/ \E b \in Free :
                heap' = [x \in DOMAIN heap \cup {b} |->
                           IF x = b THEN Copied(TextSize(text), text)
                           ELSE IF x = a THEN [heap[a] EXCEPT !.cells[i] = b]
                           ELSE heap[x]]
    BY <2>0, Zenon DEF ParseAttribute, at
  <2>2. text \in Text
    <3>1. i \in 1 .. Len(file.attributes)
      BY <1>2, <1>4, SizeType
    <3> QED BY <1>2, <2>1, <3>1
  <2>3. CASE heap' = Holding(a, [heap[a] EXCEPT !.cells[i] = NULL])
    <3>1. /\ DOMAIN heap' = DOMAIN heap \cup {a}
          /\ heap'[a] = [heap[a] EXCEPT !.cells[i] = NULL]
          /\ \A b \in DOMAIN heap : b # a => heap'[b] = heap[b]
      BY <2>3 DEF Holding
    <3>2. Fills(NULL)
      BY <1>2, <3>1 DEF Fills
    <3> QED BY <1>2, <1>4, <2>1, <3>1, <3>2, ElementWritten
  <2>4. ASSUME NEW b \in Free,
               heap' = [x \in DOMAIN heap \cup {b} |->
                          IF x = b THEN Copied(TextSize(text), text)
                          ELSE IF x = a THEN [heap[a] EXCEPT !.cells[i] = b]
                          ELSE heap[x]]
        PROVE  ParserInv'
    <3>1. b \in Block /\ b \notin DOMAIN heap /\ b # a
      BY <1>2 DEF Free
    <3>2. DOMAIN heap' = DOMAIN heap \cup {b}
      BY <2>4
    <3>3. heap'[b] = Copied(TextSize(text), text)
      BY <2>4
    <3>4. heap'[a] = [heap[a] EXCEPT !.cells[i] = b]
      BY <1>2, <2>4, <3>1
    <3>5. \A x \in DOMAIN heap : x # a => heap'[x] = heap[x]
      BY <2>4, <3>1
    <3>6. Fills(b)
      BY <3>1, <3>2 DEF Fills
    <3>7. TextSize(text) \in Nat /\ strlen(text) + 1 <= TextSize(text)
      <4>1. strlen(text) \in 0 .. Len(text)
        BY <2>2, CopyFits
      <4>2. Len(text) \in Nat
        BY <2>2 DEF Text
      <4> QED BY <4>1, <4>2 DEF TextSize
    <3>8. IsBlock(heap'[b]) /\ heap'[b].cells = Append(CString(text), NUL)
      <4> HIDE DEF text
      <4> QED BY <2>2, <3>3, <3>7, CopyIsBlock
    <3> QED BY <1>2, <1>4, <2>1, <3>4, <3>5, <3>6, <3>8, ElementWritten
  <2> QED BY <2>1, <2>3, <2>4
<1> QED BY <1>2, <1>3, <1>4

LEMMA VersionPreserves ==
  ASSUME ParserInv, ParseVersion PROVE ParserInv'
<1> DEFINE text   == file.compiler_version
           fields == {"self", "attributes"}
<1>1. CASE Throw
  BY <1>1, ThrowPreserves
<1> SUFFICES ASSUME ~Throw PROVE ParserInv'
  BY <1>1
<1>2. /\ pc = "version" /\ pc' = "data" /\ UNCHANGED <<file, i>> /\ text \in Text
      /\ program \in program_t /\ DOMAIN heap \subseteq Block /\ program.length \in Nat
  BY DEF ParseVersion, Goto, ParserInv, LengthInv, TypeInv, IsDocument
<1>3. Built(fields, program.length)
  BY <1>2 DEF ParserInv, BuiltInv
<1>4. fields \in SUBSET Fields /\ "compiler_version" \in Fields \ fields
      /\ fields \cup {"compiler_version"} = {"self", "attributes", "compiler_version"}
  BY DEF Fields
<1> HIDE DEF fields
<1>5. ASSUME NEW v, program' = [program EXCEPT !.compiler_version = v], Fills(v),
             \A b \in DOMAIN heap : heap'[b] = heap[b],
             v # NULL => IsBlock(heap'[v]) /\ heap'[v].cells = Append(CString(text), NUL)
      PROVE  ParserInv'
  <2>1. /\ program' = [self |-> program.self, length |-> program.length,
                       attributes |-> program.attributes, compiler_version |-> v,
                       data |-> program.data]
        /\ v \in Pointer
    BY <1>2, <1>5 DEF program_t, Fills, Pointer
  <2>2. /\ program' \in program_t /\ program'.self = program.self
        /\ program'.length = program.length /\ program'.attributes = program.attributes
        /\ program'.compiler_version = v /\ program'["compiler_version"] = v
        /\ program'["self"] = program["self"]
        /\ program'["attributes"] = program["attributes"]
    BY <1>2, <2>1 DEF program_t
  <2>3. /\ DOMAIN heap' = DOMAIN heap \cup (IF v = NULL THEN {} ELSE {v})
        /\ DOMAIN heap' \subseteq Block
    BY <1>2, <1>5, PointerAssumption DEF Fills
  <2>4. TypeInv'
    BY <1>2, <2>2, <2>3 DEF ParserInv, TypeInv, Building, IsDocument
  <2>5. BlocksInv'
    BY <1>5, <2>3 DEF ParserInv, BlocksInv
  <2>6. /\ program.length # 0 => program.attributes \in DOMAIN heap
        /\ program.length # 0 => Element(1)' = Element(1)
        /\ \A k \in 1 .. program.length : Element(k)' = Element(k)
    <3>1. program.length # 0 => program.attributes \in DOMAIN heap
      BY <1>2 DEF ParserInv, LengthInv
    <3>2. \A k \in 1 .. program.length : program.length # 0
      BY <1>2
    <3> QED BY <1>5, <2>2, <3>1, <3>2 DEF Element
  <2>7. LengthInv'
    <3>1. program.length # 0 => heap'[program.attributes] = heap[program.attributes]
      BY <1>5, <2>6
    <3>2. /\ file.attributes \in Seq(Text \cup {Wrong})
          /\ program.length \in {0, size(file.attributes)}
          /\ program.length # 0 => DOMAIN heap[program.attributes].cells = 1 .. program.length
      BY <1>2 DEF ParserInv, LengthInv
    <3> QED BY <1>2, <2>2, <2>3, <2>6, <3>1, <3>2 DEF LengthInv
  <2>8. Built({"self", "attributes", "compiler_version"}, program.length)'
    <3>1. PointsTo(program.compiler_version, file.compiler_version)'
      BY <1>2, <1>5, <2>2, <2>3 DEF PointsTo
    <3>2. Fills(program'["compiler_version"])
      BY <1>5, <2>2
    <3>3. \A f \in fields : program'[f] = program[f]
      BY <2>2 DEF fields
    <3>4. Built(fields \cup {"compiler_version"}, program.length)'
      <4> DEFINE n == program.length
      <4>1. n' = n /\ n \in Nat /\ Built(fields, n)
        BY <1>2, <1>3, <2>2
      <4>2. \A k \in 1 .. n : Element(k)' = Element(k)
        BY <2>6
      <4>3. DOMAIN heap \subseteq Block /\ file' = file
        BY <1>2
      <4>4. PICK m \in Nat : m = n
        BY <4>1
      <4> HIDE DEF n
      <4>5. Built(fields \cup {"compiler_version"}, m)'
        BY <1>4, <1>5, <3>1, <3>2, <3>3, <4>1, <4>2, <4>3, <4>4, FieldBuilt
      <4> QED BY <4>1, <4>4, <4>5 DEF n
    <3> QED BY <1>4, <3>4
  <2> QED BY <1>2, <2>4, <2>5, <2>7, <2>8 DEF ParserInv, BuiltInv, DataInv, Returned
<1>6. CASE heap' = heap /\ program' = [program EXCEPT !.compiler_version = NULL]
  BY <1>5, <1>6 DEF Fills
<1>7. ASSUME NEW b \in Free, heap' = Holding(b, Copied(strlen(text) + 1, text)),
             program' = [program EXCEPT !.compiler_version = b]
      PROVE  ParserInv'
  <2>1. b \in Block /\ b \notin DOMAIN heap
    BY DEF Free
  <2>2. /\ DOMAIN heap' = DOMAIN heap \cup {b}
        /\ heap'[b] = Copied(strlen(text) + 1, text)
        /\ \A x \in DOMAIN heap : heap'[x] = heap[x]
    BY <1>7, <2>1, Held
  <2>3. IsBlock(heap'[b]) /\ heap'[b].cells = Append(CString(text), NUL)
    <3> HIDE DEF text
    <3>1. strlen(text) + 1 \in Nat
      BY <1>2, CopyFits
    <3>2. /\ IsBlock(Copied(strlen(text) + 1, text))
          /\ Copied(strlen(text) + 1, text).cells = Append(CString(text), NUL)
      BY <1>2, <3>1, CopyIsBlock
    <3> QED BY <2>2, <3>2
  <2>4. Fills(b)
    BY <2>1, <2>2 DEF Fills
  <2> QED BY <1>5, <1>7, <2>2, <2>3, <2>4
<1> QED BY <1>6, <1>7 DEF ParseVersion

LEMMA DataPreserves ==
  ASSUME ParserInv, ParseData PROVE ParserInv'
<1> DEFINE fields == {"self", "attributes", "compiler_version"}
           n      == program.length
<1>1. CASE Throw
  BY <1>1, ThrowPreserves
<1> SUFFICES ASSUME ~Throw PROVE ParserInv'
  BY <1>1
<1>2. /\ pc = "data" /\ UNCHANGED file /\ file.data \in Seq(constant_t \cup {Wrong})
      /\ program \in program_t /\ DOMAIN heap \subseteq Block /\ program.length \in Nat
      /\ program.self # NULL
  BY DEF ParseData, ParserInv, LengthInv, TypeInv, IsDocument, Building
<1>3. Built(fields, n)
  BY <1>2 DEF ParserInv, BuiltInv
<1>4. fields \in SUBSET Fields /\ "data" \in Fields \ fields /\ fields \cup {"data"} = Fields
  BY DEF Fields
<1> HIDE DEF fields
<1>5. ASSUME NEW v, program' = [program EXCEPT !.data = v], Fills(v),
             \A b \in DOMAIN heap : heap'[b] = heap[b],
             v # NULL => /\ IsBlock(heap'[v]) /\ heap'[v].size = size(file.data)
                         /\ DOMAIN heap'[v].cells = 1 .. size(file.data),
             \/ v = NULL /\ pc' = "ready" /\ i' = i
             \/ v # NULL /\ pc' = "constant" /\ i' = 1
      PROVE  ParserInv'
  <2>1. /\ program' = [self |-> program.self, length |-> program.length,
                       attributes |-> program.attributes,
                       compiler_version |-> program.compiler_version, data |-> v]
        /\ v \in Pointer
    BY <1>2, <1>5 DEF program_t, Fills, Pointer
  <2>2. /\ program' \in program_t /\ program'.self = program.self
        /\ program'.length = program.length /\ program'.attributes = program.attributes
        /\ program'.data = v /\ program'["data"] = v
        /\ program'["self"] = program["self"]
        /\ program'["attributes"] = program["attributes"]
        /\ program'["compiler_version"] = program["compiler_version"]
    BY <1>2, <2>1 DEF program_t
  <2>3. /\ DOMAIN heap' = DOMAIN heap \cup (IF v = NULL THEN {} ELSE {v})
        /\ DOMAIN heap' \subseteq Block
    BY <1>2, <1>5, PointerAssumption DEF Fills
  <2>4. TypeInv'
    <3>1. i' \in Nat \ {0}
      BY <1>5 DEF ParserInv, TypeInv
    <3> QED BY <1>2, <1>5, <2>2, <2>3, <3>1 DEF ParserInv, TypeInv, Building, IsDocument
  <2>5. BlocksInv'
    BY <1>5, <2>3 DEF ParserInv, BlocksInv
  <2>6. /\ n # 0 => program.attributes \in DOMAIN heap
        /\ \A k \in 1 .. n : Element(k)' = Element(k)
    <3>1. n # 0 => program.attributes \in DOMAIN heap
      BY <1>2 DEF ParserInv, LengthInv
    <3>2. \A k \in 1 .. n : n # 0
      BY <1>2
    <3> QED BY <1>5, <2>2, <3>1, <3>2 DEF Element
  <2>7. LengthInv'
    <3>1. n # 0 => heap'[program.attributes] = heap[program.attributes]
      BY <1>5, <2>6
    <3>2. /\ file.attributes \in Seq(Text \cup {Wrong})
          /\ program.length \in {0, size(file.attributes)}
          /\ n # 0 => DOMAIN heap[program.attributes].cells = 1 .. n
      BY <1>2 DEF ParserInv, LengthInv
    <3> QED BY <1>2, <1>5, <2>2, <2>3, <2>6, <3>1, <3>2 DEF LengthInv
  <2>8. Built(Fields, program.length)'
    <3>1. Fills(program'["data"])
      BY <1>5, <2>2
    <3>2. \A f \in fields : program'[f] = program[f]
      BY <2>2 DEF fields
    <3>3. n' = n /\ n \in Nat /\ Built(fields, n) /\ \A k \in 1 .. n : Element(k)' = Element(k)
      BY <1>2, <1>3, <2>2, <2>6
    <3>4. DOMAIN heap \subseteq Block /\ file' = file
      BY <1>2
    <3>5. PICK m \in Nat : m = n
      BY <3>3
    <3> HIDE DEF n
    <3>6. "data" # "compiler_version"
      OBVIOUS
    <3>7. Built(fields \cup {"data"}, m)'
      BY <1>4, <1>5, <3>1, <3>2, <3>3, <3>4, <3>5, <3>6, FieldBuilt
    <3>8. Built(Fields, n)'
      BY <1>4, <3>3, <3>5, <3>7
    <3> QED BY <3>8 DEF n
  <2>9. DataInv'
    <3>1. CASE v = NULL
      BY <1>5, <2>2, <3>1 DEF DataInv
    <3>2. CASE v # NULL
      <4>1. pc' = "constant" /\ i' = 1 /\ v \in DOMAIN heap' /\ size(file.data) \in Nat
        BY <1>2, <1>5, <2>3, <3>2, SizeType
      <4>2. Read(0)'
        BY <1>2, <1>5, <2>2, <3>2, <4>1 DEF Read, size
      <4>3. i' - 1 = 0 /\ i' \in 1 .. heap'[program'.data].size + 1
        BY <1>5, <2>2, <3>2, <4>1
      <4> QED BY <4>1, <4>2, <4>3 DEF DataInv, Returned
    <3> QED BY <3>1, <3>2
  <2> QED BY <1>2, <1>5, <2>2, <2>4, <2>5, <2>7, <2>8, <2>9 DEF ParserInv, BuiltInv, Returned
<1>6. CASE UNCHANGED <<heap, i>> /\ program' = [program EXCEPT !.data = NULL] /\ pc' = "ready"
  BY <1>5, <1>6 DEF Fills
<1>7. ASSUME NEW b \in Free, heap' = Holding(b, Fresh(size(file.data))),
             program' = [program EXCEPT !.data = b], i' = 1, pc' = "constant"
      PROVE  ParserInv'
  <2>1. b \in Block /\ b \notin DOMAIN heap /\ b # NULL
    BY PointerAssumption DEF Free
  <2>2. /\ DOMAIN heap' = DOMAIN heap \cup {b}
        /\ heap'[b] = Fresh(size(file.data))
        /\ \A x \in DOMAIN heap : heap'[x] = heap[x]
    BY <1>7, <2>1, Held
  <2>3. size(file.data) \in Nat
    BY <1>2, SizeType
  <2>4. /\ IsBlock(heap'[b]) /\ heap'[b].size = size(file.data)
        /\ DOMAIN heap'[b].cells = 1 .. size(file.data)
    BY <2>2, <2>3, FreshIsBlock
  <2>5. Fills(b)
    BY <2>1, <2>2 DEF Fills
  <2> QED BY <1>5, <1>7, <2>1, <2>2, <2>4, <2>5
<1> QED BY <1>6, <1>7 DEF ParseData, Goto

\* The block of the data is no text and not the block of the attributes.
LEMMA DataApart ==
  ASSUME ParserInv, pc = "constant"
  PROVE  /\ program.data \in DOMAIN heap
         /\ program.length # 0 => program.attributes # program.data
<1>1. program.data \in DOMAIN heap /\ program.length \in Nat /\ Built(Fields, program.length)
  BY DEF ParserInv, DataInv, LengthInv, BuiltInv, Read
<1>2. ASSUME program.length # 0, program.attributes = program.data PROVE FALSE
  <2> DEFINE C == Contents(Fields, program.length)
  <2>1. program.attributes \in DOMAIN heap /\ program.attributes # NULL
    BY <1>2, PointerAssumption DEF ParserInv, TypeInv, LengthInv
  <2>2. C[<<"attributes", 0>>] = program.attributes /\ C[<<"data", 0>>] = program.data
    <3>1. "attributes" \in Fields /\ "data" \in Fields
      BY DEF Fields
    <3>2. C[<<"attributes", 0>>] = program["attributes"] /\ C[<<"data", 0>>] = program["data"]
      BY <1>1, <3>1, ContentsAt
    <3> QED BY <3>2
  <2>3. {<<"attributes", 0>>, <<"data", 0>>} \subseteq DOMAIN C
    <3>1. "attributes" \in Fields /\ "data" \in Fields
      BY DEF Fields
    <3>2. DOMAIN C = PlacesOf(Fields, program.length)
      BY DEF Contents
    <3>3. {<<"attributes", 0>>, <<"data", 0>>} \subseteq PlacesOf(Fields, program.length)
      BY <3>1 DEF PlacesOf
    <3> QED BY <3>2, <3>3
  <2>4. <<"attributes", 0>> # <<"data", 0>>
    OBVIOUS
  <2>5. \A f, g \in DOMAIN C : C[f] = C[g] => f = g \/ C[f] = NULL
    BY <1>1 DEF Built, Owned, Owns
  <2> HIDE DEF C
  <2> QED BY <1>2, <2>1, <2>2, <2>3, <2>4, <2>5
<1> QED BY <1>1, <1>2

LEMMA ConstantPreserves ==
  ASSUME ParserInv, ParseConstant PROVE ParserInv'
<1> DEFINE d     == program.data
           block == heap[d]
           n     == program.length
<1>1. CASE Throw
  BY <1>1, ThrowPreserves
<1> SUFFICES ASSUME ~Throw PROVE ParserInv'
  BY <1>1
<1>2. /\ pc = "constant" /\ program.self # NULL /\ n \in Nat /\ i \in Nat \ {0}
      /\ Built(Fields, n) /\ Read(i - 1) /\ i \in 1 .. block.size + 1
      /\ DOMAIN heap \subseteq Block /\ NULL \notin DOMAIN heap
  BY PointerAssumption
     DEF ParseConstant, ParserInv, BuiltInv, LengthInv, DataInv, TypeInv, Building
<1>3. /\ d \in DOMAIN heap /\ IsBlock(block) /\ block.size \in Nat
      /\ DOMAIN block.cells = 1 .. block.size
      /\ n # 0 => program.attributes # d /\ program.attributes \in DOMAIN heap
  BY <1>2, DataApart DEF ParserInv, BlocksInv, IsBlock, Read, LengthInv
<1>4. CASE i > block.size
  <2>1. pc' = "ready" /\ UNCHANGED <<heap, program, file, i>> /\ i - 1 = block.size
    BY <1>2, <1>3, <1>4 DEF ParseConstant, Goto
  <2>2. TypeInv' /\ BlocksInv'
    BY <1>2, <2>1 DEF ParserInv, TypeInv, BlocksInv, Building, IsDocument
  <2>3. Built(Fields, program.length)'
    <3>1. PICK m : m = program.length
      OBVIOUS
    <3>2. Built(Fields, m)'
      BY <1>2, <2>1, <3>1, BuiltUnchanged
    <3> QED BY <2>1, <3>1, <3>2
  <2>4. LengthInv'
    BY <1>2, <2>1 DEF ParserInv, LengthInv
  <2>5. Read(heap[program.data].size)'
    <3>1. Read(block.size)
      BY <1>2, <2>1
    <3> QED BY <2>1, <3>1 DEF Read
  <2> QED BY <1>2, <2>1, <2>2, <2>3, <2>4, <2>5 DEF ParserInv, BuiltInv, DataInv, Returned
<1>5. CASE i <= block.size
  <2> DEFINE w == hex_string_to_uint64(file.data[i])
  <2>0. ~(i > block.size)
    BY <1>2, <1>3, <1>5
  <2>1. /\ i' = i + 1 /\ UNCHANGED <<program, file, pc>> /\ file.data[i] # Wrong
        /\ heap' = Holding(d, [block EXCEPT !.cells[i] = w])
    BY <2>0, Zenon DEF ParseConstant, at
  <2> HIDE DEF w
  <2> DEFINE new == [size |-> block.size, cells |-> [block.cells EXCEPT ![i] = w]]
  <2>2. i \in DOMAIN block.cells
    BY <1>2, <1>3, <1>5
  <2>3. /\ [block EXCEPT !.cells[i] = w] = new
        /\ IsBlock(new) /\ new.size = block.size /\ DOMAIN new.cells = DOMAIN block.cells
        /\ new.cells[i] = w
        /\ \A j \in DOMAIN block.cells : j # i => new.cells[j] = block.cells[j]
    <3> HIDE DEF block
    <3> QED BY <1>3, <2>2, CellWritten
  <2> HIDE DEF new
  <2>4. /\ DOMAIN heap' = DOMAIN heap /\ heap'[d] = new
        /\ \A b \in DOMAIN heap : b # d => heap'[b] = heap[b]
    BY <1>3, <2>1, <2>3 DEF Holding
  <2>5. TypeInv'
    BY <1>2, <2>1, <2>4 DEF ParserInv, TypeInv, Building, IsDocument
  <2>6. BlocksInv'
    BY <2>3, <2>4 DEF ParserInv, BlocksInv
  <2>7. \A k \in 1 .. n : Element(k)' = Element(k)
    <3>1. \A k \in 1 .. n : n # 0
      BY <1>2
    <3> QED BY <1>3, <2>1, <2>4, <3>1 DEF Element
  <2>8. LengthInv'
    <3>1. n # 0 => heap'[program.attributes] = heap[program.attributes]
      BY <1>3, <2>4
    <3>2. /\ file.attributes \in Seq(Text \cup {Wrong})
          /\ n \in {0, size(file.attributes)}
          /\ n # 0 => DOMAIN heap[program.attributes].cells = 1 .. n
      BY <1>2 DEF ParserInv, LengthInv
    <3> QED BY <1>2, <1>3, <2>1, <2>4, <3>1, <3>2 DEF LengthInv
  <2>9. Built(Fields, program.length)'
    <3>1. Fields \in SUBSET Fields /\ "data" \in Fields \ {"compiler_version"}
      BY DEF Fields
    <3>2. /\ \E h \in Fields \ {"compiler_version"} : program[h] = d
          /\ \A f \in Fields : program'[f] = program[f]
          /\ n' = n /\ file' = file
      BY <2>1, <3>1
    <3>3. PICK m \in Nat : m = n
      BY <1>2
    <3> HIDE DEF n, d
    <3>4. Built(Fields, m)'
      BY <1>2, <2>4, <2>7, <3>1, <3>2, <3>3, BuiltStays
    <3> QED BY <3>2, <3>3, <3>4 DEF n
  <2>10. Read(i - 1)' /\ i' \in 1 .. heap'[program'.data].size + 1
    <3>1. /\ file.data \in Seq(constant_t \cup {Wrong}) /\ block.size = size(file.data)
          /\ \A k \in 1 .. i - 1 : /\ file.data[k] # Wrong
                                   /\ block.cells[k] = hex_string_to_uint64(file.data[k])
      BY <1>2 DEF Read
    <3>2. \A k \in 1 .. i : k = i \/ (k \in 1 .. i - 1 /\ k \in DOMAIN block.cells /\ k # i)
      BY <1>2, <1>3, <1>5
    <3>3. /\ program'.data = d /\ file' = file
          /\ d \in DOMAIN heap' /\ heap'[d].size = size(file.data)
          /\ DOMAIN heap'[d].cells = 1 .. heap'[d].size
      BY <1>3, <2>1, <2>3, <2>4, <3>1
    <3>4. ASSUME NEW k \in 1 .. i
          PROVE  /\ file.data[k] # Wrong
                 /\ heap'[d].cells[k] = hex_string_to_uint64(file.data[k])
      <4>1. CASE k = i
        BY <2>1, <2>3, <2>4, <4>1 DEF w
      <4>2. CASE k # i
        <5>1. k \in 1 .. i - 1 /\ k \in DOMAIN block.cells
          BY <3>2, <4>2
        <5> HIDE DEF block, d
        <5> QED BY <2>3, <2>4, <3>1, <4>2, <5>1
      <4> QED BY <4>1, <4>2
    <3>5. i' - 1 = i /\ i' \in 1 .. heap'[d].size + 1
      BY <1>2, <1>3, <1>5, <2>1, <2>3, <2>4
    <3>6. \A k \in 1 .. i' - 1 :
            /\ file'.data[k] # Wrong
            /\ heap'[program'.data].cells[k] = hex_string_to_uint64(file'.data[k])
      BY <3>3, <3>4, <3>5
    <3>7. /\ program'.data \in DOMAIN heap' /\ file'.data \in Seq(constant_t \cup {Wrong})
          /\ heap'[program'.data].size = size(file'.data)
          /\ DOMAIN heap'[program'.data].cells = 1 .. heap'[program'.data].size
      BY <3>1, <3>3
    <3>8. Read(i - 1)'
      BY <3>6, <3>7 DEF Read, size
    <3> QED BY <3>3, <3>5, <3>8
  <2> QED BY <1>2, <2>1, <2>5, <2>6, <2>8, <2>9, <2>10 DEF ParserInv, BuiltInv, DataInv, Returned
<1> QED BY <1>2, <1>3, <1>4, <1>5

\* What free_program reads is what the places of a returned program hold.
LEMMA FreedIsContents ==
  ASSUME program.length \in Nat
  PROVE  /\ Places = PlacesOf(Fields, program.length)
         /\ Freed = Contents(Fields, program.length)
<1>1. Texts = 1 .. program.length
  BY DEF Texts
<1>2. Places = PlacesOf(Fields, program.length)
  BY <1>1 DEF Places, PlacesOf, Fields
<1> QED BY <1>2 DEF Freed, Contents, Element

LEMMA FreePreserves ==
  ASSUME ParserInv, free_program PROVE ParserInv'
<1>1. program.length \in Nat /\ Built(Fields, program.length)
  BY DEF free_program, ParserInv, LengthInv, BuiltInv
<1>2. \A b \in DOMAIN heap : \E f \in Places : Freed[f] = b
  BY <1>1, FreedIsContents DEF Built, Owned, Owns, Contents
<1>3. DOMAIN heap' = {}
  BY <1>2 DEF free_program
<1>4. program' = [self |-> NULL, length |-> 0, attributes |-> Unset,
                  compiler_version |-> Unset, data |-> Unset]
  BY DEF free_program, NoProgram, UnsetProgram
<1>5. pc' = "ready" /\ i' = 1 /\ file' = NoFile
  BY DEF free_program, Returned
<1>6. TypeInv'
  BY <1>3, <1>4, <1>5 DEF TypeInv, program_t, Pointer, IsDocument, NoFile, Building, Stopped
<1>7. ~Returned' /\ pc' \notin Building
  BY <1>4, <1>5 DEF Returned, Building
<1> QED BY <1>3, <1>5, <1>6, <1>7
        DEF ParserInv, BlocksInv, BuiltInv, LengthInv, DataInv, Building

LEMMA StepPreserves ==
  ParserInv /\ [ParserNext]_parser_vars => ParserInv'
<1> SUFFICES ASSUME ParserInv, [ParserNext]_parser_vars PROVE ParserInv'
  OBVIOUS
<1>1. CASE \E document \in Files : AllocateProgram(document)
  BY <1>1, AllocatePreserves
<1>2. CASE Load
  BY <1>2, LoadPreserves
<1>3. CASE ParseAttributes
  BY <1>3, AttributesPreserves
<1>4. CASE ParseAttribute
  BY <1>4, AttributePreserves
<1>5. CASE ParseVersion
  BY <1>5, VersionPreserves
<1>6. CASE ParseData
  BY <1>6, DataPreserves
<1>7. CASE ParseConstant
  BY <1>7, ConstantPreserves
<1>8. CASE free_program
  BY <1>8, FreePreserves
<1>9. CASE UNCHANGED parser_vars
  <2>1. UNCHANGED <<heap, program, file, i, pc>>
    BY <1>9 DEF parser_vars
  <2>2. TypeInv' /\ BlocksInv' /\ LengthInv'
    BY <2>1 DEF ParserInv, TypeInv, BlocksInv, LengthInv, IsDocument, Returned
  <2>3. BuiltInv'
    <3>1. PICK n, m : n = program.length /\ m = i - 1
      OBVIOUS
    <3>2. program'.length = n /\ i' - 1 = m
      BY <2>1, <3>1
    <3>3. \A fields, k : Built(fields, k) => Built(fields, k)'
      BY <2>1, BuiltUnchanged
    <3> QED BY <2>1, <3>1, <3>2, <3>3 DEF ParserInv, BuiltInv, Returned
  <2>4. DataInv'
    BY <2>1 DEF ParserInv, DataInv, Read, Returned
  <2> QED BY <2>2, <2>3, <2>4 DEF ParserInv
<1> QED BY <1>1, <1>2, <1>3, <1>4, <1>5, <1>6, <1>7, <1>8, <1>9
        DEF ParserNext, parse_json_filename

\* ParserInv holds all along: what has been written of the program owns all
\* that the heap holds, and is what the file says.
THEOREM Invariance == ParserSpec => []ParserInv
<1>1. ParserInit => ParserInv
  BY InitEstablishes
<1>2. ParserInv /\ [ParserNext]_parser_vars => ParserInv'
  BY StepPreserves
<1> QED BY <1>1, <1>2, PTL DEF ParserSpec

-----------------------------------------------------------------------------
(* What the invariant says of a returned program.                          *)

\* free_program reads no pointer that was left unset, releases no block twice
\* and leaves none, whichever calls of malloc failed.
THEOREM ReturnedCanBeFreed == ParserSpec => []ReadyToFree
<1>1. ASSUME ParserInv PROVE ReadyToFree
  <2> SUFFICES ASSUME Returned PROVE ReadyToFree
    BY DEF ReadyToFree
  <2>1. program.length \in Nat /\ Built(Fields, program.length) /\ program.length # Unset
    BY <1>1, PointerAssumption DEF ParserInv, LengthInv, BuiltInv
  <2>2. Places = PlacesOf(Fields, program.length) /\ DOMAIN Freed = Places
    BY <2>1, FreedIsContents DEF Freed
  <2>3. Owns(DOMAIN heap, Freed)
    BY <2>1, FreedIsContents DEF Built, Owned
  <2>4. program.length # 0 => program.attributes \in DOMAIN heap
    BY <1>1 DEF ParserInv, LengthInv
  <2> QED BY <2>1, <2>2, <2>3, <2>4 DEF ReadyToFree, Owns
<1> QED BY <1>1, Invariance, PTL

\* strcpy writes no further than the block it copies to.
THEOREM CopiesStayInBlocks == ParserSpec => []CopiesFit
<1>1. ASSUME ParserInv PROVE CopiesFit
  BY <1>1 DEF ParserInv, BlocksInv, IsBlock, CopiesFit
<1> QED BY <1>1, Invariance, PTL

\* A returned program has the texts of its file, or null pointers for them.
THEOREM TextsAreTheFiles == ParserSpec => []TextsOfTheFile
<1>1. ASSUME ParserInv PROVE TextsOfTheFile
  <2> SUFFICES ASSUME Returned PROVE TextsOfTheFile
    BY DEF TextsOfTheFile
  <2>1. /\ program.length \in Nat /\ program.length \in {0, size(file.attributes)}
        /\ Built(Fields, program.length)
    BY <1>1 DEF ParserInv, LengthInv, BuiltInv
  <2>2. Texts = 1 .. program.length
    BY <2>1 DEF Texts
  <2>3. "compiler_version" \in Fields
    BY DEF Fields
  <2> QED BY <2>1, <2>2, <2>3 DEF TextsOfTheFile, Built, PointsTo, Element, size
<1> QED BY <1>1, Invariance, PTL

\* sscanf reads the constants that fit in 64 bits as they are, and no other so.
LEMMA SmallConstantsOnly ==
  ASSUME NEW c \in constant_t, ~c.negative
  PROVE  hex_string_to_uint64(c) = c.magnitude <=> c.magnitude < WordMod
BY SizesAssumption DEF constant_t, hex_string_to_uint64

\* The constants of a returned program that fit in 64 bits are those of its
\* file, each in its place; no other is; and it has all that simdjson counts.
THEOREM SmallConstantsAreKept == ParserSpec => []KeepsSmallConstants
<1>1. ASSUME ParserInv PROVE KeepsSmallConstants
  <2> SUFFICES ASSUME Returned, program.data # NULL
               PROVE  /\ heap[program.data].size = size(file.data)
                      /\ \A n \in 1 .. heap[program.data].size :
                           ~file.data[n].negative =>
                             (heap[program.data].cells[n] = file.data[n].magnitude
                                <=> file.data[n].magnitude < WordMod)
    BY DEF KeepsSmallConstants, size
  <2>1. Read(heap[program.data].size)
    BY <1>1 DEF ParserInv, DataInv
  <2>2. heap[program.data].size = size(file.data)
    BY <2>1 DEF Read
  <2>3. ASSUME NEW n \in 1 .. heap[program.data].size, ~file.data[n].negative
        PROVE  heap[program.data].cells[n] = file.data[n].magnitude
                 <=> file.data[n].magnitude < WordMod
    <3>1. heap[program.data].cells[n] = hex_string_to_uint64(file.data[n])
      BY <2>1 DEF Read
    <3>2. /\ file.data \in Seq(constant_t \cup {Wrong}) /\ file.data[n] # Wrong
          /\ n \in 1 .. size(file.data)
      BY <2>1 DEF Read
    <3>3. n \in 1 .. Len(file.data)
      BY <3>2, SizeType
    <3>4. file.data[n] \in constant_t
      BY <3>2, <3>3
    <3> QED BY <2>3, <3>1, <3>4, SmallConstantsOnly
  <2> QED BY <2>2, <2>3
<1> QED BY <1>1, Invariance, PTL

=============================================================================

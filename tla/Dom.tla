-------------------------------- MODULE Dom --------------------------------
(***************************************************************************)
(* What src/parser.cpp reads of a parsed document: the navigation of       *)
(* simdjson.h over the tape that Walk.tla builds, and JSON itself, over    *)
(* structural characters, as the reference the walk is held against.       *)
(***************************************************************************)
EXTENDS Walk, Sequences

-----------------------------------------------------------------------------
(* Elements, by the index of their first word.                             *)

\* matching_brace_index is past the end of the container.
after_element(i) ==
  CASE tape[i].type \in Opening  -> tape[i].value
    [] tape[i].type = "number"   -> i + 2
    [] OTHER                     -> i + 1

begin(i) == i + 1
end(i)   == after_element(i) - 1

\* dom::array::size and dom::object::size.
scope_count(i) == tape[i].count

IsArray(i) == tape[i].type = "lbracket"

\* What the iterators of the container at i find at j: a value, behind its key in
\* an object.
ValueAt(i, j) == IF IsArray(i) THEN j ELSE j + 1

\* They go on from behind it, and nothing but the end stops them.
Lost(i, j) ==
  ~({j, j + 1} \subseteq DOMAIN tape /\ after_element(ValueAt(i, j)) \in j + 1 .. end(i))

\* A structural character, with what the tape says of it: the place of a string
\* in the buffer, and the place of the digits of a number.
Mark(c) == <<[char |-> c, value |-> 0]>>
Scalars(i) ==
  <<[char  |-> tape[i].type,
     value |-> IF tape[i].type = "number" THEN tape[i + 1].value ELSE tape[i].value]>>

\* The characters of the element at i, and those of the container among them.
Element(i, inside) ==
  IF tape[i].type \in Opening THEN Mark(tape[i].type) \o inside ELSE Scalars(i)

\* Those in front of the value at j.
Lead(i, j) == (IF j = begin(i) THEN <<>> ELSE Mark("comma"))
                \o (IF IsArray(i) THEN <<>> ELSE Scalars(j) \o Mark("colon"))

\* What the iterators of the container s.of meet from s.at on: how many elements,
\* and their characters up to the one that closes it.
Readings == [of : DOMAIN tape, at : Nat]

Met[s \in Readings] ==
  LET i    == s.of
      j    == s.at
      v    == ValueAt(i, j)
      rest == Met[[of |-> i, at |-> after_element(v)]]
  IN IF j = end(i)      THEN [size |-> 0, text |-> Mark(tape[j].type)]
     ELSE IF Lost(i, j) THEN [size |-> 0, text |-> Mark("lost")]
     ELSE [size |-> rest.size + 1,
           text |-> Lead(i, j) \o Element(v, Met[[of |-> v, at |-> begin(v)]].text) \o rest.text]

Children(i) == Met[[of |-> i, at |-> begin(i)]]
Read(i)     == Element(i, Children(i).text)

-----------------------------------------------------------------------------
(* JSON, as a grammar over the structural characters of a document.        *)

\* The places behind a value, and behind a member, that starts at a, when ends
\* has them for what starts later.
Values(d, ends, a) ==
  {b \in a + 1 .. d.n :
     \/ b = a + 1 /\ d.char[a] \in Scalar
     \/ /\ d.char[a] \in Opening /\ d.char[b - 1] = Matching(d.char[a])
        /\ \/ b = a + 2
           \/ d.char[a] = "lbracket" /\ b - 1 \in ends[a + 1].elements
           \/ d.char[a] = "lbrace" /\ b - 1 \in ends[a + 1].members}

Members(d, ends, a) ==
  {b \in a + 3 .. d.n :
     d.char[a] = "string" /\ d.char[a + 1] = "colon" /\ b \in ends[a + 2].value}

\* And behind any number of them, with commas between.
Level(d, ends, a) ==
  LET value  == Values(d, ends, a)
      member == Members(d, ends, a)
  IN [value    |-> value,
      elements |-> {b \in a + 1 .. d.n :
                      b \in value \/ \E c \in value :
                        c < b /\ d.char[c] = "comma" /\ b \in ends[c + 1].elements},
      members  |-> {b \in a + 1 .. d.n :
                      b \in member \/ \E c \in member :
                        c < b /\ d.char[c] = "comma" /\ b \in ends[c + 1].members}]

Grammar(d) == LET ends[a \in 0 .. d.n] == Level(d, ends, a) IN ends

IsJSON(d) == d.n \in Grammar(d)[0].value

\* The number of containers that are open behind the k-th character and not
\* empty ones, which the walk does not count.
Deepens(d, j) == /\ d.char[j] \in Opening
                 /\ j + 1 < d.n => d.char[j + 1] # Matching(d.char[j])
Rises(d, j)   == /\ d.char[j] \in Closing
                 /\ j > 0 => d.char[j - 1] \notin Opening \/ d.char[j] # Matching(d.char[j - 1])

Open(d, k) ==
  Cardinality({j \in 0 .. k : Deepens(d, j)}) - Cardinality({j \in 0 .. k : Rises(d, j)})

-----------------------------------------------------------------------------
\* What the strings in front of each character take of the buffer.
Taken(d) ==
  LET taken[k \in 0 .. d.n] ==
        IF k = 0 THEN 0
        ELSE taken[k - 1] + (IF d.char[k - 1] = "string" THEN 4 + d.size[k - 1] + 1 ELSE 0)
  IN taken

\* Each structural character of the file, with what the tape should say of it.
Text(d) ==
  [k \in 1 .. d.n |->
     LET c == d.char[k - 1] IN
     [char  |-> c,
      value |-> CASE c = "string" -> Taken(d)[k - 1] [] c = "number" -> k - 1 [] OTHER -> 0]]

Parsed == pc = "done" /\ error = "none"

-----------------------------------------------------------------------------
\* simdjson.cpp:11188, 11111, 11159: what the walk takes is JSON, whatever
\* follows it in memory; what it refuses for its form is not; and what it
\* refuses as too deep has as many containers open as open_containers has
\* entries, the document being one of them.
TakesJSON ==
  pc = "done" =>
    /\ error = "none"        => IsJSON(doc)
    /\ error = "TAPE_ERROR"  => ~IsJSON(doc)
    /\ error = "DEPTH_ERROR" => \E k \in 0 .. doc.n - 1 : Open(doc, k) >= MaxDepth

\* simdjson.h:7036, 8194, 9048: the iterators of arrays and objects, following
\* the words that end_container and empty_container wrote, meet all of the
\* document, in its order, and nothing else.
ReadsBack == Parsed => Read(1) = Text(doc)

\* simdjson.cpp:11640: the size of a container is the number of its elements,
\* or the largest one the tape can hold.
SizesAreThoseOfTheFile ==
  Parsed => \A i \in DOMAIN tape : tape[i].type \in Opening =>
    LET n == Children(i).size IN scope_count(i) = IF n < CountMax THEN n ELSE CountMax

=============================================================================

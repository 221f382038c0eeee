------------------------------- MODULE Parser -------------------------------
(***************************************************************************)
(* src/parser.cpp: parse_json_filename and free_program, one step for each *)
(* allocation they make, and a client that parses a file and frees the     *)
(* program it got.                                                         *)
(*                                                                         *)
(* The heap maps a block that is held to its size and its cells.  malloc   *)
(* fails whenever it likes, and what it returns is unset.  A text is the   *)
(* sequence of its characters, NUL included: JSON can write it as \u0000.  *)
(* What the parser knows of a file are the members it asks simdjson for;   *)
(* any of them may be missing or of another kind.  simdjson tells them by  *)
(* throwing an exception, which its callers, all in C, cannot catch.       *)
(***************************************************************************)
EXTENDS Integers, Sequences, FiniteSets

CONSTANTS
  Char,       \* the characters of texts
  Files,      \* the documents
  Block,      \* addresses of blocks
  CountMax,   \* the largest number of elements a dom::array reports (2^24-1)
  WordMod,    \* numbers of a uint64_t (2^64)
  NUL,        \* the character that ends a C string
  Unset,      \* a pointer or a cell nobody has written
  NULL,       \* the null pointer
  Wrong       \* a member or an element that is missing or of another kind

ASSUME SizesAssumption == CountMax \in Nat \ {0} /\ WordMod \in Nat \ {0}
ASSUME PointerAssumption ==
  NULL \notin Block /\ Unset \notin Block \cup Nat /\ NULL # Unset

\* A text, and a constant of the program, which may have a sign.
Text       == Seq(Char)
constant_t == [magnitude : Nat, negative : BOOLEAN]

ASSUME FilesAssumption == \A document \in Files :
  /\ document.attributes = Wrong \/ document.attributes \in Seq(Text \cup {Wrong})
  /\ document.compiler_version = Wrong \/ document.compiler_version \in Text
  /\ document.data = Wrong \/ document.data \in Seq(constant_t \cup {Wrong})

VARIABLES
  heap,      \* the blocks held by the C heap: size and cells of each
  program,   \* the Program being built, or the last one returned
  file,      \* the document
  i,         \* the local i of the loops
  pc         \* what parse_json_filename does next

parser_vars == <<heap, program, file, i, pc>>

Stopped == {"exited", "terminated"}

-----------------------------------------------------------------------------
\* strlen, and the characters strcpy copies before the NUL.
strlen(s) == Cardinality({n \in 1 .. Len(s) : \A m \in 1 .. n : s[m] # NUL})

CString(s) == SubSeq(s, 1, strlen(s))

\* dom::array::size, had it no limit.
size_Exact(array) == Len(array)

\* dom::array::size, from the 24 bits of the tape.
size(array) == IF Len(array) < CountMax THEN Len(array) ELSE CountMax

\* dom::array::at, counting from one.
at(array, n) == array[n]

\* sscanf with the format of an unsigned int.
hex_string_to_uint64_Short(constant) == constant.magnitude % (WordMod \div 2)

\* sscanf into 64 bits reads what no uint64_t holds as the largest one.  A
\* constant is its magnitude and sign; without a digit num keeps its zero.
hex_string_to_uint64(constant) ==
  IF constant.magnitude >= WordMod THEN WordMod - 1
  ELSE IF constant.negative THEN (WordMod - constant.magnitude) % WordMod
  ELSE constant.magnitude

\* A block of n cells.
Fresh(n) == [size |-> n, cells |-> [k \in 1 .. n |-> Unset]]
Holding(b, block) == [x \in DOMAIN heap \cup {b} |-> IF x = b THEN block ELSE heap[x]]

\* The block malloc may return, none when all are held.  Which of the free ones
\* it is makes no difference to this code, which compares no pointers.
Free == {b \in Block : b \notin DOMAIN heap /\ b = CHOOSE c \in Block : c \notin DOMAIN heap}

\* strcpy into b, a block of n cells.  It writes to the end of its source,
\* whatever n is.
Copied(n, s) == [size |-> n, cells |-> Append(CString(s), NUL)]

Goto(label) == pc' = label

\* An exception leaves the functions of parser.cpp and the process ends.
Throw == Goto("terminated") /\ UNCHANGED <<heap, program, file, i>>

-----------------------------------------------------------------------------
\* The program as malloc leaves it.
UnsetProgram(b) ==
  [self |-> b, length |-> Unset, attributes |-> Unset,
   compiler_version |-> Unset, data |-> Unset]

AllocateProgram(document) ==
  /\ pc = "ready" /\ program.self = NULL
  /\ file' = document /\ UNCHANGED i
  /\ \/ /\ Goto("exited") /\ UNCHANGED <<heap, program>>
     \/ \E b \in Free :
          /\ heap' = Holding(b, [size |-> 1, cells |-> << >>])
          /\ program' = UnsetProgram(b)
          /\ Goto("load")

\* The file is read and parsed, or it is not there, or is no JSON.
Load ==
  /\ pc = "load"
  /\ \/ Throw
     \/ Goto("attributes") /\ UNCHANGED <<heap, program, file, i>>

\* parse_attributes that leaves the length alone when malloc fails.
ParseAttributes_KeepsLength ==
  /\ pc = "attributes" /\ file.attributes # Wrong
  /\ UNCHANGED <<file, heap, i>> /\ Goto("version")
  /\ program' = [program EXCEPT !.attributes = NULL, !.length = size(file.attributes)]

ParseAttributes ==
  /\ pc = "attributes"
  /\ LET elements == size(file.attributes) IN
     IF file.attributes = Wrong THEN Throw
     ELSE /\ UNCHANGED file
          /\ \/ /\ program' = [program EXCEPT !.length = 0, !.attributes = NULL]
                /\ Goto("version") /\ UNCHANGED <<heap, i>>
             \/ \E b \in Free :
                  /\ elements # 0
                  /\ heap' = Holding(b, Fresh(elements))
                  /\ program' = [program EXCEPT !.length = elements, !.attributes = b]
                  /\ i' = 1 /\ Goto("attribute")

\* What a block for the text of an attribute is given: one more than the
\* length simdjson knows.
TextSize_NoNul(s) == Len(s)
TextSize(s)       == Len(s) + 1

\* A turn of the loop of parse_attributes.
ParseAttribute ==
  /\ pc = "attribute"
  /\ LET text == at(file.attributes, i)
         SetData(p) == [heap[program.attributes] EXCEPT !.cells[i] = p] IN
     IF i > program.length THEN Goto("version") /\ UNCHANGED <<heap, program, file, i>>
     ELSE IF text = Wrong THEN Throw
     ELSE /\ UNCHANGED <<program, file, pc>>
          /\ i' = i + 1
          /\ \/ heap' = Holding(program.attributes, SetData(NULL))
             \/ \E b \in Free :
                  heap' = [x \in DOMAIN heap \cup {b} |->
                             IF x = b THEN Copied(TextSize(text), text)
                             ELSE IF x = program.attributes THEN SetData(b)
                             ELSE heap[x]]

ParseVersion ==
  /\ pc = "version"
  /\ LET text == file.compiler_version IN
     IF text = Wrong THEN Throw
     ELSE /\ UNCHANGED <<file, i>>
          /\ Goto("data")
          /\ \/ heap' = heap /\ program' = [program EXCEPT !.compiler_version = NULL]
             \/ \E b \in Free :
                  /\ heap' = Holding(b, Copied(strlen(text) + 1, text))
                  /\ program' = [program EXCEPT !.compiler_version = b]

\* The elements of an empty array may be no block, or one without cells.
ParseData ==
  /\ pc = "data"
  /\ IF file.data = Wrong THEN Throw
     ELSE /\ UNCHANGED file
          /\ \/ /\ program' = [program EXCEPT !.data = NULL]
                /\ Goto("ready") /\ UNCHANGED <<heap, i>>
             \/ \E b \in Free :
                  /\ heap' = Holding(b, Fresh(size(file.data)))
                  /\ program' = [program EXCEPT !.data = b]
                  /\ i' = 1 /\ Goto("constant")

\* A turn of the loop of parse_data.  from writes the number it is passed:
\* a uint64_t is below the prime.
ParseConstant ==
  /\ pc = "constant"
  /\ LET block == heap[program.data] IN
     IF i > block.size THEN Goto("ready") /\ UNCHANGED <<heap, program, file, i>>
     ELSE IF at(file.data, i) = Wrong THEN Throw
     ELSE /\ heap' = Holding(program.data,
                       [block EXCEPT !.cells[i] = hex_string_to_uint64(at(file.data, i))])
          /\ i' = i + 1
          /\ UNCHANGED <<program, file, pc>>

-----------------------------------------------------------------------------
Returned == pc = "ready" /\ program.self # NULL

\* The pointers free_program passes to free, by the place it reads them from:
\* a field, or an element of the attributes.
Texts == IF program.length = 0 THEN {} ELSE 1 .. program.length

Places ==
  ({"self", "attributes", "compiler_version", "data"} \X {0}) \cup ({"element"} \X Texts)

Freed ==
  [f \in Places |-> IF f[1] = "element" THEN heap[program.attributes].cells[f[2]]
                                        ELSE program[f[1]]]

NoProgram == [UnsetProgram(NULL) EXCEPT !.length = 0]
NoFile    == [attributes |-> Wrong, compiler_version |-> Wrong, data |-> Wrong]

free_program ==
  /\ Returned
  /\ heap' = [b \in DOMAIN heap \ {Freed[f] : f \in Places} |-> heap[b]]
  /\ program' = NoProgram
  /\ file' = NoFile /\ i' = 1     \* of no use after the call
  /\ UNCHANGED pc

ParserInit ==
  /\ heap = << >> /\ program = NoProgram
  /\ file = NoFile /\ i = 1 /\ pc = "ready"

parse_json_filename ==
  \/ Load \/ ParseAttributes \/ ParseAttribute \/ ParseVersion
  \/ ParseData \/ ParseConstant

ParserNext ==
  \/ \E document \in Files : AllocateProgram(document)
  \/ parse_json_filename
  \/ free_program

ParserSpec == ParserInit /\ [][ParserNext]_parser_vars

-----------------------------------------------------------------------------
\* parser.cpp:98: whatever allocations failed on the way, free_program reads
\* no pointer that was left unset, releases no block twice, and releases every
\* block of the program it is given.
ReadyToFree ==
  Returned =>
    /\ program.length # Unset
    /\ program.length # 0 => program.attributes \in DOMAIN heap
    /\ \A f \in Places : Freed[f] \in DOMAIN heap \cup {NULL}
    /\ \A f, g \in Places : Freed[f] = Freed[g] => f = g \/ Freed[f] = NULL
    /\ DOMAIN heap \subseteq {Freed[f] : f \in Places}

\* parser.cpp:36, 142: strcpy stays in the block it copies to.
CopiesFit == \A b \in DOMAIN heap : Len(heap[b].cells) <= heap[b].size

\* A returned program has the texts of its file, each in its place and as far
\* as its first NUL, except those that found no memory; of an array longer than
\* simdjson can say, the first 2^24 - 1.
TextsOfTheFile ==
  LET Holds(p, s) == p = NULL \/ heap[p].cells = Append(CString(s), NUL)
      n           == Len(file.attributes) IN
  Returned =>
    /\ program.length \in {0, IF n < CountMax THEN n ELSE CountMax}
    /\ \A k \in Texts : Holds(heap[program.attributes].cells[k], file.attributes[k])
    /\ Holds(program.compiler_version, file.compiler_version)

\* A returned program has, of the constants of its file, those that fit in 64
\* bits, each in its place, and another number instead of any other constant; of
\* an array longer than simdjson can say, the first 2^24 - 1.
KeepsSmallConstants ==
  LET block == heap[program.data]
      n     == Len(file.data) IN
  Returned /\ program.data # NULL =>
    /\ block.size = IF n < CountMax THEN n ELSE CountMax
    /\ \A k \in 1 .. block.size :
         LET constant == file.data[k] IN
         ~constant.negative =>
           (block.cells[k] = constant.magnitude <=> constant.magnitude < WordMod)

\* README.md:227: data is the "List of hexadecimal values that represent the
\* instructions and immediate values": two constants that differ are two
\* different felts of the program.
ConstantsSurvive ==
  Returned /\ program.data # NULL =>
    \A m, n \in 1 .. heap[program.data].size :
      file.data[m] # file.data[n] =>
        heap[program.data].cells[m] # heap[program.data].cells[n]

=============================================================================

-------------------------------- MODULE Walk --------------------------------
(***************************************************************************)
(* Stage 2 of the JSON parser that parse_json_filename runs, simdjson's    *)
(* json_iterator::walk_document with the tape_builder as its visitor: one  *)
(* pass over the structural indexes stage 1 left, which writes the tape    *)
(* and the string buffer of a dom::document.  One action per label of      *)
(* walk_document; scope_end is part of the actions that go there.          *)
(*                                                                         *)
(* A document is what stage 1 left of it: its n structural characters,     *)
(* their places, and how long each string is without its escapes.  Whether *)
(* the bytes of a scalar are a number, a literal or a valid string is left *)
(* open: it may be refused.  After the n indexes stage 1 writes three more *)
(* entries, and the walk stops on them, not on n.                          *)
(***************************************************************************)
EXTENDS JsonDocument, FiniteSets

CONSTANTS
  Documents,   \* what stage 1 may leave
  MaxDepth,    \* entries of open_containers and is_array
  CountMax     \* largest count of a container that the tape keeps (2^24-1)

ASSUME DocumentsAssumption == \A d \in Documents : IsDocument(d)
ASSUME DepthAssumption == MaxDepth \in Nat \ {0} /\ CountMax \in Nat

VARIABLES
  doc,               \* the document
  pc,                \* label of walk_document; "done" after it returned
  error,             \* what it returned
  next,              \* next_structural, as an index
  depth,             \* iter.depth
  is_array,          \* dom_parser.is_array
  open_containers,   \* dom_parser.open_containers
  tape,              \* doc.tape; words that were skipped are Unwritten
  next_tape,         \* tape.next_tape_loc, as an index
  string_loc,        \* current_string_buf_loc, as an index
  read               \* the last entry of structural_indexes that was read

walk_vars == <<doc, pc, error, next, depth, is_array, open_containers,
               tape, next_tape, string_loc, read>>

\* The labels of walk_document, and the two places where it expects a key.
Label == {"document_start", "object_begin", "first_key", "next_key", "object_field",
          "object_continue", "array_begin", "array_value", "array_continue",
          "document_end", "done"}

Error == {"none", "TAPE_ERROR", "DEPTH_ERROR", "SCALAR_ERROR"}

Unwritten == [type |-> "unwritten", value |-> 0, count |-> 0]
Word(type, value, count) == [type |-> type, value |-> value, count |-> count]

-----------------------------------------------------------------------------
\* What document::allocate gets for a file of len bytes; it rounds both up.
tape_capacity_OneMore(len) == len + 1
tape_capacity(len) == len + 3

string_capacity_Padding32(len) == (5 * len) \div 3 + 32
string_capacity(len) == (5 * len) \div 3 + 64

\* The bytes parse_string stores at once, wherever the string ends.
Vector == 32

-----------------------------------------------------------------------------
(* The iterator.                                                           *)

\* The byte at the k-th entry of structural_indexes: stage 1 adds len, len
\* and 0 to it (json_structural_indexer::finish).
Byte(k) == IF k < doc.n THEN doc.char[k]
           ELSE IF k < doc.n + 2 THEN doc.padding ELSE doc.first

\* advance() returned the byte of entry k, and the walk goes on at label.
Advanced(k, label) == next' = k + 1 /\ read' = k /\ pc' = label /\ UNCHANGED error

\* An error at entry k.  The iterator ends with the walk, so that its depth and
\* its place are nobody's.
Fail(k, e) == /\ pc' = "done" /\ error' = e /\ read' = k
              /\ UNCHANGED <<doc, next, depth, is_array, open_containers,
                             tape, next_tape, string_loc>>

-----------------------------------------------------------------------------
(* The visitor.                                                            *)

Frame == UNCHANGED <<doc, depth, is_array>>

\* The tape with words appended, next_tape being a place in it.
Appended(words) ==
  [i \in 0 .. next_tape + Cardinality(DOMAIN words) - 1 |->
     IF i < next_tape THEN tape[i] ELSE words[i - next_tape]]

Append2(w0, w1) == /\ tape' = Appended([i \in 0 .. 1 |-> IF i = 0 THEN w0 ELSE w1])
                   /\ next_tape' = next_tape + 2
Append1(w)      == /\ tape' = Appended([i \in {0} |-> w])
                   /\ next_tape' = next_tape + 1

\* start_container, at depth d, whose first count is n.
start_container(d, n) ==
  /\ open_containers' = [open_containers EXCEPT ![d] = [tape_index |-> next_tape, count |-> n]]
  /\ Append1(Unwritten)

increment_count ==
  open_containers' = [open_containers EXCEPT ![depth].count = @ + 1]

\* Counts as they are.
saturated_Never(count) == count
saturated(count) == IF count > CountMax THEN CountMax ELSE count

\* The start points at the end.
end_container_AtTheEnd(start, end) ==
  LET c == open_containers[depth] IN
  /\ tape' = [Appended([i \in {0} |-> Word(end, c.tape_index, 0)])
                EXCEPT ![c.tape_index] = Word(start, next_tape, saturated(c.count))]
  /\ next_tape' = next_tape + 1

\* end_container: the end points at the start, and the start past the end.
end_container(start, end) ==
  LET c == open_containers[depth] IN
  /\ tape' = [Appended([i \in {0} |-> Word(end, c.tape_index, 0)])
                EXCEPT ![c.tape_index] = Word(start, next_tape + 1, saturated(c.count))]
  /\ next_tape' = next_tape + 1

empty_container(start, end) ==
  Append2(Word(start, next_tape + 2, 0), Word(end, next_tape, 0))

\* The bytes of a string; one that starts in the padding is taken for empty.
Size(k) == IF k < doc.n THEN doc.size[k] ELSE 0

\* A string takes its length, its characters and a NUL in the string buffer.
visit_string(k) ==
  /\ Append1(Word("string", string_loc, 0))
  /\ string_loc' = string_loc + 4 + Size(k) + 1

\* Those of visit_primitive that write: one word, or two for a number.
visit_scalar(k) ==
  \/ /\ Byte(k) = "string" /\ visit_string(k)
  \/ /\ Byte(k) = "number"
     /\ Append2(Word("number", 0, 0), Word("data", k, 0)) /\ UNCHANGED string_loc
  \/ /\ Byte(k) = "atom"
     /\ Append1(Word("atom", 0, 0)) /\ UNCHANGED string_loc

\* A scalar is refused: a string with its word on the tape, a number before its
\* two words are written or behind them, where its last digit is looked past.
refuse_scalar(k) ==
  /\ \/ Byte(k) = "string" /\ Append1(Word("string", string_loc, 0))
     \/ Byte(k) = "number" /\ Append2(Word("number", 0, 0), Word("data", k, 0))
     \/ Byte(k) \in {"number", "atom"} /\ UNCHANGED <<tape, next_tape>>
  /\ pc' = "done" /\ error' = "SCALAR_ERROR" /\ read' = k
  /\ UNCHANGED <<doc, next, depth, is_array, string_loc>>

Matching(c) == IF c = "lbrace" THEN "rbrace" ELSE "rbracket"

-----------------------------------------------------------------------------
\* The switch on a value, entry k, with the label that follows a whole value.
\* An opening character is looked at together with the one behind it.
Value(k, after) ==
  LET c == Byte(k) IN
  \/ /\ c \in Opening /\ Byte(k + 1) = Matching(c)
     /\ empty_container(c, Matching(c))
     /\ next' = k + 2 /\ read' = k + 1 /\ pc' = after
     /\ Frame /\ UNCHANGED <<error, open_containers, string_loc>>
  \/ /\ c \in Opening /\ Byte(k + 1) # Matching(c)
     /\ next' = k + 1 /\ read' = k + 1
     /\ pc' = IF c = "lbrace" THEN "object_begin" ELSE "array_begin"
     /\ Frame /\ UNCHANGED <<error, open_containers, tape, next_tape, string_loc>>
  \/ /\ c \in Scalar
     /\ \/ visit_scalar(k) /\ Advanced(k, after) /\ Frame
        \/ refuse_scalar(k)
     /\ UNCHANGED open_containers
  \/ /\ c \notin Scalar \cup Opening
     /\ Fail(k, "TAPE_ERROR")

\* The check of issue 906 left out.
ClosedAtTheEnd_Always == TRUE

\* A document that starts with a brace or a bracket ends with its match.
ClosedAtTheEnd == Byte(0) \in Opening => Byte(doc.n - 1) = Matching(Byte(0))

\* The start of the document and its first value.  The container at depth 0
\* is the document, and its word is appended by visit_document_start.
UnclosedDocument ==
  /\ pc = "document_start"
  /\ ~ClosedAtTheEnd
  /\ Fail(doc.n - 1, "TAPE_ERROR")

FirstValue ==
  /\ pc = "document_start"
  /\ ClosedAtTheEnd
  /\ Value(0, "document_end")

\* The limit of the depth off by one.
ObjectBegin_OneTooDeep ==
  /\ pc = "object_begin"
  /\ depth < MaxDepth
  /\ depth' = depth + 1
  /\ is_array' = [is_array EXCEPT ![depth + 1] = FALSE]
  /\ start_container(depth + 1, 0)
  /\ pc' = "first_key"
  /\ UNCHANGED <<doc, error, next, string_loc, read>>

ObjectBegin ==
  /\ pc = "object_begin"
  /\ \/ /\ depth + 1 >= MaxDepth
        /\ Fail(read, "DEPTH_ERROR")
     \/ /\ depth + 1 < MaxDepth
        /\ depth' = depth + 1
        /\ is_array' = [is_array EXCEPT ![depth + 1] = FALSE]
        /\ start_container(depth + 1, 0)
        /\ pc' = "first_key"
        /\ UNCHANGED <<doc, error, next, string_loc, read>>

\* A key at next.
Key == \/ visit_string(next) /\ Advanced(next, "object_field") /\ Frame
       \/ refuse_scalar(next)

\* The first key, which is looked at before it is counted.
FirstKey ==
  /\ pc = "first_key"
  /\ \/ Byte(next) = "string" /\ increment_count /\ Key
     \/ Byte(next) # "string" /\ Fail(next, "TAPE_ERROR")

\* A key behind a comma, which was counted with the comma.
NextKey ==
  /\ pc = "next_key"
  /\ \/ Byte(next) = "string" /\ Key /\ UNCHANGED open_containers
     \/ Byte(next) # "string" /\ Fail(next, "TAPE_ERROR")

ObjectField ==
  /\ pc = "object_field"
  /\ \/ Byte(next) = "colon" /\ Value(next + 1, "object_continue")
     \/ Byte(next) # "colon" /\ Fail(next, "TAPE_ERROR")

\* The container left open in depth.
ScopeEnd_KeepsDepth(start) ==
  /\ end_container(start, Byte(next))
  /\ Advanced(next, IF depth - 1 = 0 THEN "document_end"
                    ELSE IF is_array[depth - 1] THEN "array_continue"
                    ELSE "object_continue")
  /\ UNCHANGED <<doc, depth, is_array, open_containers, string_loc>>

\* end_container, and the label scope_end.
ScopeEnd(start) ==
  /\ end_container(start, Byte(next))
  /\ depth' = depth - 1
  /\ Advanced(next, IF depth - 1 = 0 THEN "document_end"
                    ELSE IF is_array[depth - 1] THEN "array_continue"
                    ELSE "object_continue")
  /\ UNCHANGED <<doc, is_array, open_containers, string_loc>>

\* The comma looked at, not taken.
ObjectContinue_Peeks ==
  /\ pc = "object_continue"
  /\ \/ Byte(next) = "comma" /\ UNCHANGED walk_vars
     \/ Byte(next) = "rbrace" /\ ScopeEnd("lbrace")
     \/ Byte(next) \notin {"comma", "rbrace"} /\ Fail(next, "TAPE_ERROR")

ObjectContinue ==
  /\ pc = "object_continue"
  /\ \/ /\ Byte(next) = "comma"
        /\ increment_count
        /\ Advanced(next, "next_key") /\ Frame
        /\ UNCHANGED <<tape, next_tape, string_loc>>
     \/ Byte(next) = "rbrace" /\ ScopeEnd("lbrace")
     \/ Byte(next) \notin {"comma", "rbrace"} /\ Fail(next, "TAPE_ERROR")

ArrayBegin ==
  /\ pc = "array_begin"
  /\ \/ /\ depth + 1 >= MaxDepth
        /\ Fail(read, "DEPTH_ERROR")
     \/ /\ depth + 1 < MaxDepth
        /\ depth' = depth + 1
        /\ is_array' = [is_array EXCEPT ![depth + 1] = TRUE]
        /\ start_container(depth + 1, 1)
        /\ pc' = "array_value"
        /\ UNCHANGED <<doc, error, next, string_loc, read>>

ArrayValue ==
  /\ pc = "array_value"
  /\ Value(next, "array_continue")

ArrayContinue ==
  /\ pc = "array_continue"
  /\ \/ /\ Byte(next) = "comma"
        /\ increment_count
        /\ Advanced(next, "array_value") /\ Frame
        /\ UNCHANGED <<tape, next_tape, string_loc>>
     \/ Byte(next) = "rbracket" /\ ScopeEnd("lbracket")
     \/ Byte(next) \notin {"comma", "rbracket"} /\ Fail(next, "TAPE_ERROR")

\* visit_document_end, and the check that nothing is left over.
DocumentEnd ==
  /\ pc = "document_end"
  /\ tape' = [Appended([i \in {0} |-> Word("root", 0, 0)])
                EXCEPT ![0] = Word("root", next_tape + 1, 0)]
  /\ next_tape' = next_tape + 1
  /\ pc' = "done"
  /\ error' = IF next = doc.n THEN "none" ELSE "TAPE_ERROR"
  /\ Frame /\ UNCHANGED <<next, open_containers, string_loc, read>>

-----------------------------------------------------------------------------
\* What parse_document and visit_document_start set up; the arrays of the
\* parser hold what an earlier document left in them.
WalkInit ==
  /\ doc \in Documents
  /\ pc = "document_start" /\ error = "none"
  /\ next = 0 /\ read = 0 /\ depth = 0
  /\ is_array = [d \in 0 .. MaxDepth - 1 |-> FALSE]
  /\ open_containers = [d \in 0 .. MaxDepth - 1 |-> [tape_index |-> 0, count |-> 0]]
  /\ tape = [i \in {0} |-> Unwritten] /\ next_tape = 1
  /\ string_loc = 0

WalkNext ==
  \/ UnclosedDocument \/ FirstValue \/ DocumentEnd
  \/ ObjectBegin \/ FirstKey \/ NextKey \/ ObjectField \/ ObjectContinue
  \/ ArrayBegin \/ ArrayValue \/ ArrayContinue

\* parse() does nothing else until the walk returns.
WalkSpec == WalkInit /\ [][WalkNext]_walk_vars /\ WF_walk_vars(WalkNext)

-----------------------------------------------------------------------------
\* The cursors of the walk and the arrays of the parser keep their types, and
\* the depth stays below the size of those arrays (simdjson.cpp:11111, 11159).
WalkTypeOK ==
  /\ IsDocument(doc)
  /\ pc \in Label /\ error \in Error
  /\ next \in Nat /\ read \in Nat
  /\ depth \in 0 .. MaxDepth - 1
  /\ is_array \in [0 .. MaxDepth - 1 -> BOOLEAN]
  /\ open_containers \in [0 .. MaxDepth - 1 -> [tape_index : Nat, count : Nat]]
  /\ next_tape \in Nat \ {0} /\ DOMAIN tape = 0 .. next_tape - 1
  /\ string_loc \in Nat

\* simdjson.cpp:10503 (issue 906): whatever byte follows the document, a walk
\* that runs past its last structural character stops on the three entries
\* that stage 1 adds, and reads no entry that was not written.
ReadsWhatStage1Wrote == read <= doc.n + 2

\* simdjson.h:7897 (issue 345): the tape has room for every word, also for the
\* document that has the most of them for its bytes, as long as the padding
\* closes nothing, as that of a padded_string does not.
TapeFits ==
  doc.padding \notin Closing => next_tape <= tape_capacity(doc.at[doc.n])

\* simdjson.h:7899: the string buffer has room for every string, were they all
\* empty, and for the whole vector that was stored at the end of the last one.
StringsFit == string_loc + Vector - 1 <= string_capacity(doc.at[doc.n])

\* The walk returns.
WalkReturns == <>(pc = "done")

=============================================================================

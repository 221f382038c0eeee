----------------------------- MODULE MCScanner -----------------------------
(***************************************************************************)
(* What simdjson does with the bytes of a file, in one run: a file goes    *)
(* through stage 1, a string is copied, or an integer is read.             *)
(*                                                                         *)
(* The files have at most five characters of any kind, by themselves and   *)
(* across the end of a block of six, or ten of those that leave something  *)
(* to the next block, up to three blocks of them.  Six operators fill a    *)
(* block with more entries than the two batches of two store.  The strings *)
(* have up to three pieces, each an escape or a letter, so that the vectors *)
(* of four bytes end anywhere in them.  The integers have up to three      *)
(* digits and are read into four bits.                                     *)
(***************************************************************************)
EXTENDS Scanner, CodePoint, Number, SequencesExt, FiniteSetsExt

Common == {"backslash", "quote", "letter", "op", "space"}

AllOf(classes, lengths) == UNION {[1 .. n -> classes] : n \in lengths}

\* The files behind n operators, which move the ends of the blocks.
Behind(n, files) == {[k \in 1 .. n |-> "op"] \o file : file \in files}

MCFiles ==
  AllOf(Common \cup {"newline", "control", "ff"}, 1 .. 4)
    \cup Behind(4, AllOf(Common \cup {"newline", "control", "ff"}, {4}))
    \cup AllOf(Common, {5})
    \cup Behind(3, AllOf(Common, {5}))
    \cup Behind(5, AllOf({"backslash", "quote"}, 8 .. 10))
    \cup AllOf({"backslash", "quote", "letter"}, 6 .. 8)
    \cup AllOf({"backslash", "quote"}, 9 .. 10)
    \cup AllOf({"op", "quote"}, 9 .. 10)
    \cup AllOf({"newline", "quote"}, 5 .. 9)

Escape(letter) == <<"backslash", letter>>
CodePoint(lead) == Escape("u") \o <<lead, "digit", "b", "digit">>

Pieces == {<<"x">>} \cup {Escape(c) : c \in {"n", "b", "quote", "backslash", "x", "u"}}
            \cup {CodePoint(lead) : lead \in Leads} \cup {Escape("u") \o <<"ascii", "digit">>}

MCStrings ==
  LET Closed(pieces, rest) == LET s == FlattenSeq(pieces) IN
        [chars |-> s \o <<"quote">> \o rest, close |-> Len(s)]
  IN {Closed(p, <<>>) : p \in AllOf(Pieces, 0 .. 3)}
       \cup {Closed(p, <<c>>) : p \in AllOf(Pieces, 0 .. 2), c \in {"quote", "backslash", "digit"}}

\* The carries are those of the addition of the two integers.
AsInteger(bits) == FoldSet(LAMBDA b, sum : sum + 2 ^ b, 0, bits)

ASSUME PlusAdds ==
  \A a, b \in SUBSET Mask :
    AsInteger(a) + AsInteger(b)
      = AsInteger(Plus(a, b)) + (IF W \in Carries(a, b) THEN 2 ^ W ELSE 0)

\* The numbers around those at which something changes: the powers of two, and
\* the first and last surrogates and code points.
Around(ns) == UNION {n - 2 .. n + 2 : n \in ns}
Edges == Around({2 ^ k : k \in 1 .. 20} \cup {55296, 56320, 57344, 65472, 1110016, 1114110})

ASSUME EscapesAreCodePoints ==
  /\ \A c \in Edges : IsScalarValue(c) => WritesUtf8(c)
  /\ utf8(NoUnit) = << >>
  /\ \A high \in Edges, second \in Edges \cup {NoUnit} :
       IsHigh(high) /\ (IsUnit(second) \/ second = NoUnit) => ReadsUtf16(high, second)

MCPow == [n \in 0 .. 3 |-> 10 ^ n]

-----------------------------------------------------------------------------
NoFile   == text = <<>> /\ scan_error = "EMPTY" /\ block = 0 /\ prev_escaped = FALSE
              /\ prev_in_string = FALSE /\ prev_scalar = FALSE /\ prev_structurals = {}
              /\ unescaped_chars_error = FALSE /\ structural_indexes = <<>> /\ tail = 0
NoString == str = [chars |-> <<"quote">>, close |-> 0] /\ src = 0 /\ dst = 0 /\ out = <<>>
              /\ seen = -1 /\ parsed = "none"
NoNumber == negative = FALSE /\ i = 0 /\ digit_count = 0 /\ first = 0 /\ value = 0
              /\ behind = "none" /\ number = Invalid

BytesInit ==
  \/ ScanInit /\ NoString /\ NoNumber
  \/ StringInit /\ NoFile /\ NoNumber
  \/ NumberInit /\ NoFile /\ NoString

BytesNext ==
  \/ ScanNext /\ UNCHANGED <<string_vars, number_vars>>
  \/ parse_string /\ UNCHANGED <<scan_vars, number_vars>>
  \/ NumberNext /\ UNCHANGED <<scan_vars, string_vars>>

BytesSpec == BytesInit /\ [][BytesNext]_<<scan_vars, string_vars, number_vars>>

=============================================================================

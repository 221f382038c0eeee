------------------------------- MODULE MCDom -------------------------------
(***************************************************************************)
(* Documents for the walk: every JSON text of at most nine structural      *)
(* characters, those of at most seven with one of them replaced, and, with *)
(* any byte behind them, those of at most two and every container of at    *)
(* most two characters, of three where the byte may close it.              *)
(***************************************************************************)
EXTENDS Dom, SequencesExt

CONSTANT MaxTokens   \* length of the longest text of JSON

Joined(first, second) == {a \o b : a \in first, b \in second}

\* Of n structural characters: the values, the sequences of values and those of
\* members, when lower has them for all smaller numbers.
Longer(lower, n) ==
  LET value ==
        CASE n = 1   -> {<<c>> : c \in Scalar}
          [] n = 2   -> {<<"lbracket", "rbracket">>, <<"lbrace", "rbrace">>}
          [] OTHER   -> {<<"lbracket">> \o e \o <<"rbracket">> : e \in lower[n - 2].elements}
                          \cup {<<"lbrace">> \o m \o <<"rbrace">> : m \in lower[n - 2].members}
      Member(v) == {<<"string", "colon">> \o x : x \in v}
  IN [value    |-> value,
      elements |-> value \cup
        UNION {Joined({e \o <<"comma">> : e \in lower[k].elements}, lower[n - 1 - k].value) :
                 k \in 1 .. n - 2},
      members  |-> (IF n < 3 THEN {} ELSE Member(lower[n - 2].value)) \cup
        UNION {Joined({m \o <<"comma">> : m \in lower[k].members}, Member(lower[n - 3 - k].value)) :
                 k \in 1 .. n - 4}]

Levels == FoldLeft(LAMBDA lower, n : Append(lower, Longer(lower, n)), <<>>,
                   [n \in 1 .. MaxTokens |-> n])

JSON == UNION {Levels[n].value : n \in 1 .. MaxTokens}

\* The characters of s next to each other, each a byte wide but strings, which
\* have two quotes around size characters; a byte of white space before them or
\* not, and a byte behind.
Document(s, size, blank, padding) ==
  LET lead == IF blank THEN 1 ELSE 0 IN
  [n       |-> Len(s),
   char    |-> [k \in 0 .. Len(s) - 1 |-> s[k + 1]],
   at      |-> [k \in 0 .. Len(s) |->
                  lead + k + (size + 1) * Cardinality({j \in 1 .. k : s[j] = "string"})],
   size    |-> [k \in 0 .. Len(s) - 1 |-> IF s[k + 1] = "string" THEN size ELSE 0],
   padding |-> padding,
   first   |-> IF blank THEN "other" ELSE s[1]]

\* An atom is a scalar of one word; in a broken text it does what a number does.
Tokens == Char \ {"atom"}

Texts(n) == UNION {[1 .. k -> Tokens] : k \in 1 .. n}

Closed(n) == {<<c>> \o s \o <<Matching(c)>> : c \in Opening, s \in [1 .. n -> Tokens]}

Broken ==
  UNION {{[s EXCEPT ![k] = c] : k \in DOMAIN s, c \in Tokens} :
           s \in {t \in JSON : Len(t) <= 7 /\ Range(t) \subseteq Tokens}}

\* The grammar and the texts agree on what JSON is.
ASSUME GrammarGeneratesJSON ==
  \A s \in Texts(4) :
    s \in JSON <=> IsJSON([n |-> Len(s), char |-> [k \in 0 .. Len(s) - 1 |-> s[k + 1]]])

MCDocuments ==
  {Document(s, size, FALSE, "other") : s \in JSON, size \in {0, 2}}
    \cup {Document(s, 0, FALSE, "other") : s \in Broken}
    \cup {Document(s, 0, blank, c) : s \in Texts(2) \cup Closed(1) \cup Closed(2),
                                     blank \in BOOLEAN, c \in Tokens}
    \cup {Document(s, 0, FALSE, c) : s \in Closed(3), c \in Closing}

=============================================================================

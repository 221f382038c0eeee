---------------------------- MODULE JsonDocument ----------------------------
(***************************************************************************)
(* What stage 2 of the JSON parser is given: the structural characters of  *)
(* a file, as stage 1 leaves them to json_iterator::walk_document.         *)
(***************************************************************************)
EXTENDS Integers

\* A character that starts a scalar stands for it; "other" starts nothing, and
\* is what padded_string puts behind the document.
Scalar  == {"string", "number", "atom"}
Opening == {"lbrace", "lbracket"}
Closing == {"rbrace", "rbracket"}
Char    == Scalar \cup Opening \cup Closing \cup {"colon", "comma", "other"}

\* at[k] is the place of the k-th structural character, at[n] the length of
\* the file; first and padding are the bytes at 0 and after the last one.
IsDocument(d) ==
  /\ d.n \in Nat \ {0}
  /\ d.char \in [0 .. d.n - 1 -> Char]
  /\ d.at \in [0 .. d.n -> Nat]
  /\ d.size \in [0 .. d.n - 1 -> Nat]
  /\ \A j, k \in 0 .. d.n : j < k =>
       d.at[j] + (IF d.char[j] = "string" THEN 2 + d.size[j] ELSE 1) + (k - j - 1) <= d.at[k]
  /\ d.padding \in Char
  /\ d.first \in {d.char[0], "other"}

=============================================================================

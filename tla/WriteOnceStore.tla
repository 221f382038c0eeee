--------------------------- MODULE WriteOnceStore ---------------------------
(***************************************************************************)
(* What the VM memory promises, with no loop, no table and no counter:     *)
(* segments come into existence, a cell of an existing segment is written  *)
(* at most once, and everything ends together.  A segment number is never  *)
(* handed out twice and a written cell never changes.                      *)
(***************************************************************************)
CONSTANTS
  Segment,   \* names of segments
  Cell,      \* addresses; each has a segment_index
  Value      \* what a cell may hold

VARIABLES
  allocated,   \* the segments that exist
  contents     \* the written cells and their values

Init ==
  /\ allocated = {}
  /\ contents = [c \in {} |-> c]

\* Some segments that did not exist now do.
Allocate ==
  /\ \E S \in SUBSET (Segment \ allocated) : allocated' = allocated \cup S
  /\ UNCHANGED contents

Write(c, v) ==
  /\ c.segment_index \in allocated
  /\ c \notin DOMAIN contents
  /\ contents' = [x \in DOMAIN contents \cup {c} |->
                    IF x = c THEN v ELSE contents[x]]
  /\ UNCHANGED allocated

Discard ==
  /\ allocated' = {}
  /\ contents' = [c \in {} |-> c]

Next ==
  \/ Allocate
  \/ \E c \in Cell, v \in Value : Write(c, v)
  \/ Discard

Spec == Init /\ [][Next]_<<allocated, contents>>

=============================================================================

------------------------------ MODULE MCMemory ------------------------------
(***************************************************************************)
(* Small instances of Memory.  The values are two felts that differ in     *)
(* their last limb only, and two pointers that differ in their offset      *)
(* only, so that every clause of maybe_relocatable_equal decides something. *)
(***************************************************************************)
EXTENDS Memory

One == Felt(<<0, 0, 0, 1>>)
Two == Felt(<<0, 0, 0, 0>>)
To(s, o) == Pointer([segment_index |-> s, offset |-> o])

MCValues == {One, Two, To(0, 0), To(0, 1)}

\* Empty, one element, two equal, two different, three: longer than a segment
\* of two offsets, so that a load meets its own cells.
MCArrays == { << >>, <<One>>, <<One, Two>>, <<To(0, 0), To(0, 1)>>,
              <<One, Two, One>>, <<Two, One, One>> }

\* Values and arrays for the runs over more offsets.
FewValues == {One, To(0, 1)}
FewArrays == { << >>, <<One, To(0, 1)>>, <<One, One, One>> }

=============================================================================

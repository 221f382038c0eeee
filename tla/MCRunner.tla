------------------------------ MODULE MCRunner ------------------------------
(***************************************************************************)
(* Small instances of Runner.  The client writes below the runner's        *)
(* segments, in them, and in segments a later initialization will add.     *)
(***************************************************************************)
EXTENDS Runner

One == Felt(<<0, 0, 0, 1>>)
Two == Felt(<<0, 0, 1, 0>>)
At(s, o) == [segment_index |-> s, offset |-> o]

MCAddresses == {At(0, 1), At(1, 2), At(3, 0), At(4, 0), At(5, 1)}
MCValues == {Two}
MCArrays == {<<One, Two>>}
MCPrograms ==
  { [main |-> 0, data |-> << >>], [main |-> 1, data |-> <<One, Two>>],
    [main |-> 3, data |-> <<One, Two, One>>] }

=============================================================================

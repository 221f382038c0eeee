--------------------------- MODULE MCFeltLibrary ---------------------------
(***************************************************************************)
(* Small instances of FeltLibrary: limbs of one bit.                       *)
(***************************************************************************)
EXTENDS FeltLibrary, TLC

MCLimb == 0 .. Base - 1

\* No call and no property tells one buffer from another.
BuffersAlike == Permutations(Buffer)

=============================================================================

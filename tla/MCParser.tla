------------------------------ MODULE MCParser ------------------------------
(***************************************************************************)
(* Files for Parser.  With CountMax = 2 an array of three elements reports *)
(* two; with WordMod = 4 the constants are 0 to 5 and a negative one.      *)
(***************************************************************************)
EXTENDS Parser

CONSTANT x   \* a character that is not NUL

Constant(n)  == [magnitude |-> n, negative |-> FALSE]
Negative(n)  == [magnitude |-> n, negative |-> TRUE]

Texts0 == { << >>, <<x>>, <<x, NUL, x>>, Wrong }

Attributes == {Wrong} \cup UNION {[1 .. n -> Texts0] : n \in 0 .. 2}
                \cup { <<<<x>>, << >>, <<x>> >> }

Datas == {Wrong, << >>, <<Constant(3), Wrong>>, <<Constant(0), Constant(1)>>,
          <<Constant(2), Constant(3), Wrong>>, <<Constant(3), Constant(4), Constant(0)>>, <<Negative(1), Constant(4)>>,
          <<Constant(5), Constant(4)>> }

\* Any attributes, with a few data.
MCFiles ==
  {[attributes |-> a, compiler_version |-> v, data |-> d] :
     a \in Attributes, v \in Texts0, d \in Datas}

\* Files whose data are like those of cairo_programs/fibonacci.json.
TwoBigConstants ==
  {[attributes |-> << >>, compiler_version |-> <<x>>,
    data |-> <<a, b>>] : a, b \in {Constant(3), Constant(4), Constant(5)}}

=============================================================================

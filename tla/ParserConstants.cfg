\* Constants wider than a word.  The process may exit.
CONSTANTS
  Block = {b1, b2, b3, b4, b5, b6}
  CountMax = 2
  WordMod = 4
  NUL = NUL
  Unset = Unset
  NULL = NULL
  Wrong = Wrong
  x = x
  Char = {x, NUL}
  Files <- TwoBigConstants
SPECIFICATION ParserSpec
CHECK_DEADLOCK FALSE
INVARIANT ConstantsSurvive

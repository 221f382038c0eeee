\* Blocks of six, in which the three carries, both batches of the indexer and the
\* loop behind them are met; vectors of four, in which an escape is cut in every
\* way; integers of four bits.
\* Each machine stops at the end of its input.
CONSTANTS
  Files <- MCFiles
  W = 6
  Batch = 2
  Strings <- MCStrings
  Vector = 4
  Padding = 3
  Modulus = 16
  Longest = 2
  MaxDigits = 3
  Pow <- MCPow
SPECIFICATION BytesSpec
CHECK_DEADLOCK FALSE
INVARIANTS
  FindsTokens
  RefusesStrings
  IndexesFit
  ReadyToWalk
  UnescapesString
  StaysInItsBuffers
  ReadsTheNumber

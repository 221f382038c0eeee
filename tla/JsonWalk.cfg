\* Depth for three open containers, and counts that saturate at two.  The walk
\* stops when it has returned.
CONSTANTS
  Documents <- MCDocuments
  MaxDepth = 4
  CountMax = 2
  MaxTokens = 9
SPECIFICATION WalkSpec
CHECK_DEADLOCK FALSE
INVARIANTS
  WalkTypeOK
  ReadsWhatStage1Wrote
  TapeFits
  StringsFit
  TakesJSON
  ReadsBack
  SizesAreThoseOfTheFile
PROPERTY
  WalkReturns

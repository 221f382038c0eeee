\* Every setting of the flags; the machine stops when the word is decoded, or
\* the value has been read back.
CONSTANTS
  Words <- MCWordsToDecode
  Samples <- MCSamples
SPECIFICATION WordsSpec
CHECK_DEADLOCK FALSE
INVARIANTS
  LosesNothing
  RejectsByGroup
  ImmediateTakesTwoWords
  WhatReadersKeep

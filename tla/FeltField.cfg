\* Sixteen arrays of limbs, three of them not below the prime; three buffers
\* with anything in them.
CONSTANTS
  SegMod = 1
  OffMod = 1
  Base = 2
  Limb <- MCLimb
  Prime = 13
  Buffer = {a, b, c}
SPECIFICATION FeltSpec
SYMMETRY BuffersAlike
INVARIANTS
  FeltTypeOK
  EqualIsSameElement
PROPERTY ComputesInField

\* The table refuses one entry.
CONSTANTS
  SegMod = 11
  OffMod = 4
  Limb = {0, 1}
  Addresses <- MCAddresses
  Values <- MCValues
  Arrays <- MCArrays
  MaxSegments = 4
  MaxRefusals = 1
  Programs <- MCPrograms
SPECIFICATION Spec
INVARIANT LoadErrorsUnreachable

\* Two initializations and one more segment; the table refuses nothing.
CONSTANTS
  SegMod = 11
  OffMod = 4
  Limb = {0, 1}
  Addresses <- MCAddresses
  Values <- MCValues
  Arrays <- MCArrays
  MaxSegments = 9
  MaxRefusals = 0
  Programs <- MCPrograms
SPECIFICATION Spec
INVARIANTS
  LoadErrorsUnreachable
  BootImage
  SegmentsApart
PROPERTIES
  CleanBoot
  InitializeReturns

\* A cell written above a gap, with fewer segments than the cast can bear.
CONSTANTS
  SegMod = 4
  OffMod = 3
  Limb = {0, 1}
  Addresses <- relocatable
  Values <- FewValues
  Arrays <- FewArrays
  MaxSegments = 1
  MaxRefusals = 0
SPECIFICATION MemorySpec
INVARIANT PrintsWholeMemory

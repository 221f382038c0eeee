\* The table refuses one entry.
CONSTANTS
  SegMod = 3
  OffMod = 2
  Limb = {0, 1}
  Addresses <- relocatable
  Values <- FewValues
  Arrays <- FewArrays
  MaxSegments = 1
  MaxRefusals = 1
SPECIFICATION MemorySpec
INVARIANT FreeReleasesAll

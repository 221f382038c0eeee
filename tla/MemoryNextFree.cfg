\* Three offsets: a load can end right below a cell written earlier.
CONSTANTS
  SegMod = 3
  OffMod = 3
  Limb = {0, 1}
  Addresses <- relocatable
  Values <- FewValues
  Arrays <- FewArrays
  MaxSegments = 2
  MaxRefusals = 0
SPECIFICATION MemorySpec
INVARIANT LoadReturnsFreeSlot

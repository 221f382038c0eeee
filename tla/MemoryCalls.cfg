\* Two offsets per segment, so that every load of two elements may wrap; the
\* table may refuse one entry.  MaxSegments < SegMod: num_segments never wraps.
CONSTANTS
  SegMod = 3
  OffMod = 2
  Limb = {0, 1}
  Addresses <- relocatable
  Values <- MCValues
  Arrays <- MCArrays
  MaxSegments = 2
  MaxRefusals = 1
SPECIFICATION MemorySpec
INVARIANTS
  MemoryTypeOK
  SegmentsAllocated
  AcceptedIsStored
  HeapBalance
  ErrorHasCause
PROPERTIES
  WriteOnce
  FreshSegment
  ImplementsStore
  LoadReturns

\* The entries come to an end.
SPECIFICATION Spec
CHECK_DEADLOCK FALSE
CONSTANTS
  Stale = Stale
  ChunkBytes = {1, 2, 3}
  ChunkCounts = {1, 2, 3}
  MaxEntries = 5
  Lengths = {0, 1, 255, 256, 65535, 65536, 65792}
INVARIANTS
  HandedOnceInside
  HandedInPlace
  IrClosedForm
  ReadBackIffFits

SPECIFICATION Spec
CONSTANTS
  Stale = Stale
  ChunksPerBuffer = 3
  MaxOutstanding = 3
  MaxInt = 7
  Reuse = TRUE
  MaxEvents = 2
INVARIANTS
  PayloadOfHandledPacket

SPECIFICATION Spec
CONSTANTS
  Stale = Stale
  ChunksPerBuffer = 4
  MaxOutstanding = 4
  MaxInt = 10
  Reuse = FALSE
  MaxEvents = 3
INVARIANTS
  TypeOK
  FirstRunAligned
  PayloadsStable
PROPERTY
  QueueDrains

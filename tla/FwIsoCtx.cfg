\* A crash ends the process, the only state without a successor.
SPECIFICATION Spec
CHECK_DEADLOCK FALSE
CONSTANTS
  Stale = Stale
  ChunkCounts = {1, 2}
  MaxStarts = 2
  MaxEvents = 2
INVARIANTS
  TypeOK
  RunningUsable
  NothingStaleQueued
  NoCrash
  StoppedOnce
PROPERTIES
  ImplementsContract
  DeviceLossDetaches

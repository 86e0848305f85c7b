SPECIFICATION Spec
CONSTANTS
  Stale = Stale
  MaxPayload = 16
  ChunksPerBuffer = 3
  DataLengths = {8, 9}
  Intervals = {0}
  Words = {40960}
  MaxInt = 5
  MaxEvents = 3
INVARIANT
  CountIsAvailable

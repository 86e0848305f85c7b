SPECIFICATION Spec
CONSTANTS
  Stale = Stale
  MaxPayload = 11
  ChunksPerBuffer = 3
  DataLengths = {0, 8, 11}
  Intervals = {0, 1, 2}
  Words = {20}
  MaxInt = 5
  MaxEvents = 3
INVARIANTS
  TypeOK
  FirstRunPackets
  ToldIsShown
  NoChunkLeaks
  InterruptsRegular
  StartHasRoom
  DescriptorsFit

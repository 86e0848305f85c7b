SPECIFICATION Spec
CONSTANTS
  Handles = {1, 2}
  Bandwidths = {1, 2}
  UintSize = 4
  Channels = {1}
  MaxRequests = 2
  MaxGen = 2
  MaxEvents = 2
INVARIANTS
  TypeOK
  SettledTruth
  TallyIsHeld
  GenerationCurrent

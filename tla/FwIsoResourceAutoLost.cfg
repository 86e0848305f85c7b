SPECIFICATION AutoSpec
CONSTANTS
  Handles = {1, 2}
  Bandwidths = {1, 2}
  UintSize = 4
  MaxGen = 2
  MaxEvents = 3
INVARIANTS
  AllocatedMeansHeld

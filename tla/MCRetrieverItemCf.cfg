SPECIFICATION ItemCfSpec
CONSTANTS
  Precision = 6
  Multiplier = 2
  DefaultMax = 2
  NoProfile = NoProfile
  Requests <- MCRequests
  Lists <- MCLists
  Base <- MCBase
  MaxTriggerSeeds = 3
  BatchSize = 2
INVARIANTS
  RanksNeighborsFound
  SeedsAreStrongest

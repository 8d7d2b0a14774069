SPECIFICATION UserCfSpec
CONSTANTS
  Precision = 6
  Multiplier = 2
  DefaultMax = 2
  NoProfile = NoProfile
  Requests <- MCRequests
  UserLists <- MCUserLists
  UserProfiles <- MCUserProfiles
  Base <- MCBase
  MaxSeeds = 4
  MaxInt = 5
  MaxInt64 = 7
INVARIANTS
  RanksProfilesFound

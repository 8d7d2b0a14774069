SPECIFICATION RankSpec
CONSTANTS
  NoEntry = NoEntry
  NoProfile = NoProfile
  Item <- MCItem
  Features <- MCFeatures
  Dislike <- MCDislike
INVARIANTS
  RankedAreTheBest

SPECIFICATION Spec
CONSTANTS
  NoEntry = NoEntry
  NoProfile = NoProfile
  Item <- MCItem
  Features <- MCFeatures
  Dislike <- MCDislike
  UserIds <- MCUserIds
  ProfileIds <- MCProfileIds
  MaxResults <- MCMaxResults
  Scores <- MCScores
INVARIANTS
  BlameIsJustified
  NothingRetrievedIsLost

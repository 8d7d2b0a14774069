SPECIFICATION FairSpec
CONSTANTS
  item_cf = item_cf  user_cf = user_cf
  i1 = i1  i2 = i2  i3 = i3
  NoItem = NoItem
  Unknown = Unknown
  Failed = Failed
  Item <- MCItem
  Stubs <- MCStubs
  Knows <- MCKnows
  Legacy <- MCLegacy
  Requested <- MCRequested
  Replies <- MCReplies
  RatioNum = 3
  RatioDen = 2
  MaxInt = 3
  DefaultCount = 2
INVARIANTS
  FirstComeFirstServed
  NoPathDropped
  FailsOnlyIfAllFail
  IndexFindsCandidates
  AsksForEnough
PROPERTIES
  RetrieveReturns

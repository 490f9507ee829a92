CONSTANTS
  Handle = {h1, h2, h3}
  NULL = NULL
  Kinds = {"timer"}
  Delays = {0}
  MaxTick = 1
  MaxLag = 1
  Infinite = TRUE
SPECIFICATION FairSpec
PROPERTIES ClosedIsFreed DueIsCalled PassesForever

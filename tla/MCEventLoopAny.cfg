CONSTANTS
  Handle = {h1, h2}
  NULL = NULL
  Kinds = {"timer"}
  Delays = {0}
  MaxTick = 1
  MaxLag = 1
  Infinite = FALSE
SPECIFICATION AnyScript
CHECK_DEADLOCK FALSE
INVARIANT StopsOnlyWhenEmpty

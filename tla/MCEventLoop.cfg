\* All kinds of handles, in the loop of a script run that ends with its last
\* handle.
CONSTANTS
  Handle = {h1, h2, h3}
  NULL = NULL
  Kinds = {"timer", "tone", "watch", "uart"}
  Delays = {0}
  MaxTick = 1
  MaxLag = 1
  Infinite = FALSE
SPECIFICATION Spec
SYMMETRY Symmetry
CHECK_DEADLOCK FALSE
INVARIANTS TypeOK ListsAgree NoDangling NoneLost CallbackHeldOnce StopsOnlyWhenEmpty
PROPERTY ImplementsService

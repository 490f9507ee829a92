CONSTANTS
  N = 4
  Byte = {0, 1, 2, 3}
  Depth = 2
  LastByte = 3
  Paced = TRUE
SPECIFICATION Spec
INVARIANT BytesInOrder
CHECK_DEADLOCK FALSE

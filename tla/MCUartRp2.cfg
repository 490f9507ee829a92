CONSTANTS
  N = 4
  Byte = {0, 1, 2, 3, 4, 5, 6}
  Depth = 2
  LastByte = 6
  Paced = TRUE
SPECIFICATION Spec
INVARIANTS TypeOK AtMostOnce
CHECK_DEADLOCK FALSE

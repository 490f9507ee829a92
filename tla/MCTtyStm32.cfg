CONSTANTS
  N = 3
  Byte = {0, 1}
  MaxChunk = 2
  MaxText = 2
  Paced = TRUE
SPECIFICATION Spec
INVARIANT TypeOK
PROPERTIES ReceivesInOrder TransmitsInOrder

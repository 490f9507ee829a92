CONSTANTS
  TableSize = 2
  Client = {s1}
  Accepted = {a1}
  Conn = {c1, c2}
  NONE = NONE
  MaxBytes = 2
SPECIFICATION FairSpec

CHECK_DEADLOCK FALSE
INVARIANTS TypeOK TableAgrees SocketsMatch BytesAccounted
PROPERTY Finishes

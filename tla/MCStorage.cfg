CONSTANTS
  k1 = k1
  k2 = k2
  k3 = k3
  k4 = k4
  v1 = v1
  v2 = v2
  Key <- Keys
  Value <- Values
  Fits <- Pairs
  NONE = NONE
  SlotCount = 3
SPECIFICATION StorageSpec
SYMMETRY Symmetry
INVARIANTS StorageTypeOK OneSlotPerKey RefusesOnlyWhenFull
PROPERTY ImplementsStore

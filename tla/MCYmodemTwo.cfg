CONSTANTS
  NUL = NUL
  ERASED = ERASED
  GARBLED = GARBLED
  PAD = PAD
  PageSize = 2
  SectorSize = 4
  SectorCount = 2
  BlockSize = 2
  NumberMod = 3
  Batches <- TwoFiles
  Rough <- TwoFiles
  MaxErrors = 2
  MaxLine = 4
  MaxMishaps = 2
SPECIFICATION Spec
INVARIANT DoneMeansStored

CONSTANTS
  NUL = NUL
  ERASED = ERASED
  GARBLED = GARBLED
  PAD = PAD
  PageSize = 2
  SectorSize = 4
  SectorCount = 2
  BlockSize = 2
  NumberMod = 3
  Batches <- Sessions
  Rough <- SingleFiles
  MaxErrors = 5
  MaxLine = 4
  MaxMishaps = 4
SPECIFICATION FairSpec
INVARIANTS TypeOK StoredAsSent DoneMeansStored RefusesOnlyTooLarge
PROPERTIES InOrder ProgrammedOnce Completes

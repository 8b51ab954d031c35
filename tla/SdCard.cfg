CONSTANTS
  Kinds = {"SD2block", "SD2", "SD1", "MMC"}
  NumSectors = 2
  Data = {0, 1}
  MaxSlow = 1
  MaxLost = 1
  MaxBad = 1
  MaxRemovals = 1
SPECIFICATION FairSpec
CHECK_DEADLOCK FALSE
INVARIANTS SyncMeansWritten ReadOk WriteOk
PROPERTIES OnlyAskedSectors CallReturnsIfCardStays

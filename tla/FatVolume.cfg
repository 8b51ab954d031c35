CONSTANTS
  Names = {"a", "b"}
  Files = {1, 2}
  n_fatent = 6
  FatPerSector = 3
  DirPerSector = 1
  n_rootdir = 2
  SS = 2
  Data <- MCData
  Images <- MCImages
  Offsets = {0, 3}
  MaxSize = 5
  MaxCalls = 5
  MaxCuts = 1
SPECIFICATION Spec
CHECK_DEADLOCK FALSE
INVARIANTS NoCrossLinks Durable ReadsBack NoLostClusters

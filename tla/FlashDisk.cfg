CONSTANTS
  NumPages = 2
  RowsPerSector = 2
  Data <- MCData
  Erased = Erased
  Torn = Torn
  Image <- MCImage
  Contents <- MCContents
  MaxCount = 3
  MaxWrites = 2
  MaxErrors = 1
  MaxCuts = 1
SPECIFICATION FairSpec
CHECK_DEADLOCK FALSE
INVARIANTS OnePageAtRisk OtherPagesKept
PROPERTIES Implements WriteReturns

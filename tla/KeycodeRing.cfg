CONSTANTS
  KEYCODEBUFSIZE = 4
  Keycodes = {1, 2}
SPECIFICATION FairSpec
INVARIANTS SlotNotReused IgnoredOnlyWhenFull
PROPERTIES Implements StoredIsReturned

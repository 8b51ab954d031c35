CONSTANTS
  NumBlocks = 9
  FREELIST_MASK = 16
  Pointers = {1, 2, 3}
  Sizes = {0, 4, 12, 13}
SPECIFICATION Spec
INVARIANTS ContentsKept ListsAgree NullMeansFull
VIEW HeapView

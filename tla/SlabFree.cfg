\* kmfree on any block kmalloc returned.
CONSTANTS
  Pages = 1
  Slabs = 4
  SlabSize = 8
  Sizes = {0, 9, 17}
  Limit = 16
  Larges = 1
SPECIFICATION SpecAnyFree
INVARIANT FreeAssertHolds
CHECK_DEADLOCK FALSE

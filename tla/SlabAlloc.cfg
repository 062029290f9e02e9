\* One slab of 8 bytes for the header; requests of no, one, and two slabs.
CONSTANTS
  Pages = 2
  Slabs = 4
  SlabSize = 8
  Sizes = {0, 9, 17}
  Limit = 16
  Larges = 1
SPECIFICATION Spec
INVARIANTS NoSharing BitsExact IInv
PROPERTY PageOnlyWhenFull
\* assert1(0) stops the kernel when memory runs out.
CHECK_DEADLOCK FALSE

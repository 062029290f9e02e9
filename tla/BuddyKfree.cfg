\* kfree on any block kalloc returned.
CONSTANTS
  MaxDepth = 3
  TreeCount = 2
  MetaDepth = 3
  Preemption = FALSE
SPECIFICATION SpecAnyFree
INVARIANT FreedPagesAreFree
\* The kernel stops when memory runs out.
CHECK_DEADLOCK FALSE

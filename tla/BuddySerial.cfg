\* Calls one after another, one level more, the trees' own block as in the code
\* two levels above the pages: the refinement of PageAllocator, termination.
CONSTANTS
  MaxDepth = 4
  TreeCount = 2
  MetaDepth = 2
  Preemption = FALSE
SPECIFICATION FairSpec
INVARIANT TightInv
PROPERTIES KeepsPromise CallsReturn
\* assert1(0) stops the kernel when memory runs out.
CHECK_DEADLOCK FALSE

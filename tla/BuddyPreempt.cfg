CONSTANTS
  MaxDepth = 3
  TreeCount = 2
  MetaDepth = 3
  Preemption = TRUE
SPECIFICATION Spec
INVARIANTS TypeOK NoOverlap ParentsSet BitsExact HaltOnlyWhenFull StackFits
PROPERTIES PacksTight
\* The kernel stops when memory runs out.
CHECK_DEADLOCK FALSE

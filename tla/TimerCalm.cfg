\* Three timers at once, as long as no interrupt meets a half-updated list.
CONSTANTS
  Entries = 3
  Times = {1, 2, 3}
  Tick = 2
  Wrap = 8
  MaxNest = 2
SPECIFICATION CalmSpec
INVARIANTS QueueSorted Armed NoneLost
PROPERTY KeepsPromise
\* The kernel stops when it writes through NULL.
CHECK_DEADLOCK FALSE

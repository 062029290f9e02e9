CONSTANTS
  Size = 8
  Mod = 64
  MaxRequests = 3
  MaxSectors = 1
  Depth = 2
SPECIFICATION FairSpec
INVARIANTS TakenIsDone OnceEach WholeRequests
PROPERTIES AllTaken
\* Every request has been made and taken, or the device has stopped.
CHECK_DEADLOCK FALSE

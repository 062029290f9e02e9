CONSTANTS
  Slots = 3
  Fns = 2
  Lines = {64, 65, 66, 67, 68, 69, 70, 71}
  Positions = {1, 2, 3}
  TTL = 3
  LastWindow = 5
  Machines <- MCMachines
SPECIFICATION Spec
INVARIANTS DevicesExist
\* Enumeration ends, or the kernel stops.
CHECK_DEADLOCK FALSE

CONSTANTS
  Size = 3
  Mod = 6
  HostPorts = {1, 2}
  BufLen = 4
  Lens = {1, 2}
  MaxCloses = 1
  MaxData = 2
SPECIFICATION Spec
INVARIANTS RightBuffer SaidIntact HaltsOnlySurprised NeverTorn NothingForgotten
\* A control message about an unknown port stops the kernel.
CHECK_DEADLOCK FALSE

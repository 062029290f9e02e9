\* Interrupts anywhere, one time that overflows apic_timer_interrupt_in's product.
CONSTANTS
  Entries = 2
  Times = {0, 1, 2, 4}
  Tick = 2
  Wrap = 8
  MaxNest = 2
SPECIFICATION FairSpec
INVARIANTS IInv HaltOnlyWhenFull
PROPERTIES SleepsLongEnough TimersFire SleepReturns
\* The kernel stops when it writes through NULL.
CHECK_DEADLOCK FALSE

CONSTANTS
  Width = 3
  Height = 2
  Pages = 2
  Items <- MCItems
  Remarks <- MCRemarks
  Keys <- MCKeys
  Word = 256
  MaxPrints = 3
  MaxInterrupts = 2
SPECIFICATION Spec
INVARIANTS InGrid StraysForCause OneCursor Recoverable
\* The bounds are reached, or the kernel has stopped.
CHECK_DEADLOCK FALSE

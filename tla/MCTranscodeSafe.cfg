SPECIFICATION Spec
CONSTANTS
  Calls <- MCSafeCalls
  Group = 2
  Block = 4
INVARIANT
  SafeCountsWritten
CHECK_DEADLOCK FALSE

SPECIFICATION FairSpec
CONSTANTS
  Procs = {p1}
  N = 2
  Attempts = 3
  MaxFaults = 3
INVARIANT ChecksumsWork
CHECK_DEADLOCK FALSE

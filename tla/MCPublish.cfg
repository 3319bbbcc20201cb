SPECIFICATION Spec
CONSTANTS
  Procs = {p1, p2, p3}
  Versions = {v1, v2}
  MaxFaults = 3
  MaxRuns = 4
SYMMETRY Interchangeable
INVARIANTS
  TypeOK
  OutNeverTorn
  SuccessSettles
PROPERTY
  NothingLost
CHECK_DEADLOCK FALSE

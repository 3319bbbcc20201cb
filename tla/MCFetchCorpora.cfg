SPECIFICATION FairSpec
CONSTANTS
  Procs = {p1, p2}
  N = 2
  Attempts = 3
  MaxFaults = 3
INVARIANTS
  TypeOK
  CertifiedTogether
  TempsCleanedUp
PROPERTIES
  NothingUnverified
  SelfHeals
CHECK_DEADLOCK FALSE

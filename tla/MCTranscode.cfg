SPECIFICATION Spec
CONSTANTS
  Calls <- MCCalls
  Group = 2
  Block = 4
INVARIANTS
  TypeOK
  PanicsBeforeWriting
  ConvertsExactly
  Repairs
  SafeStopsWhole
  LengthExact
  TrimsExactly
  DetectsReadable
PROPERTY
  Termination
CHECK_DEADLOCK FALSE

SPECIFICATION Spec
CONSTANTS
  Calls <- MCCalls
  Group = 3
  Load = 4
  Buffer = 8
  Rest = 8
  MaxLen = 13
  Widths = {0, 4, 5, 6, 7, 9, 16}
INVARIANTS
  TypeOK
  LengthExact
  OneLayout
  RoundTrip
CHECK_DEADLOCK FALSE

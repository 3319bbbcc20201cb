SPECIFICATION FairSpec
CONSTANTS
  Calls <- MCCalls
  Block = 4
  ShortLen = 4
  TailLen = 2
  TextOptions = {0, 4}
INVARIANTS
  TypeOK
  NoIndexPanic
  KeepsPromise
  DecodesEverything
  StrictIsCanonical
  ErrorAtOffender
  ResumePoint
PROPERTY
  Termination
CHECK_DEADLOCK FALSE

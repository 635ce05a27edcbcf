SPECIFICATION Spec
CONSTANTS
  Names <- MCNames
  Describes <- MCDescribes
  Starts = {"temporary"}
  DayLen = 2
  MaxClock = 2
  Skew = 1
  SessionLen = 1
INVARIANTS TypeOK SignedAsToldIsTaken 
PROPERTIES CorruptIsRefused
CHECK_DEADLOCK FALSE

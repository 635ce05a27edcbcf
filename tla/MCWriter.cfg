SPECIFICATION Spec
CONSTANTS
  Byte <- MCByte
  Script <- MCScript
  Room <- MCRoom
  MaxUsize = 70
  MaxRoom = 60
  Limit = 50
  Lengths = {0, 1, 2, 3, 4, 7, 8, 16, 17, 32, 33}
  MaxPieces = 3
INVARIANTS
  TypeOK
  WrittenWhole
  RequiredExact
  TwoAttempts
PROPERTIES
  CallEnds
CHECK_DEADLOCK FALSE

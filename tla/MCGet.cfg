\* Every range and every head.  A read ends with what its head was read as.
SPECIFICATION Spec
CONSTANTS
  MaxU64 = 3
  Stated <- MCStated
  Sizes <- MCSizes
CHECK_DEADLOCK FALSE
INVARIANTS
  TypeOK
  WindowIsAskedFor
  WindowRepresentable
  HonestAnswerIsRead

\* The bounded reads of MCGet, for the end of a range whose object's size is
\* not stated.
SPECIFICATION Spec
CONSTANTS
  MaxU64 = 3
  Stated <- MCStated
  Sizes <- MCSizes
CHECK_DEADLOCK FALSE
INVARIANTS
  NothingPastTheEnd

SPECIFICATION Spec
CONSTANTS
  Statuses <- MCStatuses
CHECK_DEADLOCK FALSE
INVARIANTS
  LateIsAlike

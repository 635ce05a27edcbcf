\* Every operation of every service, with every cause and with any head and
\* body.  An exchange ends.
SPECIFICATION Spec
CONSTANTS
  Statuses <- MCStatuses
CHECK_DEADLOCK FALSE
INVARIANTS
  TypeOK
  NamedIsExact
  ClassIsOfTheCause
  UnaskedIsNoOutcome
PROPERTIES
  Promised

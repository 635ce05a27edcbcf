\* Every shape of request of both services, from its own bytes and from the
\* bytes of every other template.  The call ends: there is no next one.
SPECIFICATION Spec
CONSTANTS
  MaxSteps = 96
  NameRoom = 3
  MaxUrl = 17
  Descriptions <- MCDescriptions
  Requests <- MCRequests
  Junk <- MCJunk
CHECK_DEADLOCK FALSE
INVARIANTS
  TypeOK
  TableOfTheLayout
  OwnBytesAccepted
  RequestAsMeant
  PlaceholdersMarked
  WalkWritesAlike
  UrlChecked
  PartsInRange

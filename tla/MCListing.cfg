SPECIFICATION Spec
CONSTANTS
  MaxDepth = 2
  Wanted <- MCWanted
  Rooms = {1, 4}
  PageSize = 2
  MaxChanges = 1
  Damaged = TRUE
INVARIANTS TypeOK CursorInRange PageAsWritten RoomIsExact HonestPageIsRead WalkAgrees EachKeyOnce
PROPERTY Ended
CHECK_DEADLOCK FALSE

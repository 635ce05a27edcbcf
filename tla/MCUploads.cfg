SPECIFICATION Spec
CONSTANTS
  MaxParts = 2
  MaxBlocks = 2
  MaxNumber = 9
  Digits <- MCDigits
  Numbers = {0, 1, 2, 3}
  Contents <- MCContents
  Conditions = {"none", "IfNoneMatch"}
  Lists <- MCLists
  Room = 1
  PageSizes = {1, 2}
  MayBeLate <- MCMayBeLate
  MaxLate = 1
  DamagedOf = {"aws", "azure"}
INVARIANTS TypeOK VerdictIsTrue PublishedAsMeant ResumedWhole
PROPERTY ListingEnds

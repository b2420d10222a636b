SPECIFICATION FairSpec
CONSTANTS
  Name <- MCName
  Room <- MCRoom
  None = None
  Expiration = 2
  MaxRoomCount = 1
  MaxFaults = 2
  MaxShortenings = 2
INVARIANTS TypeOK ListedIsThere NameIsHeld AnnouncedIsRecorded ErasedStaysGone RecordsAreServed
PROPERTY EachIsTried
CHECK_DEADLOCK FALSE

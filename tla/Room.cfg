\* Two connections and a room for one, with everything that can happen.
SPECIFICATION FairSpec
CONSTANTS
  Client = {c1, c2}
  MaxLoad = 1
  MaxDrift = 2
INVARIANTS TypeOK LoadIsKept MembersWithinMaxLoad
PROPERTIES  DesertedRoomCloses
CHECK_DEADLOCK FALSE

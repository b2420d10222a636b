\* One client's pending queue; pieces of 1, 2 and 4 bytes, at most 2 per split.
SPECIFICATION Spec
CONSTANTS
  CHUNK_SIZE = 1
  MAX_CHUNKS_IN_QUEUE = 2
  Message = {m}
  MaxPos = 4
  MaxOwed = 6
INVARIANTS TypeOK NothingLostOrReordered
PROPERTIES OneAppendIsBounded HeadIsServed
CHECK_DEADLOCK FALSE

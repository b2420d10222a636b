\* A clearall between the two halves of a write.
SPECIFICATION Spec
CONSTANTS
  CHUNK_SIZE = 1
  MAX_CHUNKS_IN_QUEUE = 2
  Client = {c1}
  FrameLength = 2
  Traffic = {"write"}
  MaxFrames = 2
  MaxRequests = 1
  MaxPrunes = 1
  Asked = {0}
  AsksAgain = FALSE
  PeersMayStall = FALSE
  RoomMayClose = FALSE
INVARIANTS NewDataIsReceived
CHECK_DEADLOCK FALSE

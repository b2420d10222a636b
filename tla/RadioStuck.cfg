\* A reply to a client that is just leaving.
SPECIFICATION FairSpec
CONSTANTS
  CHUNK_SIZE = 1
  MAX_CHUNKS_IN_QUEUE = 2
  Client = {c1}
  FrameLength = 2
  Traffic = {"single"}
  MaxFrames = 1
  MaxRequests = 1
  MaxPrunes = 0
  Asked = {0}
  AsksAgain = FALSE
  PeersMayStall = FALSE
  RoomMayClose = FALSE
PROPERTIES RadioKeepsServing
CHECK_DEADLOCK FALSE

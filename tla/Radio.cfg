\* One client, one session: what is recorded reaches it, whole, and run serves on.
SPECIFICATION FairSpec
CONSTANTS
  CHUNK_SIZE = 1
  MAX_CHUNKS_IN_QUEUE = 2
  Client = {c1}
  FrameLength = 2
  Traffic = {"write", "send"}
  MaxFrames = 3
  MaxRequests = 1
  MaxPrunes = 0
  Asked = {0}
  AsksAgain = FALSE
  PeersMayStall = FALSE
  RoomMayClose = TRUE
INVARIANTS TypeOK NothingForgotten FramesIntact
PROPERTIES RecordedIsSent RadioKeepsServing SessionsEnd
CHECK_DEADLOCK FALSE

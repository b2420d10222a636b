\* Two clients, two sessions of either; kicks, stalls, a clearall, all traffic.
SPECIFICATION Spec
CONSTANTS
  CHUNK_SIZE = 1
  MAX_CHUNKS_IN_QUEUE = 2
  Client = {c1, c2}
  FrameLength = 1
  Traffic = {"write", "single", "direct"}
  MaxFrames = 2
  MaxRequests = 2
  MaxPrunes = 1
  Asked = {2}
  AsksAgain = TRUE
  PeersMayStall = TRUE
  RoomMayClose = FALSE
SYMMETRY Symmetry
INVARIANTS NothingForgotten
CHECK_DEADLOCK FALSE

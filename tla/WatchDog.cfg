SPECIFICATION FairSpec
CONSTANTS
  MaxStarts = 2
  StartWait = 1
  PingEvery = 1
  SilentFor = 3
  AnswerWithin = 1
INVARIANTS TypeOK WellIsNotKilled OneServer DialFindsServer
PROPERTIES UnwellIsReplaced ConnectionEnds

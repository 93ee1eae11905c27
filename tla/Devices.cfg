CONSTANTS
  Digit = 2
  NumBlocks = 3
  MediumBlocks = 2
  BlockWords = 2
  Values <- Bits
  Unknown = unknown
  unknown = unknown
  MaxScaler = 4
  DefaultScaler = 2
  Parts <- Halves
  Period = 2
  Frames <- SomeFrames
  MaxFrames = 3
SPECIFICATION FairSpec
INVARIANTS TypeOK FramesOnTime FrameWhole FramesOnce
PROPERTIES IsBlockDevice FramesTaken
CHECK_DEADLOCK FALSE

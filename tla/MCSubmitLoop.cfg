CONSTANTS
  t1 = t1
  f1 = f1
  NoFrame = NoFrame
  Caller = t1
  Lag = 1
  Size = 1
  Depth = 1
  MaxFrames = 4
  Threads <- MCThreads
  Submitters <- MCThreads
  Consumers <- MCThreads
  Frames <- MCFrames
SPECIFICATION LoopSpec
PROPERTIES
  LoopEnds
CHECK_DEADLOCK FALSE

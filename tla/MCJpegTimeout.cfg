SPECIFICATION MediaSpec
CONSTANTS
  Configs <- MCConfigs
  Headers <- MCHeaders
  Holders = {a, b}
  NoFrame = NoFrame
  NoPool = NoPool
  NoGeometry = NoGeometry
  QueueMax = 1
  Budget = 4
  EncConfigs <- MCEncConfigs
  Views <- MCViews
  EncQueueMax = 1
  MaxFed = 3
  MaxEncFaults = 1
  Files <- MCFiles
  Images = {i1, i2}
  NoCall = NoCall
  MaxJpegCalls = 3
INVARIANT EncodeAnswersItsImage
CHECK_DEADLOCK FALSE

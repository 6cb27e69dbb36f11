CONSTANTS
  Size = 1
  Depth = 1
  QueueDepth = 1
  ExtraBuffers = 0
  DecoderRefs = 1
  InputCap = 1
  Chunks = 6
  MaxEmptyFlushes = 2
  WorkersFail = TRUE
  ThreadsFail = TRUE
SPECIFICATION LoopSpec
INVARIANTS
  LoopDeliversAll
PROPERTIES
  LoopEnds

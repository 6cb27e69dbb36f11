CONSTANTS
  Size = 2
  Depth = 1
  QueueDepth = 1
  ExtraBuffers = 0
  DecoderRefs = 1
  InputCap = 1
  Chunks = 4
  MaxEmptyFlushes = 2
  WorkersFail = TRUE
  ThreadsFail = FALSE
SPECIFICATION Spec
INVARIANTS
  MetaMatchesResult

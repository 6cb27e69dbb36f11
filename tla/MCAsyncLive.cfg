CONSTANTS
  t1 = t1
  t2 = t2
  f1 = f1
  f2 = f2
  NoFrame = NoFrame
  Size = 1
  Threads <- T1T2
  Submitters <- T1T2
  Consumers <- JustT2
  Frames <- OneFrame
  Depth = 1
  MaxFrames = 4
SPECIFICATION Spec
PROPERTIES
  EveryFrameIsParked
  ReaderIsServed
  FinishEndsEveryCall
  DestructorReturns
INVARIANTS
  ReorderBound
  NoLostWakeup

CONSTANTS
  t1 = t1
  t2 = t2
  f1 = f1
  f2 = f2
  NoFrame = NoFrame
  Size = 2
  Threads <- T1T2
  Submitters <- JustT1
  Consumers <- JustT2
  Frames <- OneFrame
  Depth = 8
  MaxFrames = 4
SPECIFICATION SafetySpec
INVARIANTS
  OutOfOrderWithinWorkers

CONSTANTS
  t1 = t1
  t2 = t2
  f1 = f1
  f2 = f2
  NoFrame = NoFrame
  Size = 2
  Threads <- T1T2
  Submitters <- T1T2
  Consumers <- T1T2
  Frames <- TwoFrames
  Depth = 1
  MaxFrames = 3
SPECIFICATION SafetySpec
SYMMETRY Symmetry
INVARIANTS
  OneOwner
  ExclusiveTensor
  HandleIsValid
  NoHole
PROPERTIES
  RefinesOrderedStream

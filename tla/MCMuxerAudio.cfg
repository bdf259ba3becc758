SPECIFICATION Spec
CONSTANTS
  FrameSize = 3
  SegmentLength = 5
  MaxSamples = 4
  MaxFrames = 2
  MaxDelay = 1
  MaxTime = 16
  MaxSkips = 1
INVARIANTS
  OverrunExplained
  FifoBounded
  AudioInSync
PROPERTY PtsIncrease
CHECK_DEADLOCK FALSE

\* Everything outside the process may fail; 3 segments, so that a list sums two
\* finished ones
CONSTANTS
  MaxSegments = 3
  SegDur = 1
  MaxTime = 8
  Durations <- AllInputs
  Faults = {"input", "stream", "fopen", "writer", "remove"}
  NoFile = NoFile
SPECIFICATION Spec
INVARIANTS NeverListsOpenFile AllFinishedAtExit DurationsTile
CHECK_DEADLOCK FALSE

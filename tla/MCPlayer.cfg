\* The window is shown twice
SPECIFICATION FairSpec
CONSTANTS
  MaxOpens = 2
  MaxPackets = 2
  MaxFrames = 1
  NULL = NULL
INVARIANTS NoTearing EachFrameHeardOnce CrashExplained
PROPERTIES PacketsPlayed
\* the player stops when its window is closed and its input has ended
CHECK_DEADLOCK FALSE

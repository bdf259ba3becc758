\* Two demux and two decoder threads; allocations may fail
SPECIFICATION FairSpec
CONSTANTS
  Producers = {p1, p2}
  Consumers = {c1, c2}
  AllocFails = TRUE
  MaxPackets = 4
  MaxDepth = 3
  NULL = NULL
INVARIANTS ListIsInterval NoUseAfterFree
PROPERTIES ImplementsFifo EveryPacketTaken
\* a leaked lock stops every thread but its owner
CHECK_DEADLOCK FALSE

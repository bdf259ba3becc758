\* Heartbeats and the status of the first segment, any server
SPECIFICATION FairSpec
CONSTANTS
  Heart = Heart
  Main = Main
  MaxRetry = 2
  Responses = {r1, r2, r3}
  NULL = NULL
INVARIANTS CrashOnlyIfOverlap
PROPERTIES ExitJustified UnwantedStops
\* a muxer that gave up or crashed has no next step
CHECK_DEADLOCK FALSE

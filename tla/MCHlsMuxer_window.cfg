\* Any input without faults, fair threads: window, playlist, files, exit
SPECIFICATION FairSpec
CONSTANTS
  MaxSegments = 2
  SegDur = 2
  MaxTime = 10
  Durations <- AllInputs
  Faults = {}
  NoFile = NoFile
INVARIANTS ListedOnDisk LateReaderServed IndexIsWindow PublishedDurationFinal CrashOnlyAtTheEnds
PROPERTIES OldFilesRemoved ExitStops ImplementsLivePlaylist
CHECK_DEADLOCK FALSE

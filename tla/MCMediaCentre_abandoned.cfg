\* One worker, one muxer
SPECIFICATION FairSpec
CONSTANTS
  Workers = {w1}
  StreamIds = {s1}
  Procs = {p1}
  MaxRetry = 2
  Timeout = 1
  MaxLag = 0
  NULL = NULL
  Absent = Absent
PROPERTY AbandonedMuxerStops

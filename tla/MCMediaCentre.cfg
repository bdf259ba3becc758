\* Two opens at a time on one stream, and three muxers of it: of sessions that
\* were, started by hand, or started twice
SPECIFICATION FairSpec
CONSTANTS
  Workers = {w1, w2}
  StreamIds = {s1}
  Procs = {p1, p2, p3}
  MaxRetry = 2
  Timeout = 1
  MaxLag = 1
  NULL = NULL
  Absent = Absent
INVARIANTS RunningIsServed TwoWritersExplained
PROPERTY HeartbeatMuxersStop

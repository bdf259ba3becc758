\* Two streams, one data thread: a session nobody names expires, also while
\* another is kept alive
SPECIFICATION FairSpec
CONSTANTS
  Workers = {w1}
  StreamIds = {s1, s2}
  Allocators = {a1, a2}
  Timeout = 0
  MaxLag = 1
  ClockModulus = 64
  NULL = NULL
  Absent = Absent
PROPERTY AbandonedExpires
\* a server that crashed has no next step
CHECK_DEADLOCK FALSE

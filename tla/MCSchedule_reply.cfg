\* Two streams, two data threads: whose id does the answer carry?
CONSTANTS
  Workers = {w1, w2}
  StreamIds = {s1, s2}
  Allocators = {a1, a2, a3, a4}
  Timeout = 0
  MaxLag = 0
  ClockModulus = 64
  NULL = NULL
  Absent = Absent
SPECIFICATION Spec
SYMMETRY FullSymmetry
INVARIANT ReplyNamesOwnStream
CHECK_DEADLOCK FALSE

\* One stream, two data threads, time: every crash, duplicate and lost touch.
CONSTANTS
  Workers = {w1, w2}
  StreamIds = {s1}
  Allocators = {a1, a2, a3, a4}
  Timeout = 3
  MaxLag = 1
  ClockModulus = 64
  NULL = NULL
  Absent = Absent
SPECIFICATION Spec
SYMMETRY ThreadSymmetry
INVARIANTS TypeOK CrashOnlyIfRaced NullEntryHasOwner OpenReplyMeansSession DuplicateBound
PROPERTIES ErasedIdleOrRaced ImplementsSessions
\* a server that crashed has no next step
CHECK_DEADLOCK FALSE

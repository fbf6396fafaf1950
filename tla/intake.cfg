\* One session with its receiver, and a second session created beside it.
SPECIFICATION Spec
CONSTANTS
  Burst = 3
  Rate = 1
  ClientLimit = 1
  DedupLimit = 1
  DedupWindow = 600
  RestartTimeout = 45
  IdleEviction = 300
  Sessions = {s1, s2}
  First = s1
  MaxReceivers = 1
  Ports = {1}
  Expected = "wsjtx"
  Delays = {1, 46}
  Bounds <- Days
INVARIANTS
  HeardOnce
  NoDoubleObservation
  QuietAfterFinish
  JoinedThreadRuns
CHECK_DEADLOCK FALSE

SPECIFICATION FairSpec
INVARIANTS SomebodyListens OneBusyListener LockHolderSleeps
PROPERTIES PendingAccepted
CONSTANTS
  Workers = {w1, w2}
  Conns = {c1, c2, c3}
  MAX_SERVE_FD_NUM = 1
  MaxDeaths = 2
  Listen = Listen
  None = None
  Pending = Pending
  w1 = w1
  w2 = w2
  c1 = c1
  c2 = c2
  c3 = c3
CHECK_DEADLOCK FALSE

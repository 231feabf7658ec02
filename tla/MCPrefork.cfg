SPECIFICATION FairSpec
INVARIANTS Tracked
PROPERTIES RebootReaches Refilled
CONSTANTS
  WorkerNum = 2
  Pids = {p1, p2, p3}
  MaxDeaths = 2
  MaxReboots = 2
  MaxForkFails = 1
  None = None
  p1 = p1
  p2 = p2
  p3 = p3
CHECK_DEADLOCK FALSE

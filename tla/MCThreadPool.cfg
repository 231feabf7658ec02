SPECIFICATION FairSpec
INVARIANTS OneCopy GracefulDrains QuietWhenDestroyed NoLostWakeup
PROPERTIES ImmediateStops TasksRun ShutdownEnds
CONSTANTS
  PtNum = 3
  Tasks = {t1, t2, t3}
  Callers = {main, other}
  Creator = main
  Types = {1, 2}
  CreateFails = {1, 2, 3}
  MaxDestroys = 2
  NULL = NULL
  t1 = t1
  t2 = t2
  t3 = t3
  main = main
  other = other
CHECK_DEADLOCK FALSE

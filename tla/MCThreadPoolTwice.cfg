SPECIFICATION FairSpec
PROPERTIES DestroyReturns
CONSTANTS
  PtNum = 2
  Tasks = {t1}
  Callers = {main, other}
  Creator = main
  Types = {1, 2}
  CreateFails = {}
  MaxDestroys = 2
  NULL = NULL
  t1 = t1
  t2 = t2
  t3 = t3
  main = main
  other = other
CHECK_DEADLOCK FALSE

SPECIFICATION cpSpec
INVARIANTS Exclusive FreshUntilFull
CONSTANTS
  Users = {u1, u2}
  MINCONNECTION = 2
  MAXCONNECTION = 4
CHECK_DEADLOCK FALSE

SPECIFICATION Spec
INVARIANTS SpansInOrder ParsedAsSent
PROPERTIES GoodFormIsAnswered
CONSTANTS
  Upper <- MCUpper
  Other <- MCOther
  Requests <- MCRequests
  Inputs <- MCInputs
  MAX_BUF = 26
  NULL = NULL
CHECK_DEADLOCK FALSE

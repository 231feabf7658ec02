SPECIFICATION Spec
INVARIANTS TypeOK HeapOrder
PROPERTIES IsPriorityQueue
CONSTANTS
  Items <- MCItems
  Key <- MCKey
  HEAP_DEFAULT_SIZE = 2
  SIZE_MAX = 65535
  Junk = Junk
CHECK_DEADLOCK FALSE

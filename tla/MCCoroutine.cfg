CONSTANTS
    DEFAULT_COROUTINE = 1
    STACK_SIZE = 2
    Vals = {v}
    MaxCo = 3
SPECIFICATION Spec
INVARIANTS
    NcoCountsUsed
PROPERTY
    ImplementsContract

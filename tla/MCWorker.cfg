CONSTANTS
    Conns = {c1, c2}
    Reqs = {r1, r2, r3}
    Timers = {t1, t2, t3, t4}
    CoIds = {0, 1, 2}
    Kinds = {"part", "keep", "last"}
    MAX_BUF = 2
    TIMEOUT_DEFAULT = 1
    MAX_SERVE_FD_NUM = 1
    MaxEvents = 2
    MaxSends <- EachTwice
    NULL = NULL
SYMMETRY Symmetry
SPECIFICATION Spec
CHECK_DEADLOCK FALSE
INVARIANTS
    RequestsOwned
    TimersSafe
    ServeCount
    NoSilentStall
PROPERTY
    TimeoutIsOwn

CONSTANTS
    Conns = {c1, c2}
    Reqs = {r1, r2, r3}
    Timers = {t1, t2}
    CoIds = {0, 1, 2}
    Kinds = {"part", "keep", "nodot"}
    MAX_BUF = 1
    TIMEOUT_DEFAULT = 1
    MAX_SERVE_FD_NUM = 1
    MaxEvents = 1
    MaxSends <- OneSilent
    NULL = NULL
SPECIFICATION FairSpec
CHECK_DEADLOCK FALSE
INVARIANT
    TypeOK
PROPERTIES
    HangupCloses
    DataHandled
    QuietCloses
    ExitsOnWakeup

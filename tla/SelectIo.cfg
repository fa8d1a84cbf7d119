SPECIFICATION FairSpec
CONSTANTS
    Threads = {t1, t2}
    NumFds = 2
    MaxCalls = 3
    MaxBytes = 2
    MaxEvents = 2
    Idle = Idle
    None = None
INVARIANTS SelectSetExact LinkedOnce
PROPERTIES WaitersServed
CHECK_DEADLOCK FALSE

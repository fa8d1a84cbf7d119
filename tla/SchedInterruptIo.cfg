SPECIFICATION Spec
CONSTANTS
    Threads = {t1, t2}
    Main = t1
    Idle = Idle
    Mutexes = {}
    Conds = {}
    Producers = {p}
    Sleepers = {t1, t2}
    IoThreads = {t2}
    Joiners = {}
    Targets = {t2}
    NULL = NULL
INVARIANTS
    ScheduledIsRunnable

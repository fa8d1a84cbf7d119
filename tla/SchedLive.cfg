SPECIFICATION FairSpec
CONSTANTS
    Threads = {t1, t2, t3}
    Main = t1
    Idle = Idle
    Mutexes = {}
    Conds = {c}
    Producers = {p}
    Sleepers = {t2}
    IoThreads = {t3}
    Joiners = {}
    Targets = {t2}
    NULL = NULL
PROPERTIES
    RunnableRuns

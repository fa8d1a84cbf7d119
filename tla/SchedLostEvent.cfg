SPECIFICATION FairSpec
CONSTANTS
    Threads = {t1, t2}
    Main = t1
    Idle = Idle
    Mutexes = {}
    Conds = {}
    Producers = {p}
    Sleepers = {}
    IoThreads = {t2}
    Joiners = {}
    Targets = {}
    NULL = NULL
PROPERTIES
    CompletedIoResumes

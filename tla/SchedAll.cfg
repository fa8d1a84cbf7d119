\* Every operation: joins, I/O with a producer, sleeping, mutexes, condition variables,
\* interrupts of the threads that do no I/O.
SPECIFICATION Spec
CONSTANTS
    Threads = {t1, t2, t3}
    Main = t1
    Idle = Idle
    Mutexes = {m}
    Conds = {c}
    Producers = {p}
    Sleepers = {t1, t2, t3}
    IoThreads = {t3}
    Joiners = {t1, t2, t3}
    Targets = {t1, t2}
    NULL = NULL
INVARIANTS BlockedIsQueued  MutualExclusion
INVARIANTS NoLostHandoff SignalNotTimedOut FreedObjectUnused IInv

SPECIFICATION FairSpec
CONSTANTS
    VpCount = 2
    SkCount = 1
    FdLimit = 16
    OptMaxWait = 2
    OptMaxThreads = 3
    MaxPids = 3
    MaxSignals = 2
INVARIANTS  NoInheritedHandler PoolSound
 
CHECK_DEADLOCK FALSE

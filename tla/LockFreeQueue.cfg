\* One producer, the deployment of the video proxy: the IOCP worker only.  No symmetry,
\* because the run checks liveness.
SPECIFICATION FairSpec
CONSTANTS
    Producers = {p}
    Values = {u, v}
    Nodes = {n1, n2, n3}
    NULL = NULL
    MaxOps = 4
INVARIANTS
    NoCasOnFreed
PROPERTIES
    ImplementsFifo
    EnqueueEnds

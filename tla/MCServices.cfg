SPECIFICATION AllSpec
CONSTANTS
    Clients = {c1, c2}
    Users = {u}
    States = {v}
    Absent = Absent
    MaxCalls = 5
    MaxErrors = 1
    None = None
    Conns = {k}
    PortArgs = {0, 80, 40000}
    NumProcs <- Procs2
    IoBufSize = 2
    SockBuf = 2
    MaxBytes <- Bytes31
    Hosts <- Hosts2
    Domains <- Domain1
    Options = {"DEFNAMES", "DNSRCH"}
    Ndots = 1
    Rcodes = {"ok", "alias", "nxdomain"}
    NsCount = 1
    MaxReplies = 2
    MaxFaults = 1
INVARIANTS  StreamsKept 
PROPERTIES OldestServed SessionsPumped LookupEnds
CHECK_DEADLOCK FALSE

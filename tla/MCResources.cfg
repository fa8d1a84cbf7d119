SPECIFICATION Spec
CONSTANTS
  Threads = {t1, t2}  Main = m  KeysMax = 2  StkSizes = {0, 3}
  DefaultSize = 2  PageSize = 2  MaxStacks = 3  MaxValues = 2
  Callers = {c1, c2}  Acceptors = {c1}  SockNums = {s1, s2, s3}
  NoSock = NoSock  MaxObjs = 3  MaxKeys = 2  MaxIoCalls = 6
  Sleepers = {a1, a2, a3}  TimeMod = 5  PerSecond = 3
  Usecs <- AllTimes  Secs <- SomeSeconds
SYMMETRY Symmetry
INVARIANTS ThreadStorageSound FreelistSound  SleepMaxIsSum
PROPERTIES ImplementsTimers
CHECK_DEADLOCK FALSE

SPECIFICATION UserSyncSpec
CONSTANTS
    Clients = {m, s1, s2}
    Main = m
    Users = {u}
    States = {"0101", "0103"}
    Absent = Absent
    MaxCalls = 0
    MaxErrors = 1
    MaxItems = 1
    MaxSessions = 2
    MaxCrashes = 1
    None = None
PROPERTIES AnswerTrue  ServiceHealed
CHECK_DEADLOCK FALSE

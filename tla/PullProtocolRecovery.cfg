SPECIFICATION FairSpec
CONSTANTS
    role1 = role1
    Workers = {w1}
    Ephemerals = {e1}
    Dispatches = {d1}
    Roles = {role1}
    RoleOf <- OneRole
    NoWorker = NoWorker
    Servers = {s1}
    NoServer = NoServer
    Interval = 1
    StaleAfter = 1
    EvictAfter = 2
    MaxAge = 3
    MaxFaults = 0
    MaxDeaths = 1
PROPERTIES
    EvictedOnlyIfSilent
    DeadWorkersWorkIsReleased

SPECIFICATION Spec
CONSTANTS
    role1 = role1
    Workers = {w1, w2}
    Ephemerals = {}
    Dispatches = {d1, d2}
    Roles = {role1}
    RoleOf <- OneRole
    NoWorker = NoWorker
    Servers = {s1}
    NoServer = NoServer
    Interval = 0
    StaleAfter = 0
    EvictAfter = 0
    MaxAge = 1
    MaxFaults = 0
    MaxDeaths = 0
SYMMETRY Ids
INVARIANTS
    RoutedWorkStaysWithTarget

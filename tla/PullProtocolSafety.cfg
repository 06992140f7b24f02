SPECIFICATION Spec
CONSTANTS
    role1 = role1
    Workers = {w1}
    Ephemerals = {e1, e2}
    Dispatches = {d1}
    Roles = {role1}
    RoleOf <- OneRole
    NoWorker = NoWorker
    Servers = {s1, s2}
    NoServer = NoServer
    Interval = 1
    StaleAfter = 0
    EvictAfter = 1
    MaxAge = 2
    MaxFaults = 1
    MaxDeaths = 0
INVARIANTS
    TypeOK
    LeaseInv
    SecondGrantNeedsEviction
    LogFollowsRow
PROPERTIES
    CompletedIsFinal
    ImplementsLeaseQueue

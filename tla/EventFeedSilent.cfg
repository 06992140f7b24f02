SPECIFICATION FairSpec
CONSTANTS
    w1 = w1
    w2 = w2
    r1 = r1
    r2 = r2
    watch = watch
    dashboard = dashboard
    c1 = c1
    c2 = c2
    k1 = k1
    Writers = {w1, w2}
    Runs = {r1, r2}
    Keys = {k1}
    NoKey = NoKey
    Prices = {1}
    Calls <- CallsMC
    MaxEvents = 2
    MaxFaults = 0
    Daemon = {w1}
    BusWired = FALSE
    Viewers = {watch, dashboard}
    Dashboards = {dashboard}
    Wanted <- WantedMC
    Connections = {c1, c2}
    Capacity = 1
    MaxStreams = 2
PROPERTIES
    EveryEventOnBus
CHECK_DEADLOCK FALSE

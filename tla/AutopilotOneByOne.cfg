SPECIFICATION Spec
CONSTANTS
    Plans = {1, 2}
    Sources = {0, 1, 2}
    NoSource = 0
    Items = {1, 2, 3, 4}
    NoItem = 0
    Answers = {"approve", "reject"}
    Answerers = {h1}
    MaxReanswers = 0
    Runners = {r1}
    MaxParallelPolicy = 1
    ManifestInLog = TRUE
    Shipping = TRUE
    PriorShips = {}
    MaxFailures = 1
    MaxLost = 0
    MaxCrashes = 1
    h1 = h1
    r1 = r1
INVARIANTS
    ActiveWithinLimit
    GatedOnce
    DoneIsShipped
CHECK_DEADLOCK FALSE

SPECIFICATION Spec
CONSTANTS
    Plans = {1, 2}
    Sources = {0, 1, 2}
    NoSource = 0
    Items = {1, 2, 3}
    NoItem = 0
    Answers = {"approve"}
    Answerers = {h1}
    MaxReanswers = 0
    Runners = {r1, r2}
    MaxParallelPolicy = 0
    ManifestInLog = TRUE
    Shipping = FALSE
    PriorShips = {}
    MaxFailures = 0
    MaxLost = 1
    MaxCrashes = 0
    h1 = h1
    r1 = r1
    r2 = r2
SYMMETRY Symmetry
INVARIANTS
    AutopilotInv
PROPERTIES
    ImplementsDelivery
CHECK_DEADLOCK FALSE

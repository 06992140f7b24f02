SPECIFICATION FairSpec
CONSTANTS
    Plans = {1, 2}
    Sources = {0, 1, 2}
    NoSource = 0
    Items = {1, 2, 3}
    NoItem = 0
    Answers = {"approve"}
    Answerers = {h1}
    MaxReanswers = 0
    Runners = {r1}
    MaxParallelPolicy = 0
    ManifestInLog = FALSE
    Shipping = FALSE
    PriorShips = {}
    MaxFailures = 0
    MaxLost = 0
    MaxCrashes = 0
    h1 = h1
    r1 = r1
PROPERTIES
    ApprovedSpecIsTakenUp
CHECK_DEADLOCK FALSE

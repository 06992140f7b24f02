SPECIFICATION FairSpec
CONSTANTS
    Plans = {1, 2}
    Sources = {0, 1, 2}
    NoSource = 0
    Items = {1, 2, 3, 4}
    NoItem = 0
    Answers = {"approve"}
    Answerers = {h1}
    MaxReanswers = 0
    Runners = {r1}
    MaxParallelPolicy = 0
    ManifestInLog = TRUE
    Shipping = FALSE
    PriorShips = {}
    MaxFailures = 1
    MaxLost = 0
    MaxCrashes = 0
    h1 = h1
    r1 = r1
PROPERTIES
    AllPlansDelivered
CHECK_DEADLOCK FALSE

SPECIFICATION FairSpec
CONSTANTS
    Prints <- PrintsMC
    ExitCodes = {0, 2}
    PipeSize = 2
    Leaves = TRUE
    Replies <- RepliesMC
    MaxFaults = 2
    HasBudget = TRUE
INVARIANTS
    AgentsTypeOK
    CliAnswerWhole
    FailureIsReported
    OpenCodeAnswerWhole
    OwnWordsOnly
PROPERTIES
    ImplementsJobHandle
    WaitReturns
    WorkEnds
CHECK_DEADLOCK FALSE

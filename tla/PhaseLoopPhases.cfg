SPECIFICATION FairSpec
CONSTANTS
    Roles <- RolesMC
    Rules <- RulesMC
    Findings <- FindingsMC
    Group <- GroupMC
    Binary <- BinaryMC
    PermissionChoices <- PermissionChoicesMC
    Wirings <- AllWirings
    ReportsCost <- ReportsCostMC
    Outcomes <- OutcomesMC
    Trees <- TreesMC
    MaxRetriesSetting = 1
    MaxRounds = 2
    MaxFaults = 1
    Developer = "developer"
    AppliesWhen <- AppliesWhenMC
    PhaseIndex = 0
    MaxFixCyclesPolicy = 1
INVARIANTS
    LoopTypeOK
    AgentsWithinPhase
    NothingOpen
    EveryAttemptCharged
    FeedbackOnRecord
PROPERTIES
    ImplementsFixLoop
    JobsFinal
    PhaseEnds
CHECK_DEADLOCK FALSE

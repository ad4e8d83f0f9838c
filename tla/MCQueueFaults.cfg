SPECIFICATION PromptQueueSpec
CONSTANTS
    MaxLeases = 2
    MaxFamilies = 2
    OrdinaryBudget = 2
    WorkflowCeiling = 2
    MaxGlobalRuns = 2
    Projects = {p1}
    Transports = {t1, t2}
    Tickets = {"k1"}
    MaxQueueItems = 2
    MaxSteerRecords = 1
    MaxChildRecords = 1
    ChildRoles = {"Worker", "Explore"}
    AgentsEnabled = {p1}
    Reviewed = {p1}
    SessionSwitches = FALSE
    Outcomes = {"Done", "Failed"}
    MaxOrdinal = 2
    MaxSignals = 1
    MaxRestarts = 1
    MaxFaults = 1
CHECK_DEADLOCK FALSE
INVARIANTS
    HandlesMatchActiveWork
    PendingReviewBlocksProject
    RestartRecovers
    PromptQueueTypeOK
PROPERTIES
    PendingReviewKept
    WorkNeverRepeats

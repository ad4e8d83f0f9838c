SPECIFICATION PromptQueueSpec
CONSTANTS
    MaxLeases = 2
    MaxFamilies = 2
    OrdinaryBudget = 1
    WorkflowCeiling = 1
    Projects = {p1}
    Transports = {t1}
    Tickets = {}
    MaxGlobalRuns = 2
    MaxQueueItems = 2
    MaxSteerRecords = 1
    MaxChildRecords = 0
    ChildRoles = {"Worker"}
    AgentsEnabled = {}
    Reviewed = {}
    SessionSwitches = FALSE
    Outcomes = {"NeedsReview", "Done", "Failed", "Stopped"}
    MaxOrdinal = 2
    MaxSignals = 1
    MaxRestarts = 0
    MaxFaults = 0
CHECK_DEADLOCK FALSE
INVARIANT RestartFinishesRemoval

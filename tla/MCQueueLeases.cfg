SPECIFICATION PromptQueueSpec
CONSTANTS
    MaxLeases = 2
    MaxFamilies = 2
    OrdinaryBudget = 1
    WorkflowCeiling = 1
    MaxGlobalRuns = 2
    Projects = {p1, p2}
    Transports = {t1}
    Tickets = {}
    MaxQueueItems = 2
    MaxSteerRecords = 0
    MaxChildRecords = 2
    ChildRoles = {"Explore"}
    AgentsEnabled = {p1}
    Reviewed = {}
    SessionSwitches = TRUE
    Outcomes = {"Done"}
    MaxOrdinal = 4
    MaxSignals = 1
    MaxRestarts = 1
    MaxFaults = 0
CHECK_DEADLOCK FALSE
INVARIANTS
    CompletionNeverRefused
    SuspensionStopsAllRuns
PROPERTIES
    NoLeaseWhileSuspended
    LeasesImplemented

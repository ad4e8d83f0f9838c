SPECIFICATION FamilySpec
CONSTANTS
    MaxLeases = 2
    MaxFamilies = 2
    OrdinaryBudget = 2
    WorkflowCeiling = 2
    MaxGlobalRuns = 2
    Projects = {p1}
    Transports = {t1}
    Tickets = {}
    MaxQueueItems = 1
    MaxSteerRecords = 0
    MaxChildRecords = 1
    Roles = {"Worker"}
    Isolations = {TRUE, FALSE}
    Results = {"Error", "Completed", "CompletedWithChanges"}
    MaxCommands = 2
    MaxStops = 2
    MaxFaults = 1
CHECK_DEADLOCK FALSE
INVARIANTS
    FamilyTypeOK
    CapacityKeptUntilReaped
    RefusedOnlyWhenHindered
PROPERTIES
    ParentSettles
    StopTakesEffect

SPECIFICATION WorkflowSpec
CONSTANTS
    Requests <- MCRequests
    Cost <- MCCost
    Pauses = {"pause"}
    Values = {"v1", "v2"}
    Maximum = 2
    MaxCalls = 2
    MaxAttempts = 3
    MaxRestarts = 1
    MaxFaults = 2
CHECK_DEADLOCK FALSE
INVARIANTS
    WorkflowTypeOK
    EffectsAtMostOnce
    ReplayFaithful
    BudgetHolds
    AttemptOwned
    QueuedAttemptRunnable

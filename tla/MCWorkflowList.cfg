SPECIFICATION WorkflowSpec
CONSTANTS
    Requests <- MCAgents
    Cost <- MCAgentCost
    Pauses = {}
    Values = {"v1"}
    Maximum = 2
    MaxCalls = 1
    MaxAttempts = 2
    MaxRestarts = 2
    MaxFaults = 0
CHECK_DEADLOCK FALSE
INVARIANTS
    EffectsNeverRepeat

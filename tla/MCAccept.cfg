SPECIFICATION AcceptSpec
CONSTANTS
    Paths = {1, 2}
    New = {2}
    Bare = {1}
    MaxTexts = 4
    MaxRestarts = 2
    MaxFaults = 2
CHECK_DEADLOCK FALSE
INVARIANTS
    AcceptTypeOK
    AcceptedStays
    RecoveryOnlyRefusesForeign
PROPERTIES
    AllOrRollback
    RollbackComplete
    UserEditsKept

SPECIFICATION LeasesSpec
CONSTANTS
    MaxLeases = 2
    MaxFamilies = 2
    OrdinaryBudget = 2
    WorkflowCeiling = 2
    Runs = {r1, r2, r3}
    Projects = {p1, p2}
    Workspaces = {w1, w2, w3}
    Snapshots = {s1, s2}
    ChildRoles = {"Worker"}
    MaxOrdinal = 3
SYMMETRY Perms
INVARIANTS
    LeasesTypeOK
    ValidationNeverRefuses
PROPERTIES
    BudgetNeverResets
    NoActiveChildDropped

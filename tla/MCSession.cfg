SPECIFICATION SessionSpec
CONSTANTS
    Runs = {r1}
    MaxNotifications = 3
CHECK_DEADLOCK FALSE
INVARIANT NothingSurvivesLock

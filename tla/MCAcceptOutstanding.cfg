SPECIFICATION AcceptSpec
CONSTANTS
    Paths = {1, 2}
    New = {2}
    Bare = {1}
    MaxTexts = 2
    MaxRestarts = 1
    MaxFaults = 1
CHECK_DEADLOCK FALSE
INVARIANT AcceptWaitsForRecovery

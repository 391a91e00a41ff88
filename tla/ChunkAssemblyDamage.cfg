SPECIFICATION Spec
CONSTANTS
    N = 2
    MaxAttempts = 2
    MaxSessions = 1
INVARIANTS
    ToldIsWhole
CHECK_DEADLOCK FALSE
